---------------------------- MODULE ReceiptAudit -----------------------------
(* Auditor::verify_proof_pack: the envelope check, and verify_proof_record  *)
(* for each receipt in turn (auditor.rs, proof_pack.rs).                   *)
(*                                                                         *)
(* The platform seals a pack (external: sealProofPack); until it is        *)
(* verified its fields may be altered in transit or storage, at most       *)
(* MaxAlterations times.  `sealed` remembers the pack as it was signed.    *)
(*                                                                         *)
(* Canonical text, hash and signature are their free constructors: each is  *)
(* determined by what it was made from and by nothing else.  The text a     *)
(* signature is shipped as is not: `padded` says that "=" signs trail it.   *)
EXTENDS Audit, Keys

CONSTANTS Body,          \* everything of a payload but its issuedAt
          WideBodies,    \* bodies whose canonical text has its 256th byte
                         \* inside a character
          Signer,        \* key id -> the public key the platform signs under it
          Directories,   \* the directories an auditor may hold
          SealedPacks,   \* the packs the platform may seal
          Foreign,       \* a public key that is not the platform's
          MaxAlterations

Payload == [body : Body, issued : Instant \cup {BadInstant}]

\* A shipped canonical text that no payload encodes to; "wide" when its
\* 256th byte falls inside a character.
OtherText == [other : {"narrow", "wide"}]
Canon(p) == [canonical |-> p]
Sha256(text) == [sha256 |-> text]
SigningInput(p, id) == [input |-> Canon(p), keyId |-> id]
SignatureBy(pk, p, id) == [by |-> pk, over |-> SigningInput(p, id), padded |-> FALSE]

\* The texts that are no signature, whatever trails them.
BadSignatures == {[malformed |-> "undecodable"], [malformed |-> "bad length"]}

\* A record as the platform seals it.
Seal(p, id) == [payload |-> p, keyId |-> id, canonical |-> Canon(p),
                afterHash |-> Sha256(Canon(p)), signature |-> SignatureBy(Signer[id], p, id)]

Texts == OtherText \cup {Canon(p) : p \in Payload}
Hashes == {Sha256(text) : text \in Texts}
Signatures == BadSignatures \cup
  [by : PublicKey, over : {SigningInput(p, id) : p \in Payload, id \in KeyId},
   padded : BOOLEAN]

\* A signature as it was made, or with "=" signs after it.
Spelt(sig, padded) == [by |-> sig.by, over |-> sig.over, padded |-> padded]

\* The receipt path's permissive decoder drops every "=" at the end of a text.
Decoded(sig) == IF sig \in BadSignatures THEN sig ELSE Spelt(sig, FALSE)

Record == [payload : Payload, keyId : KeyId, canonical : Texts,
           afterHash : Hashes, signature : Signatures]

ASSUME ReceiptAssumption ==
  /\ Foreign \in PublicKey
  /\ Signer \in [KeyId -> PublicKey \ {Foreign}]
  /\ SealedPacks \subseteq Seq(Payload \X KeyId)
  /\ \A d \in Directories : \A id \in DOMAIN d :
       id \in KeyId /\ d[id] \in Key /\ d[id].id = id /\ d[id].material # Foreign
  /\ MaxAlterations \in Nat

VARIABLES directory, envelope,   \* the auditor's keys; the pack's envelopeVersion
          sealed, records,       \* as signed, as shipped
          altered,               \* how many fields were altered
          pc, i, steps, status   \* the verification

vars == <<directory, envelope, sealed, records, altered, pc, i, steps, status>>

Init ==
  /\ directory \in Directories
  /\ envelope \in {"envelope.v1", "other"}
  /\ \E pack \in SealedPacks :
       sealed = [k \in 1..Len(pack) |-> Seal(pack[k][1], pack[k][2])]
  /\ records = sealed
  /\ altered = 0
  /\ pc = "transit" /\ i = 1 /\ steps = {} /\ status = "pending"

------------------------------------------------------------------------------
(* Transit: one field of one record is replaced, by another record's or by  *)
(* a value the platform never sealed.                                      *)
Alter(k, field, value) ==
  /\ pc = "transit" /\ altered < MaxAlterations
  /\ records[k][field] # value
  /\ records' = [records EXCEPT ![k][field] = value]
  /\ altered' = altered + 1
  /\ UNCHANGED <<directory, envelope, sealed, pc, i, steps, status>>

\* A foreign signature is made over what the altered record shows.
Replacements(k, field) ==
  CASE field = "payload" -> Payload
    [] field = "keyId" -> KeyId
    [] field = "canonical" -> OtherText \cup {sealed[j].canonical : j \in DOMAIN sealed}
    [] field = "afterHash" -> {sealed[j].afterHash : j \in DOMAIN sealed}
                                \cup {Sha256(Canon(records[k].payload))}
    [] field = "signature" -> BadSignatures
         \cup {Spelt(sealed[j].signature, padded) : j \in DOMAIN sealed, padded \in BOOLEAN}
         \cup {Spelt(SignatureBy(Foreign, records[k].payload, records[k].keyId), padded) :
                 padded \in BOOLEAN}

Fields == {"payload", "keyId", "canonical", "afterHash", "signature"}

------------------------------------------------------------------------------
(* The envelope is judged, and whatever the outcome every record is too.   *)
OpenPack ==
  /\ pc = "transit"
  /\ steps' =
       {IF records = << >> THEN Fault("pack.records", 0, "EMPTY_PACK") ELSE Ok("pack.records", 0)}
         \cup {s \in {Fault("envelopeVersion", 0, "UNSUPPORTED_ENVELOPE_VERSION")} :
                 envelope # "envelope.v1"}
  /\ pc' = IF records = << >> THEN "rollup" ELSE "canonical"
  /\ UNCHANGED <<directory, envelope, sealed, records, altered, i, status>>

\* The record in hand.
rec == records[i]

\* Mutation: a record's early return ends the walk.
Judge_StopAtMiss(step, next) ==
  /\ steps' = steps \cup {step}
  /\ IF next # "nextRecord" THEN pc' = next /\ UNCHANGED i
     ELSE /\ i' = i + 1
          /\ pc' = IF i = Len(records) \/ step.status = "INVALID" THEN "rollup"
                   ELSE "canonical"
  /\ UNCHANGED <<directory, envelope, sealed, records, altered, status>>

\* Mutation: a record's early return does not move on to the next record.
Judge_SameAgain(step, next) ==
  /\ steps' = steps \cup {step}
  /\ IF next # "nextRecord" THEN pc' = next /\ UNCHANGED i
     ELSE IF step.status = "INVALID" THEN pc' = "canonical" /\ UNCHANGED i
     ELSE i' = i + 1 /\ pc' = IF i = Len(records) THEN "rollup" ELSE "canonical"
  /\ UNCHANGED <<directory, envelope, sealed, records, altered, status>>

\* A verdict on one field of the record in hand; an early return moves on.
Judge(step, next) ==
  /\ steps' = steps \cup {step}
  /\ IF next # "nextRecord" THEN pc' = next /\ UNCHANGED i
     ELSE /\ i' = i + 1
          /\ pc' = IF i = Len(records) THEN "rollup" ELSE "canonical"
  /\ UNCHANGED <<directory, envelope, sealed, records, altered, status>>

SplitsChar(text) ==
  \/ text = [other |-> "wide"]
  \/ \E p \in Payload : p.body \in WideBodies /\ text = Canon(p)

(* 1. The payload encodes to the shipped canonical text.                   *)
CanonicalMatches ==
  /\ pc = "canonical" /\ rec.canonical = Canon(rec.payload)
  /\ Judge(Ok("payloadCanonical", i), "afterHash")

(* The mismatch step quotes the first 256 bytes of both texts by slicing,   *)
(* which panics when byte 256 is not a character boundary.                 *)
CanonicalDiffers ==
  /\ pc = "canonical" /\ rec.canonical # Canon(rec.payload)
  /\ ~SplitsChar(rec.canonical) /\ ~SplitsChar(Canon(rec.payload))
  /\ Judge(Fault("payloadCanonical", i, "PAYLOAD_CANONICAL_MISMATCH"), "afterHash")

CanonicalPanics ==
  /\ pc = "canonical" /\ rec.canonical # Canon(rec.payload)
  /\ SplitsChar(rec.canonical) \/ SplitsChar(Canon(rec.payload))
  /\ pc' = "panicked"
  /\ UNCHANGED <<directory, envelope, sealed, records, altered, i, steps, status>>

\* Mutation: the shipped text is hashed, not the auditor's own.
HashedText_Shipped == rec.canonical

\* The text whose hash afterHash must be.
HashedText == Canon(rec.payload)

(* 2. afterHash is the hash of the payload's own canonical text.           *)
CheckAfterHash ==
  /\ pc = "afterHash"
  /\ Judge(IF rec.afterHash = Sha256(HashedText) THEN Ok("afterHash", i)
           ELSE Fault("afterHash", i, "AFTER_HASH_MISMATCH"), "key")

(* 3. The key: a miss ends the record, its signature is not looked at.     *)
CheckKey ==
  /\ pc = "key"
  /\ LET found == Lookup(directory, rec.keyId, rec.payload.issued) IN
     IF found = "hit" THEN Judge(Ok("keyId", i), "signature")
     ELSE Judge(Fault("keyId", i, found), "nextRecord")

Unusable == Decoded(rec.signature) \in BadSignatures \/ directory[rec.keyId].material \in BadMaterial

\* Mutation: the key id is left out of the signing input that is checked.
Verifies_AnyKeyId ==
  Decoded(rec.signature).by = directory[rec.keyId].material
    /\ Decoded(rec.signature).over.input = Canon(rec.payload)

\* Mutation: the signature is compared as it is spelled.
Verifies_AsSpelled ==
  rec.signature = SignatureBy(directory[rec.keyId].material, rec.payload, rec.keyId)

\* verify_strict over "<canonical>|<keyId>".
Verifies ==
  Decoded(rec.signature)
    = SignatureBy(directory[rec.keyId].material, rec.payload, rec.keyId)

(* 4. Texts that are not a signature or a public key are malformed, not     *)
(* wrong; otherwise the signature must verify over the signing input.      *)
CheckSignature ==
  /\ pc = "signature"
  /\ CASE Unusable -> Judge(Fault("signature", i, "SIGNATURE_MALFORMED"), "nextRecord")
       [] ~Unusable /\ Verifies -> Judge(Ok("signature", i), "nextRecord")
       [] OTHER -> Judge(Fault("signature", i, "SIGNATURE_INVALID"), "nextRecord")

RollUp ==
  /\ pc = "rollup"
  /\ status' = RollupStatus(steps) /\ pc' = "done"
  /\ UNCHANGED <<directory, envelope, sealed, records, altered, i, steps>>

Returned == pc \in {"done", "panicked"} /\ UNCHANGED vars

\* The verifier's own steps.
Walk ==
  \/ OpenPack \/ CanonicalMatches \/ CanonicalDiffers \/ CanonicalPanics
  \/ CheckAfterHash \/ CheckKey \/ CheckSignature \/ RollUp

Next ==
  \/ \E k \in DOMAIN records, field \in Fields :
       \E value \in Replacements(k, field) : Alter(k, field, value)
  \/ Walk \/ Returned

Spec == Init /\ [][Next]_vars

------------------------------------------------------------------------------
Issued == {sealed[j] : j \in DOMAIN sealed}

\* The directory holds the key the platform signs with, in force at issuance.
Verifiable(r) ==
  /\ Lookup(directory, r.keyId, r.payload.issued) = "hit"
  /\ directory[r.keyId].material = Signer[r.keyId]

\* A receipt with its signature as it decodes.
Plain(r) == [r EXCEPT !.signature = Decoded(@)]

Genuine(r) == Plain(r) \in Issued /\ Verifiable(r)

Faults(k) == {s \in steps : s.status = "INVALID" /\ s.target[2] = k}
FaultyFields(k) == {s.target[1] : s \in Faults(k)}

(* Every variable stays in its domain; no pack is shipped with more        *)
(* receipts than were sealed.                                              *)
TypeOK ==
  /\ directory \in Directories
  /\ sealed \in Seq(Record) /\ records \in Seq(Record)
  /\ Len(records) <= Len(sealed)
  /\ altered \in 0..MaxAlterations
  /\ pc \in {"transit", "canonical", "afterHash", "key", "signature", "rollup",
             "done", "panicked"}
  /\ i \in 1..(Len(records) + 1)
  /\ \A s \in steps : s.status \in Statuses
  /\ status \in {"pending", "VALID", "INVALID"}

(* A pack reported VALID is made of receipts the platform issued, field for *)
(* field but for "=" signs trailing a signature, each under a key in force  *)
(* when it was issued; and a pack of such receipts in a supported envelope  *)
(* is always reported VALID, so that padding is never accused either.      *)
ValidIffGenuine ==
  status # "pending" =>
    (status = "VALID" <=> /\ envelope = "envelope.v1" /\ records # << >>
                          /\ \A k \in DOMAIN records : Genuine(records[k]))

(* The report accuses exactly the receipts that are not genuine: a fault in *)
(* one receipt neither hides the next one's nor spreads to it.             *)
BlameIsExact ==
  status # "pending" =>
    \A k \in DOMAIN records : Faults(k) = {} <=> Genuine(records[k])

(* A receipt with one field altered is accused in that field: regulators    *)
(* cite the reason codes of the steps (README.md, Sample workflows).        *)
(* "=" signs after the signature do not count as an alteration.            *)
DiagnosisPinpoints ==
  status # "pending" =>
    \A k \in DOMAIN records :
      LET changed == {f \in Fields : Plain(records[k])[f] # sealed[k][f]} IN
      Verifiable(sealed[k]) =>
        /\ changed = {"canonical"} => FaultyFields(k) = {"payloadCanonical"}
        /\ changed = {"afterHash"} => FaultyFields(k) = {"afterHash"}
        /\ changed = {"signature"} => FaultyFields(k) = {"signature"}
        /\ changed = {"keyId"} => FaultyFields(k) \in {{"keyId"}, {"signature"}}
        /\ changed = {"payload"} => {"payloadCanonical", "afterHash"} \subseteq FaultyFields(k)

(* README.md, Error model: audit failures are returned in the report and    *)
(* "Never panic".                                                          *)
NeverPanics == pc # "panicked"
==============================================================================
