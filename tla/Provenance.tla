----------------------------- MODULE Provenance ------------------------------
(* verify_provenance_chain: the write-time signatures of a set of           *)
(* rights-provenance rows, verify_provenance_record for each (provenance.rs). *)
(*                                                                         *)
(* The platform signs rows (external), or leaves them with a read-time HMAC *)
(* only (legacy rows); until the audit at most MaxAlterations of their      *)
(* fields are altered.  The signing input is a free constructor of the      *)
(* claims it joins: no claim contains the separator "|".  What the strict   *)
(* base64url decoder refuses is "undecodable".                             *)
EXTENDS Audit, Keys, FiniteSets

CONSTANTS Org, Event,
          Pointer,       \* rightId, basisId, offerId and the two entity hashes
          Id,            \* what a pointer may point to
          Signer,        \* key id -> the public key the platform signs under it
          Directories,   \* the directories an auditor may hold
          SealedSets,    \* the row sets the platform may have written
          Foreign,       \* a public key that is not the platform's
          NoOrg,         \* expected_org_id: None
          MaxAlterations

\* The ways a pointer is absent: null, the empty text, and a literal dash.
Absences == {"none", "empty", "-"}
Missing == [text |-> "none"]   \* payloadCanonical: None

Encode(p) == IF p \in Absences THEN "-" ELSE p

\* canonicalise_provenance_signing_input; occurredAt is not a part of it.
Canon(r) == [org |-> r.org, event |-> r.event, keyId |-> r.keyId,
             pointers |-> [p \in Pointer |-> Encode(r[p])]]
OtherText == [text |-> "one no row encodes to"]

SignatureBy(pk, text) == [by |-> pk, over |-> text]
BadSignatures == {[malformed |-> "undecodable"], [malformed |-> "bad length"]}

Algorithms == {"ed25519", "hmac-sha256", "other"}

\* A row as the platform writes it: [claims and key id, signed?].
Seal(row) ==
  [f \in DOMAIN row.claims \cup {"algorithm", "signature", "canonical"} |->
     CASE f = "algorithm" -> IF row.signed THEN "ed25519" ELSE "hmac-sha256"
       [] f = "canonical" -> IF row.signed THEN Canon(row.claims) ELSE Missing
       [] f = "signature" -> IF row.signed
                             THEN SignatureBy(Signer[row.claims.keyId], Canon(row.claims))
                             ELSE [malformed |-> "undecodable"]
       [] OTHER -> row.claims[f]]

Claims == {"org", "event", "at", "keyId"} \cup Pointer
Fields == Claims \cup {"algorithm", "signature", "canonical"}

\* What the constants have to be; assumed where the module is instantiated.
ProvenanceAssumption ==
  /\ DOMAIN Signer \subseteq KeyId /\ MaxAlterations \in Nat
  /\ Foreign \in PublicKey /\ \A id \in DOMAIN Signer : Signer[id] \in PublicKey \ {Foreign}
  /\ NoOrg \notin Org
  /\ Id \cap Absences = {}
  /\ Pointer \cap {"org", "event", "at", "keyId", "algorithm", "signature", "canonical"} = {}
  /\ \A d \in Directories : \A id \in DOMAIN d :
       id \in DOMAIN Signer /\ d[id] \in Key /\ d[id].id = id /\ d[id].material # Foreign
  /\ \A set \in SealedSets : set \in Seq({set[k] : k \in DOMAIN set})
  /\ \A set \in SealedSets : \A k \in DOMAIN set :
       /\ set[k].signed \in BOOLEAN /\ DOMAIN set[k].claims = Claims
       /\ set[k].signed => set[k].claims.keyId \in DOMAIN Signer

VARIABLES directory, expected,   \* the auditor's keys, and its expected_org_id
          sealed, records,       \* as written, as shipped
          altered,
          pc, i,
          signed, unsigned,      \* signed_record_count, unsigned_record_count
          steps, status

vars == <<directory, expected, sealed, records, altered, pc, i, signed, unsigned,
          steps, status>>
evidence == <<directory, expected, sealed, records, altered>>

Init ==
  /\ directory \in Directories
  /\ expected \in Org \cup {NoOrg}
  /\ \E set \in SealedSets : sealed = [k \in DOMAIN set |-> Seal(set[k])]
  /\ records = sealed
  /\ altered = 0
  /\ pc = "transit" /\ i = 1
  /\ signed = 0 /\ unsigned = 0
  /\ steps = {} /\ status = "pending"

------------------------------------------------------------------------------
(* Transit: one field of one row is replaced, by another row's or by a      *)
(* value the platform never wrote.                                         *)
Alter(k, field, value) ==
  /\ pc = "transit" /\ altered < MaxAlterations
  /\ records[k][field] # value
  /\ records' = [records EXCEPT ![k][field] = value]
  /\ altered' = altered + 1
  /\ UNCHANGED <<directory, expected, sealed, pc, i, signed, unsigned, steps, status>>

\* The shipped text may be encoded anew, and signed anew by a foreign key.
Replacements(k, field) ==
  CASE field = "org" -> Org
    [] field = "event" -> Event
    [] field = "at" -> Instant \cup {BadInstant}
    [] field = "keyId" -> KeyId
    [] field = "algorithm" -> Algorithms
    [] field \in Pointer -> Id \cup Absences
    [] field = "canonical" -> {Missing, OtherText, Canon(records[k])}
                                \cup {sealed[j].canonical : j \in DOMAIN sealed}
    [] field = "signature" -> BadSignatures \cup {sealed[j].signature : j \in DOMAIN sealed}
                                \cup {SignatureBy(Foreign, Canon(records[k]))}

------------------------------------------------------------------------------
(* An empty set is refused at once: there is nothing to verify.            *)
RejectEmpty ==
  /\ pc = "transit" /\ records = << >>
  /\ steps' = {Fault("records", 0, "MALFORMED_PACK")}
  /\ status' = "INVALID" /\ pc' = "done"
  /\ UNCHANGED <<evidence, i, signed, unsigned>>

Open ==
  /\ pc = "transit" /\ records # << >>
  /\ pc' = "row"
  /\ UNCHANGED <<evidence, i, signed, unsigned, steps, status>>

row == records[i]

\* Go on with the row in hand, or with the next one.
GoTo(next) ==
  IF next # "nextRow" THEN pc' = next /\ UNCHANGED i
  ELSE i' = i + 1 /\ pc' = IF i = Len(records) THEN "rollup" ELSE "row"

\* Everything but ed25519 is a row without a write-time signature.
Legacy(r) == r.algorithm # "ed25519"

OrgFaults == {s \in {Fault("orgId", i, "PROVENANCE_ORG_MISMATCH")} :
                expected \notin {NoOrg, row.org}}

\* Mutation: a row of another org is reported and passed over uncounted.
EnterSigned_SpliceSkipped ==
  /\ pc = "row" /\ ~Legacy(row)
  /\ steps' = steps \cup OrgFaults
  /\ signed' = signed + (IF OrgFaults = {} THEN 1 ELSE 0)
  /\ GoTo(IF OrgFaults = {} THEN "canonical" ELSE "nextRow")
  /\ UNCHANGED <<evidence, unsigned, status>>

(* A row of another org is a fault of the set; the row itself is judged.    *)
EnterSigned ==
  /\ pc = "row" /\ ~Legacy(row)
  /\ steps' = steps \cup OrgFaults
  /\ signed' = signed + 1
  /\ GoTo("canonical")
  /\ UNCHANGED <<evidence, unsigned, status>>

\* Mutation: a row that nothing contradicts is VALID, signed or not.
UnsignedStep_Valid == Step(<<"signature", i>>, "VALID", "none")

\* What the report says of row k when the row is not signed.
Unsigned(k) == Step(<<"signature", k>>, "SKIPPED", "PROVENANCE_UNSIGNED_RECORD")

UnsignedStep == Unsigned(i)

EnterLegacy ==
  /\ pc = "row" /\ Legacy(row)
  /\ steps' = steps \cup OrgFaults \cup {UnsignedStep}
  /\ unsigned' = unsigned + 1
  /\ GoTo("nextRow")
  /\ UNCHANGED <<evidence, signed, status>>

Judge(step, next) ==
  /\ steps' = steps \cup {step}
  /\ GoTo(next)
  /\ UNCHANGED <<evidence, signed, unsigned, status>>

\* Mutation: a row without the text it was signed over is passed over, as the
\* text is shipped as an aid only.
CanonicalMissing_Skipped ==
  /\ pc = "canonical" /\ row.canonical = Missing
  /\ Judge(Step(<<"payloadCanonical", i>>, "SKIPPED", "none"), "nextRow")

CanonicalMissing ==
  /\ pc = "canonical" /\ row.canonical = Missing
  /\ Judge(Fault("payloadCanonical", i, "PROVENANCE_CANONICAL_MISMATCH"), "nextRow")

(* 1. The raw claims and the key id encode to the shipped text.  If not the *)
(* walk of the row goes on, to learn whether the shipped text was signed.  *)
CompareCanonical ==
  /\ pc = "canonical" /\ row.canonical # Missing
  /\ Judge(IF row.canonical = Canon(row) THEN Ok("payloadCanonical", i)
           ELSE Fault("payloadCanonical", i, "PROVENANCE_CANONICAL_MISMATCH"), "key")

(* 2. The key in force at occurredAt; a miss ends the row.                 *)
CheckKey ==
  /\ pc = "key"
  /\ LET found == Lookup(directory, row.keyId, row.at) IN
     IF found = "hit" THEN Judge(Ok("signerKeyId", i), "signature")
     ELSE Judge(Fault("signerKeyId", i, found), "nextRow")

material == directory[row.keyId].material

Malformed == row.signature \in BadSignatures \/ material \in {"undecodable", "bad length"}

\* Mutation: the signature is verified over the row's own encoding.
SignedText_Derived == Canon(row)

\* The bytes verify_strict is given: the shipped text.
SignedText == row.canonical

(* 3. The signature, over the shipped text, under the directory's key; a    *)
(* key that is no curve point verifies nothing.                            *)
CheckSignature ==
  /\ pc = "signature"
  /\ CASE Malformed ->
            Judge(Fault("signature", i, "PROVENANCE_SIGNATURE_MALFORMED"), "nextRow")
       [] ~Malformed /\ row.signature = SignatureBy(material, SignedText) ->
            Judge(Ok("signature", i), "nextRow")
       [] OTHER -> Judge(Fault("signature", i, "PROVENANCE_SIGNATURE_INVALID"), "nextRow")

RollUp ==
  /\ pc = "rollup"
  /\ status' = RollupStatus(steps) /\ pc' = "done"
  /\ UNCHANGED <<evidence, i, signed, unsigned, steps>>

Returned == pc = "done" /\ UNCHANGED vars

Next ==
  \/ \E k \in DOMAIN records, field \in Fields :
       \E value \in Replacements(k, field) : Alter(k, field, value)
  \/ RejectEmpty \/ Open \/ EnterSigned \/ EnterLegacy
  \/ CanonicalMissing \/ CompareCanonical \/ CheckKey \/ CheckSignature
  \/ RollUp \/ Returned

Spec == Init /\ [][Next]_vars

------------------------------------------------------------------------------
SignedRows == {sealed[j] : j \in {k \in DOMAIN sealed : sealed[k].algorithm = "ed25519"}}

\* Claims the platform signed, under this key id, up to how absence is spelled.
Authentic(r) ==
  /\ r.canonical = Canon(r)
  /\ \E s \in SignedRows : s.canonical = r.canonical /\ s.signature = r.signature

\* The directory holds the platform's key, in force when the row says it was
\* written.
Verifiable(r) ==
  /\ Lookup(directory, r.keyId, r.at) = "hit"
  /\ directory[r.keyId].material = Signer[r.keyId]

Vouched(r) == ~Legacy(r) /\ Authentic(r) /\ Verifiable(r)

FaultyFields(k) == {s.target[1] : s \in {t \in steps : t.status = "INVALID" /\ t.target[2] = k}}

(* Every variable stays in its domain; every row that was entered is        *)
(* counted once, as signed or as unsigned.                                 *)
TypeOK ==
  /\ directory \in Directories /\ expected \in Org \cup {NoOrg}
  /\ Len(records) = Len(sealed)
  /\ \A k \in DOMAIN records : DOMAIN records[k] = Fields
  /\ altered \in 0..MaxAlterations
  /\ pc \in {"transit", "row", "canonical", "key", "signature", "rollup", "done"}
  /\ i \in 1..(Len(records) + 1)
  /\ signed + unsigned = IF pc \in {"canonical", "key", "signature"} THEN i ELSE i - 1
  /\ \A s \in steps : s.status \in Statuses
  /\ status \in {"pending"} \cup Statuses

(* Of the rows that say ed25519, the report accuses exactly those whose     *)
(* claims the platform did not sign with a key in force at their occurredAt *)
(* (which is itself not signed) or that are of another org.  Any other row  *)
(* it accuses of its org alone, be it altered or a signed row renamed, but  *)
(* never without the label that nothing of it was verified; no row that     *)
(* says ed25519 escapes judgement under that label.                        *)
BlameIsExact ==
  status # "pending" =>
    \A k \in DOMAIN records :
      LET claimed == records[k].algorithm = "ed25519" IN
      /\ FaultyFields(k) = {} <=>
           /\ expected \in {NoOrg, records[k].org}
           /\ claimed => Vouched(records[k])
      /\ Unsigned(k) \in steps <=> ~claimed

(* Unsigned rows never earn a verdict: the rows counted as signed in a VALID *)
(* report are all vouched for and there is one at least; a set of unsigned  *)
(* rows of the right org is SKIPPED, as exports of before the signatures   *)
(* have to be, and nothing else is (provenance.rs, report status).         *)
UnsignedNeverPromoted ==
  status # "pending" =>
    /\ status = "VALID" =>
         signed > 0 /\ signed = Cardinality({k \in DOMAIN records : Vouched(records[k])})
    /\ status = "SKIPPED" <=>
         /\ records # << >>
         /\ \A k \in DOMAIN records :
              records[k].algorithm # "ed25519" /\ expected \in {NoOrg, records[k].org}

(* The signature step speaks of the shipped text alone: when it is VALID    *)
(* the platform signed that very text, and when only raw claims of a signed *)
(* row were edited it is VALID beside the one fault that says so.          *)
SignatureStepIsForensic ==
  \A k \in DOMAIN records :
    LET changed == {f \in Fields : records[k][f] # sealed[k][f]} IN
    /\ Ok("signature", k) \in steps =>
         \E s \in SignedRows :
           s.canonical = records[k].canonical /\ s.signature = records[k].signature
    /\ /\ status # "pending" /\ sealed[k] \in SignedRows /\ Verifiable(records[k])
       /\ changed \subseteq {"event"} \cup Pointer
       => /\ Ok("signature", k) \in steps
          /\ FaultyFields(k) \ {"orgId"} =
               IF Canon(records[k]) = sealed[k].canonical THEN {} ELSE {"payloadCanonical"}
==============================================================================
