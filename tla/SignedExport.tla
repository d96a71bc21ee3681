---------------------------- MODULE SignedExport -----------------------------
(* verify_signed_export: a metering or settlement summary in an export.v1   *)
(* envelope (exports.rs).                                                  *)
(*                                                                         *)
(* The platform seals exports (external); the one under audit may have      *)
(* fields altered or taken from another, at most MaxAlterations times.      *)
(* A payload is what canonical_sort_keys keeps of a JSON value, and a       *)
(* layout, the order of its keys, which the encoding forgets.  `kind` and   *)
(* `orgId` are copied into the report and not read.                        *)
EXTENDS Audit, Keys

CONSTANTS Content, Layout,
          Signer,        \* key id -> the public key the platform signs under it
          Directories,   \* the directories an auditor may hold
          SealedExports, \* the pairs of exports the platform may have sealed,
                         \* each [payload, at, keyId]
          Foreign,       \* a public key that is not the platform's
          MaxAlterations

Payload == [content : Content, layout : Layout]

Canon(p) == [canonical |-> p.content]
OtherText == [text |-> "one no payload encodes to"]
Sha256(text) == [sha256 |-> text]
SigningInput(text, id) == [canonical |-> text, keyId |-> id]
SignatureBy(pk, text, id) == [by |-> pk, over |-> SigningInput(text, id)]
Undecodable == [malformed |-> "undecodable"]
BadLength == [malformed |-> "bad length"]

Seal(e) ==
  [version |-> "export.v1", algorithm |-> "ed25519", at |-> e.at, keyId |-> e.keyId,
   payload |-> e.payload, canonical |-> Canon(e.payload), hash |-> Sha256(Canon(e.payload)),
   signature |-> SignatureBy(Signer[e.keyId], Canon(e.payload), e.keyId)]

Fields == {"version", "algorithm", "at", "keyId", "payload", "canonical", "hash", "signature"}

\* What the constants have to be; assumed where the module is instantiated.
ExportAssumption ==
  /\ DOMAIN Signer \subseteq KeyId /\ MaxAlterations \in Nat
  /\ Foreign \in PublicKey /\ \A id \in DOMAIN Signer : Signer[id] \in PublicKey \ {Foreign}
  /\ \A d \in Directories : \A id \in DOMAIN d :
       id \in DOMAIN Signer /\ d[id] \in Key /\ d[id].id = id /\ d[id].material # Foreign
  /\ \A pair \in SealedExports : \A n \in {1, 2} :
       /\ pair[n].keyId \in DOMAIN Signer
       /\ pair[n].payload \in Payload /\ pair[n].at \in Instant

VARIABLES directory,        \* the auditor's keys
          sealed, shipped,  \* two exports as sealed; the first, as shipped
          altered,
          pc, steps, status

vars == <<directory, sealed, shipped, altered, pc, steps, status>>
evidence == <<directory, sealed, shipped, altered>>

Init ==
  /\ directory \in Directories
  /\ \E pair \in SealedExports : sealed = [n \in {1, 2} |-> Seal(pair[n])]
  /\ shipped = sealed[1]
  /\ altered = 0
  /\ pc = "transit" /\ steps = {} /\ status = "pending"

------------------------------------------------------------------------------
Change(export) ==
  /\ pc = "transit" /\ altered < MaxAlterations /\ export # shipped
  /\ shipped' = export
  /\ altered' = altered + 1
  /\ UNCHANGED <<directory, sealed, pc, steps, status>>

Replacements(field) ==
  {sealed[2][field]} \cup
  CASE field = "version" -> {"other"}
    [] field = "algorithm" -> {"other"}
    [] field = "at" -> Instant \cup {BadInstant}
    [] field = "keyId" -> KeyId
    [] field = "payload" -> Payload
    [] field = "canonical" -> {OtherText, Canon(shipped.payload)}
    [] field = "hash" -> {Sha256(shipped.canonical), Sha256(Canon(shipped.payload))}
    [] field = "signature" -> {Undecodable, BadLength,
         SignatureBy(Foreign, Canon(shipped.payload), shipped.keyId)}

AlterField(field) ==
  \E value \in Replacements(field) : Change([shipped EXCEPT ![field] = value])

\* Another payload, with the text and the hash that belong to it.
Restate(p) ==
  Change([shipped EXCEPT !.payload = p, !.canonical = Canon(p), !.hash = Sha256(Canon(p))])

------------------------------------------------------------------------------
Judged(field, holds, reason) ==
  IF holds THEN Ok(field, 0) ELSE Fault(field, 0, reason)

(* Version and algorithm are judged both, and the audit goes on whatever    *)
(* the outcome.                                                            *)
CheckEnvelope ==
  /\ pc = "transit"
  /\ steps' = {Judged("version", shipped.version = "export.v1", "UNSUPPORTED_ENVELOPE_VERSION"),
               Judged("algorithm", shipped.algorithm = "ed25519", "UNSUPPORTED_ALGORITHM")}
  /\ pc' = "key"
  /\ UNCHANGED <<evidence, status>>

Proceed(step, next) ==
  /\ steps' = steps \cup {step}
  /\ pc' = next
  /\ UNCHANGED <<evidence, status>>

\* Mutation: the report ends with the status of its last step.
Finish_LastStep(step) ==
  /\ steps' = steps \cup {step}
  /\ status' = step.status /\ pc' = "done"
  /\ UNCHANGED evidence

\* finish: the step that ends the audit, and the verdict over all of them.
Finish(step) ==
  /\ steps' = steps \cup {step}
  /\ status' = Verdict(steps') /\ pc' = "done"
  /\ UNCHANGED evidence

CheckKey ==
  /\ pc = "key"
  /\ LET found == Lookup(directory, shipped.keyId, shipped.at) IN
     IF found = "hit" THEN Proceed(Ok("keyId", 0), "canonical")
     ELSE Finish(Fault("keyId", 0, found))

Recomputed == Canon(shipped.payload)

CheckCanonical ==
  /\ pc = "canonical"
  /\ IF Recomputed = shipped.canonical THEN Proceed(Ok("canonical", 0), "hash")
     ELSE Finish(Fault("canonical", 0, "PAYLOAD_CANONICAL_MISMATCH"))

\* Mutation: the hash of the shipped export is not looked at again.
CheckHash_Trusted ==
  pc = "hash" /\ Proceed(Ok("hash", 0), "signature")

CheckHash ==
  /\ pc = "hash"
  /\ IF Sha256(Recomputed) = shipped.hash THEN Proceed(Ok("hash", 0), "signature")
     ELSE Finish(Fault("hash", 0, "EXPORT_PAYLOAD_HASH_MISMATCH"))

material == directory[shipped.keyId].material

(* Texts that do not decode are malformed; wrong lengths and keys that are  *)
(* no curve point verify nothing.                                          *)
CheckSignature ==
  /\ pc = "signature"
  /\ CASE material = "undecodable" \/ shipped.signature = Undecodable ->
            Finish(Fault("signature", 0, "SIGNATURE_MALFORMED"))
       [] material # "undecodable"
            /\ shipped.signature = SignatureBy(material, shipped.canonical, shipped.keyId) ->
            Finish(Ok("signature", 0))
       [] OTHER -> Finish(Fault("signature", 0, "SIGNATURE_INVALID"))

Returned == pc = "done" /\ UNCHANGED vars

Next ==
  \/ (\E field \in Fields : AlterField(field)) \/ (\E p \in Payload : Restate(p))
  \/ CheckEnvelope \/ CheckKey \/ CheckCanonical \/ CheckHash \/ CheckSignature
  \/ Returned

Spec == Init /\ [][Next]_vars

------------------------------------------------------------------------------
\* One of the sealed exports, in all that is signed; the layout of its payload
\* and its exportedAt are not.
Authentic ==
  \E n \in {1, 2} :
    /\ shipped.payload.content = sealed[n].payload.content
    /\ \A f \in {"version", "algorithm", "keyId", "canonical", "hash", "signature"} :
         shipped[f] = sealed[n][f]

Verifiable ==
  /\ Lookup(directory, shipped.keyId, shipped.at) = "hit"
  /\ directory[shipped.keyId].material = Signer[shipped.keyId]

FaultyFields == {s.target[1] : s \in {t \in steps : t.status = "INVALID"}}

(* Every variable stays in its domain.                                     *)
TypeOK ==
  /\ directory \in Directories
  /\ DOMAIN shipped = Fields
  /\ altered \in 0..MaxAlterations
  /\ pc \in {"transit", "key", "canonical", "hash", "signature", "done"}
  /\ \A s \in steps : s.target[1] \in Fields /\ s.status \in Statuses
  /\ status \in {"pending", "VALID", "INVALID"}
  /\ status = "pending" <=> pc # "done"

(* An export is VALID exactly when everything of it that is signed, and its *)
(* hash, are of one export the platform sealed, whatever the order of its   *)
(* keys, and the key is in force at the exportedAt it shows.               *)
ValidIffAuthentic ==
  status # "pending" => (status = "VALID" <=> Authentic /\ Verifiable)

(* One altered field is accused in that field, a payload stated anew with   *)
(* its text and hash in the signature, and nothing else with it; keys in    *)
(* another order are no alteration.                                        *)
DiagnosisPinpoints ==
  LET changed == {f \in Fields : shipped[f] # sealed[1][f]}
      reordered == shipped.payload.content = sealed[1].payload.content IN
  status # "pending" /\ Verifiable =>
    /\ \A f \in {"version", "algorithm", "canonical", "hash", "signature"} :
         changed = {f} => FaultyFields = {f}
    /\ changed = {"payload"} => FaultyFields = IF reordered THEN {} ELSE {"canonical"}
    /\ changed = {"keyId"} => FaultyFields = {"signature"}
    /\ changed = {"payload", "canonical"} /\ ~reordered =>
         FaultyFields = IF shipped.canonical = Recomputed THEN {"hash"} ELSE {"canonical"}
    /\ changed = {"payload", "canonical", "hash"} /\ shipped.canonical = Recomputed
         /\ shipped.hash = Sha256(Recomputed) => FaultyFields = {"signature"}
==============================================================================
