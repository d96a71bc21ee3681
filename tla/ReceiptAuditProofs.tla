------------------------- MODULE ReceiptAuditProofs --------------------------
(* What ReceiptAudit's run checks on packs of two receipts and two altered  *)
(* fields, for packs of any length, altered in any number of places, under  *)
(* any directory.                                                          *)
EXTENDS ReceiptAudit, KeyDirectory, TLAPS

------------------------------------------------------------------------------
(* The keys: what the constructors build, from lists of any length.          *)

LEMMA PinnedKeys ==
  ASSUME DirectoryTypeOK, NEW k \in 1..Len(supplied)
  PROVE  supplied[k] \in Key /\ supplied[k].id \in KeyId /\ supplied[k] \in Pinned
<1>1. supplied \in Seq(Key)
  BY DEF DirectoryTypeOK
<1>2. supplied[k] \in Key
  BY <1>1
<1> QED
  BY <1>2 DEF Key, Pinned

(* A construction starts with an empty index and no answer.                *)
LEMMA DirectoryInitInv == DirectoryInit => DirectoryInv
<1>1. SUFFICES ASSUME DirectoryInit PROVE DirectoryInv
  OBVIOUS
<1>2. supplied \in Seq(Key) /\ Len(supplied) \in Nat
  BY <1>1, KeyListAssumption DEF DirectoryInit
<1>3. Inserted = {}
  BY <1>1 DEF DirectoryInit, Inserted
<1>4. DirectoryTypeOK /\ Settled /\ RefusalJustified
  BY <1>1, <1>2 DEF DirectoryInit, DirectoryTypeOK, Settled, RefusalJustified
<1>5. IndexSoFar
  BY <1>1, <1>3 DEF DirectoryInit, IndexSoFar
<1> QED
  BY <1>4, <1>5 DEF DirectoryInv

(* Inserting the next key of the list keeps the index the list so far.     *)
LEMMA InsertStep == DirectoryInv /\ InsertKey => DirectoryInv'
<1>1. SUFFICES ASSUME DirectoryInv, InsertKey PROVE DirectoryInv'
  OBVIOUS
<1> DEFINE key == supplied[position]
<1>2. /\ supplied \in Seq(Key) /\ Len(supplied) \in Nat
      /\ position \in 1..Len(supplied) /\ key \in Key /\ key.id \in KeyId
  <2>1. supplied \in Seq(Key) /\ Len(supplied) \in Nat /\ position \in 1..Len(supplied)
    BY <1>1 DEF DirectoryInv, DirectoryTypeOK, InsertKey
  <2> QED
    BY <1>1, <2>1, PinnedKeys DEF DirectoryInv
<1>3. Inserted = 1..(position - 1) /\ Inserted' = 1..position
  BY <1>1, <1>2 DEF InsertKey, Inserted
<1>4. \A k \in 1..position : k = position \/ k \in 1..(position - 1)
  BY <1>2
<1>5. /\ DOMAIN index' = DOMAIN index \cup {key.id} /\ index'[key.id] = key
      /\ \A id \in DOMAIN index : index'[id] = index[id]
      /\ key.id \notin DOMAIN index /\ Supported(key) /\ supplied' = supplied
  BY <1>1 DEF InsertKey, Duplicate
<1>6. \A k \in 1..(position - 1) : supplied[k].id # key.id
  BY <1>1, <1>3, <1>5 DEF DirectoryInv, IndexSoFar
<1>7. IndexSoFar'
  <2>1. \A j, k \in 1..position : supplied[j].id = supplied[k].id => j = k
    BY <1>1, <1>3, <1>4, <1>6 DEF DirectoryInv, IndexSoFar
  <2>2. DOMAIN index' = {supplied[k].id : k \in 1..position}
    BY <1>1, <1>2, <1>3, <1>4, <1>5 DEF DirectoryInv, IndexSoFar
  <2>3. \A k \in 1..position : index'[supplied[k].id] = supplied[k] /\ Supported(supplied[k])
    <3>1. ASSUME NEW k \in 1..position, k # position
          PROVE  index'[supplied[k].id] = supplied[k] /\ Supported(supplied[k])
      <4>1. k \in Inserted
        BY <1>3, <1>4, <3>1
      <4>2. supplied[k].id \in DOMAIN index /\ index[supplied[k].id] = supplied[k]
            /\ Supported(supplied[k])
        BY <1>1, <4>1 DEF DirectoryInv, IndexSoFar
      <4> QED
        BY <1>5, <4>2
    <3>2. index'[supplied[position].id] = supplied[position] /\ Supported(supplied[position])
      BY <1>5
    <3> HIDE DEF key
    <3> QED
      BY <3>1, <3>2
  <2>4. Inserted' = 1..position /\ supplied' = supplied
    BY <1>3, <1>5
  <2> HIDE DEF key
  <2> QED
    BY <2>1, <2>2, <2>3, <2>4 DEF IndexSoFar, Supported
<1>8. DirectoryTypeOK'
  <2>1. \A id \in DOMAIN index' : index'[id] \in Key /\ index'[id].id = id
    BY <1>1, <1>2, <1>5 DEF DirectoryInv, DirectoryTypeOK
  <2> QED
    BY <1>1, <1>2, <1>5, <2>1 DEF DirectoryInv, DirectoryTypeOK, InsertKey
<1>9. Settled' /\ RefusalJustified'
  BY <1>1 DEF DirectoryInv, Settled, InsertKey, RefusalJustified
<1> QED
  BY <1>7, <1>8, <1>9 DEF DirectoryInv

(* Every other step leaves the index alone.                                *)
LEMMA OtherSteps ==
  ASSUME DirectoryInv, [DirectoryNext]_directoryVars, ~InsertKey
  PROVE  DirectoryInv'
<1>1. supplied \in Seq(Key) /\ Len(supplied) \in Nat
  BY DEF DirectoryInv, DirectoryTypeOK
<1>2. /\ supplied' = supplied /\ index' = index /\ position' = position
      /\ entry' = entry /\ reply' = reply
  BY DEF DirectoryNext, RefuseEnvelope, OpenEnvelope, RefuseKey, Build, Ask, Refused, directoryVars
<1>3. IndexSoFar' /\ Pinned' = Pinned
  BY <1>2 DEF DirectoryInv, IndexSoFar, Inserted, Supported, Pinned
<1>4. CASE RefuseEnvelope
  BY <1>1, <1>2, <1>3, <1>4 DEF DirectoryInv, RefuseEnvelope, Refuse, DirectoryTypeOK, Settled, RefusalJustified
<1>5. CASE OpenEnvelope
  BY <1>1, <1>2, <1>3, <1>5 DEF DirectoryInv, OpenEnvelope, DirectoryTypeOK, Settled, RefusalJustified
<1>6. CASE RefuseKey
  <2>1. position \in 1..Len(supplied)
    BY <1>1, <1>6 DEF RefuseKey, DirectoryInv, DirectoryTypeOK
  <2>2. supplied[position] \in Pinned
    BY <2>1 DEF Pinned
  <2>3. CASE Duplicate(supplied[position])
    <3>1. PICK k \in 1..(position - 1) : supplied[k].id = supplied[position].id
      BY <2>3 DEF Duplicate, DirectoryInv, IndexSoFar, Inserted
    <3>2. k \in 1..Len(supplied) /\ k # position
      BY <2>1, <3>1, <1>1
    <3>3. RefusalJustified'
      BY <1>2, <1>6, <2>1, <3>1, <3>2 DEF RefusalJustified, RefuseKey, Refuse
    <3> QED
      BY <1>1, <1>2, <1>3, <1>6, <3>3 DEF DirectoryInv, RefuseKey, Refuse, DirectoryTypeOK, Settled
  <2>4. CASE ~Supported(supplied[position])
    <3>1. RefusalJustified'
      BY <1>2, <1>3, <1>6, <2>2, <2>4 DEF RefusalJustified, Supported, RefuseKey, Refuse
    <3> QED
      BY <1>1, <1>2, <1>3, <1>6, <3>1 DEF DirectoryInv, RefuseKey, Refuse, DirectoryTypeOK, Settled
  <2> QED
    BY <1>6, <2>3, <2>4 DEF RefuseKey
<1>7. CASE Build
  BY <1>1, <1>2, <1>3, <1>7 DEF DirectoryInv, Build, DirectoryTypeOK, Settled, RefusalJustified
<1>8. ASSUME NEW id \in KeyId, NEW t \in Instant \cup {BadInstant}, Ask(id, t)
      PROVE  DirectoryInv'
  <2>1. /\ stage = "ready" /\ stage' = "ready"
        /\ answer'.id = id /\ answer'.at = t /\ answer'.found = Lookup(index, id, t)
    BY <1>8 DEF Ask
  <2>2. Lookup(index, id, t)' = Lookup(index, id, t)
    BY <1>2 DEF Lookup, OutsideWindow, Past
  <2>3. DirectoryTypeOK'
    BY <1>1, <1>2, <2>1 DEF DirectoryInv, DirectoryTypeOK, Lookup
  <2>4. Settled' /\ RefusalJustified'
    BY <1>2, <2>1 DEF DirectoryInv, Settled, RefusalJustified
  <2> QED
    BY <1>3, <2>3, <2>4 DEF DirectoryInv
<1>9. CASE UNCHANGED directoryVars
  BY <1>1, <1>2, <1>3, <1>9 DEF DirectoryInv, directoryVars, DirectoryTypeOK, Settled, RefusalJustified
<1> QED
  BY <1>4, <1>5, <1>6, <1>7, <1>8, <1>9 DEF DirectoryNext, Refused

------------------------------------------------------------------------------
(* The strengthened invariant holds in every reachable state.              *)
THEOREM DirectoryInductive == DirectorySpec => []DirectoryInv
<1>1. DirectoryInv /\ [DirectoryNext]_directoryVars => DirectoryInv'
  BY InsertStep, OtherSteps
<1> QED
  BY <1>1, DirectoryInitInv, PTL DEF DirectorySpec

(* Every variable of the construction stays in its domain.                 *)
THEOREM DirectoryTypeCorrect == DirectorySpec => []DirectoryTypeOK
<1>1. DirectoryInv => DirectoryTypeOK
  BY DEF DirectoryInv
<1> QED
  BY <1>1, DirectoryInductive, PTL

(* A directory built from any list holds exactly its keys, one per id.     *)
THEOREM DirectoriesAreFaithful == DirectorySpec => []DirectoryFaithful
<1>1. DirectoryInv => DirectoryFaithful
  <2>1. SUFFICES ASSUME DirectoryInv, stage = "ready"
                 PROVE  /\ \A j, k \in 1..Len(supplied) :
                             supplied[j].id = supplied[k].id => j = k
                        /\ DOMAIN index = {key.id : key \in Pinned}
                        /\ \A key \in Pinned : index[key.id] = key /\ Supported(key)
    BY DEF DirectoryFaithful
  <2>2. Inserted = 1..Len(supplied)
    BY <2>1 DEF DirectoryInv, DirectoryTypeOK, Settled, Inserted
  <2> QED
    BY <2>1, <2>2 DEF DirectoryInv, IndexSoFar, Pinned
<1> QED
  BY <1>1, DirectoryInductive, PTL

(* A construction is refused only over the envelope or the keys it got.     *)
THEOREM RefusalsAreJustified == DirectorySpec => []RefusalJustified
<1>1. DirectoryInv => RefusalJustified
  BY DEF DirectoryInv
<1> QED
  BY <1>1, DirectoryInductive, PTL

(* The lookup's comparisons, from the side of the key that is in force.     *)
LEMMA BoundsRead ==
  ASSUME NEW key \in Key, NEW t \in Instant \cup {BadInstant}
  PROVE  /\ ~OutsideWindow(key, t) <=> InWindow(key, t)
         /\ t \in Instant => (Past(t, key.revokedAt) <=> Revoked(key, t))
<1>1. CASE t = BadInstant
  BY <1>1, KeyAssumption DEF OutsideWindow, InWindow
<1>2. CASE t \in Instant
  <2>1. t \in Int /\ t # BadInstant /\ \A b \in Instant : b \in Int
    BY <1>2, KeyAssumption
  <2>2. \A b \in Instant : (t > b <=> b < t) /\ (t < b <=> ~(b <= t)) /\ (t > b <=> ~(t <= b))
    BY <2>1
  <2> QED
    BY <1>2, <2>1, <2>2 DEF OutsideWindow, InWindow, Past, Revoked
<1> QED
  BY <1>1, <1>2

(* A key is handed out for an instant exactly when it is pinned under its   *)
(* id and in force, and called revoked exactly when only that excludes it.  *)
THEOREM HitsAreInForce == DirectorySpec => []HitIsPinnedAndInForce
<1>1. DirectoryInv /\ DirectoryFaithful => HitIsPinnedAndInForce
  <2>1. SUFFICES ASSUME DirectoryInv, DirectoryFaithful, answer # NoAnswer
                 PROVE  HitIsPinnedAndInForce
    BY DEF HitIsPinnedAndInForce
  <2> DEFINE key == index[answer.id]
             t == answer.at
  <2>2. stage = "ready" /\ answer.found = Lookup(index, answer.id, t)
        /\ t \in Instant \cup {BadInstant}
    BY <2>1 DEF DirectoryInv, Settled
  <2>3. \A k \in Pinned : k.id \in DOMAIN index /\ index[k.id] = k
    BY <2>1, <2>2 DEF DirectoryFaithful
  <2>4. CASE answer.id \notin DOMAIN index
    <3>1. answer.found = "UNKNOWN_KEY_ID"
      BY <2>2, <2>4 DEF Lookup
    <3>2. \A k \in Pinned : k.id # answer.id
      BY <2>3, <2>4
    <3> QED
      BY <3>1, <3>2 DEF HitIsPinnedAndInForce
  <2>5. CASE answer.id \in DOMAIN index
    <3>1. key \in Pinned /\ key.id = answer.id /\ key \in Key
      BY <2>1, <2>2, <2>5 DEF DirectoryFaithful, DirectoryInv, DirectoryTypeOK
    <3>2. \A k \in Pinned : k.id = answer.id => k = key
      BY <2>3
    <3> HIDE DEF key, t
    <3>3. /\ answer.found = "hit" <=> InWindow(key, t) /\ ~Revoked(key, t)
          /\ answer.found = "KEY_REVOKED_BEFORE_ISSUANCE" <=> InWindow(key, t) /\ Revoked(key, t)
      <4>1. answer.found = IF OutsideWindow(key, t) THEN "KEY_OUTSIDE_VALIDITY_WINDOW"
                           ELSE IF Past(t, key.revokedAt) THEN "KEY_REVOKED_BEFORE_ISSUANCE"
                           ELSE "hit"
        BY <2>2, <2>5 DEF Lookup, key
      <4>2. ~OutsideWindow(key, t) <=> InWindow(key, t)
        BY <2>2, <3>1, BoundsRead
      <4>3. InWindow(key, t) => (Past(t, key.revokedAt) <=> Revoked(key, t))
        BY <2>2, <3>1, BoundsRead DEF InWindow
      <4> QED
        BY <4>1, <4>2, <4>3
    <3> QED
      BY <3>1, <3>2, <3>3 DEF HitIsPinnedAndInForce, t
  <2> QED
    BY <2>4, <2>5
<1> QED
  BY <1>1, DirectoryInductive, DirectoriesAreFaithful, PTL

(* What a constructor builds from keys none of which is the outsider's is a *)
(* directory as ReceiptAssumption takes them, so that what is proved below  *)
(* holds of every directory an auditor can have built (Auditor::new).       *)
THEOREM DirectoriesServe ==
  DirectorySpec =>
    [](stage = "ready" /\ (\A key \in Pinned : key.material # Foreign) =>
         \A id \in DOMAIN index :
           /\ id \in KeyId /\ index[id] \in Key /\ index[id].id = id
           /\ index[id].material # Foreign)
<1> DEFINE Serves ==
      stage = "ready" /\ (\A key \in Pinned : key.material # Foreign) =>
        \A id \in DOMAIN index :
          /\ id \in KeyId /\ index[id] \in Key /\ index[id].id = id
          /\ index[id].material # Foreign
<1>1. DirectoryTypeOK /\ DirectoryFaithful => Serves
  <2>1. SUFFICES ASSUME DirectoryTypeOK, DirectoryFaithful, stage = "ready",
                        \A key \in Pinned : key.material # Foreign,
                        NEW id \in DOMAIN index
                 PROVE  /\ id \in KeyId /\ index[id] \in Key /\ index[id].id = id
                        /\ index[id].material # Foreign
    OBVIOUS
  <2>2. PICK key \in Pinned : key.id = id
    BY <2>1 DEF DirectoryFaithful
  <2>3. index[id] = key
    BY <2>1, <2>2 DEF DirectoryFaithful
  <2> QED
    BY <2>1, <2>2, <2>3 DEF DirectoryTypeOK
<1> HIDE DEF Serves
<1>2. DirectorySpec => []Serves
  BY <1>1, DirectoryTypeCorrect, DirectoriesAreFaithful, PTL
<1> QED
  BY <1>2 DEF Serves

------------------------------------------------------------------------------
(* The audit of a pack.                                                      *)

Points == {"canonical", "afterHash", "key", "signature"}

\* The signature of a record verifies under the key the directory pins.
Signed(r) ==
  /\ Decoded(r.signature) \notin BadSignatures
  /\ directory[r.keyId].material \notin BadMaterial
  /\ Decoded(r.signature) = SignatureBy(directory[r.keyId].material, r.payload, r.keyId)

\* What a record has passed when it is at a check, "nextRecord" being its end.
Passed(r, point) ==
  /\ point # "canonical" => r.canonical = Canon(r.payload)
  /\ point \notin {"canonical", "afterHash"} => r.afterHash = Sha256(Canon(r.payload))
  /\ point \in {"signature", "nextRecord"} =>
       Lookup(directory, r.keyId, r.payload.issued) = "hit"
  /\ point = "nextRecord" => Signed(r)

\* The check record k is at.
Point(k) ==
  IF k < i THEN "nextRecord" ELSE IF k = i /\ pc \in Points THEN pc ELSE "canonical"

\* The report has no fault of a record as long as the record passes.
BlameSoFar ==
  \A k \in DOMAIN records : Faults(k) = {} <=> Passed(records[k], Point(k))

\* What the platform sealed, and what became of it: whoever alters a signature
\* has the platform's to copy, or a key of his own; "=" after it is neither.
Origin ==
  /\ \A j \in DOMAIN sealed : \E p \in Payload, id \in KeyId : sealed[j] = Seal(p, id)
  /\ \A k \in DOMAIN records :
       \/ Decoded(records[k].signature) \in BadSignatures
       \/ \E j \in DOMAIN sealed : Decoded(records[k].signature) = sealed[j].signature
       \/ \E p \in Payload, id \in KeyId :
            Decoded(records[k].signature) = SignatureBy(Foreign, p, id)

Types ==
  /\ directory \in Directories
  /\ sealed \in Seq(Record) /\ records \in Seq(Record)
  /\ Len(records) <= Len(sealed)
  /\ altered \in 0..MaxAlterations

Position ==
  /\ pc \in {"transit", "rollup", "done", "panicked"} \cup Points
  /\ i \in 1..(Len(records) + 1)
  /\ pc = "transit" => i = 1 /\ steps = {}
  /\ pc \in Points => i \in 1..Len(records)
  /\ pc \in {"rollup", "done"} => i = Len(records) + 1
  /\ status = IF pc = "done" THEN RollupStatus(steps) ELSE "pending"

\* The pack's own steps, apart from its records'.
Header ==
  /\ \A s \in steps : s.status \in {"VALID", "INVALID"} /\ s.target[2] \in 0..Len(records)
  /\ pc # "transit" =>
       /\ steps # {}
       /\ Faults(0) = {} <=> envelope = "envelope.v1" /\ records # << >>

\* The inductive invariant.
IInv == Types /\ Origin /\ Position /\ Header /\ BlameSoFar

------------------------------------------------------------------------------
(* A step is about the index it names, and is a fault or is none.           *)
LEMMA StepFields ==
  ASSUME NEW field, NEW k, NEW reason
  PROVE  /\ Ok(field, k).target[2] = k /\ Ok(field, k).status = "VALID"
         /\ Fault(field, k, reason).target[2] = k /\ Fault(field, k, reason).status = "INVALID"
  BY DEF Ok, Fault, Step

(* A sealed record is a record.                                            *)
LEMMA SealedRecord ==
  ASSUME NEW p \in Payload, NEW id \in KeyId
  PROVE  /\ Seal(p, id) \in Record
         /\ Seal(p, id).payload = p /\ Seal(p, id).keyId = id
         /\ Seal(p, id).canonical = Canon(p) /\ Seal(p, id).afterHash = Sha256(Canon(p))
         /\ Seal(p, id).signature = SignatureBy(Signer[id], p, id)
<1>1. Canon(p) \in Texts
  BY DEF Texts
<1>2. Sha256(Canon(p)) \in Hashes
  BY <1>1 DEF Hashes
<1>3. Signer[id] \in PublicKey
  BY ReceiptAssumption
<1>4. SignatureBy(Signer[id], p, id) \in Signatures
  BY <1>3 DEF Signatures, SignatureBy
<1>5. Seal(p, id) \in Record
  BY <1>1, <1>2, <1>4 DEF Seal, Record
<1> QED
  BY <1>5 DEF Seal

(* Signatures are their free constructor.                                   *)
LEMMA SignatureParts ==
  ASSUME NEW pk, NEW p, NEW id, NEW pk2, NEW p2, NEW id2,
         SignatureBy(pk, p, id) = SignatureBy(pk2, p2, id2)
  PROVE  pk = pk2 /\ p = p2 /\ id = id2
<1>1. SignatureBy(pk, p, id).by = pk /\ SignatureBy(pk2, p2, id2).by = pk2
  BY DEF SignatureBy
<1>2. /\ SignatureBy(pk, p, id).over = SigningInput(p, id)
      /\ SignatureBy(pk2, p2, id2).over = SigningInput(p2, id2)
  BY DEF SignatureBy
<1>3. SigningInput(p, id) = SigningInput(p2, id2)
  BY <1>2
<1>4. /\ SigningInput(p, id).input = Canon(p) /\ SigningInput(p, id).keyId = id
      /\ SigningInput(p2, id2).input = Canon(p2) /\ SigningInput(p2, id2).keyId = id2
  BY DEF SigningInput
<1>5. Canon(p) = Canon(p2) /\ id = id2
  BY <1>3, <1>4
<1>6. Canon(p).canonical = p /\ Canon(p2).canonical = p2
  BY DEF Canon
<1> QED
  BY <1>1, <1>5, <1>6

LEMMA SignatureWellFormed ==
  ASSUME NEW pk, NEW p, NEW id
  PROVE  SignatureBy(pk, p, id) \notin BadSignatures
<1>1. DOMAIN SignatureBy(pk, p, id) = {"by", "over", "padded"}
  BY DEF SignatureBy
<1>2. ASSUME NEW s \in BadSignatures PROVE DOMAIN s = {"malformed"}
  BY DEF BadSignatures
<1> QED
  BY <1>1, <1>2

(* Every spelling of a signature is a signature, and decodes to it.         *)
LEMMA SpellingDecodes ==
  ASSUME NEW pk \in PublicKey, NEW p \in Payload, NEW id \in KeyId,
         NEW sig, NEW b \in BOOLEAN, sig = Spelt(SignatureBy(pk, p, id), b)
  PROVE  sig \in Signatures /\ Decoded(sig) = SignatureBy(pk, p, id)
<1>1. sig = [by |-> pk, over |-> SigningInput(p, id), padded |-> b]
  BY DEF Spelt, SignatureBy
<1>2. sig \in Signatures
  BY <1>1 DEF Signatures
<1>3. sig \notin BadSignatures
  <2>1. DOMAIN sig = {"by", "over", "padded"}
    BY <1>1
  <2>2. ASSUME NEW bad \in BadSignatures PROVE DOMAIN bad = {"malformed"}
    BY DEF BadSignatures
  <2> QED
    BY <2>1, <2>2
<1>4. Spelt(sig, FALSE) = SignatureBy(pk, p, id)
  BY <1>1 DEF Spelt, SignatureBy
<1> QED
  BY <1>2, <1>3, <1>4 DEF Decoded

LEMMA SignatureDecodes ==
  ASSUME NEW pk, NEW p, NEW id
  PROVE  Decoded(SignatureBy(pk, p, id)) = SignatureBy(pk, p, id)
<1>1. Spelt(SignatureBy(pk, p, id), FALSE) = SignatureBy(pk, p, id)
  BY DEF Spelt, SignatureBy
<1> QED
  BY <1>1, SignatureWellFormed DEF Decoded

(* Decoding touches the signature of a receipt, and nothing else of it.     *)
LEMMA PlainParts ==
  ASSUME NEW r \in Record
  PROVE  /\ Plain(r) \in Record
         /\ Plain(r).payload = r.payload /\ Plain(r).keyId = r.keyId
         /\ Plain(r).canonical = r.canonical /\ Plain(r).afterHash = r.afterHash
         /\ Plain(r).signature = Decoded(r.signature)
<1>1. ASSUME NEW sig \in Signatures PROVE Decoded(sig) \in Signatures
  <2>1. CASE sig \in BadSignatures
    BY <2>1 DEF Decoded
  <2>2. CASE sig \notin BadSignatures
    BY <2>2 DEF Decoded, Spelt, Signatures
  <2> QED
    BY <2>1, <2>2
<1>2. r.signature \in Signatures
  BY DEF Record
<1>3. Plain(r) = [r EXCEPT !.signature = Decoded(r.signature)]
  BY DEF Plain
<1>4. Decoded(r.signature) \in Signatures
  BY <1>1, <1>2
<1> QED
  BY <1>3, <1>4 DEF Record

------------------------------------------------------------------------------
(* The four checks of a record decide whether the platform issued it, under *)
(* the key in force: whoever altered it had no other key of the platform's. *)
LEMMA PassedMeansGenuine ==
  ASSUME Types, Origin, NEW k \in DOMAIN records
  PROVE  Passed(records[k], "nextRecord") <=> Genuine(records[k])
<1> DEFINE r == records[k]
<1>0. r \in Record
  BY DEF Types
<1> HIDE DEF r
<1>1. ASSUME Passed(r, "nextRecord") PROVE Genuine(r)
  <2>1. /\ r.canonical = Canon(r.payload) /\ r.afterHash = Sha256(Canon(r.payload))
        /\ Lookup(directory, r.keyId, r.payload.issued) = "hit"
        /\ Signed(r)
    BY <1>1 DEF Passed
  <2>2. r.keyId \in DOMAIN directory
    BY <2>1 DEF Lookup
  <2>3. directory[r.keyId].material # Foreign
    BY <2>2, ReceiptAssumption DEF Types
  <2>4. /\ Decoded(r.signature) \notin BadSignatures
        /\ Decoded(r.signature) = SignatureBy(directory[r.keyId].material, r.payload, r.keyId)
    BY <2>1 DEF Signed
  <2>5. ~\E p \in Payload, id \in KeyId : Decoded(r.signature) = SignatureBy(Foreign, p, id)
    BY <2>3, <2>4, SignatureParts
  <2>6. PICK j \in DOMAIN sealed : Decoded(r.signature) = sealed[j].signature
    BY <2>4, <2>5 DEF Origin, r
  <2>7. PICK p \in Payload, id \in KeyId : sealed[j] = Seal(p, id)
    BY DEF Origin
  <2>8. SignatureBy(directory[r.keyId].material, r.payload, r.keyId) = SignatureBy(Signer[id], p, id)
    BY <2>4, <2>6, <2>7, SealedRecord
  <2>9. directory[r.keyId].material = Signer[id] /\ r.payload = p /\ r.keyId = id
    BY <2>8, SignatureParts
  <2>10. /\ r.payload = sealed[j].payload /\ r.keyId = sealed[j].keyId
         /\ r.canonical = sealed[j].canonical /\ r.afterHash = sealed[j].afterHash
         /\ Decoded(r.signature) = sealed[j].signature
    BY <2>1, <2>6, <2>7, <2>9, SealedRecord
  <2>11. sealed[j] \in Record
    BY <2>7, SealedRecord
  <2>12. Plain(r) = sealed[j]
    BY <1>0, <2>10, <2>11, PlainParts DEF Record
  <2> QED
    BY <2>1, <2>9, <2>12 DEF Genuine, Issued, Verifiable
<1>2. ASSUME Genuine(r) PROVE Passed(r, "nextRecord")
  <2>1. PICK j \in DOMAIN sealed : Plain(r) = sealed[j]
    BY <1>2 DEF Genuine, Issued
  <2>2. PICK p \in Payload, id \in KeyId : sealed[j] = Seal(p, id)
    BY DEF Origin
  <2>3. /\ r.payload = p /\ r.keyId = id /\ r.canonical = Canon(p)
        /\ r.afterHash = Sha256(Canon(p))
        /\ Decoded(r.signature) = SignatureBy(Signer[id], p, id)
    BY <1>0, <2>1, <2>2, SealedRecord, PlainParts
  <2>4. /\ Lookup(directory, r.keyId, r.payload.issued) = "hit"
        /\ directory[r.keyId].material = Signer[id]
    BY <1>2, <2>3 DEF Genuine, Verifiable
  <2>5. Signer[id] \notin BadMaterial
    BY ReceiptAssumption, KeyAssumption
  <2>6. Decoded(r.signature) \notin BadSignatures
    BY <2>3, SignatureWellFormed
  <2>7. Signed(r)
    BY <2>3, <2>4, <2>5, <2>6 DEF Signed
  <2> QED
    BY <2>3, <2>4, <2>7 DEF Passed
<1> QED
  BY <1>1, <1>2 DEF r

------------------------------------------------------------------------------
(* A walk that has judged nothing has blamed nobody.                        *)
LEMMA WalkBegins ==
  ASSUME Types, Origin, pc = "transit", i = 1, steps = {}, status = "pending"
  PROVE  IInv
<1>1. records \in Seq(Record) /\ Len(records) \in Nat
  BY DEF Types
<1>2. Position
  BY <1>1 DEF Position, Points
<1>3. Header
  BY DEF Header
<1>4. BlameSoFar
  <2>1. ASSUME NEW k \in DOMAIN records PROVE Faults(k) = {} /\ Point(k) = "canonical"
    BY <1>1 DEF Faults, Point, Points
  <2> QED
    BY <2>1 DEF BlameSoFar, Passed
<1> QED
  BY <1>2, <1>3, <1>4 DEF IInv

(* The audit starts on the pack as sealed, with nothing judged.             *)
LEMMA InitIInv == Init => IInv
<1>1. SUFFICES ASSUME Init PROVE IInv
  OBVIOUS
<1>2. PICK pack \in SealedPacks : sealed = [k \in 1..Len(pack) |-> Seal(pack[k][1], pack[k][2])]
  BY <1>1 DEF Init
<1>3. pack \in Seq(Payload \X KeyId) /\ Len(pack) \in Nat
  BY ReceiptAssumption
<1>4. ASSUME NEW j \in 1..Len(pack)
      PROVE  pack[j][1] \in Payload /\ pack[j][2] \in KeyId /\ sealed[j] = Seal(pack[j][1], pack[j][2])
  BY <1>2, <1>3
<1>5. DOMAIN sealed = 1..Len(pack)
  BY <1>2
<1>6. \A j \in 1..Len(pack) : sealed[j] \in Record
  BY <1>4, SealedRecord
<1>7. sealed \in Seq(Record)
  BY <1>2, <1>3, <1>5, <1>6
<1>8. records = sealed /\ steps = {} /\ pc = "transit" /\ i = 1 /\ status = "pending"
      /\ altered = 0 /\ directory \in Directories
  BY <1>1 DEF Init
<1>9. Types
  BY <1>7, <1>8, ReceiptAssumption DEF Types
<1>10. Origin
  <2>1. ASSUME NEW j \in 1..Len(pack) PROVE Decoded(sealed[j].signature) = sealed[j].signature
    BY <1>4, SealedRecord, SignatureDecodes
  <2> QED
    BY <1>4, <1>5, <1>8, <2>1 DEF Origin
<1> QED
  BY <1>8, <1>9, <1>10, WalkBegins

(* A value put in a field is one the field may have.                        *)
LEMMA ReplacementTypes ==
  ASSUME Types, Origin, NEW k \in DOMAIN records, NEW field \in Fields,
         NEW value \in Replacements(k, field)
  PROVE  /\ [records[k] EXCEPT ![field] = value] \in Record
         /\ field = "signature" =>
              \/ Decoded(value) \in BadSignatures
              \/ \E j \in DOMAIN sealed : Decoded(value) = sealed[j].signature
              \/ \E p \in Payload, id \in KeyId : Decoded(value) = SignatureBy(Foreign, p, id)
<1>1. /\ records[k] \in Record
      /\ \A j \in DOMAIN sealed : sealed[j] \in Record
  BY DEF Types
<1>2. /\ records[k].payload \in Payload /\ records[k].keyId \in KeyId
  BY <1>1 DEF Record
<1>3. CASE field = "payload"
  BY <1>1, <1>3 DEF Replacements, Record
<1>4. CASE field = "keyId"
  BY <1>1, <1>4 DEF Replacements, Record
<1>5. CASE field = "canonical"
  <2>1. value \in Texts
    BY <1>1, <1>5 DEF Replacements, Record, Texts
  <2> QED
    BY <1>1, <1>5, <2>1 DEF Record
<1>6. CASE field = "afterHash"
  <2>1. Sha256(Canon(records[k].payload)) \in Hashes
    BY <1>2 DEF Hashes, Texts
  <2>2. value \in Hashes
    BY <1>1, <1>6, <2>1 DEF Replacements, Record
  <2> QED
    BY <1>1, <1>6, <2>2 DEF Record
<1>7. CASE field = "signature"
  <2>1. \/ value \in BadSignatures
        \/ \E j \in DOMAIN sealed, b \in BOOLEAN : value = Spelt(sealed[j].signature, b)
        \/ \E b \in BOOLEAN :
             value = Spelt(SignatureBy(Foreign, records[k].payload, records[k].keyId), b)
    BY <1>7 DEF Replacements
  <2>2. CASE value \in BadSignatures
    BY <1>1, <1>7, <2>2 DEF Record, Signatures, Decoded
  <2>3. CASE \E j \in DOMAIN sealed, b \in BOOLEAN : value = Spelt(sealed[j].signature, b)
    <3>1. PICK j \in DOMAIN sealed, b \in BOOLEAN : value = Spelt(sealed[j].signature, b)
      BY <2>3
    <3>2. PICK p \in Payload, id \in KeyId : sealed[j] = Seal(p, id)
      BY DEF Origin
    <3>3. sealed[j].signature = SignatureBy(Signer[id], p, id) /\ Signer[id] \in PublicKey
      BY <3>2, SealedRecord, ReceiptAssumption
    <3>4. value \in Signatures /\ Decoded(value) = sealed[j].signature
      BY <3>1, <3>3, SpellingDecodes
    <3> QED
      BY <1>1, <1>7, <3>4 DEF Record
  <2>4. CASE \E b \in BOOLEAN :
               value = Spelt(SignatureBy(Foreign, records[k].payload, records[k].keyId), b)
    <3>1. /\ value \in Signatures
          /\ Decoded(value) = SignatureBy(Foreign, records[k].payload, records[k].keyId)
      BY <1>2, <2>4, SpellingDecodes, ReceiptAssumption
    <3> QED
      BY <1>1, <1>2, <1>7, <3>1 DEF Record
  <2> QED
    BY <2>1, <2>2, <2>3, <2>4
<1> QED
  BY <1>3, <1>4, <1>5, <1>6, <1>7 DEF Fields

(* Nobody but the platform signs with its keys.                             *)
LEMMA ReplacedSignature ==
  ASSUME Types, Origin, NEW k \in DOMAIN records, NEW value \in Replacements(k, "signature")
  PROVE  \/ Decoded(value) \in BadSignatures
         \/ \E j \in DOMAIN sealed : Decoded(value) = sealed[j].signature
         \/ \E p \in Payload, id \in KeyId : Decoded(value) = SignatureBy(Foreign, p, id)
<1>1. "signature" \in Fields
  BY DEF Fields
<1> QED
  BY <1>1, ReplacementTypes

(* An alteration leaves a pack of records, none of them judged.             *)
LEMMA AlterStep ==
  ASSUME IInv, NEW k \in DOMAIN records, NEW field \in Fields,
         NEW value \in Replacements(k, field), Alter(k, field, value)
  PROVE  IInv'
<1> DEFINE new == [records[k] EXCEPT ![field] = value]
<1>1. /\ pc = "transit" /\ altered < MaxAlterations /\ altered' = altered + 1
      /\ records' = [records EXCEPT ![k] = new]
      /\ UNCHANGED <<directory, envelope, sealed, pc, i, steps, status>>
  BY DEF Alter
<1>2. records \in Seq(Record) /\ new \in Record
  BY ReplacementTypes DEF IInv, Types
<1>3. records' \in Seq(Record) /\ Len(records') = Len(records) /\ DOMAIN records' = DOMAIN records
  BY <1>1, <1>2
<1>4. Types'
  BY <1>1, <1>3, ReceiptAssumption DEF IInv, Types
<1>5. field # "signature" => new.signature = records[k].signature
  BY <1>2 DEF Record, Fields
<1>6. field = "signature" => new.signature = value
  <2>1. records[k] \in Record
    BY DEF IInv, Types
  <2>2. SUFFICES ASSUME field = "signature" PROVE new.signature = value
    OBVIOUS
  <2>3. "signature" \in DOMAIN records[k]
    BY <2>1 DEF Record
  <2> QED
    BY <2>2, <2>3
<1>7. \/ Decoded(new.signature) \in BadSignatures
      \/ \E j \in DOMAIN sealed : Decoded(new.signature) = sealed[j].signature
      \/ \E p \in Payload, id \in KeyId : Decoded(new.signature) = SignatureBy(Foreign, p, id)
  <2>1. CASE field = "signature"
    <3>1. \/ Decoded(value) \in BadSignatures
          \/ \E j \in DOMAIN sealed : Decoded(value) = sealed[j].signature
          \/ \E p \in Payload, id \in KeyId : Decoded(value) = SignatureBy(Foreign, p, id)
      BY <2>1, ReplacementTypes DEF IInv
    <3> HIDE DEF new
    <3> QED
      BY <1>6, <2>1, <3>1
  <2>2. CASE field # "signature"
    <3> HIDE DEF new
    <3> QED
      BY <1>5, <2>2 DEF IInv, Origin
  <2> QED
    BY <2>1, <2>2
<1>8. \A j \in DOMAIN records : j # k => records'[j] = records[j]
  BY <1>1
<1>9. records'[k] = new
  BY <1>1
<1> HIDE DEF new
<1>10. Origin'
  BY <1>1, <1>3, <1>7, <1>8, <1>9 DEF IInv, Origin
<1>11. steps = {} /\ i = 1
  BY <1>1 DEF IInv, Position
<1>12. Position'
  BY <1>1, <1>3, <1>11 DEF IInv, Position, Points
<1>13. Header'
  BY <1>1, <1>11 DEF Header
<1>14. BlameSoFar'
  <2>1. ASSUME NEW j \in DOMAIN records' PROVE Faults(j)' = {} /\ Point(j)' = "canonical"
    BY <1>1, <1>3, <1>2, <1>11 DEF Faults, Point, Points
  <2> QED
    BY <2>1 DEF BlameSoFar, Passed
<1> QED
  BY <1>4, <1>10, <1>12, <1>13, <1>14 DEF IInv

(* The pack is opened: its own steps, and no record judged.                 *)
LEMMA OpenStep ==
  ASSUME IInv, OpenPack
  PROVE  IInv'
<1> DEFINE first == IF records = << >> THEN Fault("pack.records", 0, "EMPTY_PACK") ELSE Ok("pack.records", 0)
           version == Fault("envelopeVersion", 0, "UNSUPPORTED_ENVELOPE_VERSION")
<1>1. /\ pc = "transit"
      /\ steps' = {first} \cup {s \in {version} : envelope # "envelope.v1"}
      /\ pc' = IF records = << >> THEN "rollup" ELSE "canonical"
      /\ UNCHANGED <<directory, envelope, sealed, records, altered, i, status>>
  BY DEF OpenPack
<1>2. /\ first.target[2] = 0 /\ first.status \in {"VALID", "INVALID"}
      /\ first.status = "INVALID" <=> records = << >>
      /\ version.target[2] = 0 /\ version.status = "INVALID"
  BY StepFields
<1> HIDE DEF first, version
<1>3. i = 1 /\ status = "pending" /\ Len(records) \in Nat /\ DOMAIN records = 1..Len(records)
      /\ (records = << >> <=> Len(records) = 0)
  BY <1>1 DEF IInv, Position, Types
<1>4. Types' /\ Origin'
  BY <1>1 DEF IInv, Types, Origin
<1>5. Position'
  BY <1>1, <1>3 DEF Position, Points
<1>6. \A s \in steps' : s.status \in {"VALID", "INVALID"} /\ s.target[2] = 0
  BY <1>1, <1>2
<1>7. Faults(0)' = {} <=> envelope = "envelope.v1" /\ records # << >>
  BY <1>1, <1>2 DEF Faults
<1>8. Header'
  BY <1>1, <1>3, <1>6, <1>7 DEF Header
<1>9. BlameSoFar'
  <2>1. ASSUME NEW j \in DOMAIN records' PROVE Faults(j)' = {} /\ Point(j)' = "canonical"
    BY <1>1, <1>3, <1>6 DEF Faults, Point, Points
  <2> QED
    BY <2>1 DEF BlameSoFar, Passed
<1> QED
  BY <1>4, <1>5, <1>8, <1>9 DEF IInv

LEMMA Extents ==
  ASSUME IInv, pc \in Points
  PROVE  /\ i \in 1..Len(records) /\ Len(records) \in Nat /\ DOMAIN records = 1..Len(records)
         /\ status = "pending" /\ pc \notin {"transit", "done"} /\ i # 0
<1>1. i \in 1..Len(records) /\ status = "pending"
  BY DEF IInv, Position, Points
<1>2. Len(records) \in Nat /\ DOMAIN records = 1..Len(records)
  BY DEF IInv, Types
<1>3. pc \notin {"transit", "done"}
  BY DEF Points
<1> QED
  BY <1>1, <1>2, <1>3

(* A check moves the record in hand on, and no other.                       *)
LEMMA PointMoves ==
  ASSUME IInv, pc \in Points,
         NEW step, NEW next, next \in {"afterHash", "key", "signature", "nextRecord"},
         Judge(step, next), NEW k \in DOMAIN records
  PROVE  Point(i) = pc /\ Point(k)' = IF k = i THEN next ELSE Point(k)
<1>1. /\ next # "nextRecord" => pc' = next /\ i' = i
      /\ next = "nextRecord" => i' = i + 1 /\ pc' = IF i = Len(records) THEN "rollup" ELSE "canonical"
  BY DEF Judge
<1>2. /\ i \in 1..Len(records) /\ Len(records) \in Nat /\ DOMAIN records = 1..Len(records)
  BY Extents
<1>3. Point(i) = pc
  <2>1. ~(i < i)
    BY <1>2
  <2> QED
    BY <2>1 DEF Point
<1>4. CASE k = i /\ next = "nextRecord"
  <2>1. k < i'
    BY <1>1, <1>2, <1>4
  <2> QED
    BY <1>3, <1>4, <2>1 DEF Point
<1>5. CASE k = i /\ next # "nextRecord"
  <2>1. ~(k < i') /\ k = i'
    BY <1>1, <1>2, <1>5
  <2>2. pc' = next /\ next \in Points
    BY <1>1, <1>5 DEF Points
  <2> QED
    BY <1>3, <1>5, <2>1, <2>2 DEF Point
<1>6. k \in 1..Len(records) /\ (i' = i \/ i' = i + 1)
  BY <1>1, <1>2
<1>7. CASE k # i /\ k < i
  <2>1. k < i'
    BY <1>2, <1>6, <1>7
  <2> QED
    BY <1>3, <1>7, <2>1 DEF Point
<1>8. CASE k # i /\ ~(k < i)
  <2>1. ~(k < i')
    BY <1>2, <1>6, <1>8
  <2>2. Point(k) = "canonical"
    BY <1>8 DEF Point
  <2>3. next # "nextRecord" => k # i'
    BY <1>1, <1>8
  <2>4. next = "nextRecord" => pc' \notin Points \/ pc' = "canonical"
    BY <1>1 DEF Points
  <2>5. Point(k)' = "canonical"
    BY <2>1, <2>3, <2>4 DEF Point
  <2> QED
    BY <1>3, <1>8, <2>2, <2>5
<1> QED
  BY <1>4, <1>5, <1>7, <1>8

\* A step about the record in hand that is VALID just when the record passes
\* on to `next`; an early return is not VALID.
Decides(step, next) ==
  /\ step.target[2] = i /\ step.status \in {"VALID", "INVALID"}
  /\ step.status = "VALID" /\ Passed(rec, pc) <=> Passed(rec, next)

(* The record after one that is not the last is a record of the pack.       *)
LEMMA NextInRange ==
  ASSUME NEW n \in Nat, NEW j \in 1..n
  PROVE  j # n => j + 1 \in 1..n
  OBVIOUS

(* One check of the record in hand keeps the invariant.                     *)
LEMMA JudgeStep ==
  ASSUME IInv, pc \in Points,
         NEW step, NEW next, next \in {"afterHash", "key", "signature", "nextRecord"},
         Judge(step, next), Decides(step, next)
  PROVE  IInv'
<1>1. /\ steps' = steps \cup {step}
      /\ next # "nextRecord" => pc' = next /\ i' = i
      /\ next = "nextRecord" => i' = i + 1 /\ pc' = IF i = Len(records) THEN "rollup" ELSE "canonical"
      /\ UNCHANGED <<directory, envelope, sealed, records, altered, status>>
  BY DEF Judge
<1>2. /\ i \in 1..Len(records) /\ Len(records) \in Nat /\ DOMAIN records = 1..Len(records)
      /\ status = "pending" /\ pc \notin {"transit", "done"} /\ i # 0
  BY Extents
<1>3. Types' /\ Origin'
  BY <1>1 DEF IInv, Types, Origin
<1>4. pc' \in {"rollup"} \cup Points /\ i' \in 1..(Len(records) + 1)
  <2>1. next = "nextRecord" => pc' \in {"rollup"} \cup Points
    BY <1>1 DEF Points
  <2>2. next # "nextRecord" => pc' \in Points
    BY <1>1 DEF Points
  <2>3. i' = i \/ i' = i + 1
    BY <1>1
  <2>4. i' \in 1..(Len(records) + 1)
    BY <1>2, <2>3
  <2> QED
    BY <2>1, <2>2, <2>4
<1>5. Position'
  <2>1. pc' \in Points => i' \in 1..Len(records)
    <3>1. CASE next = "nextRecord"
      <4>1. i = Len(records) => pc' \notin Points
        BY <1>1, <3>1 DEF Points
      <4>2. i' = i + 1
        BY <1>1, <3>1
      <4>3. i # Len(records) => i + 1 \in 1..Len(records)
        BY <1>2, NextInRange
      <4> QED
        BY <4>1, <4>2, <4>3
    <3>2. CASE next # "nextRecord"
      BY <1>1, <1>2, <3>2
    <3> QED
      BY <3>1, <3>2
  <2>2. pc' = "rollup" => i' = Len(records) + 1
    <3>1. CASE next = "nextRecord"
      BY <1>1, <3>1
    <3>2. CASE next # "nextRecord"
      BY <1>1, <3>2
    <3> QED
      BY <3>1, <3>2
  <2>3. pc' \notin {"transit", "done", "panicked"}
    BY <1>4 DEF Points
  <2>4. status' = "pending"
    BY <1>1, <1>2
  <2> QED
    BY <1>1, <1>4, <2>1, <2>2, <2>3, <2>4 DEF Position
<1>6. ASSUME NEW k
      PROVE  /\ k # i => Faults(k)' = Faults(k)
             /\ k = i => (Faults(k)' = {} <=> Faults(k) = {} /\ step.status = "VALID")
  <2>1. Faults(k)' = Faults(k) \cup {s \in {step} : s.status = "INVALID" /\ s.target[2] = k}
    BY <1>1 DEF Faults
  <2>2. step.target[2] = i /\ (step.status = "INVALID" <=> step.status # "VALID")
    BY DEF Decides
  <2> QED
    BY <2>1, <2>2
<1>8. Header'
  <2>1. \A s \in steps' : s.status \in {"VALID", "INVALID"} /\ s.target[2] \in 0..Len(records)
    <3>1. \A s \in steps : s.status \in {"VALID", "INVALID"} /\ s.target[2] \in 0..Len(records)
      BY DEF IInv, Header
    <3>2. i \in 0..Len(records)
      BY <1>2
    <3>3. step.status \in {"VALID", "INVALID"} /\ step.target[2] \in 0..Len(records)
      BY <3>2 DEF Decides
    <3> QED
      BY <1>1, <3>1, <3>3
  <2>2. steps' # {}
    BY <1>1
  <2>3. Faults(0)' = Faults(0)
    BY <1>2, <1>6
  <2> QED
    BY <1>1, <1>2, <2>1, <2>2, <2>3 DEF IInv, Header
<1>9. ASSUME NEW k \in DOMAIN records PROVE Faults(k)' = {} <=> Passed(records[k], Point(k))'
  <2>1. Passed(records[k], Point(k))' <=> Passed(records[k], Point(k)')
    BY <1>1 DEF Passed, Signed
  <2>2. Faults(k) = {} <=> Passed(records[k], Point(k))
    BY DEF IInv, BlameSoFar
  <2>3. Point(i) = pc /\ Point(k)' = IF k = i THEN next ELSE Point(k)
    BY PointMoves
  <2>4. CASE k = i
    <3>1. Passed(records[k], next) <=> step.status = "VALID" /\ Passed(records[k], pc)
      BY <2>4 DEF Decides, rec
    <3> QED
      BY <1>6, <2>1, <2>2, <2>3, <2>4, <3>1
  <2>5. CASE k # i
    BY <1>6, <2>1, <2>2, <2>3, <2>5
  <2> QED
    BY <2>4, <2>5
<1>10. BlameSoFar'
  BY <1>1, <1>9 DEF BlameSoFar
<1> QED
  BY <1>3, <1>5, <1>8, <1>10 DEF IInv

(* The shipped text: a record passes on when it is the payload's own.       *)
LEMMA CanonicalStep ==
  ASSUME IInv, CanonicalMatches \/ CanonicalDiffers
  PROVE  IInv'
<1>1. pc = "canonical" /\ pc \in Points
  BY DEF CanonicalMatches, CanonicalDiffers, Points
<1>2. /\ Passed(rec, pc)
      /\ Passed(rec, "afterHash") <=> rec.canonical = Canon(rec.payload)
  BY <1>1 DEF Passed
<1>3. CASE CanonicalMatches
  <2> DEFINE step == Ok("payloadCanonical", i)
  <2>1. Judge(step, "afterHash") /\ rec.canonical = Canon(rec.payload)
    BY <1>3 DEF CanonicalMatches
  <2>2. step.target[2] = i /\ step.status = "VALID"
    BY StepFields
  <2> HIDE DEF step
  <2>3. Decides(step, "afterHash")
    BY <1>2, <2>1, <2>2 DEF Decides
  <2> QED
    BY <1>1, <2>1, <2>3, JudgeStep
<1>4. CASE CanonicalDiffers
  <2> DEFINE step == Fault("payloadCanonical", i, "PAYLOAD_CANONICAL_MISMATCH")
  <2>1. Judge(step, "afterHash") /\ rec.canonical # Canon(rec.payload)
    BY <1>4 DEF CanonicalDiffers
  <2>2. step.target[2] = i /\ step.status = "INVALID"
    BY StepFields
  <2> HIDE DEF step
  <2>3. Decides(step, "afterHash")
    BY <1>2, <2>1, <2>2 DEF Decides
  <2> QED
    BY <1>1, <2>1, <2>3, JudgeStep
<1> QED
  BY <1>3, <1>4

LEMMA AfterHashStep ==
  ASSUME IInv, CheckAfterHash
  PROVE  IInv'
<1> DEFINE step == IF rec.afterHash = Sha256(HashedText) THEN Ok("afterHash", i)
                   ELSE Fault("afterHash", i, "AFTER_HASH_MISMATCH")
<1>1. pc = "afterHash" /\ pc \in Points /\ Judge(step, "key")
  BY DEF CheckAfterHash, Points
<1>2. /\ step.target[2] = i /\ step.status \in {"VALID", "INVALID"}
      /\ step.status = "VALID" <=> rec.afterHash = Sha256(Canon(rec.payload))
  BY StepFields DEF HashedText
<1> HIDE DEF step
<1>3. Passed(rec, "key") <=> Passed(rec, pc) /\ rec.afterHash = Sha256(Canon(rec.payload))
  BY <1>1 DEF Passed
<1>4. Decides(step, "key")
  BY <1>2, <1>3 DEF Decides
<1> QED
  BY <1>1, <1>4, JudgeStep

(* The key: a miss ends the record with a fault.                            *)
LEMMA KeyStep ==
  ASSUME IInv, CheckKey
  PROVE  IInv'
<1> DEFINE found == Lookup(directory, rec.keyId, rec.payload.issued)
<1>1. pc = "key" /\ pc \in Points
  BY DEF CheckKey, Points
<1>2. CASE found = "hit"
  <2> DEFINE step == Ok("keyId", i)
  <2>1. Judge(step, "signature")
    BY <1>2 DEF CheckKey
  <2>2. step.target[2] = i /\ step.status = "VALID"
    BY StepFields
  <2> HIDE DEF step
  <2>3. Passed(rec, "signature") <=> Passed(rec, pc)
    BY <1>1, <1>2 DEF Passed
  <2>4. Decides(step, "signature")
    BY <2>2, <2>3 DEF Decides
  <2> QED
    BY <1>1, <2>1, <2>4, JudgeStep
<1>3. CASE found # "hit"
  <2> DEFINE step == Fault("keyId", i, found)
  <2>1. Judge(step, "nextRecord")
    BY <1>3 DEF CheckKey
  <2>2. step.target[2] = i /\ step.status = "INVALID"
    BY StepFields
  <2> HIDE DEF step
  <2>3. ~Passed(rec, "nextRecord")
    BY <1>3 DEF Passed
  <2>4. Decides(step, "nextRecord")
    BY <2>2, <2>3 DEF Decides
  <2> QED
    BY <1>1, <2>1, <2>4, JudgeStep
<1> QED
  BY <1>2, <1>3

(* The signature, the last check of a record.                               *)
LEMMA SignatureStep ==
  ASSUME IInv, CheckSignature
  PROVE  IInv'
<1>1. pc = "signature" /\ pc \in Points
  BY DEF CheckSignature, Points
<1>2. Passed(rec, "nextRecord") <=> Passed(rec, pc) /\ ~Unusable /\ Verifies
  BY <1>1 DEF Passed, Signed, Unusable, Verifies
<1>3. \E step : /\ Judge(step, "nextRecord")
                /\ step.target[2] = i /\ step.status \in {"VALID", "INVALID"}
                /\ step.status = "VALID" <=> ~Unusable /\ Verifies
  <2>1. CASE Unusable
    BY <2>1, StepFields DEF CheckSignature
  <2>2. CASE ~Unusable /\ Verifies
    BY <2>2, StepFields DEF CheckSignature
  <2>3. CASE ~Unusable /\ ~Verifies
    BY <2>3, StepFields DEF CheckSignature
  <2> QED
    BY <2>1, <2>2, <2>3
<1>4. PICK step : /\ Judge(step, "nextRecord")
                  /\ step.target[2] = i /\ step.status \in {"VALID", "INVALID"}
                  /\ step.status = "VALID" <=> ~Unusable /\ Verifies
  BY <1>3
<1>5. Decides(step, "nextRecord")
  BY <1>2, <1>4 DEF Decides
<1> QED
  BY <1>1, <1>4, <1>5, JudgeStep

(* The ends of the walk: a panic in the record in hand, or the verdict.     *)
LEMMA EndStep ==
  ASSUME IInv, CanonicalPanics \/ RollUp
  PROVE  IInv'
<1>1. /\ UNCHANGED <<directory, envelope, sealed, records, altered, i, steps>>
      /\ \/ pc = "canonical" /\ pc' = "panicked" /\ status' = status
         \/ pc = "rollup" /\ pc' = "done" /\ status' = RollupStatus(steps)
  BY DEF CanonicalPanics, RollUp
<1>2. Types' /\ Origin'
  BY <1>1 DEF IInv, Types, Origin
<1>3. Position'
  BY <1>1 DEF IInv, Position, Points, RollupStatus
<1>4. Header'
  BY <1>1 DEF IInv, Header, Faults
<1>5. BlameSoFar'
  <2>1. ASSUME NEW k \in DOMAIN records PROVE Point(k)' = Point(k) /\ Faults(k)' = Faults(k)
    BY <1>1 DEF Point, Points, Faults
  <2>2. ASSUME NEW k \in DOMAIN records
        PROVE  Passed(records[k], Point(k))' <=> Passed(records[k], Point(k))
    BY <1>1, <2>1 DEF Passed, Signed
  <2> QED
    BY <1>1, <2>1, <2>2 DEF IInv, BlameSoFar
<1> QED
  BY <1>2, <1>3, <1>4, <1>5 DEF IInv

LEMMA StutterStep ==
  ASSUME IInv, UNCHANGED vars
  PROVE  IInv'
<1>1. UNCHANGED <<directory, envelope, sealed, records, altered, pc, i, steps, status>>
  BY DEF vars
<1>2. Types' /\ Origin' /\ Position' /\ Header'
  BY <1>1 DEF IInv, Types, Origin, Position, Header, Faults, RollupStatus
<1>3. BlameSoFar'
  BY <1>1 DEF IInv, BlameSoFar, Faults, Passed, Signed, Point
<1> QED
  BY <1>2, <1>3 DEF IInv

(* A step of the verifier, whatever pack it is given.                       *)
LEMMA WalkStep == IInv /\ Walk => IInv'
<1>1. ASSUME IInv, OpenPack PROVE IInv'
  BY <1>1, OpenStep
<1>2. ASSUME IInv, CanonicalMatches \/ CanonicalDiffers PROVE IInv'
  BY <1>2, CanonicalStep
<1>3. ASSUME IInv, CheckAfterHash PROVE IInv'
  BY <1>3, AfterHashStep
<1>4. ASSUME IInv, CheckKey PROVE IInv'
  BY <1>4, KeyStep
<1>5. ASSUME IInv, CheckSignature PROVE IInv'
  BY <1>5, SignatureStep
<1>6. ASSUME IInv, CanonicalPanics \/ RollUp PROVE IInv'
  BY <1>6, EndStep
<1> QED
  BY <1>1, <1>2, <1>3, <1>4, <1>5, <1>6 DEF Walk

LEMMA InductiveStep == IInv /\ [Next]_vars => IInv'
<1>1. ASSUME IInv, NEW k \in DOMAIN records, NEW field \in Fields,
             NEW value \in Replacements(k, field), Alter(k, field, value)
      PROVE  IInv'
  BY <1>1, AlterStep
<1>2. ASSUME IInv, Returned \/ UNCHANGED vars PROVE IInv'
  BY <1>2, StutterStep DEF Returned
<1> QED
  BY <1>1, <1>2, WalkStep DEF Next

------------------------------------------------------------------------------
(* Which fields the faults name.                                            *)

\* The fields record r has to be accused in when it is at a check.
Due(r, point) ==
  {f \in {"payloadCanonical", "afterHash", "keyId", "signature"} :
     \/ f = "payloadCanonical" /\ point # "canonical" /\ r.canonical # Canon(r.payload)
     \/ f = "afterHash" /\ point \notin {"canonical", "afterHash"}
          /\ r.afterHash # Sha256(Canon(r.payload))
     \/ f = "keyId" /\ point = "nextRecord"
          /\ Lookup(directory, r.keyId, r.payload.issued) # "hit"
     \/ f = "signature" /\ point = "nextRecord"
          /\ Lookup(directory, r.keyId, r.payload.issued) = "hit" /\ ~Signed(r)}

\* The report names them, and a signature is checked under a key in force.
NamedSoFar ==
  /\ pc = "signature" => Lookup(directory, rec.keyId, rec.payload.issued) = "hit"
  /\ \A k \in DOMAIN records : FaultyFields(k) = Due(records[k], Point(k))

LEMMA NothingDue ==
  ASSUME NEW r
  PROVE  Due(r, "canonical") = {}
  BY DEF Due

\* A step about the record in hand that is INVALID just when its field is due
\* at `next`, and there alone.
Names(step, next) ==
  /\ step.target[2] = i
  /\ Due(rec, next) = Due(rec, pc) \cup {f \in {step.target[1]} : step.status = "INVALID"}
  /\ next = "signature" => Lookup(directory, rec.keyId, rec.payload.issued) = "hit"

(* One check of the record in hand names what it has to.                    *)
LEMMA NamedStep ==
  ASSUME IInv, NamedSoFar, pc \in Points,
         NEW step, NEW next, next \in {"afterHash", "key", "signature", "nextRecord"},
         Judge(step, next), Names(step, next)
  PROVE  NamedSoFar'
<1>1. /\ steps' = steps \cup {step}
      /\ UNCHANGED <<directory, envelope, sealed, records, altered, status>>
      /\ pc' = "signature" => next = "signature" /\ i' = i
  BY DEF Judge
<1>2. i \in DOMAIN records
  BY Extents
<1>3. pc' = "signature" => Lookup(directory, rec.keyId, rec.payload.issued)' = "hit"
  <2>1. SUFFICES ASSUME pc' = "signature"
                 PROVE  Lookup(directory, rec.keyId, rec.payload.issued)' = "hit"
    OBVIOUS
  <2>2. rec' = rec /\ directory' = directory
    BY <1>1, <2>1 DEF rec
  <2>3. Lookup(directory, rec.keyId, rec.payload.issued) = "hit"
    BY <1>1, <2>1 DEF Names
  <2> QED
    BY <2>2, <2>3 DEF Lookup, OutsideWindow, Past
<1>4. ASSUME NEW k \in DOMAIN records
      PROVE  FaultyFields(k)' = Due(records[k], Point(k))'
  <2>1. Due(records[k], Point(k))' = Due(records[k], Point(k)')
    BY <1>1 DEF Due, Signed
  <2>2. FaultyFields(k) = Due(records[k], Point(k))
    BY DEF NamedSoFar
  <2>3. Point(i) = pc /\ Point(k)' = IF k = i THEN next ELSE Point(k)
    BY PointMoves
  <2>4. Faults(k)' = Faults(k) \cup {s \in {step} : s.status = "INVALID" /\ k = i}
    BY <1>1 DEF Faults, Names
  <2>5. FaultyFields(k)' = FaultyFields(k)
                             \cup {f \in {step.target[1]} : step.status = "INVALID" /\ k = i}
    BY <2>4 DEF FaultyFields
  <2>6. CASE k = i
    <3>1. Due(records[k], next) = Due(records[k], pc)
                                    \cup {f \in {step.target[1]} : step.status = "INVALID"}
      BY <2>6 DEF Names, rec
    <3> QED
      BY <2>1, <2>2, <2>3, <2>5, <2>6, <3>1
  <2>7. CASE k # i
    BY <2>1, <2>2, <2>3, <2>5, <2>7
  <2> QED
    BY <2>6, <2>7
<1> QED
  BY <1>1, <1>3, <1>4 DEF NamedSoFar

LEMMA NamedInit == Init => NamedSoFar
<1>1. SUFFICES ASSUME Init PROVE NamedSoFar
  OBVIOUS
<1>2. IInv /\ pc = "transit" /\ steps = {}
  BY <1>1, InitIInv DEF Init
<1>3. i = 1 /\ DOMAIN records = 1..Len(records)
  BY <1>2 DEF IInv, Position, Types
<1>4. ASSUME NEW k \in DOMAIN records PROVE FaultyFields(k) = {} /\ Point(k) = "canonical"
  BY <1>2, <1>3 DEF FaultyFields, Faults, Point, Points
<1> QED
  BY <1>2, <1>4, NothingDue DEF NamedSoFar

(* No record is judged in transit, nor by the steps of the pack.            *)
LEMMA NamedBefore ==
  ASSUME IInv, IInv', pc = "transit",
         \/ OpenPack
         \/ \E k \in DOMAIN records, field \in Fields :
              \E value \in Replacements(k, field) : Alter(k, field, value)
  PROVE  NamedSoFar'
<1>1. /\ steps = {} /\ i' = 1 /\ pc' \in {"transit", "rollup", "canonical"}
      /\ steps' = steps \/ OpenPack
  BY DEF IInv, Position, OpenPack, Alter
<1>2. \A s \in steps' : s.target[2] = 0
  BY <1>1, StepFields DEF OpenPack
<1>3. DOMAIN records' = 1..Len(records') /\ Len(records') \in Nat
  BY DEF IInv, Types
<1>4. ASSUME NEW k \in DOMAIN records' PROVE FaultyFields(k)' = {} /\ Point(k)' = "canonical"
  BY <1>1, <1>2, <1>3 DEF FaultyFields, Faults, Point, Points
<1>5. ASSUME NEW k \in DOMAIN records' PROVE FaultyFields(k)' = Due(records[k], Point(k))'
  BY <1>4 DEF Due
<1> QED
  BY <1>1, <1>5 DEF NamedSoFar

(* The four checks, each by its field.                                      *)
LEMMA NamedChecks ==
  ASSUME IInv, NamedSoFar,
         CanonicalMatches \/ CanonicalDiffers \/ CheckAfterHash \/ CheckKey \/ CheckSignature
  PROVE  NamedSoFar'
<1>1. CASE CanonicalMatches \/ CanonicalDiffers
  <2> DEFINE field == "payloadCanonical"
  <2>1. PICK step : /\ Judge(step, "afterHash") /\ step.target = <<field, i>>
                    /\ step.status = "INVALID" <=> rec.canonical # Canon(rec.payload)
    BY <1>1 DEF CanonicalMatches, CanonicalDiffers, Ok, Fault, Step
  <2>2. pc = "canonical" /\ pc \in Points
    BY <1>1 DEF CanonicalMatches, CanonicalDiffers, Points
  <2>3. Names(step, "afterHash")
    BY <2>1, <2>2 DEF Names, Due
  <2> QED
    BY <2>1, <2>2, <2>3, NamedStep
<1>2. CASE CheckAfterHash
  <2>1. PICK step : /\ Judge(step, "key") /\ step.target = <<"afterHash", i>>
                    /\ step.status = "INVALID" <=> rec.afterHash # Sha256(Canon(rec.payload))
    BY <1>2 DEF CheckAfterHash, HashedText, Ok, Fault, Step
  <2>2. pc = "afterHash" /\ pc \in Points
    BY <1>2 DEF CheckAfterHash, Points
  <2>3. Names(step, "key")
    BY <2>1, <2>2 DEF Names, Due
  <2> QED
    BY <2>1, <2>2, <2>3, NamedStep
<1>3. CASE CheckKey
  <2> DEFINE found == Lookup(directory, rec.keyId, rec.payload.issued)
  <2>1. pc = "key" /\ pc \in Points
    BY <1>3 DEF CheckKey, Points
  <2>2. CASE found = "hit"
    <3>1. PICK step : Judge(step, "signature") /\ step.target = <<"keyId", i>> /\ step.status = "VALID"
      BY <1>3, <2>2 DEF CheckKey, Ok, Step
    <3>2. Names(step, "signature")
      BY <2>1, <2>2, <3>1 DEF Names, Due
    <3> QED
      BY <2>1, <3>1, <3>2, NamedStep
  <2>3. CASE found # "hit"
    <3>1. PICK step : Judge(step, "nextRecord") /\ step.target = <<"keyId", i>> /\ step.status = "INVALID"
      BY <1>3, <2>3 DEF CheckKey, Fault, Step
    <3>2. Names(step, "nextRecord")
      BY <2>1, <2>3, <3>1 DEF Names, Due
    <3> QED
      BY <2>1, <3>1, <3>2, NamedStep
  <2> QED
    BY <2>2, <2>3
<1>4. CASE CheckSignature
  <2>1. pc = "signature" /\ pc \in Points
    BY <1>4 DEF CheckSignature, Points
  <2>2. \E step : /\ Judge(step, "nextRecord") /\ step.target = <<"signature", i>>
                  /\ step.status = "INVALID" <=> ~(~Unusable /\ Verifies)
    <3>1. CASE Unusable
      BY <1>4, <3>1 DEF CheckSignature, Ok, Fault, Step
    <3>2. CASE ~Unusable /\ Verifies
      BY <1>4, <3>2 DEF CheckSignature, Ok, Fault, Step
    <3>3. CASE ~Unusable /\ ~Verifies
      BY <1>4, <3>3 DEF CheckSignature, Ok, Fault, Step
    <3> QED
      BY <3>1, <3>2, <3>3
  <2>3. PICK step : /\ Judge(step, "nextRecord") /\ step.target = <<"signature", i>>
                    /\ step.status = "INVALID" <=> ~(~Unusable /\ Verifies)
    BY <2>2
  <2>4. Signed(rec) <=> ~Unusable /\ Verifies
    BY DEF Signed, Unusable, Verifies
  <2>5. Lookup(directory, rec.keyId, rec.payload.issued) = "hit"
    BY <2>1 DEF NamedSoFar
  <2>6. Names(step, "nextRecord")
    BY <2>1, <2>3, <2>4, <2>5 DEF Names, Due
  <2> QED
    BY <2>1, <2>3, <2>6, NamedStep
<1> QED
  BY <1>1, <1>2, <1>3, <1>4

LEMMA NamedAfter ==
  ASSUME NamedSoFar, CanonicalPanics \/ RollUp \/ Returned \/ UNCHANGED vars
  PROVE  NamedSoFar'
<1>1. /\ UNCHANGED <<directory, records, i, steps>>
      /\ pc' = pc \/ (pc = "canonical" /\ pc' = "panicked") \/ (pc = "rollup" /\ pc' = "done")
  BY DEF CanonicalPanics, RollUp, Returned, vars
<1>2. ASSUME NEW k \in DOMAIN records PROVE Point(k)' = Point(k) /\ FaultyFields(k)' = FaultyFields(k)
  BY <1>1 DEF Point, Points, Faults, FaultyFields
<1>3. ASSUME NEW k \in DOMAIN records PROVE FaultyFields(k)' = Due(records[k], Point(k))'
  <2>1. Due(records[k], Point(k))' = Due(records[k], Point(k))
    BY <1>1, <1>2 DEF Due, Signed
  <2> QED
    BY <1>2, <2>1 DEF NamedSoFar
<1>4. pc' = "signature" => Lookup(directory, rec.keyId, rec.payload.issued)' = "hit"
  BY <1>1 DEF NamedSoFar, rec, Lookup, OutsideWindow, Past
<1> QED
  BY <1>1, <1>3, <1>4 DEF NamedSoFar

LEMMA NamedInductive == IInv /\ NamedSoFar /\ [Next]_vars => NamedSoFar'
<1>1. SUFFICES ASSUME IInv, NamedSoFar, [Next]_vars PROVE NamedSoFar'
  OBVIOUS
<1>2. IInv'
  BY <1>1, InductiveStep
<1>3. CASE \/ OpenPack
           \/ \E k \in DOMAIN records, field \in Fields :
                \E value \in Replacements(k, field) : Alter(k, field, value)
  <2>1. pc = "transit"
    BY <1>3 DEF OpenPack, Alter
  <2> QED
    BY <1>1, <1>2, <1>3, <2>1, NamedBefore
<1>4. CASE CanonicalMatches \/ CanonicalDiffers \/ CheckAfterHash \/ CheckKey \/ CheckSignature
  BY <1>1, <1>4, NamedChecks
<1>5. CASE CanonicalPanics \/ RollUp \/ Returned \/ UNCHANGED vars
  BY <1>1, <1>5, NamedAfter
<1> QED
  BY <1>1, <1>3, <1>4, <1>5 DEF Next, Walk

LEMMA FieldsNamed == Spec => [](IInv /\ NamedSoFar)
<1>1. Init => IInv /\ NamedSoFar
  BY InitIInv, NamedInit
<1>2. (IInv /\ NamedSoFar) /\ [Next]_vars => (IInv /\ NamedSoFar)'
  BY InductiveStep, NamedInductive
<1> QED
  BY <1>1, <1>2, PTL DEF Spec

(* What changed of a record, field by field.                                *)
LEMMA OnlyChange ==
  ASSUME NEW r, NEW s, NEW g \in Fields, {f \in Fields : r[f] # s[f]} = {g}
  PROVE  /\ r[g] # s[g]
         /\ \A f \in Fields : f # g => r[f] = s[f]
  OBVIOUS

(* A signature of the platform's under its own key is not of a bad kind.    *)
LEMMA SealedVerifies ==
  ASSUME Types, NEW p \in Payload, NEW id \in KeyId,
         directory[id].material = Signer[id]
  PROVE  /\ directory[id].material \notin BadMaterial
         /\ directory[id].material # Foreign
         /\ SignatureBy(Signer[id], p, id) \notin BadSignatures
  BY ReceiptAssumption, KeyAssumption, SignatureWellFormed

\* What a record altered in field g alone is accused in.
Accuses(due, g) ==
  /\ g = "canonical" => due = {"payloadCanonical"}
  /\ g = "afterHash" => due = {"afterHash"}
  /\ g = "signature" => due = {"signature"}
  /\ g = "keyId" => due \in {{"keyId"}, {"signature"}}
  /\ g = "payload" => {"payloadCanonical", "afterHash"} \subseteq due

(* The checks find that field, and no other that it does not drag along.    *)
LEMMA OneFieldAltered ==
  ASSUME IInv, NEW k \in DOMAIN records, Verifiable(sealed[k]), NEW g \in Fields,
         {f \in Fields : Plain(records[k])[f] # sealed[k][f]} = {g}
  PROVE  Accuses(Due(records[k], "nextRecord"), g)
<1> DEFINE r == records[k]
           s == sealed[k]
           due == Due(r, "nextRecord")
<1> SUFFICES Accuses(due, g)
  OBVIOUS
<1>1. Types /\ k \in DOMAIN sealed
  BY DEF IInv, Types
<1>2. PICK p \in Payload, id \in KeyId : s = Seal(p, id)
  BY <1>1 DEF IInv, Origin
<1>3. /\ s.payload = p /\ s.keyId = id /\ s.canonical = Canon(p)
      /\ s.afterHash = Sha256(Canon(p)) /\ s.signature = SignatureBy(Signer[id], p, id)
  BY <1>2, SealedRecord
<1>4. Lookup(directory, id, p.issued) = "hit" /\ directory[id].material = Signer[id]
  BY <1>3 DEF Verifiable
<1>5. /\ directory[id].material \notin BadMaterial /\ directory[id].material # Foreign
      /\ SignatureBy(Signer[id], p, id) \notin BadSignatures
  BY <1>1, <1>4, SealedVerifies
<1>6. Plain(r)[g] # s[g] /\ \A f \in Fields : f # g => Plain(r)[f] = s[f]
  BY OnlyChange
<1>7. /\ Plain(r).payload = r.payload /\ Plain(r).keyId = r.keyId
      /\ Plain(r).canonical = r.canonical /\ Plain(r).afterHash = r.afterHash
      /\ Plain(r).signature = Decoded(r.signature)
  <2>1. r \in Record
    BY <1>1 DEF Types
  <2> HIDE DEF r
  <2> QED
    BY <2>1, PlainParts
<1> HIDE DEF r, s, due
<1>8. /\ g # "payload" => r.payload = p /\ (g # "keyId" => r.keyId = id)
      /\ g # "canonical" => r.canonical = Canon(p)
      /\ g # "afterHash" => r.afterHash = Sha256(Canon(p))
      /\ g # "signature" => Decoded(r.signature) = SignatureBy(Signer[id], p, id)
  BY <1>3, <1>6, <1>7 DEF Fields
<1>9. g \notin {"payload", "keyId", "signature"} => Signed(r)
  BY <1>4, <1>5, <1>8 DEF Signed
<1>10. /\ due \subseteq {"payloadCanonical", "afterHash", "keyId", "signature"}
       /\ "payloadCanonical" \in due <=> r.canonical # Canon(r.payload)
       /\ "afterHash" \in due <=> r.afterHash # Sha256(Canon(r.payload))
       /\ "keyId" \in due <=> Lookup(directory, r.keyId, r.payload.issued) # "hit"
       /\ "signature" \in due <=>
            Lookup(directory, r.keyId, r.payload.issued) = "hit" /\ ~Signed(r)
  BY DEF Due, due
<1>11. CASE g = "canonical"
  <2>1. r.canonical # Canon(r.payload)
    BY <1>3, <1>6, <1>7, <1>8, <1>11
  <2> QED
    BY <1>4, <1>8, <1>9, <1>11, <1>10, <2>1 DEF Accuses
<1>12. CASE g = "afterHash"
  <2>1. r.afterHash # Sha256(Canon(r.payload))
    BY <1>3, <1>6, <1>7, <1>8, <1>12
  <2> QED
    BY <1>4, <1>8, <1>9, <1>12, <1>10, <2>1 DEF Accuses
<1>13. CASE g = "signature"
  <2>1. r.payload = p /\ r.keyId = id
        /\ Decoded(r.signature) # SignatureBy(Signer[id], p, id)
    BY <1>3, <1>6, <1>7, <1>8, <1>13
  <2>2. ~Signed(r)
    BY <1>4, <2>1 DEF Signed
  <2> QED
    BY <1>4, <1>8, <1>13, <1>10, <2>1, <2>2 DEF Accuses
<1>14. CASE g = "keyId"
  <2>1. r.payload = p /\ r.keyId # id
        /\ Decoded(r.signature) = SignatureBy(Signer[id], p, id)
    BY <1>3, <1>6, <1>7, <1>8, <1>14
  <2>2. ~Signed(r)
    <3>1. SUFFICES ASSUME Signed(r) PROVE FALSE
      OBVIOUS
    <3>2. SignatureBy(Signer[id], p, id) = SignatureBy(directory[r.keyId].material, p, r.keyId)
      BY <2>1, <3>1 DEF Signed
    <3> QED
      BY <2>1, <3>2, SignatureParts
  <2> QED
    BY <1>8, <1>14, <1>10, <2>1, <2>2 DEF Accuses
<1>15. CASE g = "payload"
  <2>1. r.payload # p /\ r.canonical = Canon(p) /\ r.afterHash = Sha256(Canon(p))
    BY <1>3, <1>6, <1>7, <1>8, <1>15
  <2>2. r.canonical # Canon(r.payload)
    BY <2>1 DEF Canon
  <2>3. r.afterHash # Sha256(Canon(r.payload))
    BY <2>1, <2>2 DEF Sha256
  <2> QED
    BY <1>15, <1>10, <2>2, <2>3 DEF Accuses
<1>16. g \in {"canonical", "afterHash", "signature", "keyId", "payload"}
  BY DEF Fields
<1> QED
  BY <1>11, <1>12, <1>13, <1>14, <1>15, <1>16

------------------------------------------------------------------------------
(* In every reachable state the report has exactly the faults that the      *)
(* checks made so far have to find.                                        *)
THEOREM Inductive == Spec => []IInv
  BY InitIInv, InductiveStep, PTL DEF Spec

(* A report is VALID or INVALID, never SKIPPED, and is the one verdict on    *)
(* its steps.                                                              *)
LEMMA VerdictIsFaults ==
  ASSUME IInv, pc = "done"
  PROVE  /\ status \in {"VALID", "INVALID"}
         /\ status = "VALID" <=> ~\E s \in steps : s.status = "INVALID"
<1>1. status = RollupStatus(steps) /\ steps # {}
      /\ \A s \in steps : s.status \in {"VALID", "INVALID"}
  BY DEF IInv, Position, Header
<1>2. ~({s.status : s \in steps} \subseteq {"SKIPPED"})
  BY <1>1
<1>3. "INVALID" \in {s.status : s \in steps} <=> \E s \in steps : s.status = "INVALID"
  OBVIOUS
<1> HIDE DEF IInv
<1>4. RollupStatus(steps) = IF \E s \in steps : s.status = "INVALID" THEN "INVALID" ELSE "VALID"
  BY <1>2, <1>3 DEF RollupStatus, Rollup
<1> QED
  BY <1>1, <1>4

LEMMA IInvTypes == IInv => TypeOK
<1>1. SUFFICES ASSUME IInv PROVE TypeOK
  OBVIOUS
<1>2. status \in {"pending", "VALID", "INVALID"}
  BY <1>1, VerdictIsFaults DEF IInv, Position
<1>3. Len(records) <= Len(sealed)
  BY <1>1 DEF IInv, Types
<1>4. \A s \in steps : s.status \in Statuses
  BY <1>1 DEF IInv, Header, Statuses
<1> QED
  BY <1>1, <1>2, <1>3, <1>4 DEF IInv, Types, Position, Points, TypeOK

(* The pack audit keeps every variable in its domain.                       *)
THEOREM TypeCorrect == Spec => []TypeOK
  BY IInvTypes, Inductive, PTL

(* When the audit is done every record is at its end.                      *)
LEMMA AtEnd ==
  ASSUME IInv, status # "pending", NEW k \in DOMAIN records
  PROVE  Point(k) = "nextRecord"
<1>1. DOMAIN records = 1..Len(records) /\ Len(records) \in Nat
  BY DEF IInv, Types
<1>2. i = Len(records) + 1
  BY DEF IInv, Position
<1>3. k < i
  BY <1>1, <1>2
<1> QED
  BY <1>3 DEF Point

(* It is free of faults then exactly when it is genuine.                    *)
LEMMA DoneBlame ==
  ASSUME IInv, status # "pending", NEW k \in DOMAIN records
  PROVE  Faults(k) = {} <=> Genuine(records[k])
  BY AtEnd, PassedMeansGenuine DEF IInv, BlameSoFar

(* verify_proof_pack accuses exactly the receipts that are not genuine,     *)
(* whichever fields of a pack of any length were altered, and by what; a    *)
(* signature with "=" after it is the same signature.                       *)
THEOREM BlameFallsExactly == Spec => []BlameIsExact
<1>1. IInv => BlameIsExact
  BY DoneBlame DEF IInv, Position, BlameIsExact
<1> QED
  BY <1>1, Inductive, PTL

(* What the verdict on a pack is, in terms of its receipts.                 *)
LEMMA VerdictIs ==
  ASSUME IInv, status # "pending"
  PROVE  /\ status \in {"VALID", "INVALID"}
         /\ status = "VALID" <=> /\ envelope = "envelope.v1" /\ records # << >>
                                 /\ \A k \in DOMAIN records : Genuine(records[k])
<1>1. pc = "done"
  BY DEF IInv, Position
<1>2. Faults(0) = {} <=> envelope = "envelope.v1" /\ records # << >>
  BY <1>1 DEF IInv, Header
<1>3. 0..Len(records) = {0} \cup DOMAIN records
  BY DEF IInv, Types
<1>4. \A s \in steps : s.target[2] \in {0} \cup DOMAIN records
  BY <1>3 DEF IInv, Header
<1>5. (~\E s \in steps : s.status = "INVALID") <=>
        Faults(0) = {} /\ \A k \in DOMAIN records : Faults(k) = {}
  BY <1>4 DEF Faults
<1>6. \A k \in DOMAIN records : Faults(k) = {} <=> Genuine(records[k])
  BY DoneBlame
<1> QED
  BY <1>1, <1>2, <1>5, <1>6, VerdictIsFaults

(* A pack of any length is reported VALID exactly when it is in a supported *)
(* envelope and made of receipts the platform issued under keys in force,   *)
(* however their signatures are padded.                                     *)
THEOREM ValidPacksAreGenuine == Spec => []ValidIffGenuine
<1>1. IInv => ValidIffGenuine
  BY VerdictIs DEF ValidIffGenuine
<1> QED
  BY <1>1, Inductive, PTL

(* A receipt with one field altered is accused in that field and in no      *)
(* other that it does not drag along, in a pack of any length; "=" after    *)
(* the signature is no alteration.                                          *)
THEOREM FaultsNameTheField == Spec => []DiagnosisPinpoints
<1>1. IInv /\ NamedSoFar => DiagnosisPinpoints
  <2>1. SUFFICES ASSUME IInv, NamedSoFar, status # "pending", NEW k \in DOMAIN records,
                        Verifiable(sealed[k])
                 PROVE  LET changed == {f \in Fields : Plain(records[k])[f] # sealed[k][f]} IN
                        /\ changed = {"canonical"} => FaultyFields(k) = {"payloadCanonical"}
                        /\ changed = {"afterHash"} => FaultyFields(k) = {"afterHash"}
                        /\ changed = {"signature"} => FaultyFields(k) = {"signature"}
                        /\ changed = {"keyId"} => FaultyFields(k) \in {{"keyId"}, {"signature"}}
                        /\ changed = {"payload"} =>
                             {"payloadCanonical", "afterHash"} \subseteq FaultyFields(k)
    BY DEF DiagnosisPinpoints
  <2> DEFINE changed == {f \in Fields : Plain(records[k])[f] # sealed[k][f]}
             due == Due(records[k], "nextRecord")
  <2>2. FaultyFields(k) = due
    <3>1. Point(k) = "nextRecord"
      BY <2>1, AtEnd
    <3> QED
      BY <2>1, <3>1 DEF NamedSoFar
  <2>3. \A g \in Fields : changed = {g} => Accuses(due, g)
    BY <2>1, OneFieldAltered
  <2> HIDE DEF changed, due
  <2>4. {"canonical", "afterHash", "signature", "keyId", "payload"} \subseteq Fields
    BY DEF Fields
  <2>5. /\ changed = {"canonical"} => due = {"payloadCanonical"}
        /\ changed = {"afterHash"} => due = {"afterHash"}
        /\ changed = {"signature"} => due = {"signature"}
        /\ changed = {"keyId"} => due \in {{"keyId"}, {"signature"}}
        /\ changed = {"payload"} => {"payloadCanonical", "afterHash"} \subseteq due
    BY <2>3, <2>4 DEF Accuses
  <2> QED
    BY <2>2, <2>5 DEF changed
<1> QED
  BY <1>1, FieldsNamed, PTL
==============================================================================
