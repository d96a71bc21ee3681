------------------------ MODULE SignedEvidenceProofs -------------------------
(* What TLAPS proves of the evidence outside of a proof pack, for every      *)
(* platform, directory, set of rows, export and tenant, and any number of    *)
(* alterations.                                                             *)
(*                                                                         *)
(* For the two verifiers of SignedEvidence an invariant says of every point  *)
(* of the audit what the report accuses by then, and where the signatures of *)
(* what was shipped come from; a signature that verifies is then one of the  *)
(* platform's, as nobody else has its keys.  The chain of a tenant's rows,   *)
(* which nobody signs, comes last.                                          *)
EXTENDS SignedEvidence, TenantChain, FiniteSetTheorems, WellFoundedInduction, TLAPS

(* What the constants come to: the platform's keys are keys, none of them   *)
(* the foreign one, and neither is any the auditor may hold.               *)
LEMMA Platform ==
  /\ MaxAlterations \in Nat
  /\ \A id \in DOMAIN Signer : Signer[id] \in PublicKey /\ Signer[id] # Foreign
  /\ \A d \in Directories : \A id \in DOMAIN d : d[id].material # Foreign
  /\ PublicKey \cap BadMaterial = {}
<1>1. P!ProvenanceAssumption /\ KeyAssumption
  BY EvidenceAssumption, KeyAssumption
<1> QED
  BY <1>1 DEF P!ProvenanceAssumption

------------------------------------------------------------------------------
(* Provenance rows: what they are and where their signatures come from.     *)

\* Rows are lists of rows with all of their fields.
RowsListed ==
  /\ \E S : sealed \in Seq(S)
  /\ \E S : shipped \in Seq(S)
  /\ Len(shipped) = Len(sealed)
  /\ \A k \in DOMAIN shipped : DOMAIN shipped[k] = P!Fields

\* A row as the platform wrote it.
RowAsSealed(s) ==
  \/ /\ s.algorithm = "ed25519" /\ s.keyId \in DOMAIN Signer
     /\ s.canonical = P!Canon(s)
     /\ s.signature = P!SignatureBy(Signer[s.keyId], P!Canon(s))
  \/ /\ s.algorithm = "hmac-sha256" /\ s.canonical = P!Missing
     /\ s.signature \in P!BadSignatures

\* Whoever alters a signature has the platform's to copy, or a key of his own.
RowOrigin ==
  /\ \A j \in DOMAIN sealed : RowAsSealed(sealed[j])
  /\ \A k \in DOMAIN shipped :
       \/ shipped[k].signature \in P!BadSignatures
       \/ \E j \in DOMAIN sealed : shipped[k].signature = sealed[j].signature
       \/ \E text : shipped[k].signature = P!SignatureBy(Foreign, text)

Found(r) == P!Lookup(directory, r.keyId, r.at) = "hit"

\* The signature verifies over the shipped text, under the directory's key.
Verified(r) ==
  /\ r.signature \notin P!BadSignatures
  /\ directory[r.keyId].material \notin {"undecodable", "bad length"}
  /\ r.signature = P!SignatureBy(directory[r.keyId].material, r.canonical)

LEMMA RowSignatureParts ==
  ASSUME NEW pk, NEW text, NEW pk2, NEW text2,
         P!SignatureBy(pk, text) = P!SignatureBy(pk2, text2)
  PROVE  pk = pk2 /\ text = text2
  BY DEF P!SignatureBy

LEMMA RowSignatureWellFormed ==
  ASSUME NEW pk, NEW text
  PROVE  P!SignatureBy(pk, text) \notin P!BadSignatures
<1>1. DOMAIN P!SignatureBy(pk, text) = {"by", "over"}
  BY DEF P!SignatureBy
<1>2. ASSUME NEW s \in P!BadSignatures PROVE DOMAIN s = {"malformed"}
  BY DEF P!BadSignatures
<1> QED
  BY <1>1, <1>2

LEMMA RowText ==
  ASSUME NEW r
  PROVE  P!Canon(r) # P!Missing /\ P!Canon(r).keyId = r.keyId
<1>1. "org" \in DOMAIN P!Canon(r) /\ DOMAIN P!Missing = {"text"}
  BY DEF P!Canon, P!Missing
<1>2. P!Canon(r) # P!Missing
  BY <1>1
<1> QED
  BY <1>2 DEF P!Canon

(* A signature that verifies is one the platform made over that very text.  *)
LEMMA VerifiedIsSigned ==
  ASSUME directory \in Directories, RowOrigin, NEW k \in DOMAIN shipped,
         Found(shipped[k]), Verified(shipped[k])
  PROVE  \E s \in P!SignedRows :
           /\ s.canonical = shipped[k].canonical /\ s.signature = shipped[k].signature
           /\ s.canonical = P!Canon(s)
           /\ directory[shipped[k].keyId].material = Signer[s.keyId]
<1> DEFINE r == shipped[k]
           pk == directory[r.keyId].material
<1> SUFFICES \E s \in P!SignedRows :
               /\ s.canonical = r.canonical /\ s.signature = r.signature
               /\ s.canonical = P!Canon(s) /\ pk = Signer[s.keyId]
  OBVIOUS
<1>1. r.keyId \in DOMAIN directory
  BY DEF Found, P!Lookup
<1>2. pk # Foreign
  BY <1>1, Platform
<1>3. r.signature = P!SignatureBy(pk, r.canonical) /\ r.signature \notin P!BadSignatures
  BY DEF Verified
<1>4. ~\E text : r.signature = P!SignatureBy(Foreign, text)
  BY <1>2, <1>3, RowSignatureParts
<1>5. PICK j \in DOMAIN sealed : r.signature = sealed[j].signature
  BY <1>3, <1>4 DEF RowOrigin
<1>6. /\ sealed[j].algorithm = "ed25519" /\ sealed[j].canonical = P!Canon(sealed[j])
      /\ sealed[j].signature = P!SignatureBy(Signer[sealed[j].keyId], P!Canon(sealed[j]))
  BY <1>3, <1>5 DEF RowOrigin, RowAsSealed
<1> HIDE DEF pk, r
<1>7. pk = Signer[sealed[j].keyId] /\ r.canonical = P!Canon(sealed[j])
  <2>1. P!SignatureBy(pk, r.canonical)
          = P!SignatureBy(Signer[sealed[j].keyId], P!Canon(sealed[j]))
    BY <1>3, <1>5, <1>6
  <2> QED
    BY <2>1, RowSignatureParts
<1>8. sealed[j] \in P!SignedRows
  BY <1>6 DEF P!SignedRows
<1>9. /\ sealed[j].canonical = r.canonical /\ sealed[j].signature = r.signature
      /\ sealed[j].canonical = P!Canon(sealed[j]) /\ pk = Signer[sealed[j].keyId]
  BY <1>5, <1>6, <1>7
<1> QED
  BY <1>8, <1>9

(* The checks of a row decide whether it is vouched for: its claims are the *)
(* platform's, and so is the key.                                          *)
LEMMA VouchedIs ==
  ASSUME directory \in Directories, RowOrigin, NEW k \in DOMAIN shipped
  PROVE  P!Vouched(shipped[k]) <=>
           /\ ~P!Legacy(shipped[k]) /\ shipped[k].canonical = P!Canon(shipped[k])
           /\ Found(shipped[k]) /\ Verified(shipped[k])
<1> DEFINE r == shipped[k]
<1>1. ASSUME P!Vouched(r)
      PROVE  ~P!Legacy(r) /\ r.canonical = P!Canon(r) /\ Found(r) /\ Verified(r)
  <2>1. /\ ~P!Legacy(r) /\ r.canonical = P!Canon(r) /\ Found(r)
        /\ directory[r.keyId].material = Signer[r.keyId]
    BY <1>1 DEF P!Vouched, P!Authentic, P!Verifiable, Found
  <2>2. PICK j \in DOMAIN sealed : /\ sealed[j].algorithm = "ed25519"
                                   /\ sealed[j].canonical = r.canonical
                                   /\ sealed[j].signature = r.signature
    BY <1>1 DEF P!Vouched, P!Authentic, P!SignedRows
  <2> HIDE DEF r
  <2>3. /\ sealed[j].keyId \in DOMAIN Signer /\ sealed[j].canonical = P!Canon(sealed[j])
        /\ sealed[j].signature = P!SignatureBy(Signer[sealed[j].keyId], P!Canon(sealed[j]))
    BY <2>2 DEF RowOrigin, RowAsSealed
  <2>4. sealed[j].keyId = r.keyId
    <3>1. P!Canon(sealed[j]).keyId = sealed[j].keyId /\ P!Canon(r).keyId = r.keyId
      BY RowText
    <3>2. P!Canon(sealed[j]) = P!Canon(r)
      BY <2>1, <2>2, <2>3
    <3> QED
      BY <3>1, <3>2
  <2>5. directory[r.keyId].material \notin {"undecodable", "bad length"}
    BY <2>1, <2>3, <2>4, Platform DEF BadMaterial
  <2>6. r.signature = P!SignatureBy(directory[r.keyId].material, r.canonical)
    BY <2>1, <2>2, <2>3, <2>4
  <2>7. r.signature \notin P!BadSignatures
    BY <2>6, RowSignatureWellFormed
  <2> QED
    BY <2>1, <2>5, <2>6, <2>7 DEF Verified
<1>2. ASSUME ~P!Legacy(r), r.canonical = P!Canon(r), Found(r), Verified(r)
      PROVE  P!Vouched(r)
  <2>1. PICK s \in P!SignedRows :
          /\ s.canonical = r.canonical /\ s.signature = r.signature
          /\ s.canonical = P!Canon(s)
          /\ directory[r.keyId].material = Signer[s.keyId]
    BY <1>2, VerifiedIsSigned
  <2> HIDE DEF r
  <2>2. s.keyId = r.keyId
    <3>1. P!Canon(s).keyId = s.keyId /\ P!Canon(r).keyId = r.keyId
      BY RowText
    <3> QED
      BY <1>2, <2>1, <3>1
  <2> QED
    BY <1>2, <2>1, <2>2 DEF P!Vouched, P!Authentic, P!Verifiable, Found
<1> QED
  BY <1>1, <1>2

------------------------------------------------------------------------------
(* The walk over the rows.                                                  *)

Inside == {"canonical", "key", "signature"}
Walking == {"row"} \cup Inside

\* Where row k is: before its turn, at a check, or done with.
Point(k) ==
  IF k < i THEN "nextRow" ELSE IF k = i /\ pc \in Inside THEN pc ELSE "row"

\* The fields row r has to be accused in when it is there.
RowDue(r, point) ==
  {f \in {"orgId", "payloadCanonical", "signerKeyId", "signature"} :
     \/ f = "orgId" /\ point # "row" /\ expected \notin {NoOrg, r.org}
     \/ f = "payloadCanonical" /\ point \notin {"row", "canonical"}
          /\ ~P!Legacy(r) /\ r.canonical # P!Canon(r)
     \/ f = "signerKeyId" /\ point = "nextRow"
          /\ ~P!Legacy(r) /\ r.canonical # P!Missing /\ ~Found(r)
     \/ f = "signature" /\ point = "nextRow"
          /\ ~P!Legacy(r) /\ r.canonical # P!Missing /\ Found(r) /\ ~Verified(r)}

\* The report confirms the signature of row r when it is there.
Confirmed(r, point) ==
  /\ point = "nextRow" /\ ~P!Legacy(r) /\ r.canonical # P!Missing
  /\ Found(r) /\ Verified(r)

\* What the report says of row k.
RowReported(k) ==
  /\ P!FaultyFields(k) = RowDue(shipped[k], Point(k))
  /\ P!Ok("signature", k) \in steps <=> Confirmed(shipped[k], Point(k))
  /\ P!Unsigned(k) \in steps <=> Point(k) = "nextRow" /\ P!Legacy(shipped[k])
  /\ Point(k) \in {"key", "signature", "nextRow"} /\ ~P!Legacy(shipped[k]) =>
       \E s \in steps : s.target[2] = k /\ s.status # "SKIPPED"
  /\ \A s \in steps : s.target[2] = k /\ s.status = "VALID" => ~P!Legacy(shipped[k])

RowsReported == \A k \in DOMAIN shipped : RowReported(k)

RowDomains ==
  /\ directory \in Directories /\ expected \in Org \cup {NoOrg}
  /\ altered \in 0..MaxAlterations
  /\ \A s \in steps :
       s.status \in P!Statuses /\ (shipped # << >> => s.target[2] \in DOMAIN shipped)

RowPosition ==
  /\ pc \in {"transit", "rollup", "done"} \cup Walking
  /\ i \in 1..(Len(shipped) + 1)
  /\ pc = "transit" => i = 1 /\ steps = {}
  /\ pc \in Walking => i \in 1..Len(shipped)
  /\ pc \in Inside => ~P!Legacy(shipped[i])
  /\ pc \in {"key", "signature"} => shipped[i].canonical # P!Missing
  /\ pc = "signature" => Found(shipped[i])
  /\ pc \in {"rollup", "done"} => i = Len(shipped) + 1
  /\ pc = "rollup" => shipped # << >>
  /\ pc = "done" /\ shipped = << >> => P!AnyInvalid(steps)
  /\ status = IF pc = "done" THEN P!RollupStatus(steps) ELSE "pending"

\* The rows that were entered, and the ones of them that are signed.
Entered == {k \in 1..Len(shipped) : k < i \/ (k = i /\ pc \in Inside)}
EnteredSigned == {k \in Entered : ~P!Legacy(shipped[k])}

RowsCounted ==
  /\ signed \in Nat /\ unsigned \in Nat
  /\ signed + unsigned = IF pc \in Inside THEN i ELSE i - 1
  /\ signed = Cardinality(EnteredSigned)

RowInv ==
  RowsListed /\ RowOrigin /\ RowDomains /\ RowPosition /\ RowsReported /\ RowsCounted

LEMMA RowExtents ==
  ASSUME RowInv
  PROVE  /\ Len(shipped) \in Nat /\ DOMAIN shipped = 1..Len(shipped)
         /\ DOMAIN sealed = DOMAIN shipped /\ i \in Nat
         /\ pc \in Walking => i \in DOMAIN shipped
<1>1. /\ Len(shipped) \in Nat /\ DOMAIN shipped = 1..Len(shipped)
      /\ DOMAIN sealed = 1..Len(sealed) /\ Len(sealed) = Len(shipped)
  BY DEF RowInv, RowsListed
<1>2. i \in 1..(Len(shipped) + 1) /\ (pc \in Walking => i \in 1..Len(shipped))
  BY DEF RowInv, RowPosition
<1> QED
  BY <1>1, <1>2

(* GoTo moves the row in hand on, and no other.                             *)
LEMMA RowMoves ==
  ASSUME RowInv, pc \in Walking, NEW next \in Inside \cup {"nextRow"}, P!GoTo(next),
         shipped' = shipped, NEW k \in DOMAIN shipped
  PROVE  Point(i) = pc /\ Point(k)' = IF k = i THEN next ELSE Point(k)
<1>1. /\ next # "nextRow" => pc' = next /\ i' = i
      /\ next = "nextRow" => i' = i + 1 /\ pc' \in {"rollup", "row"}
  BY DEF P!GoTo
<1>2. /\ i \in 1..Len(shipped) /\ k \in 1..Len(shipped) /\ Len(shipped) \in Nat
      /\ (i' = i \/ i' = i + 1)
  BY <1>1, RowExtents
<1>3. Point(i) = pc
  <2>1. ~(i < i)
    BY <1>2
  <2> QED
    BY <2>1 DEF Point, Walking
<1>4. CASE k = i /\ next = "nextRow"
  <2>1. k < i'
    BY <1>1, <1>2, <1>4
  <2> QED
    BY <1>3, <1>4, <2>1 DEF Point
<1>5. CASE k = i /\ next # "nextRow"
  <2>1. ~(k < i') /\ k = i'
    BY <1>1, <1>2, <1>5
  <2> QED
    BY <1>1, <1>3, <1>5, <2>1 DEF Point
<1>6. CASE k # i /\ k < i
  <2>1. k < i'
    BY <1>2, <1>6
  <2> QED
    BY <1>3, <1>6, <2>1 DEF Point
<1>7. CASE k # i /\ ~(k < i)
  <2>1. ~(k < i')
    BY <1>2, <1>7
  <2>2. next # "nextRow" => k # i'
    BY <1>1, <1>7
  <2>3. next = "nextRow" => pc' \notin Inside
    BY <1>1 DEF Inside
  <2> QED
    BY <1>3, <1>7, <2>1, <2>2, <2>3 DEF Point
<1> QED
  BY <1>4, <1>5, <1>6, <1>7

\* The steps added about the row in hand are those it is due on its way to
\* `next`, and it may go there.
RowReports(added, next) ==
  /\ \A s \in added : s.status \in P!Statuses /\ s.target[2] = i
  /\ RowDue(P!row, next) =
       RowDue(P!row, pc) \cup {s.target[1] : s \in {t \in added : t.status = "INVALID"}}
  /\ P!Ok("signature", i) \in added <=> Confirmed(P!row, next)
  /\ P!Unsigned(i) \in added <=> next = "nextRow" /\ P!Legacy(P!row)
  /\ \A s \in added : s.status = "VALID" => ~P!Legacy(P!row)
  /\ pc = "canonical" => \E s \in added : s.status # "SKIPPED"
  /\ pc = "row" /\ next \in {"key", "signature", "nextRow"} => P!Legacy(P!row)
  /\ next # "nextRow" => ~P!Legacy(P!row)
  /\ next \in {"key", "signature"} => P!row.canonical # P!Missing
  /\ next = "signature" => Found(P!row)

(* The report on the row in hand grows by these steps, and no other row's.  *)
LEMMA RowReportGrows ==
  ASSUME RowInv, pc \in Walking, NEW added, NEW next \in Inside \cup {"nextRow"},
         steps' = steps \cup added, P!GoTo(next), RowReports(added, next),
         UNCHANGED <<directory, expected, shipped>>
  PROVE  RowsReported'
<1>1. SUFFICES ASSUME NEW k \in DOMAIN shipped PROVE RowReported(k)'
  BY DEF RowsReported
<1>2. Point(i) = pc /\ Point(k)' = IF k = i THEN next ELSE Point(k)
  BY RowMoves
<1>3. RowReported(k)
  BY DEF RowInv, RowsReported
<1>4. \A s \in added : s.target[2] = i
  BY DEF RowReports
<1>5. P!FaultyFields(k)' = P!FaultyFields(k)
         \cup {s.target[1] : s \in {t \in added : t.status = "INVALID" /\ t.target[2] = k}}
  BY DEF P!FaultyFields
<1>6. /\ RowDue(shipped[k], Point(k))' = RowDue(shipped[k], Point(k)')
      /\ Confirmed(shipped[k], Point(k))' <=> Confirmed(shipped[k], Point(k)')
      /\ P!Legacy(shipped[k])' <=> P!Legacy(shipped[k])
  BY DEF RowDue, Confirmed, Found, Verified, P!Legacy
<1>7. P!Ok("signature", k).target[2] = k /\ P!Unsigned(k).target[2] = k
  BY DEF P!Ok, P!Unsigned, P!Step
<1>8. CASE k # i
  <2>1. P!FaultyFields(k)' = P!FaultyFields(k)
    BY <1>4, <1>5, <1>8
  <2>2. /\ P!Ok("signature", k) \in steps' <=> P!Ok("signature", k) \in steps
        /\ P!Unsigned(k) \in steps' <=> P!Unsigned(k) \in steps
    BY <1>4, <1>7, <1>8
  <2>3. \A s \in steps' : s.target[2] = k => s \in steps
    BY <1>4, <1>8
  <2> QED
    BY <1>2, <1>3, <1>6, <1>8, <2>1, <2>2, <2>3 DEF RowReported
<1>9. CASE k = i
  <2>0. shipped[k] = P!row /\ Point(k) = pc /\ Point(k)' = next
    BY <1>2, <1>9 DEF P!row
  <2>1. P!FaultyFields(k)' = RowDue(P!row, next)
    <3>1. {s.target[1] : s \in {t \in added : t.status = "INVALID" /\ t.target[2] = k}}
            = {s.target[1] : s \in {t \in added : t.status = "INVALID"}}
      BY <1>4, <1>9
    <3>2. P!FaultyFields(k) = RowDue(P!row, pc)
      BY <1>3, <2>0 DEF RowReported
    <3> QED
      BY <1>5, <3>1, <3>2 DEF RowReports
  <2>2. P!Ok("signature", k) \in steps' <=> Confirmed(P!row, next)
    <3>1. P!Ok("signature", k) \notin steps
      <4>1. pc # "nextRow"
        BY DEF Walking, Inside
      <4> QED
        BY <1>3, <2>0, <4>1 DEF RowReported, Confirmed
    <3> QED
      BY <1>9, <3>1 DEF RowReports
  <2>5. P!Unsigned(k) \in steps' <=> next = "nextRow" /\ P!Legacy(P!row)
    <3>1. P!Unsigned(k) \notin steps
      <4>1. pc # "nextRow"
        BY DEF Walking, Inside
      <4> QED
        BY <1>3, <2>0, <4>1 DEF RowReported
    <3> QED
      BY <1>9, <3>1 DEF RowReports
  <2>3. ASSUME next \in {"key", "signature", "nextRow"}, ~P!Legacy(P!row)
        PROVE  \E s \in steps' : s.target[2] = k /\ s.status # "SKIPPED"
    <3>1. pc # "row"
      BY <2>3 DEF RowReports
    <3>2. CASE pc = "canonical"
      BY <1>4, <1>9, <3>2 DEF RowReports
    <3>3. CASE pc # "canonical"
      <4>1. pc \in {"key", "signature"}
        BY <3>1, <3>3 DEF Walking, Inside
      <4> QED
        BY <1>3, <2>0, <2>3, <4>1 DEF RowReported
    <3> QED
      BY <3>2, <3>3
  <2>4. \A s \in steps' : s.target[2] = k /\ s.status = "VALID" => ~P!Legacy(P!row)
    BY <1>3, <2>0 DEF RowReported, RowReports
  <2> QED
    BY <1>6, <2>0, <2>1, <2>2, <2>3, <2>4, <2>5 DEF RowReported
<1> QED
  BY <1>8, <1>9

LEMMA NextInRange ==
  ASSUME NEW n \in Nat, NEW j \in 1..n
  PROVE  j # n => j + 1 \in 1..n
  OBVIOUS

(* And the walk is where it may be.                                         *)
LEMMA RowGoesOn ==
  ASSUME RowInv, pc \in Walking, NEW added, NEW next \in Inside \cup {"nextRow"},
         steps' = steps \cup added, P!GoTo(next), RowReports(added, next),
         UNCHANGED <<directory, expected, sealed, shipped, altered, status>>
  PROVE  RowsListed' /\ RowOrigin' /\ RowDomains' /\ RowPosition'
<1>1. /\ next # "nextRow" => pc' = next /\ i' = i
      /\ next = "nextRow" => i' = i + 1 /\ pc' = IF i = Len(shipped) THEN "rollup" ELSE "row"
  BY DEF P!GoTo
<1>2. /\ i \in 1..Len(shipped) /\ Len(shipped) \in Nat /\ DOMAIN shipped = 1..Len(shipped)
  BY RowExtents
<1>3. RowsListed' /\ RowOrigin'
  BY DEF RowInv, RowsListed, RowOrigin, RowAsSealed
<1>4. RowDomains'
  BY <1>2 DEF RowInv, RowDomains, RowReports
<1>5. status = "pending" /\ shipped # << >>
  <2>1. pc # "done"
    BY DEF Walking, Inside
  <2> QED
    BY <1>2, <2>1 DEF RowInv, RowPosition
<1>6. (P!Legacy(shipped[i])' <=> P!Legacy(shipped[i]')) /\ (Found(shipped[i])' <=> Found(shipped[i]'))
  BY DEF Found, P!Legacy
<1>7. CASE next # "nextRow"
  <2>1. /\ pc' = next /\ i' = i /\ shipped' = shipped /\ shipped[i]' = P!row /\ pc' \in Inside
        /\ status' = "pending"
    BY <1>1, <1>5, <1>7 DEF P!row
  <2>2. pc' \in Walking /\ pc' \notin {"transit", "rollup", "done"}
    BY <2>1 DEF Walking, Inside
  <2>3. /\ pc' \in Inside => ~P!Legacy(shipped[i])'
        /\ pc' \in {"key", "signature"} => shipped'[i'].canonical # P!Missing
        /\ pc' = "signature" => Found(shipped[i])'
    BY <1>6, <1>7, <2>1 DEF RowReports, P!row, P!Missing
  <2>4. i' \in 1..Len(shipped') /\ i' \in 1..(Len(shipped') + 1)
    BY <1>2, <2>1
  <2> QED
    BY <1>3, <1>4, <2>1, <2>2, <2>3, <2>4 DEF RowPosition, P!Missing
<1>8. CASE next = "nextRow"
  <2>1. i' = i + 1 /\ pc' \in {"rollup", "row"} /\ pc' \notin Inside /\ shipped' = shipped
        /\ pc' # "done" /\ pc' # "transit" /\ pc' \notin {"key", "signature"} /\ status' = "pending"
    BY <1>1, <1>5, <1>8 DEF Inside
  <2>2. i' \in 1..(Len(shipped) + 1)
    BY <1>2, <2>1
  <2>3. pc' = "row" => i' \in 1..Len(shipped)
    <3>1. i # Len(shipped) => i + 1 \in 1..Len(shipped)
      BY <1>2, NextInRange
    <3>2. pc' = "row" => i # Len(shipped)
      BY <1>1, <1>8
    <3> QED
      BY <2>1, <3>1, <3>2
  <2>4. pc' = "rollup" => i' = Len(shipped) + 1
    BY <1>1, <1>8
  <2>5. pc' \in Walking => pc' = "row"
    BY <2>1 DEF Walking
  <2> QED
    BY <1>3, <1>4, <1>5, <2>1, <2>2, <2>3, <2>4, <2>5 DEF RowPosition, Walking
<1> QED
  BY <1>7, <1>8

------------------------------------------------------------------------------
(* The steps of the walk, one by one.                                       *)

\* A check does not enter a row.
LEMMA SameEntered ==
  ASSUME RowInv, pc \in Inside, NEW next \in Inside \cup {"nextRow"}, P!GoTo(next),
         UNCHANGED <<shipped, signed, unsigned>>
  PROVE  RowsCounted'
<1>1. /\ next # "nextRow" => pc' = next /\ i' = i
      /\ next = "nextRow" => i' = i + 1 /\ pc' \in {"rollup", "row"}
  BY DEF P!GoTo
<1>2. i \in 1..Len(shipped) /\ Len(shipped) \in Nat
  BY RowExtents DEF Walking
<1>3. (pc' \in Inside /\ i' = i) \/ (pc' \notin Inside /\ i' = i + 1)
  BY <1>1 DEF Inside
<1>4. Entered' = Entered
  BY <1>2, <1>3 DEF Entered
<1>5. EnteredSigned' = EnteredSigned
  BY <1>4 DEF EnteredSigned, P!Legacy
<1>6. /\ signed \in Nat /\ unsigned \in Nat /\ signed + unsigned = i
      /\ signed = Cardinality(EnteredSigned)
  BY DEF RowInv, RowsCounted
<1>7. (IF pc' \in Inside THEN i' ELSE i' - 1) = i
  BY <1>2, <1>3
<1> QED
  BY <1>5, <1>6, <1>7 DEF RowsCounted

(* The row in hand is entered and counted.                                  *)
LEMMA OneEntered ==
  ASSUME RowInv, pc = "row", NEW next \in {"canonical", "nextRow"}, P!GoTo(next),
         shipped' = shipped,
         IF P!Legacy(P!row) THEN signed' = signed /\ unsigned' = unsigned + 1
         ELSE signed' = signed + 1 /\ unsigned' = unsigned
  PROVE  RowsCounted'
<1>1. /\ next # "nextRow" => pc' = next /\ i' = i
      /\ next = "nextRow" => i' = i + 1 /\ pc' \in {"rollup", "row"}
  BY DEF P!GoTo
<1>2. i \in 1..Len(shipped) /\ Len(shipped) \in Nat /\ pc \notin Inside
  BY RowExtents DEF Walking, Inside
<1>3. (pc' \in Inside /\ i' = i) \/ (pc' \notin Inside /\ i' = i + 1)
  BY <1>1 DEF Inside
<1>4. Entered' = Entered \cup {i} /\ i \notin Entered
  BY <1>2, <1>3 DEF Entered
<1>5. /\ P!Legacy(P!row) => EnteredSigned' = EnteredSigned
      /\ ~P!Legacy(P!row) => EnteredSigned' = EnteredSigned \cup {i}
      /\ i \notin EnteredSigned
  BY <1>4 DEF EnteredSigned, P!Legacy, P!row
<1>6. IsFiniteSet(EnteredSigned)
  <2>1. IsFiniteSet(1..Len(shipped))
    BY <1>2, FS_Interval
  <2>2. EnteredSigned \subseteq 1..Len(shipped)
    BY DEF EnteredSigned, Entered
  <2> QED
    BY <2>1, <2>2, FS_Subset
<1>7. ~P!Legacy(P!row) => Cardinality(EnteredSigned') = Cardinality(EnteredSigned) + 1
  BY <1>5, <1>6, FS_AddElement
<1>8. /\ signed \in Nat /\ unsigned \in Nat /\ signed + unsigned = i - 1
      /\ signed = Cardinality(EnteredSigned)
  BY <1>2 DEF RowInv, RowsCounted
<1>9. (IF pc' \in Inside THEN i' ELSE i' - 1) = i
  BY <1>2, <1>3
<1>10. Cardinality(EnteredSigned)' = Cardinality(EnteredSigned')
  OBVIOUS
<1>11. signed' \in Nat /\ unsigned' \in Nat /\ signed' + unsigned' = i
  BY <1>2, <1>8
<1>12. signed' = Cardinality(EnteredSigned')
  BY <1>5, <1>7, <1>8
<1> QED
  BY <1>9, <1>10, <1>11, <1>12 DEF RowsCounted

LEMMA RowOkFields ==
  ASSUME NEW field, NEW k
  PROVE  /\ P!Ok(field, k).target[1] = field /\ P!Ok(field, k).target[2] = k
         /\ P!Ok(field, k).status = "VALID"
  BY DEF P!Ok, P!Step

LEMMA RowFaultFields ==
  ASSUME NEW field, NEW k, NEW reason
  PROVE  /\ P!Fault(field, k, reason).target[1] = field
         /\ P!Fault(field, k, reason).target[2] = k
         /\ P!Fault(field, k, reason).status = "INVALID"
  BY DEF P!Fault, P!Step

LEMMA OrgFaultsDue ==
  /\ \A s \in P!OrgFaults : s.target[1] = "orgId" /\ s.target[2] = i /\ s.status = "INVALID"
  /\ {s.target[1] : s \in {t \in P!OrgFaults : t.status = "INVALID"}}
       = {f \in {"orgId"} : expected \notin {NoOrg, P!row.org}}
<1> DEFINE fault == P!Fault("orgId", i, "PROVENANCE_ORG_MISMATCH")
<1>1. fault.target[1] = "orgId" /\ fault.target[2] = i /\ fault.status = "INVALID"
  BY RowOkFields, RowFaultFields
<1>2. P!OrgFaults = {s \in {fault} : expected \notin {NoOrg, P!row.org}}
  BY DEF P!OrgFaults
<1> HIDE DEF fault
<1> QED
  BY <1>1, <1>2

(* What is due of a row moves on with the checks.                           *)
LEMMA DueMoves ==
  ASSUME NEW r
  PROVE  /\ RowDue(r, "row") = {}
         /\ RowDue(r, "canonical") = {f \in {"orgId"} : expected \notin {NoOrg, r.org}}
         /\ P!Legacy(r) => RowDue(r, "nextRow") = RowDue(r, "canonical")
         /\ ~P!Legacy(r) =>
              /\ RowDue(r, "key") =
                   RowDue(r, "canonical") \cup {f \in {"payloadCanonical"} : r.canonical # P!Canon(r)}
              /\ RowDue(r, "signature") = RowDue(r, "key")
              /\ r.canonical = P!Missing => RowDue(r, "nextRow") = RowDue(r, "key")
              /\ r.canonical # P!Missing =>
                   RowDue(r, "nextRow") =
                     RowDue(r, "signature") \cup {f \in {"signerKeyId"} : ~Found(r)}
                       \cup {f \in {"signature"} : Found(r) /\ ~Verified(r)}
<1>1. RowDue(r, "row") = {}
  BY DEF RowDue
<1>2. RowDue(r, "canonical") = {f \in {"orgId"} : expected \notin {NoOrg, r.org}}
  BY DEF RowDue
<1>3. P!Legacy(r) => RowDue(r, "nextRow") = {f \in {"orgId"} : expected \notin {NoOrg, r.org}}
  BY DEF RowDue
<1>4. ASSUME ~P!Legacy(r)
      PROVE  \A point \in {"key", "signature"} :
               RowDue(r, point) = {f \in {"orgId"} : expected \notin {NoOrg, r.org}}
                                    \cup {f \in {"payloadCanonical"} : r.canonical # P!Canon(r)}
  BY <1>4 DEF RowDue
<1>5. ASSUME ~P!Legacy(r), r.canonical = P!Missing
      PROVE  RowDue(r, "nextRow") = RowDue(r, "key")
  BY <1>5 DEF RowDue
<1>6. ASSUME ~P!Legacy(r), r.canonical # P!Missing
      PROVE  RowDue(r, "nextRow") =
               RowDue(r, "key") \cup {f \in {"signerKeyId"} : ~Found(r)}
                 \cup {f \in {"signature"} : Found(r) /\ ~Verified(r)}
  BY <1>6 DEF RowDue
<1> QED
  BY <1>1, <1>2, <1>3, <1>4, <1>5, <1>6

(* A step that adds one step about the row in hand.                         *)
LEMMA OneStepReports ==
  ASSUME NEW step
  PROVE  /\ \A s \in {step} : s = step
         /\ {s.target[1] : s \in {t \in {step} : t.status = "INVALID"}}
              = {f \in {step.target[1]} : step.status = "INVALID"}
  OBVIOUS

LEMMA EnterStep ==
  ASSUME RowInv, P!EnterSigned \/ P!EnterLegacy
  PROVE  RowInv'
<1>1. pc = "row" /\ pc \in Walking
  BY DEF P!EnterSigned, P!EnterLegacy, Walking
<1>2. \A s : s.status = "INVALID" \/ s.status = "SKIPPED" => s # P!Ok("signature", i)
  BY RowOkFields, RowFaultFields
<1>3. CASE P!EnterSigned
  <2>1. /\ ~P!Legacy(P!row) /\ steps' = steps \cup P!OrgFaults /\ P!GoTo("canonical")
        /\ signed' = signed + 1
        /\ UNCHANGED <<directory, expected, sealed, shipped, altered, unsigned, status>>
    BY <1>3 DEF P!EnterSigned, P!evidence
  <2>2. "canonical" \in Inside \cup {"nextRow"}
    BY DEF Inside
  <2>3. RowDue(P!row, "canonical") = RowDue(P!row, pc)
          \cup {s.target[1] : s \in {t \in P!OrgFaults : t.status = "INVALID"}}
    BY <1>1, OrgFaultsDue, DueMoves
  <2>4. \A s \in P!OrgFaults : s.status = "INVALID" /\ s.target[2] = i
    BY OrgFaultsDue
  <2>5. P!Ok("signature", i) \notin P!OrgFaults /\ P!Unsigned(i) \notin P!OrgFaults
    BY <1>2, <2>4 DEF P!Unsigned, P!Step
  <2>6. ~Confirmed(P!row, "canonical")
    BY DEF Confirmed
  <2>7. RowReports(P!OrgFaults, "canonical")
    BY <1>1, <2>1, <2>3, <2>4, <2>5, <2>6 DEF RowReports, P!Statuses
  <2>8. RowsReported'
    BY <1>1, <2>1, <2>2, <2>7, RowReportGrows
  <2>9. RowsListed' /\ RowOrigin' /\ RowDomains' /\ RowPosition'
    BY <1>1, <2>1, <2>2, <2>7, RowGoesOn
  <2>10. RowsCounted'
    BY <1>1, <2>1, OneEntered
  <2> QED
    BY <2>8, <2>9, <2>10 DEF RowInv
<1>4. CASE P!EnterLegacy
  <2> DEFINE added == P!OrgFaults \cup {P!UnsignedStep}
  <2>1. /\ P!Legacy(P!row) /\ steps' = steps \cup added /\ P!GoTo("nextRow")
        /\ unsigned' = unsigned + 1
        /\ UNCHANGED <<directory, expected, sealed, shipped, altered, signed, status>>
    BY <1>4 DEF P!EnterLegacy, P!evidence
  <2>2. P!UnsignedStep.status = "SKIPPED" /\ P!UnsignedStep.target[2] = i
    BY DEF P!UnsignedStep, P!Unsigned, P!Step
  <2>3. \A s \in added : s.status \in {"INVALID", "SKIPPED"} /\ s.target[2] = i
    BY <2>2, OrgFaultsDue
  <2>4. {t \in added : t.status = "INVALID"} = {t \in P!OrgFaults : t.status = "INVALID"}
    BY <2>2
  <2>5. P!Ok("signature", i) \notin added /\ P!Unsigned(i) \in added
    BY <1>2, <2>3 DEF P!UnsignedStep
  <2> HIDE DEF added
  <2>6. RowDue(P!row, "nextRow") = RowDue(P!row, pc)
          \cup {s.target[1] : s \in {t \in added : t.status = "INVALID"}}
    BY <1>1, <2>1, <2>4, OrgFaultsDue, DueMoves
  <2>7. ~Confirmed(P!row, "nextRow")
    BY <2>1 DEF Confirmed
  <2>8. RowReports(added, "nextRow")
    BY <1>1, <2>1, <2>3, <2>5, <2>6, <2>7 DEF RowReports, P!Statuses
  <2>9. RowsReported'
    BY <1>1, <2>1, <2>8, RowReportGrows
  <2>10. RowsListed' /\ RowOrigin' /\ RowDomains' /\ RowPosition'
    BY <1>1, <2>1, <2>8, RowGoesOn
  <2>11. RowsCounted'
    BY <1>1, <2>1, OneEntered
  <2> QED
    BY <2>9, <2>10, <2>11 DEF RowInv
<1> QED
  BY <1>3, <1>4

(* One check of a row that was entered.                                     *)
LEMMA RowJudged ==
  ASSUME RowInv, pc \in Inside, NEW step, NEW next \in Inside \cup {"nextRow"},
         P!Judge(step, next), RowReports({step}, next)
  PROVE  RowInv'
<1>1. /\ steps' = steps \cup {step} /\ P!GoTo(next) /\ pc \in Walking
      /\ UNCHANGED <<directory, expected, sealed, shipped, altered, signed, unsigned, status>>
  BY DEF P!Judge, P!evidence, Walking
<1>2. RowsReported'
  BY <1>1, RowReportGrows
<1>3. RowsListed' /\ RowOrigin' /\ RowDomains' /\ RowPosition'
  BY <1>1, RowGoesOn
<1>4. RowsCounted'
  BY <1>1, SameEntered
<1> QED
  BY <1>2, <1>3, <1>4 DEF RowInv

LEMMA InsideRow ==
  ASSUME RowInv, pc \in Inside
  PROVE  /\ ~P!Legacy(P!row)
         /\ pc \in {"key", "signature"} => P!row.canonical # P!Missing
         /\ pc = "signature" => Found(P!row)
  BY DEF RowInv, RowPosition, P!row

(* A judgement of one field of the row in hand, and what it has to be for   *)
(* the report to stay right.                                               *)
LEMMA FieldJudged ==
  ASSUME RowInv, pc \in Inside, NEW field, NEW step, NEW next \in Inside \cup {"nextRow"},
         P!Judge(step, next),
         step.target[1] = field, step.target[2] = i, step.status \in {"VALID", "INVALID"},
         RowDue(P!row, next) = RowDue(P!row, pc) \cup {f \in {field} : step.status = "INVALID"},
         P!Ok("signature", i) = step <=> Confirmed(P!row, next),
         next \in {"key", "signature"} => P!row.canonical # P!Missing,
         next = "signature" => Found(P!row)
  PROVE  RowInv'
<1>1. ~P!Legacy(P!row) /\ pc # "row"
  BY InsideRow DEF Inside
<1>2. RowDue(P!row, next) = RowDue(P!row, pc)
        \cup {s.target[1] : s \in {t \in {step} : t.status = "INVALID"}}
  BY OneStepReports
<1>3. step.status \in P!Statuses /\ step.status # "SKIPPED"
  BY DEF P!Statuses
<1>4. P!Unsigned(i) # step
  BY DEF P!Unsigned, P!Step
<1>5. RowReports({step}, next)
  BY <1>1, <1>2, <1>3, <1>4 DEF RowReports
<1> QED
  BY <1>5, RowJudged

LEMMA CanonicalStep ==
  ASSUME RowInv, P!CanonicalMissing \/ P!CompareCanonical
  PROVE  RowInv'
<1>1. pc = "canonical" /\ pc \in Inside
  BY DEF P!CanonicalMissing, P!CompareCanonical, Inside
<1>2. ~P!Legacy(P!row)
  BY <1>1, InsideRow
<1> DEFINE ok == P!Ok("payloadCanonical", i)
           fault == P!Fault("payloadCanonical", i, "PROVENANCE_CANONICAL_MISMATCH")
<1>3. /\ ok.target[1] = "payloadCanonical" /\ ok.target[2] = i /\ ok.status = "VALID"
      /\ fault.target[1] = "payloadCanonical" /\ fault.target[2] = i /\ fault.status = "INVALID"
      /\ P!Ok("signature", i).target[1] = "signature"
  BY RowOkFields, RowFaultFields
<1>4. ok # P!Ok("signature", i) /\ fault # P!Ok("signature", i)
  BY <1>3
<1>5. CASE P!CanonicalMissing
  <2>1. P!Judge(fault, "nextRow") /\ P!row.canonical = P!Missing
    BY <1>5 DEF P!CanonicalMissing
  <2>2. P!row.canonical # P!Canon(P!row)
    BY <2>1, RowText
  <2>3. RowDue(P!row, "nextRow") = RowDue(P!row, "canonical") \cup {"payloadCanonical"}
    BY <1>2, <2>1, <2>2, DueMoves
  <2>4. ~Confirmed(P!row, "nextRow") /\ "nextRow" \in Inside \cup {"nextRow"}
    BY <2>1 DEF Confirmed
  <2> HIDE DEF ok, fault
  <2> QED
    BY <1>1, <1>3, <1>4, <2>1, <2>3, <2>4, FieldJudged
<1>6. CASE P!CompareCanonical
  <2>1. /\ P!Judge(IF P!row.canonical = P!Canon(P!row) THEN ok ELSE fault, "key")
        /\ P!row.canonical # P!Missing
    BY <1>6 DEF P!CompareCanonical
  <2>2. RowDue(P!row, "key") = RowDue(P!row, "canonical")
          \cup {f \in {"payloadCanonical"} : P!row.canonical # P!Canon(P!row)}
    BY <1>2, DueMoves
  <2>3. ~Confirmed(P!row, "key") /\ "key" \in Inside \cup {"nextRow"}
    BY DEF Confirmed, Inside
  <2> HIDE DEF ok, fault
  <2>4. CASE P!row.canonical = P!Canon(P!row)
    BY <1>1, <1>3, <1>4, <2>1, <2>2, <2>3, <2>4, FieldJudged
  <2>5. CASE P!row.canonical # P!Canon(P!row)
    BY <1>1, <1>3, <1>4, <2>1, <2>2, <2>3, <2>5, FieldJudged
  <2> QED
    BY <2>4, <2>5
<1> QED
  BY <1>5, <1>6

LEMMA RowKeyStep ==
  ASSUME RowInv, P!CheckKey
  PROVE  RowInv'
<1>1. pc = "key" /\ pc \in Inside
  BY DEF P!CheckKey, Inside
<1>2. ~P!Legacy(P!row) /\ P!row.canonical # P!Missing
  BY <1>1, InsideRow
<1> DEFINE found == P!Lookup(directory, P!row.keyId, P!row.at)
           ok == P!Ok("signerKeyId", i)
           fault == P!Fault("signerKeyId", i, found)
<1>3. /\ ok.target[1] = "signerKeyId" /\ ok.target[2] = i /\ ok.status = "VALID"
      /\ fault.target[1] = "signerKeyId" /\ fault.target[2] = i /\ fault.status = "INVALID"
      /\ P!Ok("signature", i).target[1] = "signature"
  BY RowOkFields, RowFaultFields
<1>4. ok # P!Ok("signature", i) /\ fault # P!Ok("signature", i)
  BY <1>3
<1>5. IF Found(P!row) THEN P!Judge(ok, "signature") ELSE P!Judge(fault, "nextRow")
  BY DEF P!CheckKey, Found
<1>6. RowDue(P!row, "signature") = RowDue(P!row, "key")
  BY <1>2, DueMoves
<1>7. ~Confirmed(P!row, "signature") /\ "signature" \in Inside /\ "nextRow" \notin Inside
  BY DEF Confirmed, Inside
<1> HIDE DEF ok, fault
<1>8. CASE Found(P!row)
  BY <1>1, <1>2, <1>3, <1>4, <1>5, <1>6, <1>7, <1>8, FieldJudged
<1>9. CASE ~Found(P!row)
  <2>1. RowDue(P!row, "nextRow") = RowDue(P!row, "key") \cup {"signerKeyId"}
    BY <1>2, <1>6, <1>9, DueMoves
  <2>2. ~Confirmed(P!row, "nextRow") /\ "nextRow" \in Inside \cup {"nextRow"}
    BY <1>9 DEF Confirmed
  <2>3. P!Judge(fault, "nextRow")
    BY <1>5, <1>9
  <2> QED
    BY <1>1, <1>3, <1>4, <2>1, <2>2, <2>3, FieldJudged
<1> QED
  BY <1>8, <1>9

LEMMA RowSignatureStep ==
  ASSUME RowInv, P!CheckSignature
  PROVE  RowInv'
<1>1. pc = "signature" /\ pc \in Inside
  BY DEF P!CheckSignature, Inside
<1>2. ~P!Legacy(P!row) /\ P!row.canonical # P!Missing /\ Found(P!row)
  BY <1>1, InsideRow
<1> DEFINE ok == P!Ok("signature", i)
<1>3. Verified(P!row) <=>
        ~P!Malformed /\ P!row.signature = P!SignatureBy(P!material, P!SignedText)
  BY DEF Verified, P!Malformed, P!material, P!SignedText
<1>4. /\ RowDue(P!row, "nextRow") =
           RowDue(P!row, "signature") \cup {f \in {"signature"} : ~Verified(P!row)}
      /\ Confirmed(P!row, "nextRow") <=> Verified(P!row)
      /\ "nextRow" \in Inside \cup {"nextRow"}
  <2>1. Confirmed(P!row, "nextRow") <=> Verified(P!row)
    BY <1>2 DEF Confirmed
  <2> QED
    BY <1>2, <2>1, DueMoves
<1>5. ok.target[1] = "signature" /\ ok.target[2] = i /\ ok.status = "VALID"
  BY RowOkFields, RowFaultFields
<1>6. CASE Verified(P!row)
  <2>1. P!Judge(ok, "nextRow")
    BY <1>3, <1>6 DEF P!CheckSignature
  <2> HIDE DEF ok
  <2>2. P!Ok("signature", i) = ok
    BY DEF ok
  <2> QED
    BY <1>1, <1>4, <1>5, <1>6, <2>1, <2>2, FieldJudged
<1>7. CASE ~Verified(P!row)
  <2>1. PICK reason : P!Judge(P!Fault("signature", i, reason), "nextRow")
    <3>1. CASE P!Malformed
      BY <3>1 DEF P!CheckSignature
    <3>2. CASE ~P!Malformed
      BY <1>3, <1>7, <3>2 DEF P!CheckSignature
    <3> QED
      BY <3>1, <3>2
  <2> DEFINE fault == P!Fault("signature", i, reason)
  <2>2. /\ fault.target[1] = "signature" /\ fault.target[2] = i /\ fault.status = "INVALID"
        /\ P!Judge(fault, "nextRow")
    BY <2>1, RowOkFields, RowFaultFields
  <2>3. P!Ok("signature", i) # fault
    BY <1>5, <2>2
  <2> HIDE DEF ok, fault
  <2> QED
    BY <1>1, <1>4, <1>7, <2>2, <2>3, FieldJudged
<1> QED
  BY <1>6, <1>7

------------------------------------------------------------------------------
(* Before the walk and after it.                                            *)

\* Nothing is reported before the walk.
LEMMA NothingReported ==
  ASSUME i = 1, pc \notin Inside, steps = {}, shipped \in Seq(Range(shipped)),
         signed = 0, unsigned = 0
  PROVE  RowsReported /\ RowsCounted
<1>1. DOMAIN shipped = 1..Len(shipped) /\ Len(shipped) \in Nat
  OBVIOUS
<1>2. ASSUME NEW k \in DOMAIN shipped PROVE RowReported(k)
  <2>1. ~(k < i)
    BY <1>1
  <2>2. Point(k) = "row"
    BY <2>1 DEF Point
  <2>3. RowDue(shipped[k], "row") = {} /\ ~Confirmed(shipped[k], "row")
    BY DueMoves DEF Confirmed
  <2>4. P!FaultyFields(k) = {}
    BY DEF P!FaultyFields
  <2> QED
    BY <2>2, <2>3, <2>4 DEF RowReported
<1>3. Entered = {}
  BY DEF Entered
<1>4. EnteredSigned = {}
  BY <1>3 DEF EnteredSigned
<1>5. Cardinality(EnteredSigned) = 0
  BY <1>4, FS_EmptySet
<1> QED
  BY <1>2, <1>5 DEF RowsReported, RowsCounted

\* What the platform writes, in the terms of the verifier.
LEMMA RowSealed ==
  ASSUME NEW row, row.signed \in BOOLEAN, DOMAIN row.claims = P!Claims,
         row.signed => row.claims.keyId \in DOMAIN Signer
  PROVE  DOMAIN P!Seal(row) = P!Fields /\ RowAsSealed(P!Seal(row))
<1> DEFINE s == P!Seal(row)
<1>0. Pointer \cap {"org", "event", "at", "keyId", "algorithm", "signature", "canonical"} = {}
  BY EvidenceAssumption DEF P!ProvenanceAssumption
<1>1. DOMAIN s = P!Fields
  BY DEF P!Seal, P!Fields
<1>2. \A f \in P!Claims : f \notin {"algorithm", "signature", "canonical"} /\ f \in DOMAIN s
  BY <1>0, <1>1 DEF P!Claims, P!Fields
<1>3. \A f \in P!Claims : s[f] = row.claims[f]
  BY <1>2 DEF P!Seal
<1>4. /\ s.algorithm = IF row.signed THEN "ed25519" ELSE "hmac-sha256"
      /\ s.canonical = IF row.signed THEN P!Canon(row.claims) ELSE P!Missing
      /\ s.signature = IF row.signed
                       THEN P!SignatureBy(Signer[row.claims.keyId], P!Canon(row.claims))
                       ELSE [malformed |-> "undecodable"]
  BY DEF P!Seal
<1>5. /\ s.org = row.claims.org /\ s.event = row.claims.event /\ s.keyId = row.claims.keyId
      /\ \A p \in Pointer : s[p] = row.claims[p]
  BY <1>3 DEF P!Claims
<1> HIDE DEF s
<1>6. P!Canon(s) = P!Canon(row.claims)
  BY <1>5 DEF P!Canon
<1>7. RowAsSealed(s)
  <2>1. CASE row.signed
    BY <1>4, <1>5, <1>6, <2>1 DEF RowAsSealed
  <2>2. CASE ~row.signed
    BY <1>4, <2>2 DEF RowAsSealed, P!BadSignatures
  <2> QED
    BY <2>1, <2>2
<1>8. s = P!Seal(row)
  BY DEF s
<1> QED
  BY <1>1, <1>7, <1>8

LEMMA RowInit ==
  ASSUME P!Init
  PROVE  RowInv
<1>1. PICK set \in SealedSets : sealed = [k \in DOMAIN set |-> P!Seal(set[k])]
  BY DEF P!Init
<1>2. set \in Seq({set[k] : k \in DOMAIN set})
  BY EvidenceAssumption DEF P!ProvenanceAssumption
<1>3. \A k \in DOMAIN set :
        /\ set[k].signed \in BOOLEAN /\ DOMAIN set[k].claims = P!Claims
        /\ set[k].signed => set[k].claims.keyId \in DOMAIN Signer
  BY EvidenceAssumption DEF P!ProvenanceAssumption
<1>4. DOMAIN set = 1..Len(set) /\ Len(set) \in Nat
  BY <1>2
<1>5. DOMAIN sealed = DOMAIN set /\ \A k \in DOMAIN sealed : sealed[k] = P!Seal(set[k])
  BY <1>1
<1>6. \A k \in DOMAIN sealed : DOMAIN sealed[k] = P!Fields /\ RowAsSealed(sealed[k])
  BY <1>3, <1>5, RowSealed
<1>7. sealed \in Seq(Range(sealed))
  <2>1. sealed \in [1..Len(set) -> Range(sealed)]
    BY <1>1, <1>4 DEF Range
  <2> QED
    BY <1>4, <2>1
<1>8. shipped = sealed
  BY DEF P!Init
<1>9. RowsListed
  BY <1>6, <1>7, <1>8 DEF RowsListed
<1>10. RowOrigin
  BY <1>6, <1>8 DEF RowOrigin
<1>11. /\ directory \in Directories /\ expected \in Org \cup {NoOrg} /\ altered = 0
       /\ pc = "transit" /\ i = 1 /\ signed = 0 /\ unsigned = 0 /\ steps = {}
       /\ status = "pending"
  BY DEF P!Init
<1>12. RowDomains
  BY <1>11, Platform DEF RowDomains
<1>13. RowPosition
  <2>1. i \in 1..(Len(shipped) + 1)
    BY <1>4, <1>7, <1>8, <1>11
  <2> QED
    BY <1>11, <2>1 DEF RowPosition, Walking, Inside
<1>14. RowsReported /\ RowsCounted
  BY <1>7, <1>8, <1>11, NothingReported DEF Inside
<1> QED
  BY <1>9, <1>10, <1>12, <1>13, <1>14 DEF RowInv

LEMMA RowAlterStep ==
  ASSUME RowInv, NEW k \in DOMAIN shipped, NEW field \in P!Fields,
         NEW value \in P!Replacements(k, field), P!Alter(k, field, value)
  PROVE  RowInv'
<1>1. /\ pc = "transit" /\ altered < MaxAlterations
      /\ shipped' = [shipped EXCEPT ![k][field] = value] /\ altered' = altered + 1
      /\ UNCHANGED <<directory, expected, sealed, pc, i, signed, unsigned, steps, status>>
  BY DEF P!Alter
<1>2. i = 1 /\ steps = {} /\ status = "pending" /\ pc \notin Inside /\ pc # "done"
  BY <1>1 DEF RowInv, RowPosition, Inside
<1>3. signed = 0 /\ unsigned = 0
  <2>1. signed \in Nat /\ unsigned \in Nat /\ signed + unsigned = 0
    BY <1>2 DEF RowInv, RowsCounted
  <2> QED
    BY <2>1
<1>4. /\ DOMAIN shipped' = DOMAIN shipped
      /\ \A j \in DOMAIN shipped : j # k => shipped'[j] = shipped[j]
      /\ shipped'[k] = [shipped[k] EXCEPT ![field] = value]
  BY <1>1
<1>5. /\ Len(shipped) \in Nat /\ DOMAIN shipped = 1..Len(shipped)
      /\ Len(shipped) = Len(sealed) /\ \A j \in DOMAIN shipped : DOMAIN shipped[j] = P!Fields
  BY DEF RowInv, RowsListed
<1>6. shipped' \in Seq(Range(shipped')) /\ Len(shipped') = Len(shipped)
  <2>1. shipped' \in [1..Len(shipped) -> Range(shipped')]
    <3>1. shipped' = [j \in DOMAIN shipped' |-> shipped'[j]]
      BY <1>1
    <3> QED
      BY <1>4, <1>5, <3>1 DEF Range
  <2> QED
    BY <1>5, <2>1
<1>7. \A j \in DOMAIN shipped' : DOMAIN shipped'[j] = P!Fields
  BY <1>4, <1>5
<1>8. RowsListed'
  <2>1. sealed' = sealed /\ \E S : sealed \in Seq(S)
    BY <1>1 DEF RowInv, RowsListed
  <2> QED
    BY <1>5, <1>6, <1>7, <2>1 DEF RowsListed
<1>9. RowOrigin'
  <2>1. (\A j \in DOMAIN sealed : RowAsSealed(sealed[j]))'
    BY <1>1 DEF RowInv, RowOrigin, RowAsSealed, P!SignatureBy, P!Canon, P!Encode,
       P!BadSignatures, P!Missing
  <2> DEFINE Origin(signature) ==
               \/ signature \in P!BadSignatures
               \/ \E n \in DOMAIN sealed : signature = sealed[n].signature
               \/ \E text : signature = P!SignatureBy(Foreign, text)
  <2>2. \A j \in DOMAIN shipped : Origin(shipped[j].signature)
    BY DEF RowInv, RowOrigin
  <2>3. ASSUME NEW j \in DOMAIN shipped PROVE Origin(shipped'[j].signature)
    <3>1. CASE j # k
      BY <1>4, <2>2, <3>1
    <3>2. CASE j = k /\ field # "signature"
      <4>1. "signature" \in DOMAIN shipped[k]
        BY <1>5 DEF P!Fields
      <4>2. shipped'[k].signature = shipped[k].signature
        BY <1>4, <3>2, <4>1
      <4> QED
        BY <2>2, <3>2, <4>2
    <3>3. CASE j = k /\ field = "signature"
      <4>1. "signature" \notin Pointer
        BY EvidenceAssumption DEF P!ProvenanceAssumption
      <4>2. value \in P!BadSignatures \cup {sealed[n].signature : n \in DOMAIN sealed}
                        \cup {P!SignatureBy(Foreign, P!Canon(shipped[k]))}
        BY <3>3, <4>1 DEF P!Replacements
      <4>3. "signature" \in DOMAIN shipped[k]
        BY <1>5 DEF P!Fields
      <4>4. shipped'[k].signature = value
        BY <1>4, <3>3, <4>3
      <4> QED
        BY <3>3, <4>2, <4>4
    <3> QED
      BY <3>1, <3>2, <3>3
  <2>4. P!BadSignatures' = P!BadSignatures /\ sealed' = sealed
    BY <1>1 DEF P!BadSignatures
  <2> QED
    BY <1>4, <2>1, <2>3, <2>4 DEF RowOrigin, P!SignatureBy
<1>10. RowDomains'
  <2>1. altered' \in 0..MaxAlterations
    BY <1>1, Platform DEF RowInv, RowDomains
  <2> QED
    BY <1>1, <1>2, <2>1 DEF RowInv, RowDomains
<1>11. RowPosition'
  <2>1. i' \in 1..(Len(shipped') + 1)
    BY <1>1, <1>2, <1>5, <1>6
  <2> QED
    BY <1>1, <1>2, <2>1 DEF RowPosition, Walking, Inside
<1>12. RowsReported' /\ RowsCounted'
  <2>1. (i = 1 /\ pc \notin Inside /\ steps = {} /\ shipped \in Seq(Range(shipped))
           /\ signed = 0 /\ unsigned = 0)'
    BY <1>1, <1>2, <1>3, <1>6 DEF Range, Inside
  <2> QED
    BY <2>1, NothingReported, PTL
<1> QED
  BY <1>8, <1>9, <1>10, <1>11, <1>12 DEF RowInv

\* Rows, directory and what is reported stay; the walk starts or ends.
LEMMA RowFrame ==
  ASSUME RowInv, \A k \in DOMAIN shipped : Point(k)' = Point(k),
         UNCHANGED <<directory, expected, sealed, shipped, altered, steps>>
  PROVE  RowsListed' /\ RowOrigin' /\ RowDomains' /\ RowsReported'
<1>1. RowsListed'
  BY DEF RowInv, RowsListed
<1>2. RowOrigin'
  BY DEF RowInv, RowOrigin, RowAsSealed, P!SignatureBy, P!Canon, P!Encode, P!BadSignatures,
     P!Missing
<1>3. RowDomains'
  BY DEF RowInv, RowDomains
<1>4. ASSUME NEW k \in DOMAIN shipped PROVE RowReported(k)'
  <2>1. RowReported(k) /\ Point(k)' = Point(k)
    BY DEF RowInv, RowsReported
  <2>2. P!FaultyFields(k)' = P!FaultyFields(k)
    BY DEF P!FaultyFields
  <2>3. /\ RowDue(shipped[k], Point(k))' = RowDue(shipped[k], Point(k))
        /\ Confirmed(shipped[k], Point(k))' <=> Confirmed(shipped[k], Point(k))
        /\ P!Legacy(shipped[k])' <=> P!Legacy(shipped[k])
    BY <2>1 DEF RowDue, Confirmed, Found, Verified, P!Legacy
  <2> QED
    BY <2>1, <2>2, <2>3 DEF RowReported
<1> QED
  BY <1>1, <1>2, <1>3, <1>4 DEF RowsReported

LEMMA RowRejectStep ==
  ASSUME RowInv, P!RejectEmpty
  PROVE  RowInv'
<1>1. /\ pc = "transit" /\ shipped = << >> /\ status' = "INVALID" /\ pc' = "done"
      /\ steps' = {P!Fault("records", 0, "MALFORMED_PACK")}
      /\ UNCHANGED <<directory, expected, sealed, shipped, altered, i, signed, unsigned>>
  BY DEF P!RejectEmpty, P!evidence
<1>2. RowsListed'
  BY <1>1 DEF RowInv, RowsListed
<1>3. RowOrigin'
  BY <1>1 DEF RowInv, RowOrigin, RowAsSealed, P!SignatureBy, P!Canon, P!Encode,
     P!BadSignatures, P!Missing
<1>4. \A s \in steps' : s.status = "INVALID"
  BY <1>1, RowFaultFields
<1>5. RowDomains'
  BY <1>1, <1>4 DEF RowInv, RowDomains, P!Statuses
<1>6. RowsReported'
  BY <1>1 DEF RowsReported
<1>7. steps' # {} /\ (\E s \in steps' : s.status = "INVALID")
  BY <1>1, <1>4
<1>8. P!AnyInvalid(steps)' /\ P!RollupStatus(steps)' = "INVALID"
  <2>1. "INVALID" \in {s.status : s \in steps'}
    BY <1>7
  <2> QED
    BY <1>7, <2>1 DEF P!AnyInvalid, P!RollupStatus, P!Rollup
<1>9. i = 1 /\ Len(shipped) = 0 /\ i \in 1..(Len(shipped) + 1)
  BY <1>1 DEF RowInv, RowPosition
<1>10. RowPosition'
  BY <1>1, <1>8, <1>9 DEF RowPosition, Walking, Inside
<1>11. RowsCounted'
  <2>1. Entered = {} /\ Entered' = {}
    BY <1>1, <1>9 DEF Entered, Inside
  <2>2. EnteredSigned' = EnteredSigned
    BY <2>1 DEF EnteredSigned
  <2>3. pc \notin Inside /\ pc' \notin Inside
    BY <1>1 DEF Inside
  <2> QED
    BY <1>1, <2>2, <2>3 DEF RowInv, RowsCounted
<1> QED
  BY <1>2, <1>3, <1>5, <1>6, <1>10, <1>11 DEF RowInv

LEMMA RowOpenStep ==
  ASSUME RowInv, P!Open
  PROVE  RowInv'
<1>1. /\ pc = "transit" /\ shipped # << >> /\ pc' = "row"
      /\ UNCHANGED <<directory, expected, sealed, shipped, altered, i, signed, unsigned,
                     steps, status>>
      /\ pc \notin Inside /\ pc' \notin Inside
  BY DEF P!Open, P!evidence, Inside
<1>2. RowsListed' /\ RowOrigin' /\ RowDomains' /\ RowsReported'
  BY <1>1, RowFrame DEF Point
<1>3. RowPosition'
  <2>1. i = 1 /\ status = "pending"
    BY <1>1 DEF RowInv, RowPosition
  <2>2. i' \in 1..Len(shipped') /\ i' \in 1..(Len(shipped') + 1)
    <3>1. Len(shipped) \in Nat /\ Len(shipped) # 0
      BY <1>1 DEF RowInv, RowsListed
    <3> QED
      BY <1>1, <2>1, <3>1
  <2> QED
    BY <1>1, <2>1, <2>2 DEF RowPosition, Walking, Inside
<1>4. RowsCounted'
  <2>1. EnteredSigned' = EnteredSigned
    BY <1>1 DEF EnteredSigned, Entered, P!Legacy
  <2> QED
    BY <1>1, <2>1 DEF RowInv, RowsCounted
<1> QED
  BY <1>2, <1>3, <1>4 DEF RowInv

LEMMA RowRollUpStep ==
  ASSUME RowInv, P!RollUp
  PROVE  RowInv'
<1>1. /\ pc = "rollup" /\ status' = P!RollupStatus(steps) /\ pc' = "done"
      /\ UNCHANGED <<directory, expected, sealed, shipped, altered, i, signed, unsigned, steps>>
      /\ pc \notin Inside /\ pc' \notin Inside
  BY DEF P!RollUp, P!evidence, Inside
<1>2. RowsListed' /\ RowOrigin' /\ RowDomains' /\ RowsReported'
  BY <1>1, RowFrame DEF Point
<1>3. RowPosition'
  <2>1. i = Len(shipped) + 1 /\ i \in 1..(Len(shipped) + 1) /\ shipped # << >>
    BY <1>1 DEF RowInv, RowPosition
  <2>2. P!RollupStatus(steps)' = P!RollupStatus(steps)
    BY <1>1 DEF P!RollupStatus, P!Rollup
  <2> QED
    BY <1>1, <2>1, <2>2 DEF RowPosition, Walking, Inside
<1>4. RowsCounted'
  <2>1. EnteredSigned' = EnteredSigned
    BY <1>1 DEF EnteredSigned, Entered, P!Legacy
  <2> QED
    BY <1>1, <2>1 DEF RowInv, RowsCounted
<1> QED
  BY <1>2, <1>3, <1>4 DEF RowInv

LEMMA RowStutter ==
  ASSUME RowInv,
         UNCHANGED <<directory, expected, sealed, shipped, altered, pc, i, signed, unsigned,
                     steps, status>>
  PROVE  RowInv'
<1>1. RowsListed' /\ RowOrigin' /\ RowDomains' /\ RowsReported'
  BY RowFrame DEF Point, Inside
<1>2. P!RollupStatus(steps)' = P!RollupStatus(steps) /\ (P!AnyInvalid(steps)' <=> P!AnyInvalid(steps))
  BY DEF P!RollupStatus, P!Rollup, P!AnyInvalid
<1>3. RowPosition'
  BY <1>2 DEF RowInv, RowPosition, Walking, Inside, P!Legacy, Found, P!Missing
<1>4. EnteredSigned' = EnteredSigned
  BY DEF EnteredSigned, Entered, P!Legacy, Inside
<1>5. RowsCounted'
  BY <1>4 DEF RowInv, RowsCounted, Inside
<1> QED
  BY <1>1, <1>3, <1>5 DEF RowInv

LEMMA RowStep ==
  ASSUME RowInv, P!Next
  PROVE  RowInv'
<1>1. CASE \E k \in DOMAIN shipped, field \in P!Fields :
             \E value \in P!Replacements(k, field) : P!Alter(k, field, value)
  BY <1>1, RowAlterStep
<1>2. CASE P!RejectEmpty
  BY <1>2, RowRejectStep
<1>3. CASE P!Open
  BY <1>3, RowOpenStep
<1>4. CASE P!EnterSigned \/ P!EnterLegacy
  BY <1>4, EnterStep
<1>5. CASE P!CanonicalMissing \/ P!CompareCanonical
  BY <1>5, CanonicalStep
<1>6. CASE P!CheckKey
  BY <1>6, RowKeyStep
<1>7. CASE P!CheckSignature
  BY <1>7, RowSignatureStep
<1>8. CASE P!RollUp
  BY <1>8, RowRollUpStep
<1>9. CASE P!Returned
  BY <1>9, RowStutter DEF P!Returned, P!vars
<1> QED
  BY <1>1, <1>2, <1>3, <1>4, <1>5, <1>6, <1>7, <1>8, <1>9 DEF P!Next

------------------------------------------------------------------------------
(* What the walk over the rows comes to.                                    *)

LEMMA RowsTyped ==
  ASSUME RowInv
  PROVE  P!TypeOK
<1>1. /\ directory \in Directories /\ expected \in Org \cup {NoOrg}
      /\ Len(shipped) = Len(sealed) /\ \A k \in DOMAIN shipped : DOMAIN shipped[k] = P!Fields
      /\ altered \in 0..MaxAlterations /\ \A s \in steps : s.status \in P!Statuses
  BY DEF RowInv, RowsListed, RowDomains
<1>2. /\ pc \in {"transit", "row", "canonical", "key", "signature", "rollup", "done"}
      /\ i \in 1..(Len(shipped) + 1)
  BY DEF RowInv, RowPosition, Walking, Inside
<1>3. signed + unsigned = IF pc \in {"canonical", "key", "signature"} THEN i ELSE i - 1
  BY DEF RowInv, RowsCounted, Inside
<1>4. status \in {"pending"} \cup P!Statuses
  BY DEF RowInv, RowPosition, P!RollupStatus, P!Rollup, P!Statuses
<1> QED
  BY <1>1, <1>2, <1>3, <1>4 DEF P!TypeOK

\* At the end every row was judged.
LEMMA AllJudged ==
  ASSUME RowInv, status # "pending"
  PROVE  /\ pc = "done" /\ status = P!RollupStatus(steps)
         /\ \A k \in DOMAIN shipped : Point(k) = "nextRow" /\ RowReported(k)
         /\ Entered = DOMAIN shipped
         /\ shipped = << >> => P!AnyInvalid(steps)
<1>1. pc = "done" /\ i = Len(shipped) + 1 /\ status = P!RollupStatus(steps)
  BY DEF RowInv, RowPosition
<1>2. \A k \in DOMAIN shipped : k < i
  BY <1>1, RowExtents
<1>3. \A k \in DOMAIN shipped : Point(k) = "nextRow" /\ RowReported(k)
  BY <1>2 DEF RowInv, RowsReported, Point
<1>4. Entered = DOMAIN shipped
  BY <1>2, RowExtents DEF Entered
<1>5. shipped = << >> => P!AnyInvalid(steps)
  BY <1>1 DEF RowInv, RowPosition
<1> QED
  BY <1>1, <1>3, <1>4, <1>5

\* A row of which nothing is due is of the right org, and legacy or vouched for.
LEMMA NothingDue ==
  ASSUME RowInv, NEW k \in DOMAIN shipped
  PROVE  RowDue(shipped[k], "nextRow") = {} <=>
           /\ expected \in {NoOrg, shipped[k].org}
           /\ P!Legacy(shipped[k]) \/ P!Vouched(shipped[k])
<1> DEFINE r == shipped[k]
<1>1. directory \in Directories /\ RowOrigin
  BY DEF RowInv, RowDomains
<1>2. P!Vouched(r) <=> /\ ~P!Legacy(r) /\ r.canonical = P!Canon(r)
                       /\ Found(r) /\ Verified(r)
  BY <1>1, VouchedIs
<1>3. P!Canon(r) # P!Missing
  BY RowText
<1> HIDE DEF r
<1>4. ASSUME RowDue(r, "nextRow") = {}
      PROVE  expected \in {NoOrg, r.org} /\ (P!Legacy(r) \/ P!Vouched(r))
  <2>1. expected \in {NoOrg, r.org}
    BY <1>4 DEF RowDue
  <2>2. ~P!Legacy(r) => r.canonical = P!Canon(r)
    BY <1>4 DEF RowDue
  <2>3. ~P!Legacy(r) => Found(r)
    BY <1>3, <1>4, <2>2 DEF RowDue
  <2>4. ~P!Legacy(r) => Verified(r)
    BY <1>3, <1>4, <2>2, <2>3 DEF RowDue
  <2> QED
    BY <1>2, <2>1, <2>2, <2>3, <2>4
<1>5. ASSUME expected \in {NoOrg, r.org}, P!Legacy(r) \/ P!Vouched(r)
      PROVE  RowDue(r, "nextRow") = {}
  BY <1>2, <1>5 DEF RowDue
<1>6. r = shipped[k]
  BY DEF r
<1> QED
  BY <1>4, <1>5, <1>6

LEMMA RowsBlamed ==
  ASSUME RowInv
  PROVE  P!BlameIsExact
<1> SUFFICES ASSUME status # "pending", NEW k \in DOMAIN shipped
             PROVE  /\ P!FaultyFields(k) = {} <=>
                         /\ expected \in {NoOrg, shipped[k].org}
                         /\ P!Legacy(shipped[k]) \/ P!Vouched(shipped[k])
                    /\ P!Unsigned(k) \in steps <=> P!Legacy(shipped[k])
  BY DEF P!BlameIsExact, P!Legacy
<1>1. /\ P!FaultyFields(k) = RowDue(shipped[k], "nextRow")
      /\ P!Unsigned(k) \in steps <=> P!Legacy(shipped[k])
  BY AllJudged DEF RowReported
<1> QED
  BY <1>1, NothingDue

\* A step is about a row, or there are none.
LEMMA StepsAreOfRows ==
  ASSUME RowInv, shipped # << >>, NEW s \in steps
  PROVE  s.target[2] \in DOMAIN shipped /\ s.status \in P!Statuses
  BY DEF RowInv, RowDomains

LEMMA RolledUp ==
  ASSUME NEW S
  PROVE  /\ P!RollupStatus(S) = "INVALID" <=> P!AnyInvalid(S)
         /\ P!RollupStatus(S) = "SKIPPED" <=> \A s \in S : s.status = "SKIPPED"
         /\ P!RollupStatus(S) = "VALID" <=>
              ~P!AnyInvalid(S) /\ \E s \in S : s.status # "SKIPPED"
<1> DEFINE statuses == {s.status : s \in S}
<1>1. "INVALID" \in statuses <=> P!AnyInvalid(S)
  BY DEF P!AnyInvalid
<1>2. statuses \subseteq {"SKIPPED"} <=> \A s \in S : s.status = "SKIPPED"
  OBVIOUS
<1>3. P!RollupStatus(S) = IF "INVALID" \in statuses THEN "INVALID"
                          ELSE IF statuses \subseteq {"SKIPPED"} THEN "SKIPPED" ELSE "VALID"
  BY DEF P!RollupStatus, P!Rollup
<1>4. P!AnyInvalid(S) => ~\A s \in S : s.status = "SKIPPED"
  BY DEF P!AnyInvalid
<1> HIDE DEF statuses
<1> QED
  BY <1>1, <1>2, <1>3, <1>4

\* No step accuses row k: nothing is due of it.
LEMMA NotAccused ==
  ASSUME RowInv, status # "pending", NEW k \in DOMAIN shipped, ~P!AnyInvalid(steps)
  PROVE  RowDue(shipped[k], "nextRow") = {}
<1>1. P!FaultyFields(k) = RowDue(shipped[k], "nextRow")
  BY AllJudged DEF RowReported
<1>2. P!FaultyFields(k) = {}
  BY DEF P!FaultyFields, P!AnyInvalid
<1> QED
  BY <1>1, <1>2

LEMMA ValidRowsCounted ==
  ASSUME RowInv, status = "VALID"
  PROVE  /\ signed > 0
         /\ signed = Cardinality({k \in DOMAIN shipped : P!Vouched(shipped[k])})
<1>1. ~P!AnyInvalid(steps) /\ \E s \in steps : s.status # "SKIPPED"
  BY AllJudged, RolledUp
<1>2. \A k \in DOMAIN shipped : P!Legacy(shipped[k]) \/ P!Vouched(shipped[k])
  BY <1>1, NotAccused, NothingDue
<1>3. EnteredSigned = {k \in DOMAIN shipped : P!Vouched(shipped[k])}
  <2>1. \A k \in DOMAIN shipped : P!Vouched(shipped[k]) <=> ~P!Legacy(shipped[k])
    BY <1>2 DEF P!Vouched
  <2>2. Entered = DOMAIN shipped
    BY AllJudged
  <2> QED
    BY <2>1, <2>2 DEF EnteredSigned
<1>4. signed \in Nat /\ signed = Cardinality(EnteredSigned)
  BY DEF RowInv, RowsCounted
<1>5. EnteredSigned # {}
  <2>1. shipped # << >>
    BY <1>1, AllJudged
  <2>2. PICK s \in steps : s.status # "SKIPPED"
    BY <1>1
  <2>3. s.target[2] \in DOMAIN shipped /\ s.status = "VALID"
    BY <1>1, <2>1, <2>2, StepsAreOfRows DEF P!AnyInvalid, P!Statuses
  <2>4. ~P!Legacy(shipped[s.target[2]])
    BY <2>3, AllJudged DEF RowReported
  <2> QED
    BY <2>3, <2>4, AllJudged DEF EnteredSigned
<1>6. IsFiniteSet(EnteredSigned)
  <2>1. IsFiniteSet(DOMAIN shipped)
    BY RowExtents, FS_Interval
  <2>2. EnteredSigned \subseteq DOMAIN shipped
    BY AllJudged DEF EnteredSigned
  <2> QED
    BY <2>1, <2>2, FS_Subset
<1>7. Cardinality(EnteredSigned) # 0
  BY <1>5, <1>6, FS_EmptySet
<1>8. signed > 0
  BY <1>4, <1>7
<1> QED
  BY <1>3, <1>4, <1>8

\* The cardinality the verifier's module counts with is the one counted with here.
LEMMA SameCardinality ==
  ASSUME NEW S
  PROVE  P!Cardinality(S) = Cardinality(S)
  BY DEF P!Cardinality, Cardinality

LEMMA RowsNotPromoted ==
  ASSUME RowInv
  PROVE  P!UnsignedNeverPromoted
<1> SUFFICES ASSUME status # "pending"
             PROVE  status = "SKIPPED" <=>
                      /\ shipped # << >>
                      /\ \A k \in DOMAIN shipped :
                           P!Legacy(shipped[k]) /\ expected \in {NoOrg, shipped[k].org}
  BY ValidRowsCounted, SameCardinality DEF P!UnsignedNeverPromoted, P!Legacy
<1>1. status = "SKIPPED" <=> \A s \in steps : s.status = "SKIPPED"
  BY AllJudged, RolledUp
<1>2. ASSUME \A s \in steps : s.status = "SKIPPED"
      PROVE  shipped # << >>
  BY <1>2, AllJudged DEF P!AnyInvalid
<1>3. ASSUME \A s \in steps : s.status = "SKIPPED", NEW k \in DOMAIN shipped
      PROVE  P!Legacy(shipped[k]) /\ expected \in {NoOrg, shipped[k].org}
  <2>1. ~P!AnyInvalid(steps)
    BY <1>3 DEF P!AnyInvalid
  <2>2. P!Legacy(shipped[k])
    BY <1>3, AllJudged DEF RowReported
  <2> QED
    BY <2>1, <2>2, NotAccused, NothingDue
<1>4. ASSUME shipped # << >>, NEW s \in steps,
             \A k \in DOMAIN shipped :
               P!Legacy(shipped[k]) /\ expected \in {NoOrg, shipped[k].org}
      PROVE  s.status = "SKIPPED"
  <2> DEFINE k == s.target[2]
  <2>1. k \in DOMAIN shipped /\ s.status \in P!Statuses
    BY <1>4, StepsAreOfRows
  <2>2. RowDue(shipped[k], "nextRow") = {}
    BY <1>4, <2>1, NothingDue
  <2>3. P!FaultyFields(k) = {}
    BY <2>1, <2>2, AllJudged DEF RowReported
  <2>4. s.status # "INVALID"
    BY <1>4, <2>3 DEF P!FaultyFields
  <2>5. s.status # "VALID"
    BY <1>4, <2>1, AllJudged DEF RowReported
  <2> QED
    BY <2>1, <2>4, <2>5 DEF P!Statuses
<1> QED
  BY <1>1, <1>2, <1>3, <1>4

\* Only raw claims of a signed row were edited: its signature verifies.
LEMMA ClaimsEdited ==
  ASSUME RowInv, NEW k \in DOMAIN shipped, sealed[k] \in P!SignedRows,
         P!Verifiable(shipped[k]),
         {f \in P!Fields : shipped[k][f] # sealed[k][f]} \subseteq {"event"} \cup Pointer
  PROVE  /\ ~P!Legacy(shipped[k]) /\ Found(shipped[k]) /\ Verified(shipped[k])
         /\ shipped[k].canonical = sealed[k].canonical
         /\ shipped[k].canonical # P!Missing
<1> DEFINE r == shipped[k]
           s == sealed[k]
<1>1. {"algorithm", "signature", "canonical", "keyId"} \cap ({"event"} \cup Pointer) = {}
  BY EvidenceAssumption DEF P!ProvenanceAssumption
<1>2. {"algorithm", "signature", "canonical", "keyId"} \subseteq P!Fields
  BY DEF P!Fields, P!Claims
<1>3. \A f \in {"algorithm", "signature", "canonical", "keyId"} : r[f] = s[f]
  BY <1>1, <1>2
<1>4. r.algorithm = s.algorithm /\ r.signature = s.signature /\ r.canonical = s.canonical
      /\ r.keyId = s.keyId
  BY <1>3
<1>5. s.algorithm = "ed25519" /\ RowAsSealed(s)
  BY RowExtents DEF P!SignedRows, RowInv, RowOrigin
<1>6. Found(r) /\ directory[r.keyId].material = Signer[r.keyId]
  BY DEF P!Verifiable, Found
<1> HIDE DEF r, s
<1>7. /\ s.keyId \in DOMAIN Signer /\ s.canonical = P!Canon(s)
      /\ s.signature = P!SignatureBy(Signer[s.keyId], P!Canon(s))
  BY <1>5 DEF RowAsSealed
<1>8. s.signature \notin P!BadSignatures /\ P!Canon(s) # P!Missing
  BY <1>7, RowSignatureWellFormed, RowText
<1>9. Signer[s.keyId] \notin {"undecodable", "bad length"}
  BY <1>7, Platform DEF BadMaterial
<1>10. Verified(r)
  BY <1>4, <1>6, <1>7, <1>8, <1>9 DEF Verified
<1>11. ~P!Legacy(r) /\ r.canonical # P!Missing
  BY <1>4, <1>5, <1>7, <1>8 DEF P!Legacy
<1>12. r = shipped[k] /\ s = sealed[k]
  BY DEF r, s
<1> QED
  BY <1>4, <1>6, <1>10, <1>11, <1>12

LEMMA RowsForensic ==
  ASSUME RowInv
  PROVE  P!SignatureStepIsForensic
<1>1. ASSUME NEW k \in DOMAIN shipped, P!Ok("signature", k) \in steps
      PROVE  \E s \in P!SignedRows :
               s.canonical = shipped[k].canonical /\ s.signature = shipped[k].signature
  <2>1. Found(shipped[k]) /\ Verified(shipped[k])
    BY <1>1 DEF RowInv, RowsReported, RowReported, Confirmed
  <2> QED
    BY <2>1, VerifiedIsSigned DEF RowInv, RowDomains
<1>2. ASSUME NEW k \in DOMAIN shipped, status # "pending", sealed[k] \in P!SignedRows,
             P!Verifiable(shipped[k]),
             {f \in P!Fields : shipped[k][f] # sealed[k][f]} \subseteq {"event"} \cup Pointer
      PROVE  /\ P!Ok("signature", k) \in steps
             /\ P!FaultyFields(k) \ {"orgId"} =
                  IF P!Canon(shipped[k]) = sealed[k].canonical THEN {} ELSE {"payloadCanonical"}
  <2> DEFINE r == shipped[k]
  <2>1. /\ ~P!Legacy(r) /\ Found(r) /\ Verified(r)
        /\ r.canonical = sealed[k].canonical /\ r.canonical # P!Missing
    BY <1>2, ClaimsEdited
  <2>2. /\ P!FaultyFields(k) = RowDue(r, "nextRow")
        /\ P!Ok("signature", k) \in steps <=> Confirmed(r, "nextRow")
    BY <1>2, AllJudged DEF RowReported
  <2> HIDE DEF r
  <2>3. Confirmed(r, "nextRow")
    BY <2>1 DEF Confirmed
  <2>4. RowDue(r, "nextRow") \ {"orgId"} = {f \in {"payloadCanonical"} : r.canonical # P!Canon(r)}
    BY <2>1 DEF RowDue
  <2>5. r = shipped[k]
    BY DEF r
  <2> QED
    BY <2>1, <2>2, <2>3, <2>4, <2>5
<1> QED
  BY <1>1, <1>2 DEF P!SignatureStepIsForensic

------------------------------------------------------------------------------
(* Exports: what they are and where their signatures come from.             *)

\* An export as the platform sealed it.
ExportAsSealed(e) ==
  /\ DOMAIN e = X!Fields /\ e.payload \in X!Payload
  /\ e.version = "export.v1" /\ e.algorithm = "ed25519" /\ e.keyId \in DOMAIN Signer
  /\ e.canonical = X!Canon(e.payload) /\ e.hash = X!Sha256(X!Canon(e.payload))
  /\ e.signature = X!SignatureBy(Signer[e.keyId], X!Canon(e.payload), e.keyId)

\* Whoever alters a signature has the platform's to copy, or a key of his own.
SignatureFound(signature) ==
  \/ signature \in {X!Undecodable, X!BadLength}
  \/ \E n \in {1, 2} : signature = sealed[n].signature
  \/ \E text, id : signature = X!SignatureBy(Foreign, text, id)

ExportOrigin ==
  /\ directory \in Directories /\ altered \in 0..MaxAlterations
  /\ \A n \in {1, 2} : ExportAsSealed(sealed[n])
  /\ DOMAIN shipped = X!Fields /\ shipped.payload \in X!Payload
  /\ SignatureFound(shipped.signature)

ExportFound == X!Lookup(directory, shipped.keyId, shipped.at) = "hit"

\* The signature verifies over the shipped text and key id.
ExportVerified ==
  /\ X!material # "undecodable"
  /\ shipped.signature = X!SignatureBy(X!material, shipped.canonical, shipped.keyId)

\* The fields the export has to be accused in at this point of the audit; the
\* first fault after the envelope is the last.
ExportDue(point) ==
  {f \in {"version", "algorithm", "keyId", "canonical", "hash", "signature"} :
     \/ f = "version" /\ point # "transit" /\ shipped.version # "export.v1"
     \/ f = "algorithm" /\ point # "transit" /\ shipped.algorithm # "ed25519"
     \/ f = "keyId" /\ point = "done" /\ ~ExportFound
     \/ f = "canonical" /\ point = "done" /\ ExportFound /\ X!Recomputed # shipped.canonical
     \/ f = "hash" /\ point = "done" /\ ExportFound /\ X!Recomputed = shipped.canonical
          /\ X!Sha256(X!Recomputed) # shipped.hash
     \/ f = "signature" /\ point = "done" /\ ExportFound /\ X!Recomputed = shipped.canonical
          /\ X!Sha256(X!Recomputed) = shipped.hash /\ ~ExportVerified}

ExportPosition ==
  /\ pc \in {"transit", "key", "canonical", "hash", "signature", "done"}
  /\ pc = "transit" => steps = {}
  /\ pc \in {"canonical", "hash", "signature"} => ExportFound
  /\ pc \in {"hash", "signature"} => X!Recomputed = shipped.canonical
  /\ pc = "signature" => X!Sha256(X!Recomputed) = shipped.hash
  /\ status = IF pc = "done" THEN X!Verdict(steps) ELSE "pending"

ExportReported ==
  /\ \A s \in steps : s.target[1] \in X!Fields /\ s.status \in {"VALID", "INVALID"}
  /\ X!FaultyFields = ExportDue(pc)

ExportInv == ExportOrigin /\ ExportPosition /\ ExportReported

LEMMA ExportSignatureParts ==
  ASSUME NEW pk, NEW text, NEW id, NEW pk2, NEW text2, NEW id2,
         X!SignatureBy(pk, text, id) = X!SignatureBy(pk2, text2, id2)
  PROVE  pk = pk2 /\ text = text2 /\ id = id2
<1>1. pk = pk2 /\ X!SigningInput(text, id) = X!SigningInput(text2, id2)
  BY DEF X!SignatureBy
<1>2. /\ X!SigningInput(text, id).canonical = text /\ X!SigningInput(text, id).keyId = id
      /\ X!SigningInput(text2, id2).canonical = text2 /\ X!SigningInput(text2, id2).keyId = id2
  BY DEF X!SigningInput
<1> QED
  BY <1>1, <1>2

LEMMA ExportSignatureWellFormed ==
  ASSUME NEW pk, NEW text, NEW id
  PROVE  X!SignatureBy(pk, text, id) \notin {X!Undecodable, X!BadLength}
<1>1. DOMAIN X!SignatureBy(pk, text, id) = {"by", "over"}
  BY DEF X!SignatureBy
<1>2. DOMAIN X!Undecodable = {"malformed"} /\ DOMAIN X!BadLength = {"malformed"}
  BY DEF X!Undecodable, X!BadLength
<1> QED
  BY <1>1, <1>2

\* Texts and hashes tell the contents of payloads apart, and nothing else.
LEMMA ExportTexts ==
  ASSUME NEW p, NEW q
  PROVE  /\ X!Canon(p) = X!Canon(q) <=> p.content = q.content
         /\ X!Sha256(X!Canon(p)) = X!Sha256(X!Canon(q)) <=> X!Canon(p) = X!Canon(q)
<1>1. X!Canon(p).canonical = p.content /\ X!Canon(q).canonical = q.content
  BY DEF X!Canon
<1>2. /\ X!Sha256(X!Canon(p)).sha256 = X!Canon(p)
      /\ X!Sha256(X!Canon(q)).sha256 = X!Canon(q)
  BY DEF X!Sha256
<1>3. p.content = q.content => X!Canon(p) = X!Canon(q)
  BY DEF X!Canon
<1> QED
  BY <1>1, <1>2, <1>3

------------------------------------------------------------------------------
(* The audit of an export, step by step.                                    *)

LEMMA ExportInit ==
  ASSUME X!Init
  PROVE  ExportInv
<1>1. PICK pair \in SealedExports : sealed = [n \in {1, 2} |-> X!Seal(pair[n])]
  BY DEF X!Init
<1>2. \A n \in {1, 2} : pair[n].keyId \in DOMAIN Signer /\ pair[n].payload \in X!Payload
  BY EvidenceAssumption DEF X!ExportAssumption
<1>3. ASSUME NEW e, e.keyId \in DOMAIN Signer, e.payload \in X!Payload
      PROVE  ExportAsSealed(X!Seal(e))
  BY <1>3 DEF X!Seal, X!Fields, ExportAsSealed
<1>4. \A n \in {1, 2} : ExportAsSealed(sealed[n])
  BY <1>1, <1>2, <1>3
<1>5. /\ directory \in Directories /\ altered = 0 /\ shipped = sealed[1]
      /\ pc = "transit" /\ steps = {} /\ status = "pending"
  BY DEF X!Init
<1>6. SignatureFound(shipped.signature)
  BY <1>5 DEF SignatureFound
<1>7. ExportOrigin
  BY <1>4, <1>5, <1>6, Platform DEF ExportOrigin, ExportAsSealed
<1>8. ExportPosition
  BY <1>5 DEF ExportPosition
<1>9. X!FaultyFields = {} /\ ExportDue("transit") = {}
  BY <1>5 DEF X!FaultyFields, ExportDue
<1>10. ExportReported
  BY <1>5, <1>9 DEF ExportReported
<1> QED
  BY <1>7, <1>8, <1>10 DEF ExportInv

LEMMA ExportChangeStep ==
  ASSUME ExportInv, NEW export, X!Change(export), DOMAIN export = X!Fields,
         export.payload \in X!Payload, SignatureFound(export.signature)
  PROVE  ExportInv'
<1>1. /\ pc = "transit" /\ altered < MaxAlterations /\ shipped' = export
      /\ altered' = altered + 1 /\ UNCHANGED <<directory, sealed, pc, steps, status>>
  BY DEF X!Change
<1>2. altered' \in 0..MaxAlterations
  BY <1>1, Platform DEF ExportInv, ExportOrigin
<1>3. (\A n \in {1, 2} : ExportAsSealed(sealed[n]))'
  BY <1>1 DEF ExportInv, ExportOrigin, ExportAsSealed, X!Fields, X!Payload, X!Canon, X!Sha256,
     X!SignatureBy, X!SigningInput
<1>4. SignatureFound(shipped.signature)'
  BY <1>1 DEF SignatureFound, X!Undecodable, X!BadLength, X!SignatureBy, X!SigningInput
<1>5. X!Fields' = X!Fields /\ X!Payload' = X!Payload
  BY DEF X!Fields, X!Payload
<1>6. ExportOrigin'
  BY <1>1, <1>2, <1>3, <1>4, <1>5 DEF ExportInv, ExportOrigin
<1>7. steps = {} /\ status = "pending"
  BY <1>1 DEF ExportInv, ExportPosition
<1>8. ExportPosition'
  BY <1>1, <1>7 DEF ExportPosition
<1>9. X!FaultyFields' = {} /\ ExportDue("transit")' = {}
  BY <1>1, <1>7 DEF X!FaultyFields, ExportDue
<1>10. ExportDue(pc)' = ExportDue("transit")'
  BY <1>1
<1>11. ExportReported'
  BY <1>1, <1>7, <1>9, <1>10 DEF ExportReported
<1> QED
  BY <1>6, <1>8, <1>11 DEF ExportInv

LEMMA ExportAlterStep ==
  ASSUME ExportInv, NEW field \in X!Fields, X!AlterField(field)
  PROVE  ExportInv'
<1>1. PICK value \in X!Replacements(field) : X!Change([shipped EXCEPT ![field] = value])
  BY DEF X!AlterField
<1> DEFINE export == [shipped EXCEPT ![field] = value]
<1>2. /\ DOMAIN shipped = X!Fields /\ shipped.payload \in X!Payload
      /\ SignatureFound(shipped.signature)
      /\ sealed[2].payload \in X!Payload
  BY DEF ExportInv, ExportOrigin, ExportAsSealed
<1>3. DOMAIN export = X!Fields /\ "payload" \in X!Fields /\ "signature" \in X!Fields
  BY <1>2 DEF X!Fields
<1>4. export.payload \in X!Payload
  <2>1. CASE field = "payload"
    <3>1. value \in {sealed[2].payload} \cup X!Payload
      BY <2>1 DEF X!Replacements
    <3> QED
      BY <1>2, <1>3, <2>1, <3>1
  <2>2. CASE field # "payload"
    BY <1>2, <1>3, <2>2
  <2> QED
    BY <2>1, <2>2
<1>5. SignatureFound(export.signature)
  <2>1. CASE field = "signature"
    <3>1. value \in {sealed[2].signature, X!Undecodable, X!BadLength,
                     X!SignatureBy(Foreign, X!Canon(shipped.payload), shipped.keyId)}
      BY <2>1 DEF X!Replacements
    <3>2. SignatureFound(value)
      BY <3>1 DEF SignatureFound
    <3>3. export.signature = value
      BY <1>2, <1>3, <2>1
    <3> QED
      BY <3>2, <3>3
  <2>2. CASE field # "signature"
    <3>1. export.signature = shipped.signature
      BY <1>2, <1>3, <2>2
    <3> QED
      BY <1>2, <3>1
  <2> QED
    BY <2>1, <2>2
<1>6. X!Change(export)
  BY <1>1
<1> HIDE DEF export
<1> QED
  BY <1>3, <1>4, <1>5, <1>6, ExportChangeStep

LEMMA ExportRestateStep ==
  ASSUME ExportInv, NEW p \in X!Payload, X!Restate(p)
  PROVE  ExportInv'
<1> DEFINE export == [shipped EXCEPT !.payload = p, !.canonical = X!Canon(p),
                                     !.hash = X!Sha256(X!Canon(p))]
<1>1. DOMAIN shipped = X!Fields /\ SignatureFound(shipped.signature)
  BY DEF ExportInv, ExportOrigin
<1>2. {"payload", "canonical", "hash", "signature"} \subseteq X!Fields
  BY DEF X!Fields
<1>3. /\ DOMAIN export = X!Fields /\ export.payload = p
      /\ export.signature = shipped.signature
  BY <1>1, <1>2
<1>4. X!Change(export)
  BY DEF X!Restate
<1> HIDE DEF export
<1> QED
  BY <1>1, <1>3, <1>4, ExportChangeStep

\* The evidence stays as it is.
LEMMA ExportFrame ==
  ASSUME ExportInv, UNCHANGED <<directory, sealed, shipped, altered>>
  PROVE  /\ ExportOrigin' /\ (ExportFound' <=> ExportFound)
         /\ X!Recomputed' = X!Recomputed
         /\ X!Sha256(X!Recomputed)' = X!Sha256(X!Recomputed)
         /\ \A point : ExportDue(point)' = ExportDue(point)
<1>1. ExportOrigin'
  BY DEF ExportInv, ExportOrigin, ExportAsSealed, SignatureFound, X!Fields, X!Payload, X!Canon,
     X!Sha256, X!SignatureBy, X!SigningInput, X!Undecodable, X!BadLength
<1>2. ExportFound' <=> ExportFound
  BY DEF ExportFound
<1>3. X!Recomputed' = X!Recomputed /\ X!Sha256(X!Recomputed)' = X!Sha256(X!Recomputed)
  BY DEF X!Recomputed, X!Canon, X!Sha256
<1>4. ExportVerified' <=> ExportVerified
  BY DEF ExportVerified, X!material, X!SignatureBy, X!SigningInput
<1>5. ASSUME NEW point PROVE ExportDue(point)' = ExportDue(point)
  BY <1>2, <1>3, <1>4 DEF ExportDue
<1> QED
  BY <1>1, <1>2, <1>3, <1>5

LEMMA ExportDueMoves ==
  /\ \A point \in {"key", "canonical", "hash", "signature"} :
       ExportDue(point) = {f \in {"version"} : shipped.version # "export.v1"}
                            \cup {f \in {"algorithm"} : shipped.algorithm # "ed25519"}
  /\ ExportDue("done") =
       ExportDue("key") \cup
       {f \in {"keyId"} : ~ExportFound} \cup
       {f \in {"canonical"} : ExportFound /\ X!Recomputed # shipped.canonical} \cup
       {f \in {"hash"} : ExportFound /\ X!Recomputed = shipped.canonical
                           /\ X!Sha256(X!Recomputed) # shipped.hash} \cup
       {f \in {"signature"} : ExportFound /\ X!Recomputed = shipped.canonical
                           /\ X!Sha256(X!Recomputed) = shipped.hash /\ ~ExportVerified}
<1>1. ASSUME NEW point \in {"key", "canonical", "hash", "signature"}
      PROVE ExportDue(point) = {f \in {"version"} : shipped.version # "export.v1"}
                            \cup {f \in {"algorithm"} : shipped.algorithm # "ed25519"}
  BY <1>1 DEF ExportDue
<1>2. ExportDue("done") =
       {f \in {"version"} : shipped.version # "export.v1"} \cup
       {f \in {"algorithm"} : shipped.algorithm # "ed25519"} \cup
       {f \in {"keyId"} : ~ExportFound} \cup
       {f \in {"canonical"} : ExportFound /\ X!Recomputed # shipped.canonical} \cup
       {f \in {"hash"} : ExportFound /\ X!Recomputed = shipped.canonical
                           /\ X!Sha256(X!Recomputed) # shipped.hash} \cup
       {f \in {"signature"} : ExportFound /\ X!Recomputed = shipped.canonical
                           /\ X!Sha256(X!Recomputed) = shipped.hash /\ ~ExportVerified}
  BY DEF ExportDue
<1> QED
  BY <1>1, <1>2

LEMMA ExportOkFields ==
  ASSUME NEW field, NEW k
  PROVE  /\ X!Ok(field, k).target[1] = field /\ X!Ok(field, k).status = "VALID"
  BY DEF X!Ok, X!Step

LEMMA ExportFaultFields ==
  ASSUME NEW field, NEW k, NEW reason
  PROVE  /\ X!Fault(field, k, reason).target[1] = field
         /\ X!Fault(field, k, reason).status = "INVALID"
  BY DEF X!Fault, X!Step

\* One more step of the report, about a field that is due or is not.
LEMMA ExportJudged ==
  ASSUME ExportInv, pc # "transit", NEW field \in X!Fields, NEW step,
         step.target[1] = field, step.status \in {"VALID", "INVALID"},
         steps' = steps \cup {step},
         UNCHANGED <<directory, sealed, shipped, altered>>,
         pc' \in {"canonical", "hash", "signature", "done"},
         ExportDue(pc') = ExportDue(pc) \cup {f \in {field} : step.status = "INVALID"},
         pc' \in {"canonical", "hash", "signature"} => ExportFound,
         pc' \in {"hash", "signature"} => X!Recomputed = shipped.canonical,
         pc' = "signature" => X!Sha256(X!Recomputed) = shipped.hash,
         status' = IF pc' = "done" THEN X!Verdict(steps') ELSE "pending"
  PROVE  ExportInv'
<1>1. /\ ExportOrigin' /\ (ExportFound' <=> ExportFound)
      /\ X!Recomputed' = X!Recomputed
      /\ X!Sha256(X!Recomputed)' = X!Sha256(X!Recomputed)
      /\ \A point : ExportDue(point)' = ExportDue(point)
  BY ExportFrame
<1>2. X!Verdict(steps)' = X!Verdict(steps')
  BY DEF X!Verdict, X!AnyInvalid
<1>3. ExportPosition'
  BY <1>1, <1>2 DEF ExportPosition
<1>4. \A s \in steps' : s.target[1] \in X!Fields /\ s.status \in {"VALID", "INVALID"}
  BY DEF ExportInv, ExportReported
<1>5. X!FaultyFields' = X!FaultyFields \cup {f \in {field} : step.status = "INVALID"}
  BY DEF X!FaultyFields
<1>6. X!FaultyFields = ExportDue(pc)
  BY DEF ExportInv, ExportReported
<1>7. ExportDue(pc)' = ExportDue(pc')
  BY <1>1 DEF ExportDue
<1>8. X!Fields' = X!Fields
  BY DEF X!Fields
<1>9. ExportReported'
  BY <1>4, <1>5, <1>6, <1>7, <1>8 DEF ExportReported
<1> QED
  BY <1>1, <1>3, <1>9 DEF ExportInv

LEMMA ExportEnvelopeStep ==
  ASSUME ExportInv, X!CheckEnvelope
  PROVE  ExportInv'
<1> DEFINE version == X!Judged("version", shipped.version = "export.v1",
                               "UNSUPPORTED_ENVELOPE_VERSION")
           algorithm == X!Judged("algorithm", shipped.algorithm = "ed25519",
                                 "UNSUPPORTED_ALGORITHM")
<1>1. /\ pc = "transit" /\ steps' = {version, algorithm} /\ pc' = "key"
      /\ UNCHANGED <<directory, sealed, shipped, altered, status>>
  BY DEF X!CheckEnvelope, X!evidence
<1>2. /\ version.target[1] = "version"
      /\ version.status = IF shipped.version = "export.v1" THEN "VALID" ELSE "INVALID"
      /\ algorithm.target[1] = "algorithm"
      /\ algorithm.status = IF shipped.algorithm = "ed25519" THEN "VALID" ELSE "INVALID"
  BY ExportOkFields, ExportFaultFields DEF X!Judged
<1> HIDE DEF version, algorithm
<1>3. /\ ExportOrigin' /\ \A point : ExportDue(point)' = ExportDue(point)
  BY <1>1, ExportFrame
<1>4. ExportPosition'
  <2>1. status = "pending"
    BY <1>1 DEF ExportInv, ExportPosition
  <2> QED
    BY <1>1, <2>1 DEF ExportPosition
<1>5. X!FaultyFields' = {f \in {"version"} : shipped.version # "export.v1"}
                          \cup {f \in {"algorithm"} : shipped.algorithm # "ed25519"}
  BY <1>1, <1>2 DEF X!FaultyFields
<1>6. ExportDue(pc)' = ExportDue("key")
  BY <1>1, <1>3 DEF ExportDue
<1>7. ExportReported'
  <2>1. \A s \in steps' : s.target[1] \in {"version", "algorithm"} /\ s.status \in {"VALID", "INVALID"}
    BY <1>1, <1>2
  <2> QED
    BY <1>5, <1>6, <2>1, ExportDueMoves DEF ExportReported, X!Fields
<1> QED
  BY <1>3, <1>4, <1>7 DEF ExportInv

LEMMA ExportKeyStep ==
  ASSUME ExportInv, X!CheckKey
  PROVE  ExportInv'
<1> DEFINE ok == X!Ok("keyId", 0)
           fault == X!Fault("keyId", 0, X!Lookup(directory, shipped.keyId, shipped.at))
<1>1. /\ pc = "key"
      /\ IF ExportFound THEN X!Proceed(ok, "canonical") ELSE X!Finish(fault)
  BY DEF X!CheckKey, ExportFound
<1>2. /\ ok.target[1] = "keyId" /\ ok.status = "VALID"
      /\ fault.target[1] = "keyId" /\ fault.status = "INVALID"
  BY ExportOkFields, ExportFaultFields
<1> HIDE DEF ok, fault
<1>3. "keyId" \in X!Fields /\ status = "pending"
  BY <1>1 DEF X!Fields, ExportInv, ExportPosition
<1>4. CASE ExportFound
  <2>1. /\ steps' = steps \cup {ok} /\ pc' = "canonical"
        /\ UNCHANGED <<directory, sealed, shipped, altered, status>>
    BY <1>1, <1>4 DEF X!Proceed, X!evidence
  <2>2. ExportDue("canonical") = ExportDue("key")
    BY ExportDueMoves
  <2> QED
    BY <1>1, <1>2, <1>3, <1>4, <2>1, <2>2, ExportJudged
<1>5. CASE ~ExportFound
  <2>1. /\ steps' = steps \cup {fault} /\ pc' = "done" /\ status' = X!Verdict(steps')
        /\ UNCHANGED <<directory, sealed, shipped, altered>>
    BY <1>1, <1>5 DEF X!Finish, X!evidence
  <2>2. ExportDue("done") = ExportDue("key") \cup {"keyId"}
    BY <1>5, ExportDueMoves
  <2> QED
    BY <1>1, <1>2, <1>3, <2>1, <2>2, ExportJudged
<1> QED
  BY <1>4, <1>5

LEMMA ExportCanonicalStep ==
  ASSUME ExportInv, X!CheckCanonical
  PROVE  ExportInv'
<1> DEFINE ok == X!Ok("canonical", 0)
           fault == X!Fault("canonical", 0, "PAYLOAD_CANONICAL_MISMATCH")
<1>1. /\ pc = "canonical"
      /\ IF X!Recomputed = shipped.canonical THEN X!Proceed(ok, "hash") ELSE X!Finish(fault)
  BY DEF X!CheckCanonical
<1>2. /\ ok.target[1] = "canonical" /\ ok.status = "VALID"
      /\ fault.target[1] = "canonical" /\ fault.status = "INVALID"
  BY ExportOkFields, ExportFaultFields
<1> HIDE DEF ok, fault
<1>3. "canonical" \in X!Fields /\ status = "pending" /\ ExportFound
  BY <1>1 DEF X!Fields, ExportInv, ExportPosition
<1>4. CASE X!Recomputed = shipped.canonical
  <2>1. /\ steps' = steps \cup {ok} /\ pc' = "hash"
        /\ UNCHANGED <<directory, sealed, shipped, altered, status>>
    BY <1>1, <1>4 DEF X!Proceed, X!evidence
  <2>2. ExportDue("hash") = ExportDue("canonical")
    BY ExportDueMoves
  <2> QED
    BY <1>1, <1>2, <1>3, <1>4, <2>1, <2>2, ExportJudged
<1>5. CASE X!Recomputed # shipped.canonical
  <2>1. /\ steps' = steps \cup {fault} /\ pc' = "done" /\ status' = X!Verdict(steps')
        /\ UNCHANGED <<directory, sealed, shipped, altered>>
    BY <1>1, <1>5 DEF X!Finish, X!evidence
  <2>2. ExportDue("done") = ExportDue("canonical") \cup {"canonical"}
    BY <1>3, <1>5, ExportDueMoves
  <2> QED
    BY <1>1, <1>2, <1>3, <2>1, <2>2, ExportJudged
<1> QED
  BY <1>4, <1>5

LEMMA ExportHashStep ==
  ASSUME ExportInv, X!CheckHash
  PROVE  ExportInv'
<1> DEFINE ok == X!Ok("hash", 0)
           fault == X!Fault("hash", 0, "EXPORT_PAYLOAD_HASH_MISMATCH")
<1>1. /\ pc = "hash"
      /\ IF X!Sha256(X!Recomputed) = shipped.hash THEN X!Proceed(ok, "signature")
         ELSE X!Finish(fault)
  BY DEF X!CheckHash
<1>2. /\ ok.target[1] = "hash" /\ ok.status = "VALID"
      /\ fault.target[1] = "hash" /\ fault.status = "INVALID"
  BY ExportOkFields, ExportFaultFields
<1> HIDE DEF ok, fault
<1>3. /\ "hash" \in X!Fields /\ status = "pending" /\ ExportFound
      /\ X!Recomputed = shipped.canonical
  BY <1>1 DEF X!Fields, ExportInv, ExportPosition
<1>4. CASE X!Sha256(X!Recomputed) = shipped.hash
  <2>1. /\ steps' = steps \cup {ok} /\ pc' = "signature"
        /\ UNCHANGED <<directory, sealed, shipped, altered, status>>
    BY <1>1, <1>4 DEF X!Proceed, X!evidence
  <2>2. ExportDue("signature") = ExportDue("hash")
    BY ExportDueMoves
  <2> QED
    BY <1>1, <1>2, <1>3, <1>4, <2>1, <2>2, ExportJudged
<1>5. CASE X!Sha256(X!Recomputed) # shipped.hash
  <2>1. /\ steps' = steps \cup {fault} /\ pc' = "done" /\ status' = X!Verdict(steps')
        /\ UNCHANGED <<directory, sealed, shipped, altered>>
    BY <1>1, <1>5 DEF X!Finish, X!evidence
  <2>2. ExportDue("done") = ExportDue("hash") \cup {"hash"}
    BY <1>3, <1>5, ExportDueMoves
  <2> QED
    BY <1>1, <1>2, <1>3, <2>1, <2>2, ExportJudged
<1> QED
  BY <1>4, <1>5

LEMMA ExportSignatureStep ==
  ASSUME ExportInv, X!CheckSignature
  PROVE  ExportInv'
<1>1. /\ pc = "signature" /\ "signature" \in X!Fields /\ ExportFound
      /\ X!Recomputed = shipped.canonical /\ X!Sha256(X!Recomputed) = shipped.hash
  BY DEF X!CheckSignature, X!Fields, ExportInv, ExportPosition
<1>2. ExportDue("done") = ExportDue("signature") \cup {f \in {"signature"} : ~ExportVerified}
  BY <1>1, ExportDueMoves
<1>3. X!SignatureBy(X!material, shipped.canonical, shipped.keyId) # X!Undecodable
  BY ExportSignatureWellFormed
<1>4. PICK step : /\ X!Finish(step) /\ step.target[1] = "signature"
                  /\ step.status = IF ExportVerified THEN "VALID" ELSE "INVALID"
  <2>1. CASE ExportVerified
    <3>1. /\ X!material # "undecodable" /\ shipped.signature # X!Undecodable
          /\ shipped.signature = X!SignatureBy(X!material, shipped.canonical, shipped.keyId)
      BY <1>3, <2>1 DEF ExportVerified
    <3>2. X!Finish(X!Ok("signature", 0))
      BY <3>1 DEF X!CheckSignature
    <3> QED
      BY <2>1, <3>2, ExportOkFields
  <2>2. CASE ~ExportVerified
    <3>1. X!material = "undecodable"
            \/ shipped.signature # X!SignatureBy(X!material, shipped.canonical, shipped.keyId)
      BY <2>2 DEF ExportVerified
    <3>2. PICK reason : X!Finish(X!Fault("signature", 0, reason))
      BY <3>1 DEF X!CheckSignature
    <3> QED
      BY <2>2, <3>2, ExportFaultFields
  <2> QED
    BY <2>1, <2>2
<1>5. /\ steps' = steps \cup {step} /\ pc' = "done" /\ status' = X!Verdict(steps')
      /\ UNCHANGED <<directory, sealed, shipped, altered>>
  BY <1>4 DEF X!Finish, X!evidence
<1>6. ExportDue("done") = ExportDue("signature") \cup {f \in {"signature"} : step.status = "INVALID"}
  BY <1>2, <1>4
<1> QED
  BY <1>1, <1>4, <1>5, <1>6, ExportJudged

LEMMA ExportStutter ==
  ASSUME ExportInv, UNCHANGED <<directory, sealed, shipped, altered, pc, steps, status>>
  PROVE  ExportInv'
<1>1. /\ ExportOrigin' /\ (ExportFound' <=> ExportFound)
      /\ X!Recomputed' = X!Recomputed
      /\ X!Sha256(X!Recomputed)' = X!Sha256(X!Recomputed)
      /\ \A point : ExportDue(point)' = ExportDue(point)
  BY ExportFrame
<1>2. X!Verdict(steps)' = X!Verdict(steps) /\ X!FaultyFields' = X!FaultyFields
      /\ X!Fields' = X!Fields
  BY DEF X!Verdict, X!AnyInvalid, X!FaultyFields, X!Fields
<1>3. ExportDue(pc)' = ExportDue(pc)
  BY <1>1 DEF ExportDue
<1>4. ExportPosition'
  BY <1>1, <1>2 DEF ExportInv, ExportPosition
<1>5. ExportReported'
  BY <1>2, <1>3 DEF ExportInv, ExportReported
<1> QED
  BY <1>1, <1>4, <1>5 DEF ExportInv

LEMMA ExportStep ==
  ASSUME ExportInv, X!Next
  PROVE  ExportInv'
<1>1. CASE \E field \in X!Fields : X!AlterField(field)
  BY <1>1, ExportAlterStep
<1>2. CASE \E p \in X!Payload : X!Restate(p)
  BY <1>2, ExportRestateStep
<1>3. CASE X!CheckEnvelope
  BY <1>3, ExportEnvelopeStep
<1>4. CASE X!CheckKey
  BY <1>4, ExportKeyStep
<1>5. CASE X!CheckCanonical
  BY <1>5, ExportCanonicalStep
<1>6. CASE X!CheckHash
  BY <1>6, ExportHashStep
<1>7. CASE X!CheckSignature
  BY <1>7, ExportSignatureStep
<1>8. CASE X!Returned
  BY <1>8, ExportStutter DEF X!Returned, X!vars
<1> QED
  BY <1>1, <1>2, <1>3, <1>4, <1>5, <1>6, <1>7, <1>8 DEF X!Next

------------------------------------------------------------------------------
(* What the audit of an export comes to.                                    *)

LEMMA ExportTyped ==
  ASSUME ExportInv
  PROVE  X!TypeOK
<1>1. status \in {"pending", "VALID", "INVALID"} /\ (status = "pending" <=> pc # "done")
  BY DEF ExportInv, ExportPosition, X!Verdict
<1> QED
  BY <1>1 DEF ExportInv, ExportOrigin, ExportPosition, ExportReported, X!TypeOK, X!Statuses

\* At the end the report accuses what is due, and the verdict follows.
LEMMA ExportJudgedAtLast ==
  ASSUME ExportInv, status # "pending"
  PROVE  X!FaultyFields = ExportDue("done") /\ (status = "VALID" <=> ExportDue("done") = {})
<1>1. pc = "done" /\ status = X!Verdict(steps)
  BY DEF ExportInv, ExportPosition
<1>2. X!FaultyFields = ExportDue("done")
  BY <1>1 DEF ExportInv, ExportReported
<1>3. X!FaultyFields = {} <=> ~X!AnyInvalid(steps)
  BY DEF X!FaultyFields, X!AnyInvalid
<1> QED
  BY <1>1, <1>2, <1>3 DEF X!Verdict

\* A signature that verifies is one the platform made over that very text and
\* under that key id.
LEMMA ExportSigned ==
  ASSUME ExportInv, ExportFound, ExportVerified
  PROVE  \E n \in {1, 2} :
           /\ shipped.signature = sealed[n].signature /\ shipped.keyId = sealed[n].keyId
           /\ shipped.canonical = sealed[n].canonical
           /\ X!material = Signer[shipped.keyId]
<1>1. shipped.keyId \in DOMAIN directory /\ directory \in Directories
  BY DEF ExportFound, X!Lookup, ExportInv, ExportOrigin
<1>2. X!material # Foreign
  BY <1>1, Platform DEF X!material
<1>3. /\ SignatureFound(shipped.signature)
      /\ shipped.signature = X!SignatureBy(X!material, shipped.canonical, shipped.keyId)
  BY DEF ExportInv, ExportOrigin, ExportVerified
<1>4. shipped.signature \notin {X!Undecodable, X!BadLength}
  BY <1>3, ExportSignatureWellFormed
<1>5. ~\E text, id : shipped.signature = X!SignatureBy(Foreign, text, id)
  BY <1>2, <1>3, ExportSignatureParts
<1>6. PICK n \in {1, 2} : shipped.signature = sealed[n].signature
  BY <1>3, <1>4, <1>5 DEF SignatureFound
<1>7. /\ sealed[n].canonical = X!Canon(sealed[n].payload)
      /\ sealed[n].signature
           = X!SignatureBy(Signer[sealed[n].keyId], X!Canon(sealed[n].payload), sealed[n].keyId)
  BY DEF ExportInv, ExportOrigin, ExportAsSealed
<1>8. X!SignatureBy(X!material, shipped.canonical, shipped.keyId)
        = X!SignatureBy(Signer[sealed[n].keyId], X!Canon(sealed[n].payload), sealed[n].keyId)
  BY <1>3, <1>6, <1>7
<1>9. /\ X!material = Signer[sealed[n].keyId] /\ shipped.keyId = sealed[n].keyId
      /\ shipped.canonical = X!Canon(sealed[n].payload)
  BY <1>8, ExportSignatureParts
<1> QED
  BY <1>6, <1>7, <1>9

\* The platform's key is one: it decodes.
LEMMA VerifiableDecodes ==
  ASSUME ExportInv, X!Verifiable, shipped.keyId \in DOMAIN Signer
  PROVE  ExportFound /\ X!material = Signer[shipped.keyId] /\ X!material # "undecodable"
  BY Platform DEF X!Verifiable, ExportFound, X!material, BadMaterial

LEMMA ExportDecided ==
  ASSUME ExportInv
  PROVE  X!ValidIffAuthentic
<1> SUFFICES ASSUME status # "pending"
             PROVE  ExportDue("done") = {} <=> X!Authentic /\ X!Verifiable
  BY ExportJudgedAtLast DEF X!ValidIffAuthentic
<1>1. \A n \in {1, 2} :
        /\ sealed[n].version = "export.v1" /\ sealed[n].algorithm = "ed25519"
        /\ sealed[n].keyId \in DOMAIN Signer
        /\ sealed[n].canonical = X!Canon(sealed[n].payload)
        /\ sealed[n].hash = X!Sha256(X!Canon(sealed[n].payload))
        /\ sealed[n].signature
             = X!SignatureBy(Signer[sealed[n].keyId], X!Canon(sealed[n].payload), sealed[n].keyId)
  BY DEF ExportInv, ExportOrigin, ExportAsSealed
<1>2. ExportDue("done") = {} <=>
        /\ shipped.version = "export.v1" /\ shipped.algorithm = "ed25519"
        /\ ExportFound /\ X!Recomputed = shipped.canonical
        /\ X!Sha256(X!Recomputed) = shipped.hash /\ ExportVerified
  BY ExportDueMoves
<1>3. ASSUME ExportDue("done") = {} PROVE X!Authentic /\ X!Verifiable
  <2>1. PICK n \in {1, 2} :
          /\ shipped.signature = sealed[n].signature /\ shipped.keyId = sealed[n].keyId
          /\ shipped.canonical = sealed[n].canonical
          /\ X!material = Signer[shipped.keyId]
    BY <1>2, <1>3, ExportSigned
  <2>2. X!Canon(shipped.payload) = X!Canon(sealed[n].payload)
    BY <1>1, <1>2, <1>3, <2>1 DEF X!Recomputed
  <2>3. shipped.payload.content = sealed[n].payload.content
    BY <2>2, ExportTexts
  <2>4. shipped.hash = sealed[n].hash
    BY <1>1, <1>2, <1>3, <2>2 DEF X!Recomputed
  <2>5. shipped.version = sealed[n].version /\ shipped.algorithm = sealed[n].algorithm
    BY <1>1, <1>2, <1>3
  <2>6. \A f \in {"version", "algorithm", "keyId", "canonical", "hash", "signature"} :
          shipped[f] = sealed[n][f]
    BY <2>1, <2>4, <2>5
  <2>7. X!Authentic
    BY <2>3, <2>6 DEF X!Authentic
  <2>8. X!Verifiable
    BY <1>2, <1>3, <2>1 DEF X!Verifiable, ExportFound, X!material
  <2> QED
    BY <2>7, <2>8
<1>4. ASSUME X!Authentic, X!Verifiable PROVE ExportDue("done") = {}
  <2>1. PICK n \in {1, 2} :
          /\ shipped.payload.content = sealed[n].payload.content
          /\ \A f \in {"version", "algorithm", "keyId", "canonical", "hash", "signature"} :
               shipped[f] = sealed[n][f]
    BY <1>4 DEF X!Authentic
  <2>2. /\ shipped.version = sealed[n].version /\ shipped.algorithm = sealed[n].algorithm
        /\ shipped.keyId = sealed[n].keyId /\ shipped.canonical = sealed[n].canonical
        /\ shipped.hash = sealed[n].hash /\ shipped.signature = sealed[n].signature
    BY <2>1
  <2>3. X!Canon(shipped.payload) = X!Canon(sealed[n].payload)
    BY <2>1, ExportTexts
  <2>4. ExportFound /\ X!material = Signer[shipped.keyId] /\ X!material # "undecodable"
    BY <1>1, <1>4, <2>2, VerifiableDecodes
  <2>5. X!Recomputed = shipped.canonical /\ X!Sha256(X!Recomputed) = shipped.hash
    BY <1>1, <2>2, <2>3 DEF X!Recomputed
  <2>6. ExportVerified
    BY <1>1, <2>2, <2>4 DEF ExportVerified
  <2> QED
    BY <1>1, <1>2, <2>2, <2>4, <2>5, <2>6
<1> QED
  BY <1>3, <1>4

LEMMA ExportPinpointed ==
  ASSUME ExportInv
  PROVE  X!DiagnosisPinpoints
<1> DEFINE changed == {f \in X!Fields : shipped[f] # sealed[1][f]}
           reordered == shipped.payload.content = sealed[1].payload.content
           s == sealed[1]
           faulty == X!FaultyFields
<1> SUFFICES ASSUME status # "pending", X!Verifiable
             PROVE
    /\ \A f \in {"version", "algorithm", "canonical", "hash", "signature"} :
         changed = {f} => faulty = {f}
    /\ changed = {"payload"} => faulty = IF reordered THEN {} ELSE {"canonical"}
    /\ changed = {"keyId"} => faulty = {"signature"}
    /\ changed = {"payload", "canonical"} /\ ~reordered =>
         faulty = IF shipped.canonical = X!Recomputed THEN {"hash"} ELSE {"canonical"}
    /\ changed = {"payload", "canonical", "hash"} /\ shipped.canonical = X!Recomputed
         /\ shipped.hash = X!Sha256(X!Recomputed) => faulty = {"signature"}
  BY DEF X!DiagnosisPinpoints
<1>1. /\ s.version = "export.v1" /\ s.algorithm = "ed25519"
      /\ s.keyId \in DOMAIN Signer
      /\ s.canonical = X!Canon(s.payload)
      /\ s.hash = X!Sha256(X!Canon(s.payload))
      /\ s.signature = X!SignatureBy(Signer[s.keyId], X!Canon(s.payload), s.keyId)
  BY DEF ExportInv, ExportOrigin, ExportAsSealed
<1>2. \A f \in X!Fields : f \in changed <=> shipped[f] # s[f]
  OBVIOUS
<1>3. /\ "version" \in changed <=> shipped.version # s.version
      /\ "algorithm" \in changed <=> shipped.algorithm # s.algorithm
      /\ "keyId" \in changed <=> shipped.keyId # s.keyId
      /\ "payload" \in changed <=> shipped.payload # s.payload
      /\ "canonical" \in changed <=> shipped.canonical # s.canonical
      /\ "hash" \in changed <=> shipped.hash # s.hash
      /\ "signature" \in changed <=> shipped.signature # s.signature
  BY <1>2 DEF X!Fields
<1>4. /\ reordered <=> X!Canon(shipped.payload) = X!Canon(s.payload)
      /\ reordered <=> X!Sha256(X!Canon(shipped.payload)) = X!Sha256(X!Canon(s.payload))
      /\ shipped.payload = s.payload => reordered
  BY ExportTexts
<1>5. /\ ExportFound
      /\ faulty = {f \in {"version"} : shipped.version # "export.v1"} \cup
                  {f \in {"algorithm"} : shipped.algorithm # "ed25519"} \cup
                  {f \in {"canonical"} : X!Recomputed # shipped.canonical} \cup
                  {f \in {"hash"} : X!Recomputed = shipped.canonical
                                      /\ X!Sha256(X!Recomputed) # shipped.hash} \cup
                  {f \in {"signature"} : X!Recomputed = shipped.canonical
                                      /\ X!Sha256(X!Recomputed) = shipped.hash /\ ~ExportVerified}
  <2>1. ExportFound
    BY DEF X!Verifiable, ExportFound
  <2>2. faulty = ExportDue("done")
    BY ExportJudgedAtLast
  <2> QED
    BY <2>1, <2>2, ExportDueMoves
<1>6. X!material = Signer[shipped.keyId]
  BY DEF X!Verifiable, X!material
<1>7. /\ ExportVerified => shipped.signature = X!SignatureBy(X!material, shipped.canonical, shipped.keyId)
      /\ shipped.keyId = s.keyId /\ shipped.canonical = s.canonical /\ shipped.signature = s.signature
           => ExportVerified
  <2>1. shipped.keyId = s.keyId => X!material # "undecodable"
    BY <1>1, VerifiableDecodes
  <2> QED
    BY <1>1, <1>6, <2>1 DEF ExportVerified
<1>8. /\ shipped.keyId # s.keyId /\ shipped.signature = s.signature => ~ExportVerified
      /\ shipped.canonical # s.canonical /\ shipped.signature = s.signature => ~ExportVerified
    BY <1>1, <1>7, ExportSignatureParts
<1>9. shipped.keyId = s.keyId /\ shipped.canonical = s.canonical /\ shipped.signature # s.signature
        => ~ExportVerified
  BY <1>1, <1>6, <1>7
<1>10. X!Recomputed = X!Canon(shipped.payload)
  BY DEF X!Recomputed
<1> DEFINE reHash == X!Sha256(X!Recomputed)
<1>11. /\ reordered <=> X!Recomputed = s.canonical
       /\ reordered <=> reHash = s.hash
  BY <1>1, <1>4, <1>10
<1>12. faulty = {f \in {"version"} : shipped.version # "export.v1"} \cup
                {f \in {"algorithm"} : shipped.algorithm # "ed25519"} \cup
                {f \in {"canonical"} : X!Recomputed # shipped.canonical} \cup
                {f \in {"hash"} : X!Recomputed = shipped.canonical /\ reHash # shipped.hash} \cup
                {f \in {"signature"} : X!Recomputed = shipped.canonical
                                         /\ reHash = shipped.hash /\ ~ExportVerified}
  BY <1>5
<1>13. X!Sha256(X!Recomputed) = reHash
  OBVIOUS
<1> HIDE DEF changed, reordered, s, faulty, reHash
<1>14. ASSUME NEW f \in {"version", "algorithm", "canonical", "hash", "signature"}, changed = {f}
       PROVE  faulty = {f}
  <2>1. CASE f = "version"
    BY <1>1, <1>3, <1>4, <1>7, <1>11, <1>12, <1>14, <2>1
  <2>2. CASE f = "algorithm"
    BY <1>1, <1>3, <1>4, <1>7, <1>11, <1>12, <1>14, <2>2
  <2>3. CASE f = "canonical"
    BY <1>1, <1>3, <1>4, <1>11, <1>12, <1>14, <2>3
  <2>4. CASE f = "hash"
    BY <1>1, <1>3, <1>4, <1>11, <1>12, <1>14, <2>4
  <2>5. CASE f = "signature"
    BY <1>1, <1>3, <1>4, <1>9, <1>11, <1>12, <1>14, <2>5
  <2> QED
    BY <2>1, <2>2, <2>3, <2>4, <2>5
<1>15. ASSUME changed = {"payload"}
       PROVE  faulty = IF reordered THEN {} ELSE {"canonical"}
  BY <1>1, <1>3, <1>7, <1>11, <1>12, <1>15
<1>16. ASSUME changed = {"keyId"}
       PROVE  faulty = {"signature"}
  BY <1>1, <1>3, <1>4, <1>8, <1>11, <1>12, <1>16
<1>17. ASSUME changed = {"payload", "canonical"}, ~reordered
       PROVE  faulty = IF shipped.canonical = X!Recomputed THEN {"hash"} ELSE {"canonical"}
  BY <1>1, <1>3, <1>11, <1>12, <1>17
<1>18. ASSUME changed = {"payload", "canonical", "hash"}, shipped.canonical = X!Recomputed,
              shipped.hash = reHash
       PROVE  faulty = {"signature"}
  BY <1>1, <1>3, <1>8, <1>12, <1>18
<1> QED
  BY <1>13, <1>14, <1>15, <1>16, <1>17, <1>18

------------------------------------------------------------------------------
(* Whichever of the two the auditor was handed.                             *)

EvidenceInv ==
  \/ subject = "provenance" /\ RowInv
  \/ subject = "export" /\ ExportInv

(* The evidence is the platform's up to what was altered, and the report    *)
(* says at every point of the walk what is due there: of every row, or of   *)
(* the export (verify_provenance_chain, verify_signed_export).             *)
THEOREM EvidenceInductive == Spec => []EvidenceInv
<1>1. Init => EvidenceInv
  BY RowInit, ExportInit DEF Init, EvidenceInv
<1>2. EvidenceInv /\ [Next]_vars => EvidenceInv'
  <2> SUFFICES ASSUME EvidenceInv, [Next]_vars PROVE EvidenceInv'
    OBVIOUS
  <2>1. CASE subject = "provenance" /\ P!Next /\ UNCHANGED subject
    <3>1. RowInv /\ P!Next
      BY <2>1 DEF EvidenceInv
    <3> QED
      BY <2>1, <3>1, RowStep DEF EvidenceInv
  <2>2. CASE subject = "export" /\ X!Next
             /\ UNCHANGED <<subject, expected, i, signed, unsigned>>
    <3>1. ExportInv /\ X!Next
      BY <2>2 DEF EvidenceInv
    <3> QED
      BY <2>2, <3>1, ExportStep DEF EvidenceInv
  <2>3. CASE UNCHANGED vars
    <3>1. UNCHANGED <<subject, directory, expected, sealed, shipped, altered, pc, i, signed,
                      unsigned, steps, status>>
      BY <2>3 DEF vars
    <3>2. RowInv => RowInv'
      BY <3>1, RowStutter
    <3>3. ExportInv => ExportInv'
      BY <3>1, ExportStutter
    <3> QED
      BY <3>1, <3>2, <3>3 DEF EvidenceInv
  <2> QED
    BY <2>1, <2>2, <2>3 DEF Next
<1> QED
  BY <1>1, <1>2, PTL DEF Spec

(* Every variable of the verifier at work stays in its domain, and every    *)
(* row that was entered is counted once, as signed or as unsigned.         *)
THEOREM EvidenceTyped == Spec => []TypeOK
<1>1. EvidenceInv => TypeOK
  BY RowsTyped, ExportTyped DEF EvidenceInv, TypeOK
<1> QED
  BY <1>1, EvidenceInductive, PTL

(* However many rows there are and whatever is altered in them, the report  *)
(* of verify_provenance_chain accuses, of the rows that say ed25519,        *)
(* exactly those the platform's signature does not vouch for or of another  *)
(* org; every other row, altered or renamed as it may be, is accused of its *)
(* org alone and labelled as unverified.                                   *)
THEOREM RowsRightlyBlamed == Spec => []RowsBlamedExactly
<1>1. EvidenceInv => RowsBlamedExactly
  BY RowsBlamed DEF EvidenceInv, RowsBlamedExactly
<1> QED
  BY <1>1, EvidenceInductive, PTL

(* The rows counted as signed in a VALID report are exactly the ones        *)
(* vouched for and there is one at least; SKIPPED are exactly the sets of   *)
(* unsigned rows of the right org (provenance.rs, the roll-up).            *)
THEOREM UnsignedEarnNothing == Spec => []UnsignedNeverPromoted
<1>1. EvidenceInv => UnsignedNeverPromoted
  BY RowsNotPromoted DEF EvidenceInv, UnsignedNeverPromoted
<1> QED
  BY <1>1, EvidenceInductive, PTL

(* A VALID signature step means the platform signed the text that was       *)
(* shipped, and an edit of raw claims alone leaves it VALID beside the one  *)
(* fault that says so (provenance.rs, check 3).                            *)
THEOREM SignatureStepSpeaksOfTheText == Spec => []SignatureStepIsForensic
<1>1. EvidenceInv => SignatureStepIsForensic
  BY RowsForensic DEF EvidenceInv, SignatureStepIsForensic
<1> QED
  BY <1>1, EvidenceInductive, PTL

(* verify_signed_export says VALID exactly of an export the platform        *)
(* sealed, under a key in force at the exportedAt it shows.                *)
THEOREM ExportsRightlyJudged == Spec => []ExportValidIffAuthentic
<1>1. EvidenceInv => ExportValidIffAuthentic
  BY ExportDecided DEF EvidenceInv, ExportValidIffAuthentic
<1> QED
  BY <1>1, EvidenceInductive, PTL

(* One altered field of an export is accused in that field, a payload       *)
(* stated anew with its text and hash in the signature.                    *)
THEOREM ExportFaultsNameTheField == Spec => []ExportDiagnosisPinpoints
<1>1. EvidenceInv => ExportDiagnosisPinpoints
  BY ExportPinpointed DEF EvidenceInv, ExportDiagnosisPinpoints
<1> QED
  BY <1>1, EvidenceInductive, PTL

------------------------------------------------------------------------------
(* The tenant chain: what its run checks on histories of three rows and two *)
(* changes, for chains of any length, changed any number of times, over a   *)
(* counter of any width.                                                   *)

\* A row, its links and its number taken from L.
RowOf(L) == [prev : L, row : RowHash, sequence : L, next : L]

\* The shipped rows are a list of rows; what their links are made of is left
\* open, since a row may be sealed over any other link.
Listed == \E L : rows \in Seq(RowOf(L))

NotLonger == Len(written) \in Nat /\ Len(rows) <= Len(written) + altered

\* What is in use at each control point.
Position ==
  /\ pc \in {"transit", "walk", "done", "panicked"}
  /\ pc = "transit" => i = 1 /\ steps = {} /\ prevSequence = BadSequence
  /\ pc = "walk" => rows # << >>
  /\ i \in 1..(Len(rows) + 1)
  /\ pc = "done" /\ rows # << >> => i = Len(rows) + 1 /\ status = Verdict(steps)
  /\ pc = "done" /\ rows = << >> => status = "INVALID"
  /\ status # "pending" => pc = "done"

Domains ==
  /\ expected \in Tip \cup {NoPrev} /\ checks \in BOOLEAN
  /\ altered \in 0..MaxAlterations
  /\ prevSequence = BadSequence \/ Parses(prevSequence)
  /\ \A s \in steps : s.status \in Statuses
  /\ status \in {"pending", "VALID", "INVALID"}

\* The rows behind the walk.
Behind == {k \in 1..Len(rows) : k < i}

\* Each of them has been judged.
JudgedBehind ==
  \A k \in Behind : \E s \in steps :
    s.target = <<IF Parses(rows[k].sequence) THEN "tenantChainNext" ELSE "tenantChainSequence", k>>

\* Row k hangs off the link before it and carries its own.
Joined(k) ==
  /\ Parses(rows[k].sequence) /\ rows[k].next = Sealed(rows[k])
  /\ k = 1 => rows[1].prev = expected
  /\ k > 1 => /\ rows[k].prev = rows[k - 1].next
              /\ (rows[k].sequence - rows[k - 1].sequence - 1) % (Limit + 1) = 0

\* While nothing is INVALID, all of them are joined, and prevSequence is the
\* number of the last one.
CleanBehind ==
  pc # "transit" /\ ~AnyInvalid(steps) =>
    /\ rows # << >> => rows[1].prev = expected
    /\ \A k \in Behind : Joined(k)
    /\ i > 1 => prevSequence = rows[i - 1].sequence
    /\ i = 1 => prevSequence = BadSequence

\* The inductive invariant.
TenantInv ==
  Listed /\ NotLonger /\ Position /\ Domains /\ JudgedBehind /\ CleanBehind

------------------------------------------------------------------------------
(* A list of rows stays one when more links are allowed for.               *)
LEMMA Widen ==
  ASSUME NEW L, NEW M, NEW s \in Seq(RowOf(L)), L \subseteq M
  PROVE  s \in Seq(RowOf(M))
<1>1. RowOf(L) \subseteq RowOf(M)
  BY DEF RowOf
<1> QED
  BY <1>1

(* The chain the platform writes is a list of rows, as long as its history. *)
LEMMA WrittenListed ==
  ASSUME NEW root, NEW history \in Seq(RowHash), NEW start
  PROVE  \E L : Written(root, history, start) \in Seq(RowOf(L))
<1> DEFINE W == Written(root, history, start)
<1> DEFINE L == {W[k].prev : k \in DOMAIN history} \cup {W[k].next : k \in DOMAIN history}
                  \cup {W[k].sequence : k \in DOMAIN history}
<1>1. /\ DOMAIN W = DOMAIN history
      /\ W = [k \in DOMAIN history |-> W[k]]
      /\ \A k \in DOMAIN history :
           W[k] = [prev |-> W[k].prev, row |-> history[k], sequence |-> W[k].sequence,
                   next |-> W[k].next]
  BY DEF Written
<1>2. \A k \in DOMAIN history : history[k] \in RowHash
  OBVIOUS
<1>3. \A k \in DOMAIN history : W[k] \in RowOf(L)
  BY <1>1, <1>2 DEF RowOf
<1>4. W \in Seq(RowOf(L))
  BY <1>1, <1>3
<1> QED
  BY <1>4

LEMMA Concatenated ==
  ASSUME NEW S, NEW s \in Seq(S), NEW t \in Seq(S)
  PROVE  s \o t \in Seq(S) /\ Len(s \o t) = Len(s) + Len(t)
  OBVIOUS

(* A change to another list of rows, no more than one row longer.           *)
LEMMA ChangeTo ==
  ASSUME TenantInv, NEW L, NEW changed \in Seq(RowOf(L)), Len(changed) <= Len(rows) + 1,
         Len(rows) \in Nat, Change(changed)
  PROVE  Listed' /\ NotLonger'
<1>1. rows' = changed /\ altered' = altered + 1 /\ written' = written
  BY DEF Change
<1>2. Listed'
  BY <1>1 DEF Listed
<1>3. /\ Len(written) \in Nat /\ altered \in Nat /\ Len(rows) <= Len(written) + altered
  BY TenantAssumption DEF TenantInv, NotLonger, Domains
<1>4. Len(changed) \in Nat
  OBVIOUS
<1>5. NotLonger'
  BY <1>1, <1>3, <1>4 DEF NotLonger
<1> QED
  BY <1>2, <1>5

(* A change leaves a list of rows, one row longer at most.                  *)
LEMMA ChangeListed ==
  ASSUME TenantInv, NEW k \in DOMAIN rows,
         AlterRow(k) \/ DropRow(k) \/ RepeatRow(k) \/ SwapRows(k)
  PROVE  Listed' /\ NotLonger'
<1>1. PICK L : rows \in Seq(RowOf(L))
  BY DEF TenantInv, Listed
<1>2. Len(rows) \in Nat /\ DOMAIN rows = 1..Len(rows) /\ k \in 1..Len(rows)
      /\ \A j \in 1..Len(rows) : rows[j] \in RowOf(L)
  BY <1>1
<1>4. CASE AlterRow(k)
  <2>1. PICK r \in NewRows(rows[k]) : Change([rows EXCEPT ![k] = r])
    BY <1>4 DEF AlterRow
  <2> DEFINE M == L \cup WrittenLinks \cup Tip \cup {NoPrev, Sealed(rows[k]), 0, Limit, BadSequence}
  <2>2. rows[k] \in RowOf(M)
    BY <1>2 DEF RowOf
  <2>3. r \in RowOf(M)
    BY <2>2 DEF NewRows, RowOf
  <2>4. rows \in Seq(RowOf(M))
    BY <1>1, Widen
  <2> HIDE DEF M
  <2> DEFINE changed == [rows EXCEPT ![k] = r]
  <2>5. changed \in Seq(RowOf(M)) /\ Len(changed) = Len(rows) /\ Change(changed)
    BY <2>1, <2>3, <2>4, <1>2
  <2> HIDE DEF changed
  <2> QED
    BY <2>5, <1>2, ChangeTo
<1>5. CASE DropRow(k)
  <2>1. SubSeq(rows, 1, k - 1) \in Seq(RowOf(L)) /\ Len(SubSeq(rows, 1, k - 1)) = k - 1
    BY <1>1, <1>2
  <2>2. SubSeq(rows, k + 1, Len(rows)) \in Seq(RowOf(L))
        /\ Len(SubSeq(rows, k + 1, Len(rows))) = Len(rows) - k
    BY <1>1, <1>2
  <2> DEFINE dropped == SubSeq(rows, 1, k - 1) \o SubSeq(rows, k + 1, Len(rows))
  <2>3. dropped \in Seq(RowOf(L)) /\ Len(dropped) = Len(rows) - 1
    BY <2>1, <2>2, <1>2, Concatenated
  <2>4. Change(dropped)
    BY <1>5 DEF DropRow
  <2> HIDE DEF dropped
  <2> QED
    BY <2>3, <2>4, <1>2, ChangeTo
<1>6. CASE RepeatRow(k)
  <2>1. SubSeq(rows, 1, k) \in Seq(RowOf(L)) /\ Len(SubSeq(rows, 1, k)) = k
    BY <1>1, <1>2
  <2>2. SubSeq(rows, k, Len(rows)) \in Seq(RowOf(L))
        /\ Len(SubSeq(rows, k, Len(rows))) = Len(rows) - k + 1
    BY <1>1, <1>2
  <2> DEFINE repeated == SubSeq(rows, 1, k) \o SubSeq(rows, k, Len(rows))
  <2>3. repeated \in Seq(RowOf(L)) /\ Len(repeated) = Len(rows) + 1
    BY <2>1, <2>2, <1>2, Concatenated
  <2>4. Change(repeated)
    BY <1>6 DEF RepeatRow
  <2> HIDE DEF repeated
  <2> QED
    BY <2>3, <2>4, <1>2, ChangeTo
<1>7. CASE SwapRows(k)
  <2> DEFINE swapped == [rows EXCEPT ![k] = rows[k + 1], ![k + 1] = rows[k]]
  <2>1. Change(swapped) /\ k + 1 \in 1..Len(rows)
    BY <1>7, <1>2 DEF SwapRows
  <2>2. swapped \in Seq(RowOf(L)) /\ Len(swapped) = Len(rows)
    BY <1>1, <1>2, <2>1
  <2> HIDE DEF swapped
  <2> QED
    BY <2>1, <2>2, <1>2, ChangeTo
<1> QED
  BY <1>4, <1>5, <1>6, <1>7

------------------------------------------------------------------------------
(* The audit starts on the chain as written, with nothing judged.           *)
LEMMA TenantInitInv == TenantInit => TenantInv
<1>1. SUFFICES ASSUME TenantInit PROVE TenantInv
  OBVIOUS
<1>2. PICK root \in Tip \cup {NoPrev}, history \in Histories, start \in Starts :
        rows = Written(root, history, start) /\ written = rows
  BY <1>1 DEF TenantInit
<1>3. history \in Seq(RowHash)
  BY TenantAssumption
<1>4. Listed
  BY <1>2, <1>3, WrittenListed DEF Listed
<1>5. Len(rows) \in Nat
  BY <1>4 DEF Listed
<1>6. NotLonger
  BY <1>1, <1>2, <1>5 DEF TenantInit, NotLonger
<1>7. Position
  BY <1>1, <1>5 DEF TenantInit, Position
<1>8. Domains
  BY <1>1, TenantAssumption DEF TenantInit, Domains
<1>9. JudgedBehind /\ CleanBehind
  BY <1>1, <1>5 DEF TenantInit, JudgedBehind, CleanBehind, Behind
<1> QED
  BY <1>4, <1>6, <1>7, <1>8, <1>9 DEF TenantInv

(* A change in transit finds nothing judged and leaves it so.               *)
LEMMA ChangeStep ==
  ASSUME TenantInv, NEW k \in DOMAIN rows,
         AlterRow(k) \/ DropRow(k) \/ RepeatRow(k) \/ SwapRows(k)
  PROVE  TenantInv'
<1>1. Listed' /\ NotLonger'
  BY ChangeListed
<1>2. Len(rows') \in Nat
  BY <1>1 DEF Listed
<1>3. /\ pc = "transit" /\ altered < MaxAlterations /\ altered' = altered + 1
      /\ UNCHANGED <<written, expected, checks, pc, i, prevSequence, steps, status>>
  BY DEF AlterRow, DropRow, RepeatRow, SwapRows, Change
<1>4. i = 1 /\ steps = {} /\ prevSequence = BadSequence /\ status = "pending"
  BY <1>3 DEF TenantInv, Position, Domains
<1>5. Position'
  BY <1>2, <1>3, <1>4 DEF Position
<1>6. Domains'
  BY <1>3, TenantAssumption DEF TenantInv, Domains
<1>7. JudgedBehind' /\ CleanBehind'
  BY <1>2, <1>3, <1>4 DEF JudgedBehind, CleanBehind, Behind
<1> QED
  BY <1>1, <1>5, <1>6, <1>7 DEF TenantInv

(* Adding steps to a report: a fault among them, or already in the report,  *)
(* makes it faulty, and nothing else does.                                 *)
LEMMA AnyInvalidGrows ==
  ASSUME NEW S, NEW T
  PROVE  AnyInvalid(S \cup T) <=> AnyInvalid(S) \/ AnyInvalid(T)
  BY DEF AnyInvalid

LEMMA LinkStepSound ==
  ASSUME NEW k, NEW link
  PROVE  /\ LinkStep(k, link).status \in Statuses
         /\ LinkStep(k, link).status # "INVALID" => rows[k].prev = link
  BY DEF LinkStep, Ok, Fault, Step, Statuses

(* A wrapped increment is an increment modulo the width of the counter.     *)
LEMMA Wraps ==
  ASSUME NEW n \in Nat, NEW p \in 0..n, NEW q, q = (p + 1) % (n + 1)
  PROVE  q \in 0..n /\ (q - p - 1) % (n + 1) = 0
<1>1. CASE p = n
  <2>1. q = 0
    BY <1>1
  <2> QED
    BY <1>1, <2>1
<1>2. CASE p # n
  <2>1. q = p + 1
    BY <1>2
  <2> QED
    BY <2>1, <1>2
<1> QED
  BY <1>1, <1>2

(* A row without a number is judged by that, and the report is faulty.      *)
LEMMA BadRowStep ==
  ASSUME TenantInv, RowWithBadSequence
  PROVE  TenantInv'
<1>1. /\ pc = "walk" /\ i <= Len(rows) /\ ~Parses(rows[i].sequence)
      /\ steps' = steps \cup {Fault("tenantChainSequence", i, "MALFORMED_PACK")}
      /\ i' = i + 1
      /\ UNCHANGED <<written, rows, expected, checks, altered, pc, prevSequence, status>>
  BY DEF RowWithBadSequence, AtRow
<1>2. Listed' /\ NotLonger' /\ Len(rows) \in Nat
  BY <1>1 DEF TenantInv, Listed, NotLonger
<1>3. i \in 1..Len(rows)
  BY <1>1, <1>2 DEF TenantInv, Position
<1>4. Position'
  BY <1>1, <1>2, <1>3 DEF TenantInv, Position
<1>5. Domains'
  BY <1>1 DEF TenantInv, Domains, Fault, Step, Statuses, Parses
<1>6. JudgedBehind'
  <2>1. SUFFICES ASSUME NEW k \in Behind'
                 PROVE  \E s \in steps' :
                          s.target = <<IF Parses(rows[k].sequence) THEN "tenantChainNext"
                                       ELSE "tenantChainSequence", k>>
    BY <1>1 DEF JudgedBehind, Parses
  <2>2. CASE k = i
    <3>1. Fault("tenantChainSequence", i, "MALFORMED_PACK").target = <<"tenantChainSequence", i>>
      BY DEF Fault, Step
    <3> QED
      BY <1>1, <2>2, <3>1
  <2>3. CASE k # i
    <3>1. k \in Behind
      BY <1>1, <1>3, <2>3 DEF Behind
    <3> QED
      BY <1>1, <3>1 DEF TenantInv, JudgedBehind
  <2> QED
    BY <2>2, <2>3
<1>7. CleanBehind'
  <2>1. AnyInvalid(steps')
    <3>1. Fault("tenantChainSequence", i, "MALFORMED_PACK").status = "INVALID"
      BY DEF Fault, Step
    <3> QED
      BY <1>1, <3>1 DEF AnyInvalid
  <2> QED
    BY <2>1 DEF CleanBehind
<1> QED
  BY <1>2, <1>4, <1>5, <1>6, <1>7 DEF TenantInv

(* A row that passes joins the rows before it.                              *)
LEMMA RowJudgedStep ==
  ASSUME TenantInv, JudgeRow
  PROVE  TenantInv'
<1> DEFINE own == IF Recomputed(rows[i]) THEN Ok("tenantChainNext", i)
                  ELSE Fault("tenantChainNext", i, "CHAIN_LINK_MISMATCH")
           order == {s \in {Fault("tenantChainSequence", i, "CHAIN_OUT_OF_ORDER")} :
                       ~Follows(rows[i].sequence)}
           link == {LinkStep(k, rows[k - 1].next) : k \in {i} \ {1}}
<1>1. /\ pc = "walk" /\ i <= Len(rows) /\ Parses(rows[i].sequence)
      /\ steps' = steps \cup order \cup link \cup {own}
      /\ prevSequence' = rows[i].sequence
      /\ i' = i + 1
      /\ UNCHANGED <<written, rows, expected, checks, altered, pc, status>>
  BY DEF JudgeRow, AtRow
<1>2. Listed' /\ NotLonger' /\ Len(rows) \in Nat
  BY <1>1 DEF TenantInv, Listed, NotLonger
<1>3. i \in 1..Len(rows)
  BY <1>1, <1>2 DEF TenantInv, Position
<1>4. Position'
  BY <1>1, <1>2, <1>3 DEF TenantInv, Position
<1>5. own.target = <<"tenantChainNext", i>> /\ own.status \in Statuses
  BY DEF Ok, Fault, Step, Statuses
<1>6. \A s \in order \cup link : s.status \in Statuses
  BY LinkStepSound DEF Fault, Step, Statuses
<1>7. Domains'
  <2>1. \A s \in steps' : s.status \in Statuses
    BY <1>1, <1>5, <1>6 DEF TenantInv, Domains
  <2>2. Parses(prevSequence')
    BY <1>1 DEF Parses
  <2> QED
    BY <1>1, <2>1, <2>2 DEF TenantInv, Domains, Parses
<1>8. JudgedBehind'
  <2>1. SUFFICES ASSUME NEW k \in Behind'
                 PROVE  \E s \in steps' :
                          s.target = <<IF Parses(rows[k].sequence) THEN "tenantChainNext"
                                       ELSE "tenantChainSequence", k>>
    BY <1>1 DEF JudgedBehind, Parses
  <2>2. CASE k = i
    BY <1>1, <1>5, <2>2
  <2>3. CASE k # i
    <3>1. k \in Behind
      BY <1>1, <1>3, <2>3 DEF Behind
    <3> QED
      BY <1>1, <3>1 DEF TenantInv, JudgedBehind
  <2> QED
    BY <2>2, <2>3
<1>9. CleanBehind'
  <2>1. SUFFICES ASSUME ~AnyInvalid(steps')
                 PROVE  /\ rows[1].prev = expected
                        /\ \A k \in Behind' : Joined(k)'
    BY <1>1, <1>3 DEF CleanBehind
  <2>2. /\ ~AnyInvalid(steps) /\ own.status # "INVALID"
        /\ \A s \in order \cup link : s.status # "INVALID"
    BY <2>1, <1>1 DEF AnyInvalid
  <2>3. /\ rows[1].prev = expected
        /\ \A k \in Behind : Joined(k)
        /\ i > 1 => prevSequence = rows[i - 1].sequence
        /\ i = 1 => prevSequence = BadSequence
    BY <2>2, <1>1 DEF TenantInv, CleanBehind, Position
  <2>4. rows[i].next = Sealed(rows[i])
    BY <2>2 DEF Recomputed, Fault, Step
  <2>5. Follows(rows[i].sequence)
    <3>1. Fault("tenantChainSequence", i, "CHAIN_OUT_OF_ORDER").status = "INVALID"
      BY DEF Fault, Step
    <3>2. ~Follows(rows[i].sequence) =>
            Fault("tenantChainSequence", i, "CHAIN_OUT_OF_ORDER") \in order
      OBVIOUS
    <3> QED
      BY <2>2, <3>1, <3>2
  <2>6. Joined(i)
    <3>1. CASE i = 1
      BY <3>1, <1>1, <2>3, <2>4 DEF Joined
    <3>2. CASE i # 1
      <4>1. rows[i].prev = rows[i - 1].next
        BY <3>2, <2>2, LinkStepSound
      <4>2. i - 1 \in Behind
        BY <3>2, <1>3 DEF Behind
      <4>3. prevSequence = rows[i - 1].sequence /\ prevSequence \in 0..Limit
        BY <4>2, <2>3, <3>2, <1>3 DEF Joined, Parses
      <4>4. rows[i].sequence = (prevSequence + 1) % (Limit + 1)
        BY <4>3, <2>5, TenantAssumption DEF Follows
      <4>5. (rows[i].sequence - rows[i - 1].sequence - 1) % (Limit + 1) = 0
        BY <4>3, <4>4, TenantAssumption, Wraps
      <4> QED
        BY <3>2, <4>1, <4>5, <1>1, <2>4 DEF Joined
    <3> QED
      BY <3>1, <3>2
  <2>7. ASSUME NEW k \in Behind' PROVE Joined(k)'
    <3>1. k = i \/ k \in Behind
      BY <1>1, <1>3 DEF Behind
    <3>2. Joined(k)
      BY <3>1, <2>3, <2>6
    <3> QED
      BY <3>2, <1>1 DEF Joined, Parses, Sealed, Link
  <2> QED
    BY <2>3, <2>7
<1> QED
  BY <1>2, <1>4, <1>7, <1>8, <1>9 DEF TenantInv

(* No records: the chain is refused without a walk.                         *)
LEMMA RejectStep ==
  ASSUME TenantInv, RejectEmpty
  PROVE  TenantInv'
<1>1. /\ pc = "transit" /\ rows = << >> /\ pc' = "done" /\ status' = "INVALID"
      /\ steps' = {Fault("records", 0, "MALFORMED_PACK")}
      /\ UNCHANGED <<written, rows, expected, checks, altered, i, prevSequence>>
  BY DEF RejectEmpty
<1>2. i = 1 /\ Len(rows) = 0
  BY <1>1 DEF TenantInv, Position
<1>3. Fault("records", 0, "MALFORMED_PACK").status = "INVALID"
  BY DEF Fault, Step
<1>4. Listed' /\ NotLonger'
  BY <1>1 DEF TenantInv, Listed, NotLonger
<1>5. Position'
  BY <1>1, <1>2 DEF Position
<1>6. Domains'
  BY <1>1, <1>3 DEF TenantInv, Domains, Statuses, Parses
<1>7. JudgedBehind'
  BY <1>1, <1>2 DEF JudgedBehind, Behind
<1>8. CleanBehind'
  BY <1>1, <1>3 DEF CleanBehind, AnyInvalid
<1> QED
  BY <1>4, <1>5, <1>6, <1>7, <1>8 DEF TenantInv

(* The first row is held against the genesis before the walk.               *)
LEMMA GenesisStep ==
  ASSUME TenantInv, CheckGenesis
  PROVE  TenantInv'
<1>1. /\ pc = "transit" /\ rows # << >> /\ pc' = "walk"
      /\ steps' = {LinkStep(1, expected)}
      /\ UNCHANGED <<written, rows, expected, checks, altered, i, prevSequence, status>>
  BY DEF CheckGenesis
<1>2. i = 1 /\ prevSequence = BadSequence /\ status = "pending"
  BY <1>1 DEF TenantInv, Position, Domains
<1>3. Listed' /\ NotLonger' /\ Len(rows) \in Nat
  BY <1>1 DEF TenantInv, Listed, NotLonger
<1>4. Position'
  BY <1>1, <1>2, <1>3 DEF Position
<1>5. Domains'
  BY <1>1, LinkStepSound DEF TenantInv, Domains, Parses
<1>6. JudgedBehind'
  BY <1>1, <1>2 DEF JudgedBehind, Behind
<1>7. CleanBehind'
  <2>1. ~AnyInvalid(steps') => rows[1].prev = expected
    BY <1>1, LinkStepSound DEF AnyInvalid
  <2> QED
    BY <1>1, <1>2, <2>1 DEF CleanBehind, Behind
<1> QED
  BY <1>3, <1>4, <1>5, <1>6, <1>7 DEF TenantInv

(* The ends of the walk: a panic, or the verdict on the steps reported.     *)
LEMMA EndStep ==
  ASSUME TenantInv, SequenceOverflows \/ RollUp
  PROVE  TenantInv'
<1>1. /\ pc = "walk"
      /\ UNCHANGED <<written, rows, expected, checks, altered, i, prevSequence, steps>>
      /\ \/ pc' = "panicked" /\ status' = status
         \/ pc' = "done" /\ status' = Verdict(steps) /\ i > Len(rows)
  BY DEF SequenceOverflows, RollUp, AtRow
<1>2. status = "pending" /\ Verdict(steps) \in {"VALID", "INVALID"}
  BY <1>1 DEF TenantInv, Position, Domains, Verdict
<1>3. Listed' /\ NotLonger' /\ Len(rows) \in Nat
  BY <1>1 DEF TenantInv, Listed, NotLonger
<1>4. Position'
  <2>1. i > Len(rows) => i = Len(rows) + 1
    BY <1>3 DEF TenantInv, Position
  <2>2. rows # << >> /\ i \in 1..(Len(rows) + 1)
    BY <1>1 DEF TenantInv, Position
  <2>3. Verdict(steps)' = Verdict(steps)
    BY <1>1 DEF Verdict, AnyInvalid
  <2> QED
    BY <1>1, <1>2, <2>1, <2>2, <2>3 DEF Position
<1>5. Domains'
  BY <1>1, <1>2 DEF TenantInv, Domains, Parses
<1>6. JudgedBehind'
  BY <1>1 DEF TenantInv, JudgedBehind, Behind, Parses
<1>7. CleanBehind'
  BY <1>1 DEF TenantInv, CleanBehind, Behind, Joined, AnyInvalid, Parses, Sealed, Link
<1> QED
  BY <1>3, <1>4, <1>5, <1>6, <1>7 DEF TenantInv

(* Nothing moves: nothing is lost.                                          *)
LEMMA TenantStutter ==
  ASSUME TenantInv, UNCHANGED tenantVars
  PROVE  TenantInv'
<1>1. UNCHANGED <<written, rows, expected, checks, altered, pc, i, prevSequence, steps, status>>
  BY DEF tenantVars
<1>2. Listed' /\ NotLonger' /\ Position' /\ Domains'
  BY <1>1 DEF TenantInv, Listed, NotLonger, Position, Domains, Verdict, AnyInvalid, Parses
<1>3. JudgedBehind' /\ CleanBehind'
  BY <1>1 DEF TenantInv, JudgedBehind, CleanBehind, Behind, Joined, AnyInvalid, Parses, Sealed, Link
<1> QED
  BY <1>2, <1>3 DEF TenantInv

LEMMA TenantStep == TenantInv /\ [TenantNext]_tenantVars => TenantInv'
<1>1. ASSUME TenantInv, NEW k \in DOMAIN rows, AlterRow(k) \/ DropRow(k) \/ RepeatRow(k) \/ SwapRows(k)
      PROVE  TenantInv'
  BY <1>1, ChangeStep
<1>2. ASSUME TenantInv, RejectEmpty PROVE TenantInv'
  BY <1>2, RejectStep
<1>3. ASSUME TenantInv, CheckGenesis PROVE TenantInv'
  BY <1>3, GenesisStep
<1>4. ASSUME TenantInv, RowWithBadSequence PROVE TenantInv'
  BY <1>4, BadRowStep
<1>5. ASSUME TenantInv, JudgeRow PROVE TenantInv'
  BY <1>5, RowJudgedStep
<1>6. ASSUME TenantInv, SequenceOverflows \/ RollUp PROVE TenantInv'
  BY <1>6, EndStep
<1>7. ASSUME TenantInv, Returned \/ UNCHANGED tenantVars PROVE TenantInv'
  BY <1>7, TenantStutter DEF Returned
<1> QED
  BY <1>1, <1>2, <1>3, <1>4, <1>5, <1>6, <1>7 DEF TenantNext

(* A VALID verdict on a walk that judged every row leaves no break.         *)
LEMMA TenantInvUnbroken == TenantInv => ValidMeansUnbroken
<1>1. SUFFICES ASSUME TenantInv, status = "VALID" PROVE ValidMeansUnbroken
  BY DEF ValidMeansUnbroken
<1>2. Len(rows) \in Nat /\ DOMAIN rows = 1..Len(rows)
  BY <1>1 DEF TenantInv, Listed
<1>3. /\ pc = "done" /\ rows # << >> /\ i = Len(rows) + 1
      /\ status = Verdict(steps)
  BY <1>1 DEF TenantInv, Position
<1>4. ~AnyInvalid(steps)
  BY <1>1, <1>3 DEF Verdict
<1>5. rows[1].prev = expected /\ \A k \in Behind : Joined(k)
  BY <1>1, <1>3, <1>4 DEF TenantInv, CleanBehind
<1>6. Behind = DOMAIN rows
  BY <1>2, <1>3 DEF Behind
<1>7. \A k \in DOMAIN rows : Parses(rows[k].sequence) /\ rows[k].next = Sealed(rows[k])
  BY <1>5, <1>6 DEF Joined
<1>8. ASSUME NEW k \in 2..Len(rows)
      PROVE  /\ rows[k].prev = rows[k - 1].next
             /\ (rows[k].sequence - rows[k - 1].sequence - 1) % (Limit + 1) = 0
  <2>1. Joined(k) /\ k > 1
    BY <1>2, <1>5, <1>6
  <2> QED
    BY <2>1 DEF Joined
<1> QED
  BY <1>3, <1>5, <1>7, <1>8 DEF ValidMeansUnbroken

------------------------------------------------------------------------------
(* Induction, over a set in place of a predicate.                           *)

LEMMA Least ==
  ASSUME NEW T \in SUBSET Nat, T # {}
  PROVE  \E n \in T : \A m \in T : n <= m
<1>1. PICK n \in T : \A m \in T : <<m, n>> \notin OpToRel(<, Nat)
  BY NatLessThanWellFounded, WFMin
<1>2. ASSUME NEW m \in T PROVE n <= m
  <2>1. ~(m < n)
    BY <1>1 DEF OpToRel
  <2> QED
    BY <2>1
<1> QED
  BY <1>2

LEMMA Counting ==
  ASSUME NEW T, 0 \in T, \A n \in Nat : n \in T => n + 1 \in T
  PROVE  Nat \subseteq T
<1>1. SUFFICES ASSUME Nat \ T # {} PROVE FALSE
  OBVIOUS
<1>2. PICK n \in Nat \ T : \A m \in Nat \ T : n <= m
  BY <1>1, Least
<1>3. n # 0 /\ n - 1 \in Nat /\ n - 1 \notin Nat \ T
  BY <1>2
<1> QED
  BY <1>2, <1>3

\* The links of a chain over a history, from its root on.
Links(link, root, history, start) ==
  link = [k \in 0..Len(history) |->
            IF k = 0 THEN root ELSE Link(link[k - 1], history[k], start + k - 1)]

(* There are such links: the recursion that defines them comes to its end.  *)
LEMMA LinksExist ==
  ASSUME NEW root, NEW history, Len(history) \in Nat, NEW start
  PROVE  \E link : Links(link, root, history, start)
<1> DEFINE UpTo(link, n) ==
             link = [k \in 0..n |->
                       IF k = 0 THEN root ELSE Link(link[k - 1], history[k], start + k - 1)]
           T == {n \in Nat : \E link : UpTo(link, n)}
<1>1. 0 \in T
  <2>1. UpTo([k \in 0..0 |-> root], 0)
    OBVIOUS
  <2> QED
    BY <2>1
<1>2. ASSUME NEW n \in Nat, n \in T PROVE n + 1 \in T
  <2>1. PICK link : UpTo(link, n)
    BY <1>2
  <2> DEFINE more == [k \in 0..(n + 1) |->
                        IF k = 0 THEN root ELSE Link(link[k - 1], history[k], start + k - 1)]
  <2>2. ASSUME NEW k \in 0..n PROVE more[k] = link[k]
    BY <2>1
  <2>3. \A k \in 0..(n + 1) : k # 0 => k - 1 \in 0..n
    OBVIOUS
  <2>4. \A k \in 0..(n + 1) : k # 0 => more[k - 1] = link[k - 1]
    <3> HIDE DEF more
    <3> QED
      BY <2>2, <2>3
  <2>5. more = [k \in 0..(n + 1) |->
                  IF k = 0 THEN root ELSE Link(more[k - 1], history[k], start + k - 1)]
    BY <2>4
  <2> HIDE DEF more
  <2>6. UpTo(more, n + 1) /\ n + 1 \in Nat
    BY <2>5
  <2> HIDE DEF UpTo
  <2> QED
    BY <2>6
<1> HIDE DEF T
<1>3. Len(history) \in T
  BY <1>1, <1>2, Counting
<1> QED
  BY <1>3 DEF T, Links

(* What the platform writes: every row seals what it shows, the first hangs *)
(* off the root and the others off the row before, numbered one by one.     *)
LEMMA WrittenIs ==
  ASSUME NEW root, NEW history \in Seq(RowHash), NEW start \in Int
  PROVE  LET W == Written(root, history, start)
         IN  /\ DOMAIN W = 1..Len(history) /\ Len(history) \in Nat
             /\ \A k \in 1..Len(history) :
                  /\ W[k] = [prev |-> W[k].prev, row |-> history[k],
                             sequence |-> start + k - 1, next |-> Sealed(W[k])]
                  /\ k = 1 => W[k].prev = root
                  /\ k > 1 => W[k].prev = W[k - 1].next
<1> DEFINE link == CHOOSE l : Links(l, root, history, start)
           W == Written(root, history, start)
           N == Len(history)
<1>1. N \in Nat /\ DOMAIN history = 1..N
  OBVIOUS
<1>2. Links(link, root, history, start)
  BY <1>1, LinksExist
<1>3. W = [k \in DOMAIN history |->
             [prev |-> link[k - 1], row |-> history[k], sequence |-> start + k - 1,
              next |-> link[k]]]
  BY DEF Written, Links
<1> HIDE DEF link, W
<1>4. \A k \in 0..N : link[k] = IF k = 0 THEN root ELSE Link(link[k - 1], history[k], start + k - 1)
  BY <1>2 DEF Links
<1>5. DOMAIN W = 1..N
  BY <1>1, <1>3
<1>6. ASSUME NEW k \in 1..N
      PROVE  /\ W[k] = [prev |-> W[k].prev, row |-> history[k],
                        sequence |-> start + k - 1, next |-> Sealed(W[k])]
             /\ k = 1 => W[k].prev = root
             /\ k > 1 => W[k].prev = W[k - 1].next
  <2>1. W[k] = [prev |-> link[k - 1], row |-> history[k], sequence |-> start + k - 1,
                next |-> link[k]]
    BY <1>1, <1>3
  <2>2. link[k] = Link(link[k - 1], history[k], start + k - 1)
    BY <1>1, <1>4
  <2>3. Sealed(W[k]) = link[k] /\ W[k].prev = link[k - 1]
    BY <2>1, <2>2 DEF Sealed
  <2>4. k = 1 => link[k - 1] = root
    BY <1>1, <1>4
  <2>5. k > 1 => W[k - 1].next = link[k - 1]
    BY <1>1, <1>3
  <2> QED
    BY <2>1, <2>3, <2>4, <2>5
<1> QED
  BY <1>1, <1>5, <1>6 DEF W

------------------------------------------------------------------------------
\* The chain is one the platform wrote.
Origin ==
  \E root \in Tip \cup {NoPrev}, history \in Histories, start \in Starts :
    written = Written(root, history, start)

\* What that comes to.
AsWritten ==
  /\ Len(written) \in Nat /\ DOMAIN written = 1..Len(written)
  /\ \E start \in Int : \A k \in DOMAIN written : written[k].sequence = start + k - 1
  /\ \A k \in DOMAIN written :
       /\ written[k] = [prev |-> written[k].prev, row |-> written[k].row,
                        sequence |-> written[k].sequence, next |-> Sealed(written[k])]
       /\ k = 1 => written[k].prev \in Tip \cup {NoPrev}
       /\ k > 1 => written[k].prev = written[k - 1].next

LEMMA OriginIs == Origin => AsWritten
<1>1. SUFFICES ASSUME NEW root \in Tip \cup {NoPrev}, NEW history \in Histories,
                      NEW start \in Starts, written = Written(root, history, start)
               PROVE  AsWritten
  BY DEF Origin
<1>2. history \in Seq(RowHash) /\ start \in Int
  BY TenantAssumption
<1>3. /\ DOMAIN written = 1..Len(history) /\ Len(history) \in Nat
      /\ \A k \in 1..Len(history) :
           /\ written[k] = [prev |-> written[k].prev, row |-> history[k],
                            sequence |-> start + k - 1, next |-> Sealed(written[k])]
           /\ k = 1 => written[k].prev = root
           /\ k > 1 => written[k].prev = written[k - 1].next
  <2> DEFINE W == Written(root, history, start)
  <2>1. /\ DOMAIN W = 1..Len(history) /\ Len(history) \in Nat
        /\ \A k \in 1..Len(history) :
             /\ W[k] = [prev |-> W[k].prev, row |-> history[k],
                        sequence |-> start + k - 1, next |-> Sealed(W[k])]
             /\ k = 1 => W[k].prev = root
             /\ k > 1 => W[k].prev = W[k - 1].next
    BY <1>2, WrittenIs
  <2>2. written = W
    BY <1>1
  <2> HIDE DEF W
  <2> QED
    BY <2>1, <2>2
<1>4. PICK L : written \in Seq(RowOf(L))
  BY <1>1, <1>2, WrittenListed
<1>5. Len(written) \in Nat /\ DOMAIN written = 1..Len(written)
  BY <1>4
<1>6. Len(written) = Len(history)
  BY <1>3, <1>5
<1>7. \A k \in 1..Len(history) :
        written[k].row = history[k] /\ written[k].sequence = start + k - 1
  BY <1>3
<1>8. ASSUME NEW k \in 1..Len(history)
      PROVE  /\ written[k] = [prev |-> written[k].prev, row |-> written[k].row,
                              sequence |-> written[k].sequence, next |-> Sealed(written[k])]
             /\ k = 1 => written[k].prev \in Tip \cup {NoPrev}
             /\ k > 1 => written[k].prev = written[k - 1].next
  <2>1. written[k] = [prev |-> written[k].prev, row |-> history[k],
                      sequence |-> start + k - 1, next |-> Sealed(written[k])]
    BY <1>3
  <2>2. (k = 1 => written[k].prev = root) /\ (k > 1 => written[k].prev = written[k - 1].next)
    BY <1>3
  <2>3. written[k].row = history[k] /\ written[k].sequence = start + k - 1
    BY <1>7
  <2> QED
    BY <2>1, <2>2, <2>3
<1> QED
  BY <1>2, <1>3, <1>5, <1>7, <1>8 DEF AsWritten

(* No hash is a seed, or the text of an absent link.                        *)
LEMMA LinkNoRoot ==
  ASSUME NEW prev, NEW row, NEW sequence
  PROVE  Link(prev, row, sequence) \notin Tip \cup {NoPrev}
<1>1. DOMAIN Link(prev, row, sequence) = {"prev", "row", "sequence"}
  BY DEF Link
<1>2. \A r \in Tip \cup {NoPrev} : DOMAIN r = {"org"} \/ DOMAIN r = {"absent"}
  BY DEF Tip, NoPrev
<1>3. "row" \notin {"org"} /\ "row" \notin {"absent"} /\ "row" \in {"prev", "row", "sequence"}
  OBVIOUS
<1> QED
  BY <1>1, <1>2, <1>3

LEMMA SealsAlike ==
  ASSUME NEW r, NEW s, Sealed(r) = Sealed(s)
  PROVE  r.prev = s.prev /\ r.row = s.row /\ r.sequence = s.sequence
  BY DEF Sealed, Link

\* The rows are unbroken from the expected genesis on.
Unbroken ==
  /\ rows # << >> /\ rows[1].prev = expected
  /\ \A k \in DOMAIN rows : rows[k].next = Sealed(rows[k])
  /\ \A k \in 2..Len(rows) : rows[k].prev = rows[k - 1].next

LEMMA RowShape ==
  ASSUME NEW L, NEW r \in RowOf(L)
  PROVE  r = [prev |-> r.prev, row |-> r.row, sequence |-> r.sequence, next |-> r.next]
  BY DEF RowOf

(* A row that carries a written link is the row that was written with it.   *)
LEMMA SameLinkSameRow ==
  ASSUME Listed, AsWritten, NEW k \in DOMAIN rows, NEW n \in DOMAIN written,
         rows[k].next = Sealed(rows[k]), rows[k].next = written[n].next
  PROVE  rows[k] = written[n]
<1>1. PICK L : rows \in Seq(RowOf(L))
  BY DEF Listed
<1>2. rows[k] \in RowOf(L)
  BY <1>1
<1>3. rows[k] = [prev |-> rows[k].prev, row |-> rows[k].row,
                 sequence |-> rows[k].sequence, next |-> rows[k].next]
  BY <1>2, RowShape
<1>4. written[n] = [prev |-> written[n].prev, row |-> written[n].row,
                    sequence |-> written[n].sequence, next |-> Sealed(written[n])]
  BY DEF AsWritten
<1>5. written[n].next = Sealed(written[n])
  BY <1>4
<1>6. Sealed(rows[k]) = Sealed(written[n]) /\ rows[k].next = Sealed(written[n])
  BY <1>5
<1>7. /\ rows[k].prev = written[n].prev /\ rows[k].row = written[n].row
      /\ rows[k].sequence = written[n].sequence
  BY <1>6, SealsAlike
<1> QED
  BY <1>3, <1>4, <1>6, <1>7

(* An unbroken chain that ends in a written link is what was written up to  *)
(* it: from the end backwards, link by link.                               *)
LEMMA TracedBack ==
  ASSUME Listed, AsWritten, Unbroken, expected = written[1].prev,
         NEW n \in DOMAIN written, rows[Len(rows)].next = written[n].next
  PROVE  rows = SubSeq(written, 1, n)
<1> DEFINE m == Len(rows)
           T == {d \in Nat : d < m /\ d < n => rows[m - d] = written[n - d]}
<1>1. PICK L : rows \in Seq(RowOf(L))
  BY DEF Listed
<1>2. /\ m \in Nat /\ m >= 1 /\ DOMAIN rows = 1..m /\ rows = [k \in 1..m |-> rows[k]]
      /\ Len(written) \in Nat /\ n \in 1..Len(written) /\ DOMAIN written = 1..Len(written)
  BY <1>1 DEF Unbroken, AsWritten
<1>3. 0 \in T
  <2>1. m \in DOMAIN rows /\ m - 0 = m /\ n - 0 = n
    BY <1>2
  <2>2. rows[m].next = Sealed(rows[m])
    BY <2>1 DEF Unbroken
  <2>3. rows[m] = written[n]
    BY <2>1, <2>2, SameLinkSameRow
  <2> QED
    BY <2>1, <2>3
<1>4. ASSUME NEW d \in Nat, d \in T PROVE d + 1 \in T
  <2>1. SUFFICES ASSUME d + 1 < m, d + 1 < n PROVE rows[m - (d + 1)] = written[n - (d + 1)]
    OBVIOUS
  <2> DEFINE a == m - d
             b == n - d
  <2>2. /\ a \in 2..m /\ a - 1 \in DOMAIN rows /\ m - (d + 1) = a - 1
        /\ b \in DOMAIN written /\ b > 1 /\ b - 1 \in DOMAIN written /\ n - (d + 1) = b - 1
    BY <1>2, <2>1
  <2>3. rows[a] = written[b]
    BY <1>4, <2>1, <1>2
  <2> HIDE DEF a, b, T, m
  <2>4. rows[a].prev = rows[a - 1].next /\ rows[a - 1].next = Sealed(rows[a - 1])
    BY <2>2 DEF Unbroken, m
  <2>5. written[b].prev = written[b - 1].next
    BY <2>2 DEF AsWritten
  <2>6. rows[a - 1] = written[b - 1]
    BY <2>2, <2>3, <2>4, <2>5, SameLinkSameRow
  <2> QED
    BY <2>2, <2>6
<1> HIDE DEF T
<1>5. \A d \in Nat : d \in T
  BY <1>3, <1>4, Counting
<1>6. \A d \in Nat : d < m /\ d < n => rows[m - d] = written[n - d]
  BY <1>5 DEF T
<1>7. m = n
  <2>1. ASSUME m < n PROVE FALSE
    <3>1. /\ m - 1 \in Nat /\ m - (m - 1) = 1 /\ n - (m - 1) = n - m + 1 /\ m - 1 < m /\ m - 1 < n
          /\ n - m + 1 > 1 /\ n - m + 1 \in DOMAIN written /\ n - m \in DOMAIN written
          /\ n - m + 1 - 1 = n - m
      BY <1>2, <2>1
    <3>2. rows[1] = written[n - m + 1]
      BY <1>6, <3>1
    <3>3. written[n - m + 1].prev = written[n - m].next
      BY <3>1 DEF AsWritten
    <3>4. written[n - m].next = Sealed(written[n - m])
      BY <3>1 DEF AsWritten
    <3>5. expected = Sealed(written[n - m])
      BY <3>2, <3>3, <3>4 DEF Unbroken
    <3>6. 1 \in DOMAIN written
      BY <1>2
    <3>7. expected \in Tip \cup {NoPrev}
      BY <3>6 DEF AsWritten
    <3> QED
      BY <3>5, <3>7, LinkNoRoot DEF Sealed
  <2>2. ASSUME n < m PROVE FALSE
    <3>1. /\ n - 1 \in Nat /\ n - (n - 1) = 1 /\ m - (n - 1) = m - n + 1 /\ n - 1 < m /\ n - 1 < n
          /\ m - n + 1 \in 2..m /\ m - n \in DOMAIN rows /\ m - n + 1 - 1 = m - n
      BY <1>2, <2>2
    <3>2. rows[m - n + 1] = written[1]
      BY <1>6, <3>1
    <3> HIDE DEF m
    <3>3. rows[m - n + 1].prev = rows[m - n].next /\ rows[m - n].next = Sealed(rows[m - n])
      BY <3>1 DEF Unbroken, m
    <3>4. written[1].prev = Sealed(rows[m - n])
      BY <3>2, <3>3
    <3>5. 1 \in DOMAIN written
      BY <1>2
    <3>6. written[1].prev \in Tip \cup {NoPrev}
      BY <3>5 DEF AsWritten
    <3> QED
      BY <3>4, <3>6, LinkNoRoot DEF Sealed
  <2> QED
    BY <1>2, <2>1, <2>2
<1>8. ASSUME NEW k \in 1..n PROVE rows[k] = written[k]
  <2>1. n - k \in Nat /\ n - k < m /\ n - k < n /\ m - (n - k) = k /\ n - (n - k) = k
    BY <1>2, <1>7
  <2> QED
    BY <1>6, <2>1
<1>9. SubSeq(written, 1, n) = [k \in 1..n |-> written[k]]
  BY <1>2
<1> QED
  BY <1>2, <1>7, <1>8, <1>9

------------------------------------------------------------------------------
(* Who is accused of what.                                                  *)

\* Row k hangs where it should and carries its own link.
Good(k) ==
  /\ Parses(rows[k].sequence) /\ rows[k].next = Sealed(rows[k])
  /\ k = 1 => rows[1].prev = expected
  /\ k > 1 => rows[k].prev = rows[k - 1].next

Blamed(report, k) == \E s \in report : s.status = "INVALID" /\ s.target[2] = k

\* What row k may be blamed for.  The number that is expected of it is that of
\* the row before it only if all rows before it have one.
Cause(k) ==
  \/ ~Parses(rows[k].sequence)
  \/ rows[k].next # Sealed(rows[k])
  \/ k = 1 /\ rows[1].prev # expected
  \/ k > 1 /\ rows[k].prev # rows[k - 1].next
  \/ k > 1 /\ rows[k].sequence # rows[k - 1].sequence + 1
  \/ \E j \in 1..(k - 1) : ~Parses(rows[j].sequence)

\* Every row behind the walk is good or blamed, and none is blamed for nothing.
Reasons ==
  pc # "transit" /\ rows # << >> =>
    /\ rows[1].prev = expected \/ Blamed(steps, 1)
    /\ \A k \in Behind : Good(k) \/ Blamed(steps, k)
    /\ \A s \in steps : s.status = "INVALID" => s.target[2] \in DOMAIN rows /\ Cause(s.target[2])
    /\ (\A k \in Behind : Parses(rows[k].sequence)) =>
         prevSequence = IF i = 1 THEN BadSequence ELSE rows[i - 1].sequence

Accusing == Origin /\ Reasons

LEMMA RowsPosition ==
  ASSUME TenantInv, pc = "walk", i <= Len(rows)
  PROVE  Len(rows) \in Nat /\ DOMAIN rows = 1..Len(rows) /\ i \in 1..Len(rows)
<1>1. Len(rows) \in Nat /\ DOMAIN rows = 1..Len(rows)
  BY DEF TenantInv, Listed
<1> QED
  BY <1>1 DEF TenantInv, Position

LEMMA LinkStepBlames ==
  ASSUME NEW k, NEW link
  PROVE  /\ LinkStep(k, link).target = <<"tenantChainPrev", k>>
         /\ LinkStep(k, link).status = "INVALID" <=> rows[k].prev # link
  BY DEF LinkStep, Ok, Fault, Step

LEMMA AccusingInit == TenantInit => Accusing
<1>1. TenantInit => Origin
  BY DEF TenantInit, Origin
<1>2. TenantInit => Reasons
  BY DEF TenantInit, Reasons
<1> QED
  BY <1>1, <1>2 DEF Accusing

LEMMA GenesisReasons ==
  ASSUME TenantInv, Accusing, CheckGenesis
  PROVE  Accusing'
<1>1. /\ pc = "transit" /\ rows # << >> /\ pc' = "walk"
      /\ steps' = {LinkStep(1, expected)}
      /\ UNCHANGED <<written, rows, expected, checks, altered, i, prevSequence, status>>
  BY DEF CheckGenesis
<1>2. i = 1 /\ prevSequence = BadSequence
  BY <1>1 DEF TenantInv, Position
<1>3. Behind' = {} /\ 1 \in DOMAIN rows
  <2>1. Len(rows) \in Nat /\ DOMAIN rows = 1..Len(rows) /\ Len(rows) # 0
    BY <1>1 DEF TenantInv, Listed
  <2> QED
    BY <1>1, <1>2, <2>1 DEF Behind
<1>4. rows[1].prev = expected \/ Blamed(steps', 1)
  BY <1>1, LinkStepBlames DEF Blamed
<1>5. \A s \in steps' : s.status = "INVALID" => s.target[2] \in DOMAIN rows /\ Cause(s.target[2])
  <2>1. LinkStep(1, expected).target[2] = 1
    BY LinkStepBlames
  <2> QED
    BY <1>1, <1>3, <2>1, LinkStepBlames DEF Cause
<1>6. Reasons'
  BY <1>1, <1>2, <1>3, <1>4, <1>5 DEF Reasons, Cause, Parses, Sealed, Link
<1>7. Origin'
  BY <1>1 DEF Accusing, Origin
<1> QED
  BY <1>6, <1>7 DEF Accusing

LEMMA BadRowReasons ==
  ASSUME TenantInv, Accusing, RowWithBadSequence
  PROVE  Accusing'
<1> DEFINE bad == Fault("tenantChainSequence", i, "MALFORMED_PACK")
<1>1. /\ pc = "walk" /\ i <= Len(rows) /\ ~Parses(rows[i].sequence)
      /\ steps' = steps \cup {bad}
      /\ i' = i + 1
      /\ UNCHANGED <<written, rows, expected, checks, altered, pc, prevSequence, status>>
  BY DEF RowWithBadSequence, AtRow
<1>2. Len(rows) \in Nat /\ DOMAIN rows = 1..Len(rows) /\ i \in 1..Len(rows) /\ rows # << >>
  BY <1>1, RowsPosition DEF TenantInv, Position
<1>3. bad.status = "INVALID" /\ bad.target[2] = i
  BY DEF Fault, Step
<1> HIDE DEF bad
<1>4. /\ rows[1].prev = expected \/ Blamed(steps, 1)
      /\ \A k \in Behind : Good(k) \/ Blamed(steps, k)
      /\ \A s \in steps : s.status = "INVALID" => s.target[2] \in DOMAIN rows /\ Cause(s.target[2])
  BY <1>1, <1>2 DEF Accusing, Reasons
<1>5. \A k : Blamed(steps, k) => Blamed(steps', k)
  BY <1>1 DEF Blamed
<1>6. Blamed(steps', i)
  BY <1>1, <1>3 DEF Blamed
<1>7. \A k \in Behind' : k = i \/ k \in Behind
  BY <1>1, <1>2 DEF Behind
<1>8. \A k : (Good(k)' <=> Good(k)) /\ (Cause(k)' <=> Cause(k))
  BY <1>1 DEF Good, Cause, Parses, Sealed, Link
<1>9. \A k \in Behind' : Good(k)' \/ Blamed(steps', k)
  <2> SUFFICES ASSUME NEW k \in Behind' PROVE Good(k)' \/ Blamed(steps', k)
    OBVIOUS
  <2>1. CASE k = i
    BY <1>6, <2>1
  <2>2. CASE k \in Behind
    BY <1>4, <1>5, <1>8, <2>2
  <2> QED
    BY <1>7, <2>1, <2>2
<1>10. \A s \in steps' : s.status = "INVALID" => s.target[2] \in DOMAIN rows /\ Cause(s.target[2])
  <2>1. Cause(i)
    BY <1>1 DEF Cause
  <2> QED
    BY <1>1, <1>2, <1>3, <1>4, <2>1
<1>11. i \in Behind'
  BY <1>1, <1>2 DEF Behind
<1>12. Reasons'
  <2>1. ~(\A k \in Behind' : Parses(rows[k].sequence))
    BY <1>1, <1>11
  <2>2. \A s \in steps' : s.status = "INVALID" => s.target[2] \in DOMAIN rows' /\ Cause(s.target[2])'
    BY <1>1, <1>8, <1>10
  <2>3. rows'[1].prev = expected' \/ Blamed(steps', 1)
    BY <1>1, <1>4, <1>5
  <2>4. ~(\A k \in Behind' : Parses(rows[k].sequence)')
    BY <1>1, <2>1 DEF Parses
  <2> QED
    BY <1>9, <2>2, <2>3, <2>4 DEF Reasons
<1>13. Origin'
  BY <1>1 DEF Accusing, Origin
<1> QED
  BY <1>12, <1>13 DEF Accusing

LEMMA RowReasons ==
  ASSUME TenantInv, Accusing, JudgeRow
  PROVE  Accusing'
<1> DEFINE broken == Fault("tenantChainNext", i, "CHAIN_LINK_MISMATCH")
           own == IF Recomputed(rows[i]) THEN Ok("tenantChainNext", i) ELSE broken
           late == Fault("tenantChainSequence", i, "CHAIN_OUT_OF_ORDER")
           order == {s \in {late} : ~Follows(rows[i].sequence)}
           link == {LinkStep(k, rows[k - 1].next) : k \in {i} \ {1}}
<1>1. /\ pc = "walk" /\ i <= Len(rows) /\ Parses(rows[i].sequence)
      /\ steps' = steps \cup order \cup link \cup {own}
      /\ prevSequence' = rows[i].sequence
      /\ i' = i + 1
      /\ UNCHANGED <<written, rows, expected, checks, altered, pc, status>>
  BY DEF JudgeRow, AtRow
<1>2. Len(rows) \in Nat /\ DOMAIN rows = 1..Len(rows) /\ i \in 1..Len(rows) /\ rows # << >>
  BY <1>1, RowsPosition DEF TenantInv, Position
<1>3. /\ own.target[2] = i /\ (own.status = "INVALID" <=> rows[i].next # Sealed(rows[i]))
      /\ late.target[2] = i
  BY DEF Ok, Fault, Step, Recomputed
<1>4. \A s \in link : /\ i # 1 /\ s.target[2] = i
                      /\ s.status = "INVALID" <=> rows[i].prev # rows[i - 1].next
  BY LinkStepBlames
<1>5. i # 1 => \E s \in link : TRUE
  OBVIOUS
<1>6. \A s \in order : s = late /\ ~Follows(rows[i].sequence)
  OBVIOUS
<1> HIDE DEF own, order, link, late
<1>7. /\ rows[1].prev = expected \/ Blamed(steps, 1)
      /\ \A k \in Behind : Good(k) \/ Blamed(steps, k)
      /\ \A s \in steps : s.status = "INVALID" => s.target[2] \in DOMAIN rows /\ Cause(s.target[2])
      /\ (\A k \in Behind : Parses(rows[k].sequence)) =>
           prevSequence = IF i = 1 THEN BadSequence ELSE rows[i - 1].sequence
  BY <1>1, <1>2 DEF Accusing, Reasons
<1>8. \A k : Blamed(steps, k) => Blamed(steps', k)
  BY <1>1 DEF Blamed
<1>9. Good(i) \/ Blamed(steps', i)
  <2>1. CASE rows[i].next # Sealed(rows[i])
    BY <1>1, <1>3, <2>1 DEF Blamed
  <2>2. CASE i = 1 /\ rows[1].prev # expected
    BY <1>7, <1>8, <2>2
  <2>3. CASE i # 1 /\ rows[i].prev # rows[i - 1].next
    <3>1. PICK s \in link : s.status = "INVALID" /\ s.target[2] = i
      BY <1>4, <1>5, <2>3
    <3>2. s \in steps'
      BY <1>1
    <3> QED
      BY <3>1, <3>2 DEF Blamed
  <2>4. CASE /\ rows[i].next = Sealed(rows[i])
             /\ i = 1 => rows[1].prev = expected
             /\ i # 1 => rows[i].prev = rows[i - 1].next
    BY <1>1, <1>2, <2>4 DEF Good
  <2> QED
    BY <2>1, <2>2, <2>3, <2>4
<1>10. \A k \in Behind' : k = i \/ k \in Behind
  BY <1>1, <1>2 DEF Behind
<1>11. \A k : (Good(k)' <=> Good(k)) /\ (Cause(k)' <=> Cause(k))
  BY <1>1 DEF Good, Cause, Parses, Sealed, Link
<1>12. \A k \in Behind' : Good(k)' \/ Blamed(steps', k)
  <2> SUFFICES ASSUME NEW k \in Behind' PROVE Good(k) \/ Blamed(steps', k)
    BY <1>11
  <2> QED
    BY <1>7, <1>8, <1>9, <1>10
<1>13. ~Follows(rows[i].sequence) => Cause(i)
  <2>1. SUFFICES ASSUME ~Follows(rows[i].sequence),
                        \A j \in 1..(i - 1) : Parses(rows[j].sequence)
                 PROVE  i > 1 /\ rows[i].sequence # rows[i - 1].sequence + 1
    BY DEF Cause
  <2>2. \A k \in Behind : Parses(rows[k].sequence)
    BY <1>2, <2>1 DEF Behind
  <2>3. prevSequence # BadSequence /\ i # 1 /\ prevSequence = rows[i - 1].sequence
    BY <1>7, <2>1, <2>2 DEF Follows
  <2>4. i - 1 \in 1..(i - 1) /\ i > 1
    BY <1>2, <2>3
  <2>5. rows[i - 1].sequence \in 0..Limit /\ rows[i].sequence \in 0..Limit /\ Limit \in Nat
    BY <1>1, <2>1, <2>4, TenantAssumption DEF Parses
  <2>6. rows[i].sequence # (rows[i - 1].sequence + 1) % (Limit + 1)
    BY <2>1, <2>3 DEF Follows
  <2>7. ASSUME rows[i].sequence = rows[i - 1].sequence + 1 PROVE FALSE
    <3> DEFINE n == rows[i].sequence
    <3>1. n \in 0..Limit /\ n # n % (Limit + 1)
      BY <2>5, <2>6, <2>7
    <3> HIDE DEF n
    <3> QED
      BY <2>5, <3>1
  <2> QED
    BY <2>4, <2>7
<1>14. \A s \in steps' : s.status = "INVALID" => s.target[2] \in DOMAIN rows /\ Cause(s.target[2])
  <2>1. \A s \in link : s.status = "INVALID" => s.target[2] = i /\ Cause(i)
    BY <1>2, <1>4 DEF Cause
  <2>2. own.status = "INVALID" => own.target[2] = i /\ Cause(i)
    BY <1>3 DEF Cause
  <2>3. \A s \in order : s.target[2] = i /\ Cause(i)
    BY <1>3, <1>6, <1>13
  <2> QED
    BY <1>1, <1>2, <1>7, <2>1, <2>2, <2>3
<1>15. i' # 1 /\ i' - 1 = i
  BY <1>1, <1>2
<1>16. Reasons'
  <2>1. prevSequence' = IF i' = 1 THEN BadSequence ELSE rows'[i' - 1].sequence
    BY <1>1, <1>15
  <2>2. \A s \in steps' : s.status = "INVALID" => s.target[2] \in DOMAIN rows' /\ Cause(s.target[2])'
    BY <1>1, <1>11, <1>14
  <2>3. rows'[1].prev = expected' \/ Blamed(steps', 1)
    BY <1>1, <1>7, <1>8
  <2> QED
    BY <1>12, <2>1, <2>2, <2>3 DEF Reasons
<1>17. Origin'
  BY <1>1 DEF Accusing, Origin
<1> QED
  BY <1>16, <1>17 DEF Accusing

(* Nothing is judged while the chain is in transit; without rows nothing is *)
(* to be blamed; and the ends of the walk, or no step, leave all as it is.  *)
LEMMA OtherReasons ==
  ASSUME TenantInv, Accusing,
         \/ \E k \in DOMAIN rows : AlterRow(k) \/ DropRow(k) \/ RepeatRow(k) \/ SwapRows(k)
         \/ RejectEmpty \/ SequenceOverflows \/ RollUp \/ Returned \/ UNCHANGED tenantVars
  PROVE  Accusing'
<1>1. written' = written
  BY DEF AlterRow, DropRow, RepeatRow, SwapRows, Change, RejectEmpty, SequenceOverflows,
         RollUp, Returned, tenantVars
<1>2. Origin'
  BY <1>1 DEF Accusing, Origin
<1>3. CASE \/ \E k \in DOMAIN rows : AlterRow(k) \/ DropRow(k) \/ RepeatRow(k) \/ SwapRows(k)
           \/ RejectEmpty
  <2>1. pc' = "transit" \/ rows' = << >>
    BY <1>3 DEF AlterRow, DropRow, RepeatRow, SwapRows, Change, RejectEmpty
  <2> QED
    BY <1>2, <2>1 DEF Reasons, Accusing
<1>4. CASE SequenceOverflows \/ RollUp \/ Returned \/ UNCHANGED tenantVars
  <2>1. /\ UNCHANGED <<rows, expected, i, prevSequence, steps>>
        /\ pc # "transit" \/ pc' = pc
    BY <1>4 DEF SequenceOverflows, AtRow, RollUp, Returned, tenantVars
  <2>2. \A k : (Good(k)' <=> Good(k)) /\ (Cause(k)' <=> Cause(k))
    BY <2>1 DEF Good, Cause, Parses, Sealed, Link
  <2>3. Behind' = Behind
    BY <2>1 DEF Behind
  <2>4. Reasons'
    <3>1. SUFFICES ASSUME pc' # "transit", rows' # << >> PROVE Reasons'
      BY DEF Reasons
    <3>2. /\ rows[1].prev = expected \/ Blamed(steps, 1)
          /\ \A k \in Behind : Good(k) \/ Blamed(steps, k)
          /\ \A s \in steps : s.status = "INVALID" => s.target[2] \in DOMAIN rows /\ Cause(s.target[2])
          /\ (\A k \in Behind : Parses(rows[k].sequence)) =>
               prevSequence = IF i = 1 THEN BadSequence ELSE rows[i - 1].sequence
      BY <2>1, <3>1 DEF Accusing, Reasons
    <3>3. \A k \in Behind' : Good(k)' \/ Blamed(steps', k)
      BY <2>1, <2>2, <2>3, <3>2
    <3>4. \A s \in steps' : s.status = "INVALID" => s.target[2] \in DOMAIN rows' /\ Cause(s.target[2])'
      BY <2>1, <2>2, <3>2
    <3>5. /\ rows' = rows /\ expected' = expected /\ i' = i /\ steps' = steps
          /\ prevSequence' = prevSequence
      BY <2>1
    <3>7. (\A k \in Behind : Parses(rows[k].sequence))' <=> (\A k \in Behind : Parses(rows[k].sequence))
      BY <2>3, <3>5 DEF Parses
    <3>8. (/\ (\A k \in Behind : Good(k) \/ Blamed(steps, k))
           /\ (\A s \in steps : s.status = "INVALID" => s.target[2] \in DOMAIN rows /\ Cause(s.target[2])))'
      BY <3>3, <3>4, <3>5 DEF Blamed
    <3>9. ((\A k \in Behind : Parses(rows[k].sequence)) =>
              prevSequence = IF i = 1 THEN BadSequence ELSE rows[i - 1].sequence)'
      BY <3>2, <3>5, <3>7
    <3>10. (rows[1].prev = expected \/ Blamed(steps, 1))'
      BY <3>2, <3>5
    <3> QED
      BY <3>8, <3>9, <3>10 DEF Reasons
  <2> QED
    BY <1>2, <2>4 DEF Accusing
<1> QED
  BY <1>3, <1>4

LEMMA AccusingStep == TenantInv /\ Accusing /\ [TenantNext]_tenantVars => Accusing'
<1>1. ASSUME TenantInv, Accusing, CheckGenesis PROVE Accusing'
  BY <1>1, GenesisReasons
<1>2. ASSUME TenantInv, Accusing, RowWithBadSequence PROVE Accusing'
  BY <1>2, BadRowReasons
<1>3. ASSUME TenantInv, Accusing, JudgeRow PROVE Accusing'
  BY <1>3, RowReasons
<1>4. ASSUME TenantInv, Accusing,
             \/ \E k \in DOMAIN rows : AlterRow(k) \/ DropRow(k) \/ RepeatRow(k) \/ SwapRows(k)
             \/ RejectEmpty \/ SequenceOverflows \/ RollUp \/ Returned \/ UNCHANGED tenantVars
      PROVE  Accusing'
  BY <1>4, OtherReasons
<1> QED
  BY <1>1, <1>2, <1>3, <1>4 DEF TenantNext

(* As long as the rows are good and carry written links, they are the rows  *)
(* as written: the sequence number in a link tells where it was written.    *)
LEMMA GoodMeansUnchanged ==
  ASSUME Listed, AsWritten, NoneResealed, expected = written[1].prev,
         NEW k \in DOMAIN rows, \A j \in 1..k : j \in DOMAIN rows /\ Good(j),
         k \in Nat
  PROVE  \A j \in 1..k : j \in DOMAIN written /\ rows[j] = written[j]
<1> DEFINE T == {n \in Nat : n = 0 \/ n > k \/ (n \in DOMAIN written /\ rows[n] = written[n])}
<1>1. Len(written) \in Nat /\ DOMAIN written = 1..Len(written)
  BY DEF AsWritten
<1>2. PICK start \in Int : \A n \in DOMAIN written : written[n].sequence = start + n - 1
  BY DEF AsWritten
<1>3. 0 \in T
  OBVIOUS
<1>4. ASSUME NEW n \in Nat, n \in T PROVE n + 1 \in T
  <2> DEFINE j == n + 1
  <2>1. SUFFICES ASSUME j <= k PROVE j \in DOMAIN written /\ rows[j] = written[j]
    OBVIOUS
  <2>2. j \in 1..k /\ j \in Nat /\ n = j - 1 /\ (j = 1 \/ j > 1)
    BY <2>1
  <2>3. n = 0 \/ (n \in DOMAIN written /\ rows[n] = written[n])
    BY <1>4, <2>1
  <2> HIDE DEF j, T
  <2>4. /\ j \in DOMAIN rows /\ rows[j].next = Sealed(rows[j])
        /\ j = 1 => rows[j].prev = expected
        /\ j > 1 => rows[j].prev = rows[j - 1].next
    BY <2>2 DEF Good
  <2>5. PICK p \in DOMAIN written : rows[j].next = written[p].next
    BY <2>4 DEF NoneResealed, WrittenLinks
  <2>6. rows[j] = written[p]
    BY <2>4, <2>5, SameLinkSameRow
  <2>7. p \in Nat /\ p >= 1 /\ (p > 1 => p - 1 \in DOMAIN written) /\ 1 \in DOMAIN written
    BY <1>1, <2>5
  <2>8. p > 1 => /\ written[p].prev = written[p - 1].next
                 /\ written[p - 1].next = Sealed(written[p - 1])
    BY <2>7 DEF AsWritten
  <2>9. written[1].prev \in Tip \cup {NoPrev}
    BY <2>7 DEF AsWritten
  <2>10. CASE j = 1
    <3>1. written[p].prev = written[1].prev
      BY <2>4, <2>6, <2>10
    <3>2. ~(p > 1)
      BY <3>1, <2>8, <2>9, LinkNoRoot DEF Sealed
    <3>3. p = 1
      BY <3>2, <2>7
    <3> QED
      BY <2>5, <2>6, <2>10, <3>3
  <2>11. CASE j > 1
    <3>1. n \in DOMAIN written /\ rows[n] = written[n] /\ rows[j].prev = rows[n].next
      BY <2>2, <2>3, <2>4, <2>11
    <3>2. written[n].next = Sealed(written[n])
      BY <3>1 DEF AsWritten
    <3>3. written[p].prev = Sealed(written[n])
      BY <2>6, <3>1, <3>2
    <3>4. p # 1
      <4>1. Sealed(written[n]) \notin Tip \cup {NoPrev}
        BY LinkNoRoot DEF Sealed
      <4> QED
        BY <2>9, <3>3, <4>1
    <3>5. p > 1
      BY <3>4, <2>7
    <3>6. Sealed(written[p - 1]) = Sealed(written[n])
      BY <2>8, <3>3, <3>5
    <3>7. written[p - 1].sequence = written[n].sequence
      BY <3>6, SealsAlike
    <3>8. start + (p - 1) - 1 = start + n - 1
      BY <1>2, <2>7, <3>1, <3>5, <3>7
    <3>9. p = j
      BY <2>2, <2>7, <3>8
    <3> QED
      BY <2>5, <2>6, <3>9
  <2> QED
    BY <2>2, <2>10, <2>11
<1> HIDE DEF T
<1>5. \A n \in Nat : n \in T
  BY <1>3, <1>4, Counting
<1>6. SUFFICES ASSUME NEW j \in 1..k PROVE j \in DOMAIN written /\ rows[j] = written[j]
  OBVIOUS
<1>7. j \in T /\ j # 0 /\ ~(j > k)
  BY <1>5
<1> QED
  BY <1>7 DEF T

(* There is no cause to blame the rows that are as written.                 *)
LEMMA UnchangedIsGood ==
  ASSUME AsWritten, expected = written[1].prev,
         \A n \in DOMAIN written : Parses(written[n].sequence),
         NEW k \in Nat, k >= 1, \A j \in 1..k : j \in DOMAIN written /\ rows[j] = written[j]
  PROVE  ~Cause(k)
<1>1. PICK start \in Int : \A n \in DOMAIN written : written[n].sequence = start + n - 1
  BY DEF AsWritten
<1>2. k \in DOMAIN written /\ rows[k] = written[k] /\ rows[1] = written[1]
  BY 1 \in 1..k, k \in 1..k
<1>3. written[k] = [prev |-> written[k].prev, row |-> written[k].row,
                    sequence |-> written[k].sequence, next |-> Sealed(written[k])]
  BY <1>2 DEF AsWritten
<1>4. rows[k].next = Sealed(rows[k]) /\ Parses(rows[k].sequence)
  <2>1. written[k].next = Sealed(written[k])
    BY <1>3
  <2> QED
    BY <1>2, <2>1
<1>5. \A j \in 1..(k - 1) : Parses(rows[j].sequence)
  <2>1. \A j \in 1..(k - 1) : j \in 1..k
    OBVIOUS
  <2> QED
    BY <2>1
<1>6. ASSUME k > 1
      PROVE  rows[k].prev = rows[k - 1].next /\ rows[k].sequence = rows[k - 1].sequence + 1
  <2>1. k - 1 \in 1..k
    BY <1>6
  <2>2. k - 1 \in DOMAIN written /\ rows[k - 1] = written[k - 1]
    BY <2>1
  <2>3. written[k].prev = written[k - 1].next
    BY <1>2, <1>6 DEF AsWritten
  <2>4. written[k].sequence = start + k - 1 /\ written[k - 1].sequence = start + (k - 1) - 1
    BY <1>1, <1>2, <2>2
  <2>5. written[k].sequence = written[k - 1].sequence + 1
    BY <2>4
  <2> QED
    BY <1>2, <2>2, <2>3, <2>5
<1> QED
  BY <1>2, <1>4, <1>5, <1>6 DEF Cause

------------------------------------------------------------------------------
(* In every reachable state the rows behind the walk have been judged, and  *)
(* are joined to each other unless one of them is reported INVALID.         *)
THEOREM TenantInductive == TenantSpec => []TenantInv
  BY TenantInitInv, TenantStep, PTL DEF TenantSpec

(* Every variable of verify_tenant_chain's walk stays in its domain.        *)
THEOREM TenantTypeCorrect == TenantSpec => []TenantTypeOK
<1>1. TenantInv => TenantTypeOK
  <2>1. SUFFICES ASSUME TenantInv PROVE TenantTypeOK
    OBVIOUS
  <2>2. PICK L : rows \in Seq(RowOf(L))
    BY <2>1 DEF TenantInv, Listed
  <2>3. ASSUME NEW k \in DOMAIN rows PROVE rows[k].row \in RowHash
    <3>1. rows[k] \in RowOf(L)
      BY <2>2
    <3> QED
      BY <3>1 DEF RowOf
  <2>4. Len(rows) <= Len(written) + MaxAlterations
    <3>1. Len(rows) \in Nat
      BY <2>2
    <3>2. /\ Len(written) \in Nat /\ Len(rows) <= Len(written) + altered
          /\ altered \in 0..MaxAlterations
      BY <2>1 DEF TenantInv, NotLonger, Domains
    <3> QED
      BY <3>1, <3>2, TenantAssumption
  <2> QED
    BY <2>1, <2>3, <2>4 DEF TenantInv, Position, Domains, TenantTypeOK
<1> QED
  BY <1>1, TenantInductive, PTL

(* A finished report judges every row, whatever faults the rows before it   *)
(* have: a fault in a chain never hides a later one.                        *)
THEOREM RowsAreJudged == TenantSpec => []EveryRowJudged
<1>1. TenantInv => EveryRowJudged
  <2>1. SUFFICES ASSUME TenantInv, status # "pending", NEW k \in DOMAIN rows
                 PROVE  \E s \in steps :
                          s.target = <<IF Parses(rows[k].sequence) THEN "tenantChainNext"
                                       ELSE "tenantChainSequence", k>>
    BY DEF EveryRowJudged
  <2>2. Len(rows) \in Nat /\ DOMAIN rows = 1..Len(rows)
    BY <2>1 DEF TenantInv, Listed
  <2>3. i = Len(rows) + 1
    BY <2>1, <2>2 DEF TenantInv, Position
  <2>4. k \in Behind
    BY <2>1, <2>2, <2>3 DEF Behind
  <2> QED
    BY <2>1, <2>4 DEF TenantInv, JudgedBehind
<1> QED
  BY <1>1, TenantInductive, PTL

(* A chain reported VALID is unbroken from the expected genesis to its last *)
(* row, however long it is and however often it was changed.                *)
THEOREM ValidChainsAreUnbroken == TenantSpec => []ValidMeansUnbroken
  BY TenantInvUnbroken, TenantInductive, PTL

(* And in every reachable state the rows behind the walk are good or       *)
(* blamed, and none is blamed without a cause.                             *)
THEOREM AccusingInductive == TenantSpec => [](TenantInv /\ Accusing)
<1>1. TenantInit => TenantInv /\ Accusing
  BY TenantInitInv, AccusingInit
<1>2. (TenantInv /\ Accusing) /\ [TenantNext]_tenantVars => (TenantInv /\ Accusing)'
  BY TenantStep, AccusingStep
<1> QED
  BY <1>1, <1>2, PTL DEF TenantSpec

(* One tip, one history: a VALID chain that ends in a link the platform     *)
(* wrote is what it wrote up to there, whatever was changed or resealed and *)
(* however often.                                                          *)
THEOREM OneTipOneHistory == TenantSpec => []SameTipSameHistory
<1>1. TenantInv /\ Accusing => SameTipSameHistory
  <2>1. SUFFICES ASSUME TenantInv, Accusing, status = "VALID", expected = written[1].prev,
                        NEW n \in DOMAIN written, rows[Len(rows)].next = written[n].next
                 PROVE  rows = SubSeq(written, 1, n)
    BY DEF SameTipSameHistory
  <2>2. ValidMeansUnbroken
    BY <2>1, TenantInvUnbroken
  <2>3. Unbroken
    BY <2>1, <2>2 DEF ValidMeansUnbroken, Unbroken
  <2>4. Listed /\ AsWritten
    BY <2>1, OriginIs DEF TenantInv, Accusing
  <2> QED
    BY <2>1, <2>3, <2>4, TracedBack
<1> QED
  BY <1>1, AccusingInductive, PTL

(* Until links are resealed, the report accuses the first row that is not   *)
(* as written, nothing before it, and nothing at all if there is none.      *)
THEOREM FirstChangeAccused == TenantSpec => []AccusesFirstChange
<1>1. TenantInv /\ Accusing => AccusesFirstChange
  <2>1. SUFFICES ASSUME TenantInv, Accusing, status # "pending", rows # << >>, NoneResealed,
                        expected = written[1].prev,
                        \A k \in DOMAIN written : Parses(written[k].sequence)
                 PROVE  /\ Accused = {} <=> Changed = {}
                        /\ \A k \in Changed : \E a \in Accused : a <= k
                        /\ \A a \in Accused : \E k \in Changed : k <= a
    BY DEF AccusesFirstChange
  <2>2. Len(rows) \in Nat /\ DOMAIN rows = 1..Len(rows) /\ Listed /\ AsWritten
    BY <2>1, OriginIs DEF TenantInv, Listed, Accusing
  <2>3. pc = "done" /\ i = Len(rows) + 1
    BY <2>1 DEF TenantInv, Position
  <2>4. \A k \in DOMAIN rows : k \in Behind /\ k \in Nat /\ k >= 1
                               /\ \A j \in 1..k : j \in DOMAIN rows
    BY <2>2, <2>3 DEF Behind
  <2>5. /\ \A k \in DOMAIN rows : Good(k) \/ Blamed(steps, k)
        /\ \A s \in steps : s.status = "INVALID" => s.target[2] \in DOMAIN rows /\ Cause(s.target[2])
    BY <2>1, <2>3, <2>4 DEF Accusing, Reasons
  <2>6. \A k : k \in Accused <=> Blamed(steps, k)
    BY DEF Accused, Blamed
  <2>7. \A a \in Accused : a \in DOMAIN rows /\ Cause(a)
    BY <2>5 DEF Accused
  <2>8. ASSUME NEW k \in Changed PROVE \E a \in Accused : a <= k
    <3>1. SUFFICES ASSUME \A a \in Accused : ~(a <= k) PROVE FALSE
      OBVIOUS
    <3>2. k \in DOMAIN rows /\ (k \notin DOMAIN written \/ rows[k] # written[k])
      BY DEF Changed
    <3>3. ASSUME NEW j \in 1..k PROVE j \in DOMAIN rows /\ Good(j)
      <4>1. j <= k /\ j \in DOMAIN rows
        BY <2>4, <3>2
      <4>2. j \notin Accused
        BY <3>1, <4>1
      <4> QED
        BY <2>5, <2>6, <4>1, <4>2
    <3>4. \A j \in 1..k : j \in DOMAIN written /\ rows[j] = written[j]
      <4>1. k \in Nat /\ k \in DOMAIN rows
        BY <2>4, <3>2
      <4> QED
        BY <2>1, <2>2, <3>3, <4>1, GoodMeansUnchanged
    <3>5. k \in 1..k
      BY <2>4, <3>2
    <3> QED
      BY <3>2, <3>4, <3>5
  <2>9. ASSUME NEW a \in Accused PROVE \E k \in Changed : k <= a
    <3>1. SUFFICES ASSUME \A k \in Changed : ~(k <= a) PROVE FALSE
      OBVIOUS
    <3>2. a \in DOMAIN rows /\ Cause(a) /\ a \in Nat /\ a >= 1
      BY <2>4, <2>7
    <3>3. ASSUME NEW j \in 1..a PROVE j \in DOMAIN written /\ rows[j] = written[j]
      <4>1. j <= a /\ j \in DOMAIN rows
        BY <2>4, <3>2
      <4> QED
        BY <3>1, <4>1 DEF Changed
    <3> QED
      BY <2>1, <2>2, <3>2, <3>3, UnchangedIsGood
  <2> QED
    BY <2>8, <2>9
<1> QED
  BY <1>1, AccusingInductive, PTL
==============================================================================
