---------------------------- MODULE AuditorProofs ----------------------------
(* What verify_all says of any bundle the platform makes and of any change   *)
(* made to it.                                                              *)
(*                                                                         *)
(* Every audit's proofs are instantiated for the parts of the bundle it is   *)
(* handed (RP, CP, MP, SP): while an audit runs, the frame satisfies its own *)
(* invariant, and when it returns the report says what the evidence is.  So  *)
(* the invariant of the call relates every report to the bundle, whatever    *)
(* order the steps were taken in, and says where the bundle came from: how   *)
(* the platform made it, and how far one change can have taken it.           *)
EXTENDS Auditor, TLAPS

RP == INSTANCE ReceiptAuditProofs WITH
  SealedPacks <- {[k \in DOMAIN plan.receipts |->
                     <<plan.receipts[k].payload, plan.receipts[k].keyId>>] : plan \in Plans},
  envelope <- bundle.pack.envelope,
  sealed <- Each(Receipt, sealed.records), records <- Each(Receipt, bundle.pack.records),
  KeyLists <- {}, NoAnswer <- {}, entry <- {}, reply <- {}, supplied <- {}, stage <- {},
  position <- {}, index <- {}, answer <- {}

CP == INSTANCE ProofChainProofs WITH
  Hash <- R!Hashes, Packs <- {},
  records <- Each(Link, bundle.pack.records), prior <- bundle.prior,
  SeriesPacks <- {}, MaxPacks <- 1, earlier <- {}, verdicts <- {}

MP == INSTANCE MeteringAuditProofs WITH
  Packs <- {}, Plans <- {plan.bills : plan \in Plans}, NoOrg <- NoSummary,
  proofs <- Each(Proof, bundle.pack.records), packOrg <- bundle.pack.org,
  sealed <- sealed.metering

SP == INSTANCE SettlementAuditProofs WITH
  Meter <- [receipt : ReceiptId, unit : M!UnitType],
  Agreements <- {plan.agreement : plan \in Plans},
  metering <- [org |-> metering.org,
               meters |-> {metering.records[k].idem : k \in DOMAIN metering.records}],
  sealed <- sealed.settlement

------------------------------------------------------------------------------
(* The audits as verify_all instantiates them are those their own modules   *)
(* prove about, and their assumptions hold.                                *)

LEMMA Assumed ==
  /\ RP!KeyAssumption /\ RP!ReceiptAssumption /\ RP!KeyListAssumption
  /\ CP!ChainAssumption /\ CP!SeriesAssumption
  /\ MP!ScaleAssumption /\ MP!MeteringAssumption
  /\ SP!ScaleAssumption /\ SP!AgreementAssumption
<1>1. RP!KeyAssumption
  BY KeyAssumption DEF KeyAssumption, BadMaterial, RP!KeyAssumption, RP!BadMaterial
<1>2. RP!ReceiptAssumption
  BY AuditorAssumption DEF AuditorAssumption, R!ReceiptAssumption, RP!ReceiptAssumption,
       RP!Key, R!Key, R!Payload, RP!Payload, R!Material, RP!Material, R!BadMaterial,
       RP!BadMaterial
<1>3. RP!KeyListAssumption
  BY DEF RP!KeyListAssumption
<1>4. CP!ChainAssumption /\ CP!SeriesAssumption
  BY AuditorAssumption DEF AuditorAssumption, C!ChainAssumption, CP!ChainAssumption,
       CP!SeriesAssumption, C!Record, CP!Record
<1>5. MP!ScaleAssumption /\ SP!ScaleAssumption
  BY AuditorAssumption DEF AuditorAssumption, M!ScaleAssumption, MP!ScaleAssumption,
       SP!ScaleAssumption
<1>6. MP!MeteringAssumption
  BY AuditorAssumption DEF AuditorAssumption, M!MeteringAssumption, MP!MeteringAssumption,
       M!UnitType, MP!UnitType
<1>7. SP!AgreementAssumption
  BY AuditorAssumption DEF AuditorAssumption, S!AgreementAssumption,
       SP!AgreementAssumption, S!Part, SP!Part, S!PartyRole, SP!PartyRole, S!Rank,
       SP!Rank, S!SharedOut, SP!SharedOut, S!Total, SP!Total, S!Parse, SP!Parse,
       S!Quotient, SP!Quotient, S!FoldFunction, S!FoldFunctionOnSet, S!MapThenFoldSet,
       SP!FoldFunction, SP!FoldFunctionOnSet, SP!MapThenFoldSet
<1> QED
  BY <1>1, <1>2, <1>3, <1>4, <1>5, <1>6, <1>7

LEMMA PackWalkIs == R!Walk => RP!Walk
<1>1. ASSUME R!CheckSignature PROVE RP!CheckSignature
  <2>1. /\ R!Unusable <=> RP!Unusable
        /\ R!Verifies <=> RP!Verifies
    BY DEF R!Unusable, RP!Unusable, R!Verifies, RP!Verifies, R!rec, RP!rec, R!Decoded,
           RP!Decoded, R!Spelt, RP!Spelt, R!SignatureBy, RP!SignatureBy, R!SigningInput,
           RP!SigningInput, R!Canon, RP!Canon, R!BadSignatures, RP!BadSignatures,
           R!BadMaterial, RP!BadMaterial
  <2>2. ASSUME NEW step, NEW next, R!Judge(step, next) PROVE RP!Judge(step, next)
    BY <2>2 DEF R!Judge, RP!Judge
  <2>3. \A f, k, reason : R!Fault(f, k, reason) = RP!Fault(f, k, reason) /\ R!Ok(f, k) = RP!Ok(f, k)
    BY DEF R!Fault, RP!Fault, R!Ok, RP!Ok, R!Step, RP!Step
  <2>4. CASE R!Unusable
    BY <1>1, <2>1, <2>2, <2>3, <2>4, Zenon DEF R!CheckSignature, RP!CheckSignature
  <2>5. CASE ~R!Unusable /\ R!Verifies
    BY <1>1, <2>1, <2>2, <2>3, <2>5, Zenon DEF R!CheckSignature, RP!CheckSignature
  <2>6. CASE ~R!Unusable /\ ~R!Verifies
    BY <1>1, <2>1, <2>2, <2>3, <2>6, Zenon DEF R!CheckSignature, RP!CheckSignature
  <2> QED
    BY <2>4, <2>5, <2>6
<1>2. ASSUME R!OpenPack \/ R!CanonicalMatches \/ R!CanonicalDiffers \/ R!CanonicalPanics
             \/ R!CheckAfterHash \/ R!CheckKey \/ R!RollUp
      PROVE  RP!OpenPack \/ RP!CanonicalMatches \/ RP!CanonicalDiffers \/ RP!CanonicalPanics
             \/ RP!CheckAfterHash \/ RP!CheckKey \/ RP!RollUp
  BY <1>2 DEF R!OpenPack, R!CanonicalMatches, R!CanonicalDiffers, R!CanonicalPanics,
    R!CheckAfterHash, R!CheckKey, R!RollUp, R!Fault, R!Ok, R!rec, R!Canon, R!Judge,
    R!SplitsChar, R!Sha256, R!HashedText, R!Lookup, R!RollupStatus, R!Step, R!Payload,
    R!OutsideWindow, R!Past, R!Rollup, RP!OpenPack, RP!CanonicalMatches,
    RP!CanonicalDiffers, RP!CanonicalPanics, RP!CheckAfterHash, RP!CheckKey, RP!RollUp,
    RP!Fault, RP!Ok, RP!rec, RP!Canon, RP!Judge, RP!SplitsChar, RP!Sha256, RP!HashedText,
    RP!Lookup, RP!RollupStatus, RP!Step, RP!Payload, RP!OutsideWindow, RP!Past, RP!Rollup
<1> QED
  BY <1>1, <1>2 DEF R!Walk, RP!Walk

LEMMA DomainsAre ==
  /\ R!Payload = RP!Payload /\ R!Texts = RP!Texts /\ R!Hashes = RP!Hashes
  /\ R!Signatures = RP!Signatures /\ R!Record = RP!Record /\ R!Fields = RP!Fields
  /\ \A p : R!Canon(p) = RP!Canon(p) /\ \A t : R!Sha256(t) = RP!Sha256(t)
  BY DEF R!Record, R!Payload, R!Texts, R!Hashes, R!Signatures, R!OtherText, R!Canon,
    R!Sha256, R!BadSignatures, R!SignatureBy, R!SigningInput, R!Fields, RP!Record,
    RP!Payload, RP!Texts, RP!Hashes, RP!Signatures, RP!OtherText, RP!Canon, RP!Sha256,
    RP!BadSignatures, RP!SignatureBy, RP!SigningInput, RP!Fields

LEMMA VerifiableIs ==
  ASSUME NEW r
  PROVE  R!Verifiable(r) <=> RP!Verifiable(r)
  BY DEF R!Verifiable, R!Lookup, R!OutsideWindow, R!Past, RP!Verifiable, RP!Lookup,
    RP!OutsideWindow, RP!Past

LEMMA PlainIs ==
  ASSUME NEW r
  PROVE  R!Plain(r) = RP!Plain(r)
  BY DEF
    R!Plain, R!Decoded, R!Spelt, R!BadSignatures, RP!Plain, RP!Decoded, RP!Spelt,
    RP!BadSignatures

LEMMA GenuineIs ==
  ASSUME NEW r
  PROVE  R!Genuine(r) <=> RP!Genuine(r)
  BY PlainIs DEF
    R!Genuine, R!Issued, R!Verifiable, R!Lookup, R!OutsideWindow, R!Past, RP!Genuine,
    RP!Issued, RP!Verifiable, RP!Lookup, RP!OutsideWindow, RP!Past

LEMMA PackTypesAre == R!TypeOK <=> RP!TypeOK
  BY DEF
    R!TypeOK, R!Record, R!Statuses, R!Payload, R!Texts, R!Hashes, R!Signatures,
    R!OtherText, R!Canon, R!Sha256, R!BadSignatures, R!SignatureBy, R!SigningInput,
    RP!TypeOK, RP!Record, RP!Statuses, RP!Payload, RP!Texts, RP!Hashes, RP!Signatures,
    RP!OtherText, RP!Canon, RP!Sha256, RP!BadSignatures, RP!SignatureBy, RP!SigningInput

LEMMA ReplacementsAre ==
  ASSUME NEW k, NEW f
  PROVE  R!Replacements(k, f) = RP!Replacements(k, f)
  BY DEF
    R!Replacements, R!Payload, R!OtherText, R!Sha256, R!Canon, R!BadSignatures,
    R!Spelt, R!SignatureBy, R!SigningInput, RP!Replacements, RP!Payload, RP!OtherText,
    RP!Sha256, RP!Canon, RP!BadSignatures, RP!Spelt, RP!SignatureBy, RP!SigningInput

LEMMA SealIs ==
  ASSUME NEW p, NEW id
  PROVE  R!Seal(p, id) = RP!Seal(p, id)
  BY DEF
    R!Seal, R!Canon, R!Sha256, R!SignatureBy, R!SigningInput, RP!Seal, RP!Canon,
    RP!Sha256, RP!SignatureBy, RP!SigningInput

LEMMA ChainWalkIs == C!Walk <=> CP!Walk
  BY DEF
    C!Walk, C!RejectEmpty, C!CheckGenesis, C!WalkRecord, C!StartNonces, C!CheckNonce,
    C!RollUp, C!Fault, C!GenesisStep, C!LinkStep, C!StepsBack, C!Step, C!Remember, C!Ok,
    C!Verdict, C!GenesisReason, C!AnyInvalid, CP!Walk, CP!RejectEmpty, CP!CheckGenesis,
    CP!WalkRecord, CP!StartNonces, CP!CheckNonce, CP!RollUp, CP!Fault, CP!GenesisStep,
    CP!LinkStep, CP!StepsBack, CP!Step, CP!Remember, CP!Ok, CP!Verdict, CP!GenesisReason,
    CP!AnyInvalid

LEMMA SoundIs == C!Sound <=> CP!Sound
  BY DEF
    C!Sound, C!Anchored, C!Linked, C!InOrder, C!NoncesDistinct, C!Ordered, CP!Sound,
    CP!Anchored, CP!Linked, CP!InOrder, CP!NoncesDistinct, CP!Ordered

LEMMA ChainTypesAre == C!TypeOK <=> CP!TypeOK
  BY DEF
    C!TypeOK, C!Record, C!Statuses, CP!TypeOK, CP!Record, CP!Statuses

LEMMA MeteringWalkIs == M!Walk <=> MP!Walk
  BY DEF
    M!Walk, M!CheckOrg, M!RecordForUnknownProof, M!RecordWithBadWeight,
    M!RecordWithoutProjection, M!RecordWithBadCount, M!CompareCount, M!StartTotals,
    M!UnitType, M!CompareTotal, M!RollUp, M!Ok, M!Fault, M!AtRecord, M!Positions,
    M!current, M!Judge, M!Known, M!IdemStep, M!CountFault, M!Projected, M!Parse,
    M!Projection, M!Computed, M!Counted, M!ClaimedUnits, M!Verdict, M!Step, M!IdemKey,
    M!Quotient, M!UnitCount, M!ProofOf, M!AnyInvalid, M!Seconds, M!Minutes, MP!Walk,
    MP!CheckOrg, MP!RecordForUnknownProof, MP!RecordWithBadWeight,
    MP!RecordWithoutProjection, MP!RecordWithBadCount, MP!CompareCount, MP!StartTotals,
    MP!UnitType, MP!CompareTotal, MP!RollUp, MP!Ok, MP!Fault, MP!AtRecord, MP!Positions,
    MP!current, MP!Judge, MP!Known, MP!IdemStep, MP!CountFault, MP!Projected, MP!Parse,
    MP!Projection, MP!Computed, MP!Counted, MP!ClaimedUnits, MP!Verdict, MP!Step,
    MP!IdemKey, MP!Quotient, MP!UnitCount, MP!ProofOf, MP!AnyInvalid, MP!Seconds,
    MP!Minutes

LEMMA BorneOutIs == M!BorneOut <=> MP!BorneOut
  BY DEF
    M!BorneOut, M!BearsOut, M!ClaimedUnits, M!Parse, M!Billed, M!IdemKey, M!CutShort,
    M!Quotient, M!Total, M!BilledBy, M!Magnitude, M!Period, MP!BorneOut, MP!BearsOut,
    MP!ClaimedUnits, MP!Parse, MP!Billed, MP!IdemKey, MP!CutShort, MP!Quotient, MP!Total,
    MP!BilledBy, MP!Magnitude, MP!Period, M!FoldFunction, M!FoldFunctionOnSet,
    M!MapThenFoldSet, MP!FoldFunction, MP!FoldFunctionOnSet, MP!MapThenFoldSet

LEMMA MeteringTypesAre == M!TypeOK <=> MP!TypeOK
  BY DEF
    M!TypeOK, M!UnitType, M!Statuses, MP!TypeOK, MP!UnitType, MP!Statuses

LEMMA MeteringVariantsAre ==
  ASSUME NEW s
  PROVE  M!Variants(s) = MP!Variants(s)
  BY DEF
    M!Variants, M!NewRecords, M!Without, M!NewTexts, M!UnitType, M!IdemKey, M!Text,
    MP!Variants, MP!NewRecords, MP!Without, MP!NewTexts, MP!UnitType, MP!IdemKey, MP!Text

LEMMA BilledIs ==
  ASSUME NEW s, NEW u
  PROVE  M!Billed(s, u) = MP!Billed(s, u)
  BY DEF
    M!Billed, M!Total, M!BilledBy, M!Parse, M!Quotient, MP!Billed, MP!Total, MP!BilledBy,
    MP!Parse, MP!Quotient, M!FoldFunction, M!FoldFunctionOnSet, M!MapThenFoldSet,
    MP!FoldFunction, MP!FoldFunctionOnSet, MP!MapThenFoldSet

LEMMA ClaimsAre ==
  ASSUME NEW s
  PROVE  M!Claims(s) = MP!Claims(s)
  BY DEF
    M!Claims, M!Total, MP!Claims, MP!Total, M!FoldFunction, M!FoldFunctionOnSet,
    M!MapThenFoldSet, MP!FoldFunction, MP!FoldFunctionOnSet, MP!MapThenFoldSet

LEMMA MeteredIs ==
  ASSUME NEW p, NEW m
  PROVE  M!Metered(p, m) = MP!Metered(p, m)
  BY DEF
    M!Metered, M!Text, M!Quotient, M!Parse, MP!Metered, MP!Text, MP!Quotient, MP!Parse

LEMMA BearsOutIs ==
  ASSUME NEW p, NEW m
  PROVE  M!BearsOut(p, m) = MP!BearsOut(p, m)
  BY DEF
    M!BearsOut, M!IdemKey, M!Parse, M!CutShort, M!Quotient, M!Magnitude, M!Period,
    MP!BearsOut, MP!IdemKey, MP!Parse, MP!CutShort, MP!Quotient, MP!Magnitude, MP!Period

LEMMA SettlementWalkIs == S!Walk <=> SP!Walk
  BY DEF
    S!Walk, S!CheckOrg, S!LineForUnknownMeter, S!LineWithoutGross, S!LineWithBadShare,
    S!LineWithWrongAmount, S!LineRight, S!StartShares, S!SumShares, S!CheckTotals, S!Ok,
    S!Fault, S!Lines, S!current, S!Judge, S!IdemStep, S!Settled, S!AmountRight, S!Plus,
    S!Whole, S!Total, S!SharesOf, S!CheckedTotals, S!Verdict, S!Step, S!IdemKey, S!PartOf,
    S!Expected, S!LinesOf, S!RolesOf, S!ParseOrZero, S!AnyInvalid, S!IdemV2, S!IdemV1, S!SplitCents,
    S!Rank, S!Parse, S!Slice, S!Residual, S!Quotient, S!Outranks, SP!Walk, SP!CheckOrg,
    SP!LineForUnknownMeter, SP!LineWithoutGross, SP!LineWithBadShare,
    SP!LineWithWrongAmount, SP!LineRight, SP!StartShares, SP!SumShares, SP!CheckTotals,
    SP!Ok, SP!Fault, SP!Lines, SP!current, SP!Judge, SP!IdemStep, SP!Settled,
    SP!AmountRight, SP!Plus, SP!Whole, SP!Total, SP!SharesOf, SP!CheckedTotals,
    SP!Verdict, SP!Step, SP!IdemKey, SP!PartOf, SP!Expected, SP!LinesOf, SP!RolesOf,
    SP!ParseOrZero,
    SP!AnyInvalid, SP!IdemV2, SP!IdemV1, SP!SplitCents, SP!Rank, SP!Parse, SP!Slice,
    SP!Residual, SP!Quotient, SP!Outranks, S!FoldFunction, S!FoldFunctionOnSet,
    S!MapThenFoldSet, SP!FoldFunction, SP!FoldFunctionOnSet, SP!MapThenFoldSet

LEMMA AccountedIs == S!Accounted <=> SP!Accounted
  BY DEF
    S!Accounted, S!Settling, S!Total, S!LinesOf, S!Lines, S!SharesOf, S!TotalsOf,
    S!ParseOrZero, S!PaidTo, S!PartyRole, S!Parse, S!Rank, S!Quotient, SP!Accounted,
    SP!Settling, SP!Total, SP!LinesOf, SP!Lines, SP!SharesOf, SP!TotalsOf, SP!ParseOrZero,
    SP!PaidTo, SP!PartyRole, SP!Parse, SP!Rank, SP!Quotient, S!FoldFunction,
    S!FoldFunctionOnSet, S!MapThenFoldSet, SP!FoldFunction, SP!FoldFunctionOnSet,
    SP!MapThenFoldSet

LEMMA SettlementTypesAre == S!TypeOK <=> SP!TypeOK
  BY DEF
    S!TypeOK, S!Lines, S!PartOf, S!Part, S!Settling, S!Statuses, S!PartyRole, S!Rank,
    SP!TypeOK, SP!Lines, SP!PartOf, SP!Part, SP!Settling, SP!Statuses, SP!PartyRole,
    SP!Rank

LEMMA SettlementVariantsAre ==
  ASSUME NEW s
  PROVE  S!Variants(s) = SP!Variants(s)
  BY DEF
    S!Variants, S!NewLines, S!Without, S!NewShares, S!IdemV1, S!IdemV2, S!Text,
    SP!Variants, SP!NewLines, SP!Without, SP!NewShares, SP!IdemV1, SP!IdemV2, SP!Text

LEMMA PaymentsAre ==
  ASSUME NEW s
  PROVE  S!Payments(s) = SP!Payments(s)
<1>1. \A l : S!Payment(s, l) = SP!Payment(s, l)
  BY DEF S!Payment, SP!Payment, S!Parse, SP!Parse, S!Quotient, SP!Quotient
<1> QED
  BY <1>1, Zenon DEF S!Payments, SP!Payments, S!Cardinality, SP!Cardinality,
       S!IsFiniteSet, SP!IsFiniteSet

LEMMA RoundedAlikeIs ==
  ASSUME NEW s
  PROVE  S!RoundedAlike(s) <=> SP!RoundedAlike(s)
  BY DEF
    S!RoundedAlike, S!ParseOrZero, S!Parse, S!Quotient, SP!RoundedAlike, SP!ParseOrZero,
    SP!Parse, SP!Quotient

LEMMA SettleIs ==
  ASSUME NEW o, NEW v, NEW a, NEW p
  PROVE  S!Settle(o, v, a, p) = SP!Settle(o, v, a, p)
<1>0. \A f : S!Total(f) = SP!Total(f)
  BY DEF S!Total, SP!Total, S!FoldFunction, S!FoldFunctionOnSet, S!MapThenFoldSet,
       SP!FoldFunction, SP!FoldFunctionOnSet, SP!MapThenFoldSet
<1>1. \A f, r : S!Residual(f, r) = SP!Residual(f, r)
  <2>1. SUFFICES ASSUME NEW f, NEW r PROVE S!Residual(f, r) = SP!Residual(f, r)
    OBVIOUS
  <2> QED
    BY DEF S!Residual, SP!Residual, S!Outranks, SP!Outranks
<1>2. \A s, m : /\ S!SharesOf(s, m) = SP!SharesOf(s, m) /\ S!LinesOf(s, m) = SP!LinesOf(s, m)
               /\ S!RolesOf(s, m) = SP!RolesOf(s, m)
  BY DEF S!SharesOf, SP!SharesOf, S!LinesOf, SP!LinesOf, S!RolesOf, SP!RolesOf, S!Rank,
       SP!Rank, S!ParseOrZero, SP!ParseOrZero, S!Parse, SP!Parse, S!Quotient, SP!Quotient
<1>3. \A s, m : S!Floored(s, m) = SP!Floored(s, m)
  <2>1. SUFFICES ASSUME NEW s, NEW m PROVE S!Floored(s, m) = SP!Floored(s, m)
    OBVIOUS
  <2> QED
    BY <1>0, <1>1, <1>2, Zenon DEF S!Floored, SP!Floored
<1>4. \A s : S!TotalsOf(s) = SP!TotalsOf(s)
  BY <1>0 DEF S!TotalsOf, SP!TotalsOf, S!PaidTo, SP!PaidTo, S!PartyRole, SP!PartyRole,
       S!Rank, SP!Rank
<1> QED
  BY <1>3, <1>4, Zenon DEF S!Settle, SP!Settle, S!IdemV1, S!IdemV2, SP!IdemV1, SP!IdemV2

------------------------------------------------------------------------------
(* The inductive invariant: the evidence.                                   *)

PackRecord == [payload : RP!Payload, keyId : KeyId, canonical : RP!Texts,
               afterHash : RP!Hashes, signature : RP!Signatures,
               before : RP!Hashes \cup {NoHash}]

Pack == [envelope : {"envelope.v1", "other"}, org : Org, records : Seq(PackRecord),
         metering : MP!Summary \cup {NoSummary}, settlement : SP!Summary \cup {NoSummary}]

Bundle == [pack : Pack, metering : MP!Summary \cup {NoSummary},
           settlement : SP!Summary \cup {NoSummary}, prior : RP!Hashes \cup {NoHash}]

SealedEvidence == [records : Seq(PackRecord), prior : RP!Hashes \cup {NoHash}, org : Org,
                   metering : MP!Summary, settlement : SP!Summary]

Typed ==
  /\ sealed \in SealedEvidence /\ bundle \in Bundle
  /\ \E plan \in Plans : sealed = Made(plan)
  /\ RP!Types /\ RP!Origin

Meterings == {bundle.metering, bundle.pack.metering}
Settlements == {bundle.settlement, bundle.pack.settlement}

ReceiptsSealed == bundle.pack.records = sealed.records /\ bundle.prior = sealed.prior
MeteringSealed == Meterings \subseteq {NoSummary, sealed.metering}
SettlementSealed == Settlements \subseteq {NoSummary, sealed.settlement}

Untouched ==
  /\ bundle.pack.envelope = "envelope.v1" /\ bundle.pack.org = sealed.org
  /\ ReceiptsSealed /\ MeteringSealed /\ SettlementSealed

\* Receipts that are a field, a link or the last of them away from others.
RecordsApart(rs, ss) ==
  \/ rs = SubSeq(ss, 1, Len(ss) - 1)
  \/ \E k \in DOMAIN ss, f \in R!Fields \cup {"before"} : rs = [ss EXCEPT ![k][f] = rs[k][f]]

ReceiptsOneAway ==
  \/ bundle.pack.records = sealed.records
  \/ bundle.prior = sealed.prior /\ RecordsApart(bundle.pack.records, sealed.records)

OneAway ==
  \/ ReceiptsOneAway /\ MeteringSealed /\ SettlementSealed
  \/ /\ ReceiptsSealed /\ SettlementSealed
     /\ Meterings \subseteq {NoSummary, sealed.metering} \cup MP!Variants(sealed.metering)
  \/ /\ ReceiptsSealed /\ MeteringSealed
     /\ Settlements \subseteq {NoSummary, sealed.settlement} \cup SP!Variants(sealed.settlement)

Changes == (altered = 0 => Untouched) /\ (altered = 1 => OneAway)

------------------------------------------------------------------------------
(* The inductive invariant: the frame is that of the audit that is running. *)

Blank == pc = "transit" /\ i = 1 /\ steps = {} /\ status = "pending"
ChainBlank == prevMs = BadInstant /\ seen = << >> /\ reuse = 0
SummaryBlank == computed = << >> /\ pending = {}

Frame ==
  CASE phase = "transit" -> Blank /\ ChainBlank /\ SummaryBlank
    [] phase = "pack" -> RP!IInv /\ ChainBlank /\ SummaryBlank
    [] phase = "chain" -> CP!IInv /\ SummaryBlank
    [] phase = "metering" ->
         IF metering # NoSummary THEN MP!WalkInv ELSE Blank /\ SummaryBlank
    [] phase = "settlement" -> IF Reconcilable THEN SP!WalkInv ELSE Blank
    [] phase \in {"rollup", "done"} -> Blank

------------------------------------------------------------------------------
(* The inductive invariant: a report says what its part of the bundle is.   *)

PackHolds ==
  /\ bundle.pack.envelope = "envelope.v1" /\ bundle.pack.records # << >>
  /\ \A k \in DOMAIN bundle.pack.records : RP!Genuine(Receipt(bundle.pack.records[k]))

Holds(name) ==
  CASE name = "pack" -> PackHolds
    [] name = "chain" -> CP!Sound
    [] name = "metering" -> metering = NoSummary \/ MP!Tallies
    [] name = "settlement" -> ~Reconcilable \/ SP!BorneOut(settlement)

Skipped(name) ==
  (name = "metering" /\ metering = NoSummary) \/ (name = "settlement" /\ ~Reconcilable)

Parts == {"pack", "chain", "metering", "settlement"}

\* What the report of a part has to be, whatever the order of the steps.
Judgement(name) ==
  IF Skipped(name) THEN "SKIPPED" ELSE IF Holds(name) THEN "VALID" ELSE "INVALID"

Due ==
  CASE phase \in {"transit", "pack"} -> {}
    [] phase = "chain" -> {"pack"}
    [] phase = "metering" -> {"pack", "chain"}
    [] phase = "settlement" -> {"pack", "chain", "metering"}
    [] phase = "rollup" -> Parts
    [] phase = "done" -> Parts \cup {"overall"}

Reported ==
  /\ DOMAIN reports = Due
  /\ \A name \in Due \cap Parts : reports[name] = Judgement(name)
  /\ phase = "done" =>
       reports["overall"] = IF \A name \in Parts : Holds(name) THEN "VALID" ELSE "INVALID"

Phase == phase \in {"transit", "pack", "chain", "metering", "settlement", "rollup", "done"}

IInv == Phase /\ Typed /\ Changes /\ Frame /\ Reported

------------------------------------------------------------------------------
(* What each audit is handed.                                               *)

LEMMA RecordHanded ==
  ASSUME NEW r \in PackRecord
  PROVE  /\ Receipt(r) \in RP!Record /\ Link(r) \in CP!Record
         /\ Proof(r) \in [id : ReceiptId, dwell : Int]
         /\ \A f \in R!Fields : Receipt(r)[f] = r[f]
         /\ Link(r).before = r.before /\ Link(r).after = r.afterHash
         /\ Link(r).issued = r.payload.issued /\ Link(r).nonce = r.payload.body.nonce
         /\ Proof(r).id = r.payload.body.id
<1>1. /\ r.payload \in RP!Payload /\ r.keyId \in KeyId /\ r.canonical \in RP!Texts
      /\ r.afterHash \in RP!Hashes /\ r.signature \in RP!Signatures
      /\ r.before \in RP!Hashes \cup {NoHash}
  BY DEF PackRecord
<1>2. r.payload.issued \in Instant \cup {BadInstant} /\ r.payload.body \in Body
  BY <1>1 DEF RP!Payload
<1>3. /\ r.payload.body.id \in ReceiptId /\ r.payload.body.dwell \in Int
      /\ r.payload.body.nonce \in Nonce
  BY <1>2, AuditorAssumption DEF AuditorAssumption
<1>4. Receipt(r) \in RP!Record
  BY <1>1 DEF Receipt, RP!Record
<1>5. Link(r) \in CP!Record
  BY <1>1, <1>2, <1>3, DomainsAre DEF Link, CP!Record
<1>6. Proof(r) \in [id : ReceiptId, dwell : Int]
  BY <1>3 DEF Proof
<1> QED
  BY <1>4, <1>5, <1>6 DEF Receipt, Link, Proof, R!Fields

LEMMA PackHanded ==
  ASSUME NEW rs \in Seq(PackRecord)
  PROVE  /\ Each(Receipt, rs) \in Seq(RP!Record) /\ Each(Link, rs) \in Seq(CP!Record)
         /\ Each(Proof, rs) \in Seq([id : ReceiptId, dwell : Int])
         /\ DOMAIN Each(Receipt, rs) = DOMAIN rs /\ DOMAIN Each(Link, rs) = DOMAIN rs
         /\ DOMAIN Each(Proof, rs) = DOMAIN rs /\ DOMAIN rs = 1..Len(rs) /\ Len(rs) \in Nat
         /\ Len(Each(Receipt, rs)) = Len(rs) /\ Len(Each(Link, rs)) = Len(rs)
         /\ \A k \in DOMAIN rs : /\ rs[k] \in PackRecord
                                 /\ Each(Receipt, rs)[k] = Receipt(rs[k])
                                 /\ Each(Link, rs)[k] = Link(rs[k])
                                 /\ Each(Proof, rs)[k] = Proof(rs[k])
<1>1. DOMAIN rs = 1..Len(rs) /\ Len(rs) \in Nat /\ \A k \in DOMAIN rs : rs[k] \in PackRecord
  OBVIOUS
<1>2. /\ \A k \in DOMAIN rs : Receipt(rs[k]) \in RP!Record /\ Link(rs[k]) \in CP!Record
      /\ \A k \in DOMAIN rs : Proof(rs[k]) \in [id : ReceiptId, dwell : Int]
  BY <1>1, RecordHanded
<1>3. Each(Receipt, rs) = [k \in 1..Len(rs) |-> Receipt(rs[k])]
  BY <1>1 DEF Each
<1>4. Each(Link, rs) = [k \in 1..Len(rs) |-> Link(rs[k])]
  BY <1>1 DEF Each
<1>5. Each(Proof, rs) = [k \in 1..Len(rs) |-> Proof(rs[k])]
  BY <1>1 DEF Each
<1> QED
  BY <1>1, <1>2, <1>3, <1>4, <1>5

LEMMA SealParts ==
  ASSUME NEW p \in RP!Payload, NEW id \in KeyId
  PROVE  /\ RP!Seal(p, id).payload = p /\ RP!Seal(p, id).canonical = RP!Canon(p)
         /\ RP!Decoded(RP!Seal(p, id).signature) = RP!Seal(p, id).signature
<1>1. /\ RP!Seal(p, id).payload = p /\ RP!Seal(p, id).canonical = RP!Canon(p)
      /\ RP!Seal(p, id).signature = RP!SignatureBy(Signer[id], p, id)
  BY Assumed, RP!SealedRecord
<1>2. RP!Decoded(RP!SignatureBy(Signer[id], p, id)) = RP!SignatureBy(Signer[id], p, id)
  BY Assumed, RP!SignatureDecodes
<1> QED
  BY <1>1, <1>2

LEMMA PlainFields ==
  ASSUME NEW r \in RP!Record
  PROVE  /\ RP!Plain(r).payload = r.payload /\ RP!Plain(r).keyId = r.keyId
         /\ RP!Plain(r).canonical = r.canonical /\ RP!Plain(r).afterHash = r.afterHash
         /\ RP!Plain(r).signature = RP!Decoded(r.signature)
  BY Assumed, RP!PlainParts

\* A receipt whose signature nothing trails.
LEMMA PlainAlready ==
  ASSUME NEW r \in RP!Record, RP!Decoded(r.signature) = r.signature
  PROVE  RP!Plain(r) = r
<1>1. RP!Plain(r) = [r EXCEPT !.signature = r.signature]
  BY DEF RP!Plain
<1> QED
  BY <1>1 DEF RP!Record

------------------------------------------------------------------------------
(* What the platform makes.                                                 *)

LEMMA PlanIs ==
  ASSUME NEW plan \in Plans
  PROVE  /\ \E n \in Nat \ {0} : DOMAIN plan.receipts = 1..n
         /\ \A k \in DOMAIN plan.receipts :
              plan.receipts[k].payload \in RP!Payload /\ plan.receipts[k].keyId \in KeyId
         /\ plan.prior \in RP!Hashes \cup {NoHash} /\ plan.org \in Org
         /\ plan.schema \in {"settlement.v1", "settlement.v2"}
         /\ InTurn(plan.receipts) /\ Accountable(plan)
         /\ plan.bills \in Seq([receipt : ReceiptId, unit : MP!UnitType \ {"CUSTOM"}, weight : Int])
         /\ \A b \in DOMAIN plan.bills : plan.bills[b].weight % Finer = 0
<1> DEFINE pack == [k \in DOMAIN plan.receipts |->
                      <<plan.receipts[k].payload, plan.receipts[k].keyId>>]
<1>1. pack \in Seq(RP!Payload \X KeyId)
  <2>1. pack \in {[k \in DOMAIN p.receipts |->
                     <<p.receipts[k].payload, p.receipts[k].keyId>>] : p \in Plans}
    OBVIOUS
  <2> QED
    BY <2>1, Assumed DEF RP!ReceiptAssumption
<1>2. PICK n \in Nat : DOMAIN pack = 1..n
  BY <1>1
<1>3. DOMAIN plan.receipts = DOMAIN pack
  OBVIOUS
<1>4. ASSUME NEW k \in DOMAIN plan.receipts
      PROVE  plan.receipts[k].payload \in RP!Payload /\ plan.receipts[k].keyId \in KeyId
  <2>1. pack[k] \in RP!Payload \X KeyId
    BY <1>1
  <2>2. pack[k] = <<plan.receipts[k].payload, plan.receipts[k].keyId>>
    OBVIOUS
  <2> HIDE DEF pack
  <2> QED
    BY <2>1, <2>2
<1>5. /\ DOMAIN plan.receipts # {}
      /\ plan.prior \in RP!Hashes \cup {NoHash} /\ plan.org \in Org
      /\ plan.schema \in {"settlement.v1", "settlement.v2"}
      /\ InTurn(plan.receipts) /\ Accountable(plan)
  BY AuditorAssumption, DomainsAre DEF AuditorAssumption
<1>6. /\ plan.bills \in Seq([receipt : ReceiptId, unit : MP!UnitType \ {"CUSTOM"}, weight : Int])
      /\ \A b \in DOMAIN plan.bills : plan.bills[b].weight % Finer = 0
  BY Assumed DEF MP!MeteringAssumption
<1>7. n # 0
  BY <1>2, <1>3, <1>5
<1> QED
  BY <1>2, <1>3, <1>4, <1>5, <1>6, <1>7

\* What a pack of sealed receipts is.
ChainedFrom(rs, plan) ==
  /\ rs \in Seq(PackRecord) /\ rs # << >> /\ DOMAIN rs = DOMAIN plan.receipts
  /\ \A k \in DOMAIN rs :
       /\ rs[k].payload = plan.receipts[k].payload /\ rs[k].keyId = plan.receipts[k].keyId
       /\ Receipt(rs[k]) = RP!Seal(plan.receipts[k].payload, plan.receipts[k].keyId)
       /\ rs[k].before = IF k = 1 THEN plan.prior ELSE rs[k - 1].afterHash

LEMMA ReceiptsChained ==
  ASSUME NEW plan \in Plans
  PROVE  ChainedFrom(Chained(plan.receipts, plan.prior), plan)
<1> DEFINE rs == Chained(plan.receipts, plan.prior)
           p(k) == plan.receipts[k].payload
           id(k) == plan.receipts[k].keyId
<1>1. PICK n \in Nat \ {0} : DOMAIN plan.receipts = 1..n
  BY PlanIs
<1>2. DOMAIN rs = 1..n
  BY <1>1 DEF Chained
<1>3. ASSUME NEW k \in 1..n
      PROVE  /\ rs[k] \in PackRecord /\ rs[k].payload = p(k) /\ rs[k].keyId = id(k)
             /\ rs[k].afterHash = RP!Sha256(RP!Canon(p(k)))
             /\ Receipt(rs[k]) = RP!Seal(p(k), id(k))
             /\ rs[k].before = IF k = 1 THEN plan.prior ELSE RP!Sha256(RP!Canon(p(k - 1)))
  <2> DEFINE r == RP!Seal(p(k), id(k))
             before == IF k = 1 THEN plan.prior ELSE RP!Sha256(RP!Canon(p(k - 1)))
  <2>1. p(k) \in RP!Payload /\ id(k) \in KeyId
    BY <1>1, PlanIs
  <2>2. /\ r \in RP!Record /\ r.payload = p(k) /\ r.keyId = id(k)
        /\ r.afterHash = RP!Sha256(RP!Canon(p(k)))
    BY <2>1, Assumed, RP!SealedRecord
  <2>3. before \in RP!Hashes \cup {NoHash}
    <3>1. ASSUME k # 1 PROVE p(k - 1) \in RP!Payload
      <4>1. k - 1 \in 1..n
        BY <3>1
      <4> QED
        BY <1>1, <4>1, PlanIs
    <3>2. \A q \in RP!Payload : RP!Sha256(RP!Canon(q)) \in RP!Hashes
      BY DEF RP!Hashes, RP!Texts
    <3> QED
      BY <3>1, <3>2, PlanIs
  <2>4. rs[k] = [f \in DOMAIN r \cup {"before"} |-> IF f # "before" THEN r[f] ELSE before]
    BY <1>1, SealIs, DomainsAre DEF Chained
  <2>5. DOMAIN r = {"payload", "keyId", "canonical", "afterHash", "signature"}
    BY <2>2 DEF RP!Record
  <2>6. /\ r.payload \in RP!Payload /\ r.keyId \in KeyId /\ r.canonical \in RP!Texts
        /\ r.afterHash \in RP!Hashes /\ r.signature \in RP!Signatures
        /\ r = [f \in DOMAIN r |-> r[f]]
    BY <2>2 DEF RP!Record
  <2> HIDE DEF r, before, p, id, rs
  <2>7. rs[k] \in PackRecord /\ rs[k].before = before
    BY <2>3, <2>4, <2>5, <2>6 DEF PackRecord
  <2>8. Receipt(rs[k]) = r
    BY <2>4, <2>5, <2>6 DEF Receipt
  <2>9. rs[k].payload = r.payload /\ rs[k].keyId = r.keyId /\ rs[k].afterHash = r.afterHash
    BY <2>4, <2>5
  <2> QED
    BY <2>2, <2>7, <2>8, <2>9 DEF r, before
<1>4. rs = [k \in 1..n |-> rs[k]]
  BY <1>1, <1>2 DEF Chained
<1> HIDE DEF rs
<1>5. rs \in Seq(PackRecord) /\ rs # << >>
  BY <1>2, <1>3, <1>4
<1>6. ASSUME NEW k \in 1..n, k # 1
      PROVE  rs[k].before = rs[k - 1].afterHash
  <2>1. k - 1 \in 1..n
    BY <1>6
  <2> QED
    BY <1>3, <1>6, <2>1
<1> QED
  BY <1>1, <1>2, <1>3, <1>5, <1>6 DEF ChainedFrom, rs

(* Receipts issued one after the other, each with a nonce of its own, are   *)
(* one chain off their anchor.                                             *)
LEMMA SealedChainSound ==
  ASSUME NEW plan \in Plans, ChainedFrom(bundle.pack.records, plan), bundle.prior = plan.prior
  PROVE  CP!Sound
<1> DEFINE rs == bundle.pack.records
           links == Each(Link, bundle.pack.records)
<1>1. /\ rs \in Seq(PackRecord) /\ rs # << >> /\ DOMAIN rs = DOMAIN plan.receipts
      /\ \A k \in DOMAIN rs :
           /\ rs[k].payload = plan.receipts[k].payload
           /\ rs[k].before = IF k = 1 THEN plan.prior ELSE rs[k - 1].afterHash
  BY DEF ChainedFrom
<1>2. /\ DOMAIN rs = 1..Len(rs) /\ Len(rs) \in Nat /\ Len(links) = Len(rs)
      /\ DOMAIN links = DOMAIN rs /\ links \in Seq(CP!Record)
      /\ \A k \in DOMAIN rs : rs[k] \in PackRecord /\ links[k] = Link(rs[k])
  BY <1>1, PackHanded
<1>3. \A k \in DOMAIN rs :
        /\ links[k].before = rs[k].before /\ links[k].after = rs[k].afterHash
        /\ links[k].issued = plan.receipts[k].payload.issued
        /\ links[k].nonce = plan.receipts[k].payload.body.nonce
  <2>1. SUFFICES ASSUME NEW k \in DOMAIN rs
                 PROVE  /\ links[k].before = rs[k].before /\ links[k].after = rs[k].afterHash
                        /\ links[k].issued = plan.receipts[k].payload.issued
                        /\ links[k].nonce = plan.receipts[k].payload.body.nonce
    OBVIOUS
  <2>2. rs[k] \in PackRecord /\ links[k] = Link(rs[k]) /\ rs[k].payload = plan.receipts[k].payload
    BY <1>1, <1>2
  <2> HIDE DEF rs, links
  <2> QED
    BY <2>2, RecordHanded
<1>4. \A k \in 2..Len(rs) : k \in DOMAIN rs /\ k - 1 \in DOMAIN rs /\ k - 1 < k /\ k # 1
  BY <1>2
<1>5. InTurn(plan.receipts)
  BY PlanIs
<1> HIDE DEF rs, links
<1>6. links # << >> /\ links[1].before = bundle.prior
  BY <1>1, <1>2, <1>3
<1>7. \A k \in 2..Len(links) : links[k].before = links[k - 1].after
  BY <1>1, <1>2, <1>3, <1>4
<1>8. ASSUME NEW k \in 2..Len(links),
             links[k - 1].issued \in Instant, links[k].issued \in Instant
      PROVE  links[k - 1].issued <= links[k].issued
  BY <1>1, <1>2, <1>3, <1>4, <1>5, <1>8 DEF InTurn
<1>9. \A j, k \in 1..Len(links) : links[j].nonce = links[k].nonce => j = k
  BY <1>1, <1>2, <1>3, <1>5 DEF InTurn
<1> QED
  BY <1>6, <1>7, <1>8, <1>9
     DEF CP!Sound, CP!Anchored, CP!Linked, CP!InOrder, CP!Ordered, CP!NoncesDistinct, links

(* The platform's metering of the receipts it sealed is honest.             *)
LEMMA SealedMeteringHonest ==
  ASSUME NEW plan \in Plans, ChainedFrom(bundle.pack.records, plan)
  PROVE  LET m == MeteringOf(plan, bundle.pack.records)
         IN  /\ MP!HonestSummary(m) /\ MP!DistinctReceipts
             /\ m.org = plan.org /\ DOMAIN m.records = DOMAIN plan.bills
             /\ \A k \in DOMAIN plan.bills : m.records[k].idem = M!IdemKey(plan.bills[k])
<1> DEFINE rs == bundle.pack.records
           proofs == Each(Proof, bundle.pack.records)
           m == MeteringOf(plan, bundle.pack.records)
           bills == plan.bills
           Bill == [receipt : ReceiptId, unit : MP!UnitType \ {"CUSTOM"}, weight : Int]
           billed == [k \in DOMAIN plan.bills |-> MP!Metered(proofs, plan.bills[k])]
<1>1. /\ rs \in Seq(PackRecord) /\ DOMAIN rs = DOMAIN plan.receipts
      /\ \A k \in DOMAIN rs : rs[k].payload = plan.receipts[k].payload
  BY DEF ChainedFrom
<1>2. /\ DOMAIN proofs = DOMAIN rs /\ MP!ProofsTyped
      /\ \A k \in DOMAIN rs : proofs[k].id = plan.receipts[k].payload.body.id
  <2>1. /\ DOMAIN proofs = DOMAIN rs /\ MP!ProofsTyped
        /\ \A k \in DOMAIN rs : rs[k] \in PackRecord /\ proofs[k] = Proof(rs[k])
    BY <1>1, PackHanded DEF MP!ProofsTyped
  <2>2. ASSUME NEW k \in DOMAIN rs PROVE proofs[k].id = plan.receipts[k].payload.body.id
    <3>1. /\ rs[k] \in PackRecord /\ proofs[k] = Proof(rs[k])
          /\ rs[k].payload = plan.receipts[k].payload
      BY <1>1, <2>1
    <3> HIDE DEF rs, proofs
    <3> QED
      BY <3>1, RecordHanded
  <2> QED
    BY <2>1, <2>2
<1>3. InTurn(plan.receipts) /\ Accountable(plan) /\ bills \in Seq(Bill)
      /\ \A b \in DOMAIN bills : bills[b].weight % Finer = 0
  BY PlanIs
<1>4. m = [org |-> plan.org, records |-> billed, totals |-> MP!Claims(billed)]
  BY MeteredIs, ClaimsAre DEF MeteringOf
<1>5. MP!DistinctReceipts
  BY <1>1, <1>2, <1>3 DEF MP!DistinctReceipts, InTurn
<1>6. ASSUME NEW k \in DOMAIN plan.bills
      PROVE  /\ billed[k] \in MP!Record /\ MP!Honest(billed[k])
             /\ billed[k].idem = M!IdemKey(plan.bills[k])
  <2>1. bills[k] \in Bill
    <3> HIDE DEF bills, Bill
    <3>1. k \in DOMAIN bills
      BY DEF bills
    <3> QED
      BY <1>3, <3>1
  <2>2. MP!Positions(plan.bills[k].receipt) # {}
    BY <1>1, <1>2, <1>3 DEF Accountable, MP!Positions
  <2>3. /\ MP!Metered(proofs, plan.bills[k]) \in MP!Record
        /\ MP!Honest(MP!Metered(proofs, plan.bills[k]))
    BY <1>2, <1>3, <2>1, <2>2, Assumed, MP!MeteredHonest
  <2>4. MP!Metered(proofs, plan.bills[k]).idem = M!IdemKey(plan.bills[k])
    BY DEF MP!Metered, M!IdemKey
  <2> QED
    BY <2>3, <2>4
<1>7. billed \in Seq(MP!Record) /\ DOMAIN billed = DOMAIN plan.bills
  <2>1. DOMAIN bills = 1..Len(bills) /\ Len(bills) \in Nat
    <3> HIDE DEF bills, Bill
    <3> QED
      BY <1>3
  <2>2. billed = [k \in 1..Len(bills) |-> billed[k]] /\ DOMAIN billed = DOMAIN bills
    BY <2>1
  <2>3. \A k \in 1..Len(bills) : billed[k] \in MP!Record
    BY <1>6, <2>1
  <2> HIDE DEF billed, bills
  <2>4. billed \in Seq(MP!Record)
    BY <2>1, <2>2, <2>3
  <2> QED
    BY <2>2, <2>4 DEF bills
<1>8. plan.org \in Org
  BY PlanIs
<1> DEFINE bare == [org |-> plan.org, records |-> billed, totals |-> NoTotals]
<1>9. /\ DOMAIN MP!Claims(billed) \subseteq MP!UnitType
      /\ MP!Claims(billed) \in [DOMAIN MP!Claims(billed) -> MP!DecimalText]
  <2>1. bare \in MP!Summary
    BY <1>7, <1>8 DEF MP!Summary
  <2>2. bare.records = billed /\ \A k \in DOMAIN bare.records : MP!Honest(bare.records[k])
    BY <1>6, <1>7
  <2> HIDE DEF bare, billed
  <2> QED
    BY <2>1, <2>2, Assumed, MP!ClaimsOfHonest
<1>10. MP!Claims(billed) \in UNION {[units -> MP!DecimalText] : units \in SUBSET MP!UnitType}
  BY <1>9
<1> HIDE DEF billed, m
<1>11. m \in MP!Summary
  BY <1>4, <1>7, <1>8, <1>10 DEF MP!Summary
<1>12. m.records = billed /\ m.totals = MP!Claims(billed) /\ m.org = plan.org
  BY <1>4
<1> QED
  BY <1>5, <1>6, <1>7, <1>11, <1>12 DEF MP!HonestSummary, m

(* The platform's settlement of what it metered is right.                   *)
LEMMA SealedSettlementRight ==
  ASSUME NEW plan \in Plans
  PROVE  LET s == S!Settle(plan.org, plan.schema, plan.agreement, plan.agreement.parts)
         IN  /\ s \in SP!Summary /\ s.totals # NoTotals
             /\ S!RoundedAlike(s) /\ metering.org = plan.org
                /\ DOMAIN plan.agreement.gross
                     \subseteq {metering.records[k].idem : k \in DOMAIN metering.records}
                => SP!BorneOut(s)
<1> DEFINE s == S!Settle(plan.org, plan.schema, plan.agreement, plan.agreement.parts)
           meters == {metering.records[k].idem : k \in DOMAIN metering.records}
<1>1. /\ plan.org \in Org /\ plan.schema \in {"settlement.v1", "settlement.v2"}
      /\ plan.agreement \in {p.agreement : p \in Plans}
  BY PlanIs
<1>2. s = SP!Settle(plan.org, plan.schema, plan.agreement, plan.agreement.parts)
  BY SettleIs
<1>3. ASSUME NEW org \in Org, NEW schema \in {"settlement.v1", "settlement.v2"},
             NEW a \in {p.agreement : p \in Plans}
      PROVE  /\ SP!Settle(org, schema, a, a.parts) \in SP!Summary
             /\ SP!Settle(org, schema, a, a.parts).totals # NoTotals
             /\ SP!RoundedAlike(SP!Settle(org, schema, a, a.parts))
                /\ metering.org = org /\ DOMAIN a.gross \subseteq meters
                  => SP!BorneOut(SP!Settle(org, schema, a, a.parts))
  <2>1. SP!Settle(org, schema, a, a.parts) \in SP!Summary
    BY Assumed, SP!SettledIsRight
  <2>2. SP!Settle(org, schema, a, a.parts).totals # NoTotals
    BY Assumed, SP!SettledIsRight
  <2>3. ASSUME SP!RoundedAlike(SP!Settle(org, schema, a, a.parts)),
               metering.org = org, DOMAIN a.gross \subseteq meters
        PROVE  SP!BorneOut(SP!Settle(org, schema, a, a.parts))
    BY <2>3, Assumed, SP!SettledIsRight
  <2> QED
    BY <2>1, <2>2, <2>3
<1>4. S!RoundedAlike(s) <=> SP!RoundedAlike(s)
  BY RoundedAlikeIs
<1> HIDE DEF s, meters
<1> QED
  BY <1>1, <1>2, <1>3, <1>4 DEF s, meters

LEMMA MadeIs ==
  ASSUME NEW plan \in Plans, sealed = Made(plan)
  PROVE  /\ ChainedFrom(sealed.records, plan)
         /\ sealed.prior = plan.prior /\ sealed.org = plan.org
         /\ sealed.metering = MeteringOf(plan, sealed.records)
         /\ sealed.settlement =
              S!Settle(plan.org, plan.schema, plan.agreement, plan.agreement.parts)
<1> DEFINE rs == Chained(plan.receipts, plan.prior)
           m == MeteringOf(plan, rs)
           s == S!Settle(plan.org, plan.schema, plan.agreement, plan.agreement.parts)
<1>1. sealed = [records |-> rs, prior |-> plan.prior, org |-> plan.org, metering |-> m,
                settlement |-> s]
  BY DEF Made
<1>2. ChainedFrom(rs, plan)
  BY ReceiptsChained
<1> HIDE DEF rs, m, s
<1>3. /\ sealed.records = rs /\ sealed.prior = plan.prior /\ sealed.org = plan.org
      /\ sealed.metering = m /\ sealed.settlement = s
  BY <1>1
<1> QED
  BY <1>2, <1>3 DEF rs, m, s

(* The bundle starts as the platform made it, with nothing judged.          *)
LEMMA InitIInv == Init => IInv
<1>1. SUFFICES ASSUME Init PROVE IInv
  OBVIOUS
<1>2. PICK plan \in Plans : sealed = Made(plan)
  BY <1>1 DEF Init
<1>3. PICK c \in Carriages :
        bundle = [pack |-> [envelope |-> "envelope.v1", org |-> sealed.org,
                            records |-> sealed.records,
                            metering |-> Carried(sealed.metering, c[1], "pack"),
                            settlement |-> Carried(sealed.settlement, c[2], "pack")],
                  metering |-> Carried(sealed.metering, c[1], "bundle"),
                  settlement |-> Carried(sealed.settlement, c[2], "bundle"),
                  prior |-> sealed.prior]
  BY <1>1 DEF Init
<1>4. /\ bundle.pack.envelope = "envelope.v1" /\ bundle.pack.org = sealed.org
      /\ bundle.pack.records = sealed.records /\ bundle.prior = sealed.prior
      /\ bundle.metering \in {NoSummary, sealed.metering}
      /\ bundle.pack.metering \in {NoSummary, sealed.metering}
      /\ bundle.settlement \in {NoSummary, sealed.settlement}
      /\ bundle.pack.settlement \in {NoSummary, sealed.settlement}
  BY <1>3 DEF Carried
<1>5. /\ ChainedFrom(sealed.records, plan)
      /\ sealed.prior = plan.prior /\ sealed.org = plan.org
      /\ sealed.metering = MeteringOf(plan, sealed.records)
      /\ sealed.settlement = S!Settle(plan.org, plan.schema, plan.agreement, plan.agreement.parts)
  BY <1>2, MadeIs
<1>6. sealed \in SealedEvidence
  <2>1. sealed.records \in Seq(PackRecord)
    BY <1>5 DEF ChainedFrom
  <2>2. sealed.metering \in MP!Summary
    BY <1>4, <1>5, SealedMeteringHonest DEF MP!HonestSummary
  <2>3. sealed.settlement \in SP!Summary
    BY <1>5, SealedSettlementRight
  <2>4. sealed.prior \in RP!Hashes \cup {NoHash} /\ sealed.org \in Org
    BY <1>5, PlanIs
  <2>5. sealed = [records |-> sealed.records, prior |-> sealed.prior, org |-> sealed.org,
                  metering |-> sealed.metering, settlement |-> sealed.settlement]
    BY <1>2 DEF Made
  <2> QED
    BY <2>1, <2>2, <2>3, <2>4, <2>5 DEF SealedEvidence
<1>7. bundle \in Bundle
  <2>1. bundle.pack \in Pack
    <3>1. bundle.pack = [envelope |-> "envelope.v1", org |-> sealed.org, records |-> sealed.records,
                         metering |-> bundle.pack.metering, settlement |-> bundle.pack.settlement]
      BY <1>3
    <3> QED
      BY <1>4, <1>6, <3>1 DEF Pack, SealedEvidence
  <2>2. bundle = [pack |-> bundle.pack, metering |-> bundle.metering,
                  settlement |-> bundle.settlement, prior |-> bundle.prior]
    BY <1>3
  <2> QED
    BY <1>4, <1>6, <2>1, <2>2 DEF Bundle, SealedEvidence
<1>8. RP!Types /\ RP!Origin
  <2> DEFINE rs == sealed.records
  <2>1. /\ Each(Receipt, rs) \in Seq(RP!Record) /\ Len(Each(Receipt, rs)) = Len(rs)
        /\ DOMAIN Each(Receipt, rs) = DOMAIN rs /\ Len(rs) \in Nat
        /\ \A k \in DOMAIN rs : Each(Receipt, rs)[k] = Receipt(rs[k])
    BY <1>6, PackHanded DEF SealedEvidence
  <2>2. directory \in Directories /\ altered \in 0..MaxAlterations
    BY <1>1, Assumed DEF Init, RP!ReceiptAssumption
  <2>3. \A k \in DOMAIN rs : \E p \in RP!Payload, id \in KeyId : Receipt(rs[k]) = RP!Seal(p, id)
    BY <1>5, PlanIs DEF ChainedFrom
  <2>4. ASSUME NEW k \in DOMAIN rs
        PROVE  RP!Decoded(Receipt(rs[k]).signature) = Receipt(rs[k]).signature
    <3>1. PICK p \in RP!Payload, id \in KeyId : Receipt(rs[k]) = RP!Seal(p, id)
      BY <2>3
    <3> QED
      BY <3>1, SealParts
  <2> HIDE DEF rs
  <2>5. RP!Types
    BY <1>4, <2>1, <2>2 DEF RP!Types, rs
  <2>6. RP!Origin
    <3> DEFINE theirs == Each(Receipt, sealed.records)
               ours == Each(Receipt, bundle.pack.records)
    <3>1. ours = theirs
      BY <1>4
    <3>2. DOMAIN theirs = DOMAIN rs /\ \A k \in DOMAIN rs : theirs[k] = Receipt(rs[k])
      BY <2>1 DEF rs
    <3>3. RP!Origin <=>
            /\ \A j \in DOMAIN theirs : \E p \in RP!Payload, id \in KeyId : theirs[j] = RP!Seal(p, id)
            /\ \A k \in DOMAIN ours :
                 \/ RP!Decoded(ours[k].signature) \in RP!BadSignatures
                 \/ \E j \in DOMAIN theirs : RP!Decoded(ours[k].signature) = theirs[j].signature
                 \/ \E p \in RP!Payload, id \in KeyId :
                      RP!Decoded(ours[k].signature) = RP!SignatureBy(Foreign, p, id)
      BY DEF RP!Origin
    <3> HIDE DEF theirs, ours
    <3> QED
      BY <2>3, <2>4, <3>1, <3>2, <3>3
  <2> QED
    BY <2>5, <2>6
<1>9. Changes
  BY <1>1, <1>4 DEF Init, Changes, Untouched, ReceiptsSealed, MeteringSealed, SettlementSealed,
         Meterings, Settlements
<1>10. phase = "transit" /\ Blank /\ ChainBlank /\ SummaryBlank /\ reports = << >>
  BY <1>1 DEF Init, Blank, ChainBlank, SummaryBlank
<1>11. Frame /\ Phase
  BY <1>10 DEF Frame, Phase
<1>12. Reported
  <2>1. Due = {}
    BY <1>10 DEF Due
  <2> QED
    BY <1>10, <2>1 DEF Reported
<1> QED
  BY <1>2, <1>6, <1>7, <1>8, <1>9, <1>11, <1>12 DEF IInv, Typed


------------------------------------------------------------------------------
(* One change to the bundle.                                                *)

\* What of a bundle b is not the bundle's, apart from an envelope or an org:
\* receipts, the anchor, or a summary at one of its two places.
SameReceipts(b) == b.pack.records = bundle.pack.records /\ b.prior = bundle.prior
SameMetering(b) == b.metering = bundle.metering /\ b.pack.metering = bundle.pack.metering
SameSettlement(b) == b.settlement = bundle.settlement /\ b.pack.settlement = bundle.pack.settlement

ReceiptsApart(b) ==
  /\ SameMetering(b) /\ SameSettlement(b)
  /\ \/ b.pack.records = bundle.pack.records
     \/ b.prior = bundle.prior /\ RecordsApart(b.pack.records, bundle.pack.records)

MeteringApart(b) ==
  /\ SameReceipts(b) /\ SameSettlement(b)
  /\ \A m \in {b.metering, b.pack.metering} :
       m \in Meterings \cup {NoSummary}
         \/ \E own \in Meterings \ {NoSummary} : m \in MP!Variants(own)

SettlementApart(b) ==
  /\ SameReceipts(b) /\ SameMetering(b)
  /\ \A s \in {b.settlement, b.pack.settlement} :
       s \in Settlements \cup {NoSummary}
         \/ \E own \in Settlements \ {NoSummary} : s \in SP!Variants(own)

\* The platform's signatures are the only ones under its keys.
Unforged(r) ==
  \/ RP!Decoded(r.signature) \in RP!BadSignatures
  \/ \E j \in DOMAIN sealed.records :
       RP!Decoded(r.signature) = Receipt(sealed.records[j]).signature
  \/ \E p \in RP!Payload, id \in KeyId :
       RP!Decoded(r.signature) = RP!SignatureBy(Foreign, p, id)

Receivable(b) ==
  /\ b \in Bundle /\ Len(b.pack.records) <= Len(bundle.pack.records)
  /\ \A k \in DOMAIN b.pack.records : Unforged(b.pack.records[k])

LEMMA PackPut ==
  ASSUME NEW b \in Bundle, NEW p \in Pack
  PROVE  LET new == [b EXCEPT !.pack = p]
         IN  /\ new \in Bundle /\ new.pack = p /\ new.prior = b.prior
             /\ new.metering = b.metering /\ new.settlement = b.settlement
  BY DEF Bundle

LEMMA RecordsPut ==
  ASSUME NEW p \in Pack, NEW rs \in Seq(PackRecord)
  PROVE  LET new == [p EXCEPT !.records = rs]
         IN  /\ new \in Pack /\ new.records = rs
             /\ new.metering = p.metering /\ new.settlement = p.settlement
  BY DEF Pack

LEMMA RecordPut ==
  ASSUME NEW rs \in Seq(PackRecord), NEW k \in DOMAIN rs, NEW r \in PackRecord
  PROVE  LET new == [rs EXCEPT ![k] = r]
         IN  /\ new \in Seq(PackRecord) /\ Len(new) = Len(rs) /\ DOMAIN new = DOMAIN rs
             /\ new[k] = r /\ \A j \in DOMAIN rs : j # k => new[j] = rs[j]
  OBVIOUS

\* What Typed says of the receipts, one by one.
LEMMA ReceiptsTyped ==
  ASSUME Typed
  PROVE  /\ bundle \in Bundle /\ bundle.pack \in Pack
         /\ bundle.pack.records \in Seq(PackRecord) /\ sealed.records \in Seq(PackRecord)
         /\ DOMAIN bundle.pack.records = 1..Len(bundle.pack.records)
         /\ DOMAIN sealed.records = 1..Len(sealed.records)
         /\ Len(bundle.pack.records) \in Nat /\ Len(sealed.records) \in Nat
         /\ \A k \in DOMAIN bundle.pack.records :
              bundle.pack.records[k] \in PackRecord /\ Unforged(bundle.pack.records[k])
<1> DEFINE rs == bundle.pack.records
           ss == sealed.records
<1>1. bundle \in Bundle /\ bundle.pack \in Pack /\ rs \in Seq(PackRecord) /\ ss \in Seq(PackRecord)
  BY DEF Typed, Bundle, Pack, SealedEvidence
<1> DEFINE ours == Each(Receipt, rs)
           theirs == Each(Receipt, ss)
<1>2. /\ DOMAIN ours = DOMAIN rs /\ DOMAIN rs = 1..Len(rs) /\ Len(rs) \in Nat
      /\ \A k \in DOMAIN rs : rs[k] \in PackRecord /\ ours[k] = Receipt(rs[k])
  BY <1>1, PackHanded
<1>3. /\ DOMAIN theirs = DOMAIN ss /\ DOMAIN ss = 1..Len(ss) /\ Len(ss) \in Nat
      /\ \A k \in DOMAIN ss : theirs[k] = Receipt(ss[k])
  BY <1>1, PackHanded
<1>4. \A k \in DOMAIN ours :
        \/ RP!Decoded(ours[k].signature) \in RP!BadSignatures
        \/ \E j \in DOMAIN theirs : RP!Decoded(ours[k].signature) = theirs[j].signature
        \/ \E p \in RP!Payload, id \in KeyId :
                RP!Decoded(ours[k].signature) = RP!SignatureBy(Foreign, p, id)
  BY DEF Typed, RP!Origin
<1> HIDE DEF ours, theirs
<1>5. ASSUME NEW k \in DOMAIN rs PROVE Unforged(rs[k])
  <2>1. ours[k].signature = rs[k].signature
    BY <1>2, RecordHanded DEF R!Fields, Receipt
  <2>2. \/ RP!Decoded(ours[k].signature) \in RP!BadSignatures
        \/ \E j \in DOMAIN theirs : RP!Decoded(ours[k].signature) = theirs[j].signature
        \/ \E p \in RP!Payload, id \in KeyId :
                RP!Decoded(ours[k].signature) = RP!SignatureBy(Foreign, p, id)
    BY <1>2, <1>4
  <2> QED
    BY <1>3, <2>1, <2>2 DEF Unforged
<1> QED
  BY <1>1, <1>2, <1>3, <1>5

\* The platform trails its signatures with nothing.
LEMMA SealedPlain ==
  ASSUME Typed, NEW k \in DOMAIN sealed.records
  PROVE  /\ RP!Decoded(sealed.records[k].signature) = sealed.records[k].signature
         /\ RP!Plain(Receipt(sealed.records[k])) = Receipt(sealed.records[k])
<1> DEFINE theirs == Each(Receipt, sealed.records)
<1>1. k \in DOMAIN theirs /\ theirs[k] = Receipt(sealed.records[k])
  BY ReceiptsTyped, PackHanded
<1>2. PICK p \in RP!Payload, id \in KeyId : theirs[k] = RP!Seal(p, id)
  BY <1>1 DEF Typed, RP!Origin
<1> HIDE DEF theirs
<1>3. RP!Decoded(theirs[k].signature) = theirs[k].signature
  BY <1>2, SealParts
<1>4. Receipt(sealed.records[k]).signature = sealed.records[k].signature
      /\ Receipt(sealed.records[k]) \in RP!Record
  BY ReceiptsTyped, RecordHanded DEF R!Fields
<1> QED
  BY <1>1, <1>3, <1>4, PlainAlready

LEMMA FieldPut ==
  ASSUME Typed, NEW k \in DOMAIN bundle.pack.records, NEW f \in R!Fields,
         NEW v \in R!Replacements(k, f)
  PROVE  LET new == [bundle.pack.records[k] EXCEPT ![f] = v]
         IN  new \in PackRecord /\ Unforged(new)
<1> DEFINE ours == Each(Receipt, bundle.pack.records)
           theirs == Each(Receipt, sealed.records)
           r == bundle.pack.records[k]
           mine == Receipt(r)
           new == [r EXCEPT ![f] = v]
<1>1. r \in PackRecord /\ Unforged(r) /\ mine \in RP!Record
  BY ReceiptsTyped, RecordHanded
<1>2. ours[k] = mine /\ k \in DOMAIN ours
  BY ReceiptsTyped, PackHanded
<1>3. /\ DOMAIN theirs = DOMAIN sealed.records
      /\ \A j \in DOMAIN theirs : theirs[j] = Receipt(sealed.records[j])
  BY ReceiptsTyped, PackHanded
<1>4. f \in RP!Fields /\ v \in RP!Replacements(k, f)
  BY DomainsAre, ReplacementsAre
<1>5. /\ [ours[k] EXCEPT ![f] = v] \in RP!Record
      /\ f = "signature" =>
           \/ RP!Decoded(v) \in RP!BadSignatures
           \/ \E j \in DOMAIN theirs : RP!Decoded(v) = theirs[j].signature
           \/ \E p \in RP!Payload, id \in KeyId :
                RP!Decoded(v) = RP!SignatureBy(Foreign, p, id)
  <2>1. k \in DOMAIN ours /\ RP!Types /\ RP!Origin
    BY <1>2 DEF Typed
  <2>2. [ours[k] EXCEPT ![f] = v] \in RP!Record
    BY <1>4, <2>1, Assumed, RP!ReplacementTypes
  <2>3. ASSUME f = "signature"
        PROVE  \/ RP!Decoded(v) \in RP!BadSignatures
               \/ \E j \in DOMAIN theirs : RP!Decoded(v) = theirs[j].signature
               \/ \E p \in RP!Payload, id \in KeyId :
                    RP!Decoded(v) = RP!SignatureBy(Foreign, p, id)
    <3>1. v \in RP!Replacements(k, "signature")
      BY <1>4, <2>3
    <3> HIDE DEF mine, r, new
    <3> QED
      BY <2>1, <3>1, Assumed, RP!ReplacedSignature
  <2> QED
    BY <2>2, <2>3
<1> HIDE DEF ours, theirs
<1>6. [mine EXCEPT ![f] = v] \in RP!Record
  BY <1>2, <1>5
<1>7. f \in {"payload", "keyId", "canonical", "afterHash", "signature"}
  BY DEF R!Fields
<1> HIDE DEF mine, r
<1>8. /\ f = "payload" => v \in RP!Payload
      /\ f = "keyId" => v \in KeyId
      /\ f = "canonical" => v \in RP!Texts
      /\ f = "afterHash" => v \in RP!Hashes
      /\ f = "signature" => v \in RP!Signatures
  BY <1>1, <1>6 DEF RP!Record
<1>9. new \in PackRecord
  BY <1>1, <1>7, <1>8 DEF PackRecord
<1>10. /\ f = "signature" => new.signature = v
       /\ f # "signature" => new.signature = r.signature
  BY <1>1, <1>7 DEF PackRecord
<1> HIDE DEF new
<1>11. Unforged(new)
  <2>1. CASE f = "signature"
    BY <1>3, <1>5, <1>10, <2>1 DEF Unforged
  <2>2. CASE f # "signature"
    BY <1>1, <1>10, <2>2 DEF Unforged
  <2> QED
    BY <2>1, <2>2
<1> QED
  BY <1>9, <1>11 DEF new, r

LEMMA LinkPut ==
  ASSUME Typed, NEW k \in DOMAIN bundle.pack.records, NEW h \in RP!Hashes \cup {NoHash}
  PROVE  LET new == [bundle.pack.records[k] EXCEPT !.before = h]
         IN  new \in PackRecord /\ Unforged(new)
<1> DEFINE r == bundle.pack.records[k]
           new == [r EXCEPT !.before = h]
<1>1. r \in PackRecord /\ Unforged(r)
  BY ReceiptsTyped
<1> HIDE DEF r
<1>2. new \in PackRecord /\ new.signature = r.signature
  BY <1>1 DEF PackRecord
<1> HIDE DEF new
<1>3. Unforged(new)
  BY <1>1, <1>2 DEF Unforged
<1> QED
  BY <1>2, <1>3 DEF new, r

\* A record of the pack is replaced.
LEMMA RecordAltered ==
  ASSUME Typed, NEW k \in DOMAIN bundle.pack.records, NEW f \in R!Fields \cup {"before"}, NEW v,
         LET new == [bundle.pack.records[k] EXCEPT ![f] = v] IN new \in PackRecord /\ Unforged(new)
  PROVE  LET b == [bundle EXCEPT !.pack = [bundle.pack EXCEPT !.records[k][f] = v]]
         IN  Receivable(b) /\ ReceiptsApart(b)
<1> DEFINE rs == bundle.pack.records
           new == [rs[k] EXCEPT ![f] = v]
           list == [rs EXCEPT ![k] = new]
           p == [bundle.pack EXCEPT !.records = list]
           b == [bundle EXCEPT !.pack = p]
<1>1. [bundle EXCEPT !.pack = [bundle.pack EXCEPT !.records[k][f] = v]] = b
  OBVIOUS
<1>2. rs \in Seq(PackRecord) /\ new \in PackRecord /\ Unforged(new)
      /\ \A j \in DOMAIN rs : Unforged(rs[j])
  BY ReceiptsTyped
<1>3. /\ list \in Seq(PackRecord) /\ Len(list) = Len(rs) /\ DOMAIN list = DOMAIN rs
      /\ list[k] = new /\ \A j \in DOMAIN rs : j # k => list[j] = rs[j]
  <2> HIDE DEF new
  <2> QED
    BY <1>2, RecordPut
<1>4. rs[k] = [x \in DOMAIN rs[k] |-> rs[k][x]] /\ f \in DOMAIN rs[k]
  <2>1. rs[k] \in PackRecord
    BY ReceiptsTyped
  <2> HIDE DEF rs
  <2> QED
    BY <2>1 DEF PackRecord, R!Fields
<1>5. list = [rs EXCEPT ![k][f] = list[k][f]]
  <2>1. list[k][f] = v
    BY <1>3, <1>4
  <2>2. [rs EXCEPT ![k][f] = v] = list
    OBVIOUS
  <2> HIDE DEF list, rs
  <2> QED
    BY <2>1, <2>2
<1>6. Len(rs) \in Nat /\ bundle \in Bundle /\ bundle.pack \in Pack
  BY ReceiptsTyped
<1> HIDE DEF list, new
<1>7. /\ p \in Pack /\ p.records = list
      /\ p.metering = bundle.pack.metering /\ p.settlement = bundle.pack.settlement
  BY <1>3, <1>6, RecordsPut
<1> HIDE DEF p
<1>8. /\ b \in Bundle /\ b.pack = p /\ b.prior = bundle.prior
      /\ b.metering = bundle.metering /\ b.settlement = bundle.settlement
  BY <1>6, <1>7, PackPut
<1> HIDE DEF b
<1>9. Receivable(b)
  BY <1>2, <1>3, <1>6, <1>7, <1>8 DEF Receivable
<1>10. ReceiptsApart(b)
  BY <1>5, <1>7, <1>8 DEF ReceiptsApart, SameMetering, SameSettlement, RecordsApart
<1> QED
  BY <1>1, <1>9, <1>10

\* The last receipt is lost.
LEMMA ReceiptLost ==
  ASSUME Typed
  PROVE  LET b == [bundle EXCEPT !.pack =
                     [bundle.pack EXCEPT !.records = SubSeq(@, 1, Len(@) - 1)]]
         IN  Receivable(b) /\ ReceiptsApart(b)
<1> DEFINE rs == bundle.pack.records
           list == SubSeq(rs, 1, Len(rs) - 1)
           p == [bundle.pack EXCEPT !.records = list]
           b == [bundle EXCEPT !.pack = p]
<1>1. [bundle EXCEPT !.pack = [bundle.pack EXCEPT !.records = SubSeq(@, 1, Len(@) - 1)]] = b
  OBVIOUS
<1>2. /\ rs \in Seq(PackRecord) /\ Len(rs) \in Nat /\ DOMAIN rs = 1..Len(rs)
      /\ \A j \in DOMAIN rs : Unforged(rs[j])
  BY ReceiptsTyped
<1>3. /\ list \in Seq(PackRecord) /\ Len(list) <= Len(rs)
      /\ \A j \in DOMAIN list : j \in DOMAIN rs /\ list[j] = rs[j]
  <2>0. \A j \in 1..Len(rs) : rs[j] \in PackRecord
    BY <1>2
  <2> HIDE DEF rs
  <2>1. list = [j \in 1..(Len(rs) - 1) |-> rs[j]]
    BY <1>2
  <2>2. CASE Len(rs) = 0
    <3>1. DOMAIN list = {} /\ list = << >>
      BY <2>1, <2>2
    <3> HIDE DEF list
    <3> QED
      BY <3>1, <2>2
  <2>3. CASE Len(rs) # 0
    <3>1. Len(rs) - 1 \in Nat /\ \A j \in 1..(Len(rs) - 1) : j \in 1..Len(rs)
      BY <1>2, <2>3
    <3> QED
      BY <1>2, <2>0, <2>1, <3>1
  <2> QED
    BY <2>2, <2>3
<1>4. bundle \in Bundle /\ bundle.pack \in Pack
  BY ReceiptsTyped
<1> HIDE DEF list
<1>5. /\ p \in Pack /\ p.records = list
      /\ p.metering = bundle.pack.metering /\ p.settlement = bundle.pack.settlement
  BY <1>3, <1>4, RecordsPut
<1> HIDE DEF p
<1>6. /\ b \in Bundle /\ b.pack = p /\ b.prior = bundle.prior
      /\ b.metering = bundle.metering /\ b.settlement = bundle.settlement
  BY <1>4, <1>5, PackPut
<1> HIDE DEF b
<1>7. Receivable(b)
  BY <1>2, <1>3, <1>5, <1>6 DEF Receivable
<1>8. ReceiptsApart(b)
  BY <1>5, <1>6 DEF ReceiptsApart, SameMetering, SameSettlement, RecordsApart, list
<1> QED
  BY <1>1, <1>7, <1>8

LEMMA ReceiptsKept ==
  ASSUME Typed, NEW b \in Bundle, b.pack.records = bundle.pack.records
  PROVE  Receivable(b)
  BY ReceiptsTyped DEF Receivable

LEMMA SummaryVaried ==
  ASSUME Typed
  PROVE  /\ \A m \in Meterings : \A v \in MeteringVariants(m) :
              /\ v \in MP!Summary \cup {NoSummary}
              /\ v = NoSummary \/ (m # NoSummary /\ v \in MP!Variants(m))
         /\ \A s \in Settlements : \A v \in SettlementVariants(s) :
              /\ v \in SP!Summary \cup {NoSummary}
              /\ v = NoSummary \/ (s # NoSummary /\ v \in SP!Variants(s))
<1>1. /\ Meterings \subseteq MP!Summary \cup {NoSummary}
      /\ Settlements \subseteq SP!Summary \cup {NoSummary}
  BY DEF Typed, Bundle, Pack, Meterings, Settlements
<1>2. \A s \in MP!Summary : \A v \in MP!Variants(s) : v \in MP!Summary
  <2>1. SUFFICES ASSUME NEW s \in MP!Summary, NEW v \in MP!Variants(s) PROVE v \in MP!Summary
    OBVIOUS
  <2> QED
    BY Assumed, MP!OneChange
<1>3. \A s \in SP!Summary : \A v \in SP!Variants(s) : v \in SP!Summary
  <2>1. SUFFICES ASSUME NEW s \in SP!Summary, NEW v \in SP!Variants(s) PROVE v \in SP!Summary
    OBVIOUS
  <2> QED
    BY Assumed, SP!OneChange
<1> QED
  BY <1>1, <1>2, <1>3, MeteringVariantsAre, SettlementVariantsAre
     DEF MeteringVariants, SettlementVariants

LEMMA MeteringAltered ==
  ASSUME Typed, NEW m
  PROVE  /\ m \in MeteringVariants(bundle.metering) =>
              LET b == [bundle EXCEPT !.metering = m] IN Receivable(b) /\ MeteringApart(b)
         /\ m \in MeteringVariants(bundle.pack.metering) =>
              LET b == [bundle EXCEPT !.pack.metering = m] IN Receivable(b) /\ MeteringApart(b)
<1>1. bundle \in Bundle /\ bundle.pack \in Pack
  BY ReceiptsTyped
<1>2. bundle.metering \in Meterings /\ bundle.pack.metering \in Meterings
  BY DEF Meterings
<1>3. ASSUME m \in MeteringVariants(bundle.metering)
      PROVE  LET b == [bundle EXCEPT !.metering = m] IN Receivable(b) /\ MeteringApart(b)
  <2> DEFINE b == [bundle EXCEPT !.metering = m]
  <2>1. /\ m \in MP!Summary \cup {NoSummary}
        /\ m = NoSummary \/ \E own \in Meterings \ {NoSummary} : m \in MP!Variants(own)
    BY <1>2, <1>3, SummaryVaried
  <2>2. /\ b \in Bundle /\ b.pack = bundle.pack /\ b.prior = bundle.prior
        /\ b.metering = m /\ b.settlement = bundle.settlement
    BY <1>1, <2>1 DEF Bundle
  <2> HIDE DEF b
  <2>3. MeteringApart(b)
    BY <1>2, <2>1, <2>2 DEF MeteringApart, SameReceipts, SameSettlement
  <2>4. Receivable(b)
    BY <2>2, ReceiptsKept
  <2> QED
    BY <2>3, <2>4 DEF b
<1>4. ASSUME m \in MeteringVariants(bundle.pack.metering)
      PROVE  LET b == [bundle EXCEPT !.pack.metering = m] IN Receivable(b) /\ MeteringApart(b)
  <2> DEFINE p == [bundle.pack EXCEPT !.metering = m]
             b == [bundle EXCEPT !.pack = p]
  <2>1. /\ m \in MP!Summary \cup {NoSummary}
        /\ m = NoSummary \/ \E own \in Meterings \ {NoSummary} : m \in MP!Variants(own)
    BY <1>2, <1>4, SummaryVaried
  <2>2. [bundle EXCEPT !.pack.metering = m] = b
    OBVIOUS
  <2>3. p \in Pack /\ p.records = bundle.pack.records /\ p.metering = m
        /\ p.settlement = bundle.pack.settlement
    BY <1>1, <2>1 DEF Pack
  <2> HIDE DEF p
  <2>4. /\ b \in Bundle /\ b.pack = p /\ b.prior = bundle.prior
        /\ b.metering = bundle.metering /\ b.settlement = bundle.settlement
    BY <1>1, <2>3, PackPut
  <2> HIDE DEF b
  <2>5. MeteringApart(b)
    BY <1>2, <2>1, <2>3, <2>4 DEF MeteringApart, SameReceipts, SameSettlement
  <2>6. Receivable(b)
    BY <2>3, <2>4, ReceiptsKept
  <2> QED
    BY <2>2, <2>5, <2>6
<1> QED
  BY <1>3, <1>4

LEMMA SettlementAltered ==
  ASSUME Typed, NEW s
  PROVE  /\ s \in SettlementVariants(bundle.settlement) =>
              LET b == [bundle EXCEPT !.settlement = s] IN Receivable(b) /\ SettlementApart(b)
         /\ s \in SettlementVariants(bundle.pack.settlement) =>
              LET b == [bundle EXCEPT !.pack.settlement = s] IN Receivable(b) /\ SettlementApart(b)
<1>1. bundle \in Bundle /\ bundle.pack \in Pack
  BY ReceiptsTyped
<1>2. bundle.settlement \in Settlements /\ bundle.pack.settlement \in Settlements
  BY DEF Settlements
<1>3. ASSUME s \in SettlementVariants(bundle.settlement)
      PROVE  LET b == [bundle EXCEPT !.settlement = s] IN Receivable(b) /\ SettlementApart(b)
  <2> DEFINE b == [bundle EXCEPT !.settlement = s]
  <2>1. /\ s \in SP!Summary \cup {NoSummary}
        /\ s = NoSummary \/ \E own \in Settlements \ {NoSummary} : s \in SP!Variants(own)
    BY <1>2, <1>3, SummaryVaried
  <2>2. /\ b \in Bundle /\ b.pack = bundle.pack /\ b.prior = bundle.prior
        /\ b.settlement = s /\ b.metering = bundle.metering
    BY <1>1, <2>1 DEF Bundle
  <2> HIDE DEF b
  <2>3. SettlementApart(b)
    BY <1>2, <2>1, <2>2 DEF SettlementApart, SameReceipts, SameMetering
  <2>4. Receivable(b)
    BY <2>2, ReceiptsKept
  <2> QED
    BY <2>3, <2>4 DEF b
<1>4. ASSUME s \in SettlementVariants(bundle.pack.settlement)
      PROVE  LET b == [bundle EXCEPT !.pack.settlement = s] IN Receivable(b) /\ SettlementApart(b)
  <2> DEFINE p == [bundle.pack EXCEPT !.settlement = s]
             b == [bundle EXCEPT !.pack = p]
  <2>1. /\ s \in SP!Summary \cup {NoSummary}
        /\ s = NoSummary \/ \E own \in Settlements \ {NoSummary} : s \in SP!Variants(own)
    BY <1>2, <1>4, SummaryVaried
  <2>2. [bundle EXCEPT !.pack.settlement = s] = b
    OBVIOUS
  <2>3. p \in Pack /\ p.records = bundle.pack.records /\ p.settlement = s
        /\ p.metering = bundle.pack.metering
    BY <1>1, <2>1 DEF Pack
  <2> HIDE DEF p
  <2>4. /\ b \in Bundle /\ b.pack = p /\ b.prior = bundle.prior
        /\ b.metering = bundle.metering /\ b.settlement = bundle.settlement
    BY <1>1, <2>3, PackPut
  <2> HIDE DEF b
  <2>5. SettlementApart(b)
    BY <1>2, <2>1, <2>3, <2>4 DEF SettlementApart, SameReceipts, SameMetering
  <2>6. Receivable(b)
    BY <2>3, <2>4, ReceiptsKept
  <2> QED
    BY <2>2, <2>5, <2>6
<1> QED
  BY <1>3, <1>4

\* The anchor, the org or the envelope is another.
LEMMA HeadingAltered ==
  ASSUME Typed, NEW h \in RP!Hashes \cup {NoHash}, NEW org \in Org
  PROVE  /\ LET b == [bundle EXCEPT !.prior = h] IN Receivable(b) /\ ReceiptsApart(b)
         /\ LET b == [bundle EXCEPT !.pack = [bundle.pack EXCEPT !.org = org]]
            IN  Receivable(b) /\ ReceiptsApart(b)
         /\ LET b == [bundle EXCEPT !.pack = [bundle.pack EXCEPT !.envelope = "other"]]
            IN  Receivable(b) /\ ReceiptsApart(b)
<1>1. bundle \in Bundle /\ bundle.pack \in Pack
  BY ReceiptsTyped
<1> DEFINE b1 == [bundle EXCEPT !.prior = h]
           p2 == [bundle.pack EXCEPT !.org = org]
           b2 == [bundle EXCEPT !.pack = p2]
           p3 == [bundle.pack EXCEPT !.envelope = "other"]
           b3 == [bundle EXCEPT !.pack = p3]
<1>2. /\ b1 \in Bundle /\ b1.pack = bundle.pack
      /\ b1.metering = bundle.metering /\ b1.settlement = bundle.settlement
  BY <1>1 DEF Bundle
<1>3. /\ p2 \in Pack /\ p2.records = bundle.pack.records
      /\ p2.metering = bundle.pack.metering /\ p2.settlement = bundle.pack.settlement
      /\ p3 \in Pack /\ p3.records = bundle.pack.records
      /\ p3.metering = bundle.pack.metering /\ p3.settlement = bundle.pack.settlement
  BY <1>1 DEF Pack
<1> HIDE DEF p2, p3
<1>4. /\ b2 \in Bundle /\ b2.pack = p2
      /\ b2.metering = bundle.metering /\ b2.settlement = bundle.settlement
      /\ b3 \in Bundle /\ b3.pack = p3
      /\ b3.metering = bundle.metering /\ b3.settlement = bundle.settlement
  BY <1>1, <1>3, PackPut
<1> HIDE DEF b1, b2, b3
<1>5. Receivable(b1) /\ Receivable(b2) /\ Receivable(b3)
  BY <1>2, <1>3, <1>4, ReceiptsKept
<1>6. ReceiptsApart(b1) /\ ReceiptsApart(b2) /\ ReceiptsApart(b3)
  BY <1>2, <1>3, <1>4 DEF ReceiptsApart, SameMetering, SameSettlement
<1> QED
  BY <1>5, <1>6 DEF b1, b2, b3, p2, p3

(* What becomes of a bundle by one change.                                  *)
LEMMA BundleAltered ==
  ASSUME Typed, NEW b \in BundleVariants(bundle)
  PROVE  Receivable(b) /\ (ReceiptsApart(b) \/ MeteringApart(b) \/ SettlementApart(b))
<1>1. CASE \E p \in PackVariants(bundle.pack) : b = [bundle EXCEPT !.pack = p]
  <2>1. PICK p \in PackVariants(bundle.pack) : b = [bundle EXCEPT !.pack = p]
    BY <1>1
  <2>2. CASE \E k \in DOMAIN bundle.pack.records, f \in R!Fields :
               \E v \in R!Replacements(k, f) : p = [bundle.pack EXCEPT !.records[k][f] = v]
    BY <2>1, <2>2, FieldPut, RecordAltered
  <2>3. CASE \E k \in DOMAIN bundle.pack.records,
                h \in {NoHash} \cup {bundle.pack.records[j].afterHash : j \in DOMAIN bundle.pack.records} :
               p = [bundle.pack EXCEPT !.records[k].before = h]
    <3>1. PICK k \in DOMAIN bundle.pack.records,
               h \in {NoHash} \cup {bundle.pack.records[j].afterHash : j \in DOMAIN bundle.pack.records} :
                 p = [bundle.pack EXCEPT !.records[k].before = h]
      BY <2>3
    <3>2. h \in RP!Hashes \cup {NoHash}
      BY ReceiptsTyped DEF PackRecord
    <3> QED
      BY <2>1, <3>1, <3>2, LinkPut, RecordAltered
  <2>4. CASE p = [bundle.pack EXCEPT !.records = SubSeq(@, 1, Len(@) - 1)]
    BY <2>1, <2>4, ReceiptLost
  <2>5. CASE p = [bundle.pack EXCEPT !.envelope = "other"]
           \/ \E org \in Org : p = [bundle.pack EXCEPT !.org = org]
    <3>1. NoHash \in RP!Hashes \cup {NoHash} /\ bundle.pack.org \in Org
      BY ReceiptsTyped DEF Pack
    <3> QED
      BY <2>1, <2>5, <3>1, HeadingAltered
  <2> DEFINE q == bundle.pack
             fields == UNION {{[q EXCEPT !.records[k][f] = v] : v \in R!Replacements(k, f)} :
                              k \in DOMAIN q.records, f \in R!Fields}
             links == {[q EXCEPT !.records[k].before = h] :
                         k \in DOMAIN q.records,
                         h \in {NoHash} \cup {q.records[j].afterHash : j \in DOMAIN q.records}}
             rest == {[q EXCEPT !.records = SubSeq(@, 1, Len(@) - 1)], [q EXCEPT !.envelope = "other"]}
             orgs == {[q EXCEPT !.org = org] : org \in Org}
  <2>6. p \in fields \/ p \in links \/ p \in rest \/ p \in orgs
    <3>1. PackVariants(q) = fields \cup links \cup rest \cup orgs
      BY DEF PackVariants
    <3> HIDE DEF fields, links, rest, orgs
    <3> QED
      BY <2>1, <3>1
  <2>7. p \in fields => \E k \in DOMAIN q.records, f \in R!Fields :
                          \E v \in R!Replacements(k, f) : p = [q EXCEPT !.records[k][f] = v]
    OBVIOUS
  <2>8. p \in links => \E k \in DOMAIN q.records,
             h \in {NoHash} \cup {q.records[j].afterHash : j \in DOMAIN q.records} :
               p = [q EXCEPT !.records[k].before = h]
    OBVIOUS
  <2>9. p \in orgs => \E org \in Org : p = [q EXCEPT !.org = org]
    OBVIOUS
  <2>10. p \in rest => \/ p = [q EXCEPT !.records = SubSeq(@, 1, Len(@) - 1)]
                       \/ p = [q EXCEPT !.envelope = "other"]
    OBVIOUS
  <2> HIDE DEF fields, links, rest, orgs
  <2> QED
    BY <2>2, <2>3, <2>4, <2>5, <2>6, <2>7, <2>8, <2>9, <2>10
<1>2. CASE \/ \E m \in MeteringVariants(bundle.metering) : b = [bundle EXCEPT !.metering = m]
           \/ \E m \in MeteringVariants(bundle.pack.metering) : b = [bundle EXCEPT !.pack.metering = m]
  BY <1>2, MeteringAltered
<1>3. CASE \/ \E s \in SettlementVariants(bundle.settlement) : b = [bundle EXCEPT !.settlement = s]
           \/ \E s \in SettlementVariants(bundle.pack.settlement) : b = [bundle EXCEPT !.pack.settlement = s]
  BY <1>3, SettlementAltered
<1>4. CASE \E h \in {NoHash, sealed.records[1].afterHash} : b = [bundle EXCEPT !.prior = h]
  <2>1. PICK h \in {NoHash, sealed.records[1].afterHash} : b = [bundle EXCEPT !.prior = h]
    BY <1>4
  <2>2. h \in RP!Hashes \cup {NoHash}
    <3>1. PICK plan \in Plans : sealed = Made(plan)
      BY DEF Typed
    <3>2. sealed.records # << >>
      BY <3>1, MadeIs DEF ChainedFrom
    <3>3. sealed.records[1] \in PackRecord
      BY <3>2, ReceiptsTyped
    <3> QED
      BY <3>3 DEF PackRecord
  <2>3. bundle.pack.org \in Org
    BY ReceiptsTyped DEF Pack
  <2> QED
    BY <2>1, <2>2, <2>3, HeadingAltered
<1> QED
  BY <1>1, <1>2, <1>3, <1>4 DEF BundleVariants

(* Such a change leaves a bundle the audits can be called with, and the     *)
(* first of them is the only one it shows.                                  *)
LEMMA AlterStep == IInv /\ Alter => IInv'
<1>1. SUFFICES ASSUME IInv, Alter PROVE IInv'
  OBVIOUS
<1>2. /\ phase = "transit" /\ altered < MaxAlterations /\ altered' = altered + 1
      /\ bundle' \in BundleVariants(bundle)
      /\ directory' = directory /\ sealed' = sealed /\ phase' = phase
      /\ pc' = pc /\ i' = i /\ steps' = steps /\ status' = status
      /\ prevMs' = prevMs /\ seen' = seen /\ reuse' = reuse
      /\ computed' = computed /\ pending' = pending /\ reports' = reports
  BY <1>1 DEF Alter, frame, chainLocals, summaryLocals
<1>3. Typed /\ Changes /\ Frame /\ Reported
  BY <1>1 DEF IInv
<1>4. /\ Receivable(bundle')
      /\ ReceiptsApart(bundle') \/ MeteringApart(bundle') \/ SettlementApart(bundle')
  BY <1>2, <1>3, BundleAltered
<1>5. altered \in 0..MaxAlterations /\ MaxAlterations \in Nat
  BY <1>3, Assumed DEF Typed, RP!Types, RP!ReceiptAssumption
<1>6. Typed'
  <2> DEFINE rs == bundle'.pack.records
             ss == sealed.records
             ours == Each(Receipt, bundle'.pack.records)
             theirs == Each(Receipt, sealed.records)
  <2>1. /\ rs \in Seq(PackRecord) /\ ss \in Seq(PackRecord) /\ Len(rs) <= Len(bundle.pack.records)
        /\ Len(bundle.pack.records) <= Len(ss) /\ Len(ss) \in Nat
        /\ Len(bundle.pack.records) \in Nat
    <3>1. rs \in Seq(PackRecord) /\ Len(rs) <= Len(bundle.pack.records)
      BY <1>4 DEF Receivable, Bundle, Pack
    <3>2. Len(bundle.pack.records) <= Len(ss)
      <4>1. /\ Len(Each(Receipt, bundle.pack.records)) = Len(bundle.pack.records)
            /\ Len(theirs) = Len(ss)
        BY <1>3, ReceiptsTyped, PackHanded
      <4> QED
        BY <1>3, <4>1 DEF Typed, RP!Types
    <3> QED
      BY <1>3, <3>1, <3>2, ReceiptsTyped
  <2>2. /\ ours \in Seq(RP!Record) /\ DOMAIN ours = DOMAIN rs /\ Len(ours) = Len(rs) /\ Len(rs) \in Nat
        /\ \A k \in DOMAIN rs : rs[k] \in PackRecord /\ ours[k] = Receipt(rs[k])
    <3> HIDE DEF rs
    <3>1. ours = Each(Receipt, rs)
      BY DEF rs
    <3> HIDE DEF ours
    <3> QED
      BY <2>1, <3>1, PackHanded
  <2>3. /\ theirs \in Seq(RP!Record) /\ DOMAIN theirs = DOMAIN ss /\ Len(theirs) = Len(ss)
        /\ \A k \in DOMAIN ss : theirs[k] = Receipt(ss[k])
    BY <2>1, PackHanded
  <2>4. /\ Each(Receipt, bundle.pack.records)' = ours
        /\ Each(Receipt, sealed.records)' = theirs
    BY <1>2 DEF Each, Receipt
  <2> HIDE DEF ours, theirs
  <2>5. RP!Types'
    <3>1. directory' \in Directories /\ altered' \in 0..MaxAlterations
      BY <1>2, <1>3, <1>5 DEF Typed, RP!Types
    <3> HIDE DEF rs, ss
    <3>2. Len(ours) <= Len(theirs)
      BY <2>1, <2>2, <2>3
    <3> QED
      BY <2>2, <2>3, <2>4, <3>1, <3>2 DEF RP!Types
  <2>6. \A k \in DOMAIN ours :
          \/ RP!Decoded(ours[k].signature) \in RP!BadSignatures
          \/ \E j \in DOMAIN theirs : RP!Decoded(ours[k].signature) = theirs[j].signature
          \/ \E p \in RP!Payload, id \in KeyId :
                  RP!Decoded(ours[k].signature) = RP!SignatureBy(Foreign, p, id)
    <3>1. SUFFICES ASSUME NEW k \in DOMAIN ours
                   PROVE  \/ RP!Decoded(ours[k].signature) \in RP!BadSignatures
                          \/ \E j \in DOMAIN theirs : RP!Decoded(ours[k].signature) = theirs[j].signature
                          \/ \E p \in RP!Payload, id \in KeyId :
                                  RP!Decoded(ours[k].signature) = RP!SignatureBy(Foreign, p, id)
      OBVIOUS
    <3>2. k \in DOMAIN rs /\ Unforged(rs[k])
      BY <1>4, <2>2 DEF Receivable
    <3>3. ours[k].signature = rs[k].signature
      <4>1. rs[k] \in PackRecord /\ ours[k] = Receipt(rs[k])
        BY <2>2, <3>2
      <4> HIDE DEF rs
      <4> QED
        BY <4>1 DEF Receipt
    <3> HIDE DEF rs
    <3> QED
      BY <2>3, <3>2, <3>3 DEF Unforged
  <2>7. \A j \in DOMAIN theirs : \E p \in RP!Payload, id \in KeyId : theirs[j] = RP!Seal(p, id)
    BY <1>3 DEF Typed, RP!Origin, theirs
  <2>8. RP!Origin'
    <3>1. RP!Origin' <=>
            /\ \A j \in DOMAIN theirs : \E p \in RP!Payload, id \in KeyId : theirs[j] = RP!Seal(p, id)
            /\ \A k \in DOMAIN ours :
                 \/ RP!Decoded(ours[k].signature) \in RP!BadSignatures
                 \/ \E j \in DOMAIN theirs : RP!Decoded(ours[k].signature) = theirs[j].signature
                 \/ \E p \in RP!Payload, id \in KeyId :
                         RP!Decoded(ours[k].signature) = RP!SignatureBy(Foreign, p, id)
      BY <2>4 DEF RP!Origin
    <3> QED
      BY <2>6, <2>7, <3>1
  <2>9. \E plan \in Plans : sealed' = Made(plan)'
    <3>1. \A plan \in Plans : Made(plan)' = Made(plan)
      OBVIOUS
    <3> QED
      BY <1>2, <1>3, <3>1 DEF Typed
  <2> QED
    BY <1>2, <1>3, <1>4, <2>5, <2>8, <2>9 DEF Typed, Receivable
<1>7. Changes'
  <2>1. CASE altered = 0
    <3>1. /\ bundle.pack.records = sealed.records /\ bundle.prior = sealed.prior
          /\ Meterings \subseteq {NoSummary, sealed.metering}
          /\ Settlements \subseteq {NoSummary, sealed.settlement}
      BY <1>3, <2>1 DEF Changes, Untouched, ReceiptsSealed, MeteringSealed, SettlementSealed
    <3>2. ASSUME ReceiptsApart(bundle') PROVE OneAway'
      <4>1. MeteringSealed' /\ SettlementSealed'
        BY <1>2, <3>1, <3>2 DEF ReceiptsApart, SameMetering, SameSettlement, Meterings,
               Settlements, MeteringSealed, SettlementSealed
      <4>2. ReceiptsOneAway'
        BY <1>2, <3>1, <3>2 DEF ReceiptsApart, ReceiptsOneAway
      <4> QED
        BY <4>1, <4>2 DEF OneAway
    <3>3. ASSUME MeteringApart(bundle') PROVE OneAway'
      <4>1. ReceiptsSealed' /\ SettlementSealed'
        BY <1>2, <3>1, <3>3 DEF MeteringApart, SameReceipts, SameSettlement, Settlements,
               SettlementSealed, ReceiptsSealed
      <4>2. Meterings' \subseteq {NoSummary, sealed.metering} \cup MP!Variants(sealed.metering)
        BY <3>1, <3>3 DEF MeteringApart, Meterings
      <4>3. MP!Variants(sealed.metering)' = MP!Variants(sealed.metering)
        BY <1>2
      <4> QED
        BY <1>2, <4>1, <4>2, <4>3 DEF OneAway
    <3>4. ASSUME SettlementApart(bundle') PROVE OneAway'
      <4>1. ReceiptsSealed' /\ MeteringSealed'
        BY <1>2, <3>1, <3>4 DEF SettlementApart, SameReceipts, SameMetering, Meterings,
               MeteringSealed, ReceiptsSealed
      <4>2. Settlements' \subseteq {NoSummary, sealed.settlement} \cup SP!Variants(sealed.settlement)
        BY <3>1, <3>4 DEF SettlementApart, Settlements
      <4>3. SP!Variants(sealed.settlement)' = SP!Variants(sealed.settlement)
        BY <1>2
      <4> QED
        BY <1>2, <4>1, <4>2, <4>3 DEF OneAway
    <3>5. altered' = 1
      BY <1>2, <2>1
    <3> QED
      BY <1>4, <3>2, <3>3, <3>4, <3>5 DEF Changes
  <2>2. CASE altered # 0
    <3>1. altered' # 0 /\ altered' # 1
      BY <1>2, <1>5, <2>2
    <3> QED
      BY <3>1 DEF Changes
  <2> QED
    BY <2>1, <2>2
<1>8. Frame' /\ Phase'
  <2>1. Blank /\ ChainBlank /\ SummaryBlank
    BY <1>2, <1>3 DEF Frame
  <2> QED
    BY <1>2, <2>1 DEF Frame, Phase, Blank, ChainBlank, SummaryBlank
<1>9. Reported'
  <2>1. Due = {} /\ Due' = {}
    BY <1>2 DEF Due
  <2> QED
    BY <1>2, <1>3, <2>1 DEF Reported
<1> QED
  BY <1>6, <1>7, <1>8, <1>9 DEF IInv

------------------------------------------------------------------------------
(* The steps of the call: no audit writes the evidence.                     *)

LEMMA SameBundle ==
  ASSUME UNCHANGED evidence
  PROVE  /\ directory' = directory /\ sealed' = sealed /\ bundle' = bundle /\ altered' = altered
         /\ metering' = metering /\ settlement' = settlement
         /\ Reconcilable' <=> Reconcilable
         /\ Meterings' = Meterings /\ Settlements' = Settlements
  BY DEF evidence, metering, settlement, Preferred, Reconcilable, Meterings, Settlements

LEMMA SameHanded ==
  ASSUME UNCHANGED evidence
  PROVE  /\ Each(Receipt, bundle.pack.records)' = Each(Receipt, bundle.pack.records)
         /\ Each(Receipt, sealed.records)' = Each(Receipt, sealed.records)
         /\ Each(Link, bundle.pack.records)' = Each(Link, bundle.pack.records)
         /\ Each(Proof, bundle.pack.records)' = Each(Proof, bundle.pack.records)
  BY DEF evidence, Each, Receipt, Link, Proof

LEMMA SameTyped ==
  ASSUME UNCHANGED evidence
  PROVE  (Typed => Typed') /\ (Changes => Changes')
<1>1. RP!Types => RP!Types'
  BY SameBundle, SameHanded DEF RP!Types
<1>2. RP!Origin => RP!Origin'
  BY SameHanded DEF RP!Origin
<1>3. ASSUME NEW plan \in Plans, sealed = Made(plan) PROVE sealed' = Made(plan)'
  BY <1>3, SameBundle
<1>4. Typed => Typed'
  BY <1>1, <1>2, <1>3, SameBundle DEF Typed
<1>5. Changes => Changes'
  <2>1. (Untouched' <=> Untouched) /\ (ReceiptsOneAway' <=> ReceiptsOneAway)
        /\ (MeteringSealed' <=> MeteringSealed) /\ (SettlementSealed' <=> SettlementSealed)
        /\ (ReceiptsSealed' <=> ReceiptsSealed)
    BY SameBundle DEF Untouched, ReceiptsOneAway, MeteringSealed, SettlementSealed,
         ReceiptsSealed
  <2>2. /\ MP!Variants(sealed.metering)' = MP!Variants(sealed.metering)
        /\ SP!Variants(sealed.settlement)' = SP!Variants(sealed.settlement)
    BY SameBundle
  <2> QED
    BY <2>1, <2>2, SameBundle DEF Changes, OneAway
<1> QED
  BY <1>4, <1>5

LEMMA SameHolds ==
  ASSUME UNCHANGED evidence, NEW name
  PROVE  (Holds(name)' <=> Holds(name)) /\ Judgement(name)' = Judgement(name)
<1>1. PackHolds' <=> PackHolds
  <2>1. \A k \in DOMAIN bundle.pack.records :
          RP!Genuine(Receipt(bundle.pack.records[k]))' <=> RP!Genuine(Receipt(bundle.pack.records[k]))
    <3>1. RP!Issued' = RP!Issued
      BY SameHanded DEF RP!Issued
    <3>2. SUFFICES ASSUME NEW r PROVE RP!Genuine(Receipt(r))' <=> RP!Genuine(Receipt(r))
      BY SameBundle
    <3>3. RP!Verifiable(Receipt(r))' <=> RP!Verifiable(Receipt(r))
      BY SameBundle DEF RP!Verifiable, RP!Lookup, RP!OutsideWindow, RP!Past
    <3> QED
      BY <3>1, <3>3 DEF RP!Genuine
  <2> QED
    BY <2>1, SameBundle DEF PackHolds
<1>2. CP!Sound' <=> CP!Sound
  BY SameBundle, SameHanded
     DEF CP!Sound, CP!Anchored, CP!Linked, CP!InOrder, CP!NoncesDistinct, CP!Ordered
<1>3. MP!Tallies' <=> MP!Tallies
  <2>1. UNCHANGED MP!Inputs
    BY SameBundle, SameHanded DEF MP!Inputs
  <2>2. \A k : MP!Right(metering.records[k])' <=> MP!Right(metering.records[k])
    BY <2>1, Assumed, MP!SameInputs
  <2>3. (MP!OrgWrong' <=> MP!OrgWrong) /\ MP!ClaimedUnits' = MP!ClaimedUnits
    BY <2>1, Assumed, MP!SameInputs
  <2>4. \A u : MP!Billed(metering, u)' = MP!Billed(metering, u)
    BY SameBundle
  <2> QED
    BY <2>2, <2>3, <2>4, SameBundle DEF MP!Tallies, MP!Parse
<1>4. SP!BorneOut(settlement)' <=> SP!BorneOut(settlement)
  <2>1. \A k : SP!Right(settlement, k)' <=> SP!Right(settlement, k)
    BY SameBundle DEF SP!Right
  <2>2. SP!Settling(settlement)' = SP!Settling(settlement)
    BY SameBundle DEF SP!Settling
  <2> QED
    BY <2>1, <2>2, SameBundle DEF SP!BorneOut
<1>5. Holds(name)' <=> Holds(name)
  BY <1>1, <1>2, <1>3, <1>4, SameBundle DEF Holds
<1>6. Skipped(name)' <=> Skipped(name)
  BY SameBundle DEF Skipped
<1> QED
  BY <1>5, <1>6 DEF Judgement

(* A call begins in a frame its own audit's invariant starts with.          *)
LEMMA PackBegins == Typed /\ Blank => RP!IInv
<1>1. SUFFICES ASSUME Typed, Blank PROVE RP!IInv
  OBVIOUS
<1>2. RP!Types /\ RP!Origin
  BY <1>1 DEF Typed
<1> QED
  BY <1>1, <1>2, Assumed, RP!WalkBegins DEF Blank

ChainStarts == pc = "genesis" /\ i = 1 /\ steps = {} /\ status = "pending"

LEMMA ChainBegins == Typed /\ ChainStarts /\ ChainBlank => CP!IInv
<1>1. SUFFICES ASSUME Typed, ChainStarts, ChainBlank PROVE CP!IInv
  OBVIOUS
<1>2. Each(Link, bundle.pack.records) \in Seq(CP!Record)
  BY <1>1, ReceiptsTyped, PackHanded
<1>3. bundle.prior \in R!Hashes \cup {NoHash}
  BY <1>1, DomainsAre DEF Typed, Bundle
<1> QED
  BY <1>1, <1>2, <1>3, Assumed, CP!WalkBegins DEF ChainStarts, ChainBlank

\* The summaries that are audited, if there are any.
LEMMA SummariesTyped ==
  ASSUME Typed
  PROVE  /\ metering # NoSummary => metering \in MP!Summary
         /\ settlement # NoSummary => settlement \in SP!Summary
         /\ sealed.metering \in MP!Summary /\ sealed.settlement \in SP!Summary
         /\ bundle.pack.org \in Org /\ MP!ProofsTyped /\ altered \in 0..MaxAlterations
<1>1. /\ bundle.metering \in MP!Summary \cup {NoSummary}
      /\ bundle.pack.metering \in MP!Summary \cup {NoSummary}
      /\ bundle.settlement \in SP!Summary \cup {NoSummary}
      /\ bundle.pack.settlement \in SP!Summary \cup {NoSummary} /\ bundle.pack.org \in Org
  BY ReceiptsTyped DEF Bundle, Pack
<1>2. sealed.metering \in MP!Summary /\ sealed.settlement \in SP!Summary
  BY DEF Typed, SealedEvidence
<1>3. MP!ProofsTyped
  BY ReceiptsTyped, PackHanded DEF MP!ProofsTyped
<1>4. altered \in 0..MaxAlterations
  BY DEF Typed, RP!Types
<1> QED
  BY <1>1, <1>2, <1>3, <1>4 DEF metering, settlement, Preferred

LEMMA MeteringBegins == Typed /\ Blank /\ SummaryBlank /\ metering # NoSummary => MP!WalkInv
<1>1. SUFFICES ASSUME Typed, Blank, SummaryBlank, metering # NoSummary PROVE MP!WalkInv
  OBVIOUS
<1>2. /\ metering \in MP!Summary /\ sealed.metering \in MP!Summary
      /\ bundle.pack.org \in Org \cup {NoSummary} /\ MP!ProofsTyped
      /\ altered \in 0..MaxAlterations
  BY <1>1, SummariesTyped
<1> QED
  BY <1>1, <1>2, Assumed, MP!WalkBegins DEF Blank, SummaryBlank

NothingSummed == computed = [gross |-> 0, net |-> 0, fee |-> 0] /\ pending = {}

\* The view a settlement's audit has of the metering.
LEMMA MeteringSeen ==
  ASSUME Typed, metering # NoSummary
  PROVE  LET shown == [org |-> metering.org,
                       meters |-> {metering.records[k].idem : k \in DOMAIN metering.records}]
         IN  shown \in [org : Org, meters : SUBSET [receipt : ReceiptId, unit : M!UnitType]]
<1>1. metering \in MP!Summary
  BY SummariesTyped
<1>2. metering.org \in Org /\ \A k \in DOMAIN metering.records : metering.records[k] \in MP!Record
  BY <1>1, Assumed, MP!RecordTyped DEF MP!Summary
<1>3. \A k \in DOMAIN metering.records :
        metering.records[k].idem \in [receipt : ReceiptId, unit : MP!UnitType]
  BY <1>2 DEF MP!Record
<1>4. M!UnitType = MP!UnitType
  BY DEF M!UnitType, MP!UnitType
<1> QED
  BY <1>2, <1>3, <1>4

LEMMA SettlementBegins == Typed /\ Blank /\ NothingSummed /\ Reconcilable => SP!WalkInv
<1>1. SUFFICES ASSUME Typed, Blank, NothingSummed, Reconcilable PROVE SP!WalkInv
  OBVIOUS
<1>2. /\ settlement \in SP!Summary /\ sealed.settlement \in SP!Summary
      /\ altered \in 0..MaxAlterations
  BY <1>1, SummariesTyped DEF Reconcilable
<1>3. [org |-> metering.org,
       meters |-> {metering.records[k].idem : k \in DOMAIN metering.records}]
        \in [org : Org, meters : SUBSET [receipt : ReceiptId, unit : M!UnitType]]
  BY <1>1, MeteringSeen DEF Reconcilable
<1> QED
  BY <1>1, <1>2, <1>3, Assumed, SP!WalkBegins DEF Blank, NothingSummed

------------------------------------------------------------------------------
(* A step of an audit, and the end of one.                                  *)

LEMMA Continues ==
  ASSUME IInv, UNCHANGED <<evidence, phase, reports>>, phase # "done", Frame'
  PROVE  IInv'
<1>1. Typed' /\ Changes' /\ phase' = phase /\ reports' = reports /\ Due' = Due
  BY SameTyped DEF IInv, Due
<1>2. \A name : Judgement(name)' = Judgement(name)
  BY SameHolds
<1>3. Reported'
  BY <1>1, <1>2 DEF IInv, Reported
<1> QED
  BY <1>1, <1>3 DEF IInv, Phase

LEMMA Returns ==
  ASSUME IInv, UNCHANGED evidence, NEW name \in Parts, Report(name, Judgement(name)),
         Due' = Due \cup {name}, phase' # "done", Frame', Phase'
  PROVE  IInv'
<1>1. Typed' /\ Changes'
  BY SameTyped DEF IInv
<1>2. \A n : Judgement(n)' = Judgement(n)
  BY SameHolds
<1>3. /\ DOMAIN reports' = DOMAIN reports \cup {name} /\ reports'[name] = Judgement(name)
      /\ \A n \in DOMAIN reports : n # name => reports'[n] = reports[n]
  BY DEF Report
<1>4. Reported'
  BY <1>2, <1>3 DEF IInv, Reported
<1> QED
  BY <1>1, <1>4 DEF IInv

(* The call begins with the pack.                                           *)
LEMMA SubmitStep == IInv /\ Submit => IInv'
<1>1. SUFFICES ASSUME IInv, Submit PROVE IInv'
  OBVIOUS
<1>2. /\ phase = "transit" /\ phase' = "pack" /\ UNCHANGED evidence /\ reports' = reports
      /\ pc' = "transit" /\ i' = 1 /\ steps' = {} /\ status' = "pending"
      /\ prevMs' = prevMs /\ seen' = seen /\ reuse' = reuse
      /\ computed' = computed /\ pending' = pending
  BY <1>1 DEF Submit, Begin, chainLocals, summaryLocals
<1>3. Typed' /\ Changes'
  BY <1>1, <1>2, SameTyped DEF IInv
<1>4. Blank'
  BY <1>2 DEF Blank
<1>5. (Typed /\ Blank)' => RP!IInv'
  BY PackBegins, PTL
<1>6. ChainBlank' /\ SummaryBlank'
  BY <1>1, <1>2 DEF IInv, Frame, ChainBlank, SummaryBlank
<1>7. Frame' /\ Phase'
  BY <1>2, <1>3, <1>4, <1>5, <1>6 DEF Frame, Phase
<1>8. Reported'
  <2>1. Due = {} /\ Due' = {}
    BY <1>2 DEF Due
  <2> QED
    BY <1>1, <1>2, <2>1 DEF IInv, Reported
<1> QED
  BY <1>3, <1>7, <1>8 DEF IInv

LEMMA VerifyPackStep == IInv /\ VerifyPack => IInv'
<1>1. SUFFICES ASSUME IInv, VerifyPack PROVE IInv'
  OBVIOUS
<1>2. /\ phase = "pack" /\ phase' = phase /\ UNCHANGED evidence /\ reports' = reports
      /\ prevMs' = prevMs /\ seen' = seen /\ reuse' = reuse
      /\ computed' = computed /\ pending' = pending /\ R!Walk
  BY <1>1 DEF VerifyPack, chainLocals, summaryLocals
<1>3. RP!IInv /\ ChainBlank /\ SummaryBlank
  BY <1>1, <1>2 DEF IInv, Frame
<1>4. RP!IInv'
  BY <1>2, <1>3, Assumed, PackWalkIs, RP!WalkStep
<1>5. Frame'
  BY <1>2, <1>3, <1>4 DEF Frame, ChainBlank, SummaryBlank
<1> QED
  BY <1>1, <1>2, <1>5, Continues

(* The pack's report is VALID for a supported envelope of genuine receipts.  *)
LEMMA PackJudged ==
  ASSUME Typed, RP!IInv, pc = "done"
  PROVE  status = Judgement("pack")
<1>1. status \in {"VALID", "INVALID"}
  BY Assumed, RP!VerdictIsFaults
<1> DEFINE ours == Each(Receipt, bundle.pack.records)
<1>2. status = "VALID" <=>
        /\ bundle.pack.envelope = "envelope.v1" /\ ours # << >>
        /\ \A k \in DOMAIN ours : RP!Genuine(ours[k])
  BY <1>1, Assumed, RP!VerdictIs
<1>3. /\ DOMAIN ours = DOMAIN bundle.pack.records
      /\ \A k \in DOMAIN ours : ours[k] = Receipt(bundle.pack.records[k])
      /\ ours = << >> <=> bundle.pack.records = << >>
  <2>1. /\ DOMAIN ours = DOMAIN bundle.pack.records /\ Len(ours) = Len(bundle.pack.records)
        /\ ours \in Seq(RP!Record) /\ bundle.pack.records \in Seq(PackRecord)
        /\ \A k \in DOMAIN bundle.pack.records : ours[k] = Receipt(bundle.pack.records[k])
    BY ReceiptsTyped, PackHanded
  <2> HIDE DEF ours
  <2> QED
    BY <2>1
<1> HIDE DEF ours
<1>4. status = "VALID" <=> PackHolds
  BY <1>2, <1>3 DEF PackHolds
<1> QED
  BY <1>1, <1>4 DEF Judgement, Skipped, Holds

LEMMA PackReturnsStep == IInv /\ PackReturns => IInv'
<1>1. SUFFICES ASSUME IInv, PackReturns PROVE IInv'
  OBVIOUS
<1>2. /\ phase = "pack" /\ pc = "done" /\ phase' = "chain" /\ UNCHANGED evidence
      /\ pc' = "genesis" /\ i' = 1 /\ steps' = {} /\ status' = "pending"
      /\ prevMs' = prevMs /\ seen' = seen /\ reuse' = reuse
      /\ computed' = computed /\ pending' = pending /\ Report("pack", status)
  BY <1>1 DEF PackReturns, Begin, chainLocals, summaryLocals
<1>3. Typed /\ RP!IInv /\ ChainBlank /\ SummaryBlank
  BY <1>1, <1>2 DEF IInv, Frame
<1>4. status = Judgement("pack")
  BY <1>2, <1>3, PackJudged
<1>5. Typed' /\ ChainStarts' /\ ChainBlank' /\ SummaryBlank'
  BY <1>2, <1>3, SameTyped DEF ChainStarts, ChainBlank, SummaryBlank
<1>6. (Typed /\ ChainStarts /\ ChainBlank)' => CP!IInv'
  BY ChainBegins, PTL
<1>7. Frame' /\ Phase'
  BY <1>2, <1>5, <1>6 DEF Frame, Phase
<1>8. Due' = Due \cup {"pack"} /\ "pack" \in Parts /\ phase' # "done"
  BY <1>2 DEF Due, Parts
<1> QED
  BY <1>1, <1>2, <1>4, <1>7, <1>8, Returns

LEMMA VerifyChainStep == IInv /\ VerifyChain => IInv'
<1>1. SUFFICES ASSUME IInv, VerifyChain PROVE IInv'
  OBVIOUS
<1>2. /\ phase = "chain" /\ phase' = phase /\ UNCHANGED evidence /\ reports' = reports
      /\ computed' = computed /\ pending' = pending /\ C!Walk
  BY <1>1 DEF VerifyChain, summaryLocals
<1>3. CP!IInv /\ SummaryBlank
  BY <1>1, <1>2 DEF IInv, Frame
<1>4. CP!Next
  BY <1>2, ChainWalkIs DEF CP!Next
<1>5. CP!IInv'
  BY <1>3, <1>4, Assumed, CP!InductiveStep
<1>6. Frame'
  BY <1>2, <1>3, <1>5 DEF Frame, SummaryBlank
<1> QED
  BY <1>1, <1>2, <1>6, Continues

LEMMA ChainReturnsStep == IInv /\ ChainReturns => IInv'
<1>1. SUFFICES ASSUME IInv, ChainReturns PROVE IInv'
  OBVIOUS
<1>2. /\ phase = "chain" /\ pc = "done" /\ phase' = "metering" /\ UNCHANGED evidence
      /\ pc' = "transit" /\ i' = 1 /\ steps' = {} /\ status' = "pending"
      /\ computed' = computed /\ pending' = pending /\ Report("chain", status)
  BY <1>1 DEF ChainReturns, Begin, summaryLocals
<1>3. Typed /\ CP!IInv /\ SummaryBlank
  BY <1>1, <1>2 DEF IInv, Frame
<1>4. status = Judgement("chain")
  <2>1. status # "pending"
    BY <1>2, <1>3 DEF CP!IInv, CP!Position
  <2>2. status \in {"VALID", "INVALID"} /\ (status = "VALID" <=> CP!Sound)
    BY <1>3, <2>1, Assumed, CP!VerdictIs
  <2> QED
    BY <2>2 DEF Judgement, Skipped, Holds
<1>5. Typed' /\ Blank' /\ SummaryBlank'
  BY <1>2, <1>3, SameTyped DEF Blank, SummaryBlank
<1>6. (Typed /\ Blank /\ SummaryBlank /\ metering # NoSummary)' => MP!WalkInv'
  BY MeteringBegins, PTL
<1>7. Frame' /\ Phase'
  BY <1>2, <1>5, <1>6 DEF Frame, Phase
<1>8. Due' = Due \cup {"chain"} /\ "chain" \in Parts /\ phase' # "done"
  BY <1>2 DEF Due, Parts
<1> QED
  BY <1>1, <1>2, <1>4, <1>7, <1>8, Returns

LEMMA VerifyMeteringStep == IInv /\ VerifyMetering => IInv'
<1>1. SUFFICES ASSUME IInv, VerifyMetering PROVE IInv'
  OBVIOUS
<1>2. /\ phase = "metering" /\ metering # NoSummary /\ phase' = phase
      /\ UNCHANGED evidence /\ reports' = reports /\ M!Walk
  BY <1>1 DEF VerifyMetering
<1>3. MP!WalkInv
  BY <1>1, <1>2 DEF IInv, Frame
<1>4. MP!WalkInv'
  BY <1>2, <1>3, Assumed, MeteringWalkIs, MP!WalkStep
<1>5. metering' = metering
  BY <1>2, SameBundle
<1>6. Frame'
  BY <1>2, <1>4, <1>5 DEF Frame
<1> QED
  BY <1>1, <1>2, <1>6, Continues

(* A summary's audit leaves its frame to the settlement's.                  *)
LEMMA SettlementFollows ==
  ASSUME IInv, BeginSettlement, NEW verdict, Report("metering", verdict),
         phase = "metering", verdict = Judgement("metering")
  PROVE  IInv'
<1>1. /\ phase' = "settlement" /\ UNCHANGED evidence
      /\ pc' = "transit" /\ i' = 1 /\ steps' = {} /\ status' = "pending"
      /\ computed' = [gross |-> 0, net |-> 0, fee |-> 0] /\ pending' = {}
  BY DEF BeginSettlement, Begin
<1>2. Typed' /\ Blank' /\ NothingSummed'
  BY <1>1, SameTyped DEF IInv, Blank, NothingSummed
<1>3. (Typed /\ Blank /\ NothingSummed /\ Reconcilable)' => SP!WalkInv'
  BY SettlementBegins, PTL
<1>4. Frame' /\ Phase'
  BY <1>1, <1>2, <1>3 DEF Frame, Phase
<1>5. Due' = Due \cup {"metering"} /\ "metering" \in Parts /\ phase' # "done"
  BY <1>1 DEF Due, Parts
<1> QED
  BY <1>1, <1>4, <1>5, Returns

LEMMA MeteringReturnsStep == IInv /\ (MeteringReturns \/ MeteringSkipped) => IInv'
<1>1. ASSUME IInv, MeteringReturns PROVE IInv'
  <2>1. /\ phase = "metering" /\ metering # NoSummary /\ pc = "done"
        /\ Report("metering", status) /\ BeginSettlement
    BY <1>1 DEF MeteringReturns
  <2>2. MP!WalkInv
    BY <1>1, <2>1 DEF IInv, Frame
  <2>3. status # "pending"
    BY <2>1, <2>2 DEF MP!WalkInv, MP!Control, MP!Verdict
  <2>4. status \in {"VALID", "INVALID"} /\ (status = "VALID" <=> MP!Tallies)
    BY <2>2, <2>3, Assumed, MP!VerdictIs
  <2>5. status = Judgement("metering")
    BY <2>1, <2>4 DEF Judgement, Skipped, Holds
  <2> QED
    BY <1>1, <2>1, <2>5, SettlementFollows
<1>2. ASSUME IInv, MeteringSkipped PROVE IInv'
  <2>1. /\ phase = "metering" /\ metering = NoSummary
        /\ Report("metering", "SKIPPED") /\ BeginSettlement
    BY <1>2 DEF MeteringSkipped
  <2>2. Judgement("metering") = "SKIPPED"
    BY <2>1 DEF Judgement, Skipped
  <2> QED
    BY <1>2, <2>1, <2>2, SettlementFollows
<1> QED
  BY <1>1, <1>2

LEMMA VerifySettlementStep == IInv /\ VerifySettlement => IInv'
<1>1. SUFFICES ASSUME IInv, VerifySettlement PROVE IInv'
  OBVIOUS
<1>2. /\ phase = "settlement" /\ Reconcilable /\ phase' = phase
      /\ UNCHANGED evidence /\ reports' = reports /\ S!Walk
  BY <1>1 DEF VerifySettlement
<1>3. SP!WalkInv
  BY <1>1, <1>2 DEF IInv, Frame
<1>4. SP!WalkInv'
  BY <1>2, <1>3, Assumed, SettlementWalkIs, SP!WalkStep
<1>5. Reconcilable'
  BY <1>2, SameBundle
<1>6. Frame'
  BY <1>2, <1>4, <1>5 DEF Frame
<1> QED
  BY <1>1, <1>2, <1>6, Continues

LEMMA SettlementReturnsStep == IInv /\ (SettlementReturns \/ SettlementSkipped) => IInv'
<1>1. ASSUME IInv, SettlementReturns PROVE status = Judgement("settlement")
  <2>1. phase = "settlement" /\ Reconcilable /\ pc = "done"
    BY <1>1 DEF SettlementReturns
  <2>2. SP!WalkInv
    BY <1>1, <2>1 DEF IInv, Frame
  <2>3. status # "pending"
    BY <2>1, <2>2 DEF SP!WalkInv, SP!Control, SP!Verdict
  <2>4. status = IF SP!BorneOut(settlement) THEN "VALID" ELSE "INVALID"
    BY <2>2, <2>3, Assumed, SP!VerdictIs
  <2> QED
    BY <2>1, <2>4 DEF Judgement, Skipped, Holds
<1>2. ASSUME IInv, SettlementSkipped PROVE Judgement("settlement") = "SKIPPED"
  BY <1>2 DEF SettlementSkipped, Judgement, Skipped
<1>3. SUFFICES ASSUME IInv, SettlementReturns \/ SettlementSkipped PROVE IInv'
  OBVIOUS
<1>4. /\ phase = "settlement" /\ phase' = "rollup" /\ UNCHANGED evidence
      /\ pc' = "transit" /\ i' = 1 /\ steps' = {} /\ status' = "pending"
      /\ Report("settlement", Judgement("settlement"))
  BY <1>1, <1>2, <1>3 DEF SettlementReturns, SettlementSkipped, Begin
<1>5. Frame' /\ Phase'
  BY <1>4 DEF Frame, Phase, Blank
<1>6. Due' = Due \cup {"settlement"} /\ "settlement" \in Parts /\ phase' # "done"
  BY <1>4 DEF Due, Parts
<1> QED
  BY <1>3, <1>4, <1>5, <1>6, Returns

(* rollup_overall is VALID exactly if every part there is holds.            *)
LEMMA OverallIs ==
  ASSUME Reported, phase = "rollup"
  PROVE  Overall(reports) = IF \A name \in Parts : Holds(name) THEN "VALID" ELSE "INVALID"
<1> DEFINE verdicts == {reports[n] : n \in DOMAIN reports}
<1>1. DOMAIN reports = Parts /\ \A name \in Parts : reports[name] = Judgement(name)
  BY DEF Reported, Due, Parts
<1>2. \A name : Skipped(name) => Holds(name)
  BY DEF Skipped, Holds, Reconcilable
<1>3. "INVALID" \in verdicts <=> \E name \in Parts : ~Holds(name)
  BY <1>1, <1>2 DEF Judgement
<1>4. ~(verdicts \subseteq {"SKIPPED"})
  <2>1. "pack" \in Parts /\ Judgement("pack") # "SKIPPED"
    BY DEF Parts, Judgement, Skipped
  <2> QED
    BY <1>1, <2>1
<1> HIDE DEF verdicts
<1>5. Overall(reports) = IF "INVALID" \in verdicts THEN "INVALID" ELSE "VALID"
  BY <1>4 DEF Overall, Rollup, verdicts
<1> QED
  BY <1>3, <1>5

LEMMA RollUpOverallStep == IInv /\ RollUpOverall => IInv'
<1>1. SUFFICES ASSUME IInv, RollUpOverall PROVE IInv'
  OBVIOUS
<1>2. /\ phase = "rollup" /\ phase' = "done" /\ UNCHANGED evidence
      /\ pc' = "transit" /\ i' = 1 /\ steps' = {} /\ status' = "pending"
      /\ Report("overall", Overall(reports))
  BY <1>1 DEF RollUpOverall, Begin
<1>3. Typed' /\ Changes' /\ Frame' /\ Phase'
  BY <1>1, <1>2, SameTyped DEF IInv, Frame, Phase, Blank
<1>4. /\ \A n : Judgement(n)' = Judgement(n)
      /\ \A n : Holds(n)' <=> Holds(n)
  BY <1>2, SameHolds
<1>5. /\ DOMAIN reports = Parts /\ \A n \in Parts : reports[n] = Judgement(n)
      /\ Overall(reports) = IF \A n \in Parts : Holds(n) THEN "VALID" ELSE "INVALID"
  BY <1>1, <1>2, OverallIs DEF IInv, Reported, Due, Parts
<1>6. /\ DOMAIN reports' = Parts \cup {"overall"} /\ reports'["overall"] = Overall(reports)
      /\ \A n \in Parts : reports'[n] = reports[n]
  BY <1>2, <1>5 DEF Report, Parts
<1>7. Due' = Parts \cup {"overall"}
  BY <1>2 DEF Due, Parts
<1>8. Reported'
  BY <1>4, <1>5, <1>6, <1>7 DEF Reported, Parts
<1> QED
  BY <1>3, <1>8 DEF IInv

LEMMA StutterStep == IInv /\ UNCHANGED vars => IInv'
<1>1. SUFFICES ASSUME IInv, UNCHANGED vars PROVE IInv'
  OBVIOUS
<1>2. /\ UNCHANGED evidence /\ phase' = phase /\ reports' = reports
      /\ pc' = pc /\ i' = i /\ steps' = steps /\ status' = status
      /\ prevMs' = prevMs /\ seen' = seen /\ reuse' = reuse
      /\ computed' = computed /\ pending' = pending
  BY <1>1 DEF vars, frame, chainLocals, summaryLocals
<1>3. Typed' /\ Changes' /\ Phase' /\ Due' = Due
  BY <1>1, <1>2, SameTyped DEF IInv, Phase, Due
<1>4. /\ \A n : Judgement(n)' = Judgement(n)
      /\ \A n : Holds(n)' <=> Holds(n)
  BY <1>2, SameHolds
<1>5. Reported'
  BY <1>1, <1>2, <1>3, <1>4 DEF IInv, Reported
<1>6. /\ Blank' <=> Blank
      /\ ChainBlank' <=> ChainBlank
      /\ SummaryBlank' <=> SummaryBlank
  BY <1>2 DEF Blank, ChainBlank, SummaryBlank
<1>7. RP!IInv => RP!IInv'
  BY <1>2, SameBundle, SameHanded, Assumed, RP!StutterStep DEF RP!vars
<1>8. CP!IInv => CP!IInv'
  BY <1>2, SameBundle, SameHanded, Assumed, CP!InductiveStep DEF CP!vars
<1>9. MP!WalkInv => MP!WalkInv'
  BY <1>2, SameBundle, SameHanded, Assumed, MP!WalkStutter DEF MP!vars
<1>10. SP!WalkInv => SP!WalkInv'
  BY <1>2, SameBundle, SameHanded, Assumed, SP!WalkStutter DEF SP!vars
<1>11. Frame'
  <2>1. Frame /\ Phase /\ metering' = metering /\ (Reconcilable' <=> Reconcilable)
    BY <1>1, <1>2, SameBundle DEF IInv
  <2>2. CASE phase = "transit"
    BY <1>2, <1>6, <2>1, <2>2 DEF Frame
  <2>3. CASE phase = "pack"
    BY <1>2, <1>6, <1>7, <2>1, <2>3 DEF Frame
  <2>4. CASE phase = "chain"
    BY <1>2, <1>6, <1>8, <2>1, <2>4 DEF Frame
  <2>5. CASE phase = "metering"
    BY <1>2, <1>6, <1>9, <2>1, <2>5 DEF Frame
  <2>6. CASE phase = "settlement"
    BY <1>2, <1>6, <1>10, <2>1, <2>6 DEF Frame
  <2>7. CASE phase \in {"rollup", "done"}
    BY <1>2, <1>6, <2>1, <2>7 DEF Frame
  <2> QED
    BY <2>1, <2>2, <2>3, <2>4, <2>5, <2>6, <2>7 DEF Phase
<1> QED
  BY <1>3, <1>5, <1>11 DEF IInv

LEMMA InductiveStep == IInv /\ [Next]_vars => IInv'
<1>1. IInv /\ VerifyAll => IInv'
  BY VerifyPackStep, PackReturnsStep, VerifyChainStep, ChainReturnsStep, VerifyMeteringStep,
     MeteringReturnsStep, VerifySettlementStep, SettlementReturnsStep, RollUpOverallStep
     DEF VerifyAll
<1> QED
  BY <1>1, AlterStep, SubmitStep, StutterStep DEF Next

(* Whatever the platform makes, whatever becomes of it on the way: the frame *)
(* is the running audit's, and each report is the judgement of its part.     *)
THEOREM AuditorInductive == Spec => []IInv
  BY InitIInv, InductiveStep, PTL DEF Spec

------------------------------------------------------------------------------
(* What the reports say.                                                    *)

LEMMA ReportsAre ==
  ASSUME IInv
  PROVE  /\ \A n \in DOMAIN reports : reports[n] \in Statuses
         /\ \A n \in DOMAIN reports \cap Parts : reports[n] = Judgement(n)
<1>1. \A n : Judgement(n) \in Statuses
  BY DEF Judgement, Statuses
<1>2. \A n \in Due : n \in Parts \/ (n = "overall" /\ phase = "done")
  BY DEF IInv, Phase, Due, Parts
<1>3. phase = "done" => reports["overall"] \in Statuses
  BY DEF IInv, Reported, Statuses
<1> QED
  BY <1>1, <1>2, <1>3 DEF IInv, Reported

(* Every variable stays in its domain, and the frame is that of the audit    *)
(* that is running.                                                         *)
THEOREM AuditorTypeCorrect == Spec => []TypeOK
<1>1. IInv => TypeOK
  <2>1. SUFFICES ASSUME IInv PROVE TypeOK
    OBVIOUS
  <2>2. directory \in Directories /\ altered \in 0..MaxAlterations
    BY <2>1 DEF IInv, Typed, RP!Types
  <2>3. CASE phase = "pack"
    <3>1. R!TypeOK
      BY <2>1, <2>3, Assumed, RP!IInvTypes, PackTypesAre DEF IInv, Frame
    <3> QED
      BY <2>1, <2>2, <2>3, <3>1, ReportsAre DEF TypeOK, IInv, Reported, Due
  <2>4. CASE phase = "chain"
    <3>1. C!TypeOK
      BY <2>1, <2>4, ChainTypesAre DEF IInv, Frame, CP!IInv
    <3> QED
      BY <2>1, <2>2, <2>4, <3>1, ReportsAre DEF TypeOK, IInv, Reported, Due
  <2>5. CASE phase = "metering" /\ metering # NoSummary
    <3>1. M!TypeOK
      BY <2>1, <2>5, MeteringTypesAre DEF IInv, Frame, MP!WalkInv, MP!Typed
    <3> QED
      BY <2>1, <2>2, <2>5, <3>1, ReportsAre DEF TypeOK, IInv, Reported, Due
  <2>6. CASE phase = "settlement" /\ Reconcilable
    <3>1. S!TypeOK
      BY <2>1, <2>6, SettlementTypesAre DEF IInv, Frame, SP!WalkInv, SP!Typed
    <3> QED
      BY <2>1, <2>2, <2>6, <3>1, ReportsAre DEF TypeOK, IInv, Reported, Due
  <2>7. CASE /\ phase # "pack" /\ phase # "chain"
             /\ ~(phase = "metering" /\ metering # NoSummary)
             /\ ~(phase = "settlement" /\ Reconcilable)
    <3>1. steps = {} /\ status = "pending"
      BY <2>1, <2>7 DEF IInv, Phase, Frame, Blank
    <3> QED
      BY <2>1, <2>2, <2>7, <3>1, ReportsAre DEF TypeOK, IInv, Reported, Due, Phase, Parts
  <2> QED
    BY <2>3, <2>4, <2>5, <2>6, <2>7
<1> QED
  BY <1>1, AuditorInductive, PTL

(* A part goes without a report only when it is not there at all.            *)
THEOREM NothingSkippedIfThere == Spec => []SkippedOnlyIfAbsent
<1>1. IInv => SkippedOnlyIfAbsent
  <2>1. SUFFICES ASSUME IInv PROVE SkippedOnlyIfAbsent
    OBVIOUS
  <2>2. "metering" \in Parts /\ "settlement" \in Parts
    BY DEF Parts
  <2>3. \A n \in {"metering", "settlement"} : Judgement(n) = "SKIPPED" <=> Skipped(n)
    BY DEF Judgement
  <2>4. /\ metering = NoSummary <=> bundle.metering = NoSummary /\ bundle.pack.metering = NoSummary
        /\ settlement = NoSummary <=>
             bundle.settlement = NoSummary /\ bundle.pack.settlement = NoSummary
    BY DEF metering, settlement, Preferred
  <2>5. "metering" \in DOMAIN reports =>
          (reports["metering"] = "SKIPPED" <=> metering = NoSummary)
    BY <2>1, <2>2, <2>3, ReportsAre DEF Skipped
  <2>6. "settlement" \in DOMAIN reports =>
          (reports["settlement"] = "SKIPPED" <=> metering = NoSummary \/ settlement = NoSummary)
    BY <2>1, <2>2, <2>3, ReportsAre DEF Skipped, Reconcilable
  <2> QED
    BY <2>4, <2>5, <2>6 DEF SkippedOnlyIfAbsent
<1> QED
  BY <1>1, AuditorInductive, PTL

\* What a VALID verdict over the four reports establishes.
LEMMA OverallHolds ==
  ASSUME IInv, Finished, reports["overall"] = "VALID"
  PROVE  /\ PackHolds /\ CP!Sound
         /\ metering # NoSummary => MP!Tallies
         /\ Reconcilable => SP!BorneOut(settlement)
<1>1. \A name \in Parts : Holds(name)
  BY DEF IInv, Reported, Finished
<1>2. Holds("pack") /\ Holds("chain") /\ Holds("metering") /\ Holds("settlement")
  BY <1>1 DEF Parts
<1> QED
  BY <1>2 DEF Holds

(* Each payment of a VALID bundle leads back, over a metering record that    *)
(* was itself audited, to a receipt the platform signed, whatever was        *)
(* altered on the way and however often.                                    *)
THEOREM MoneyIsProven == Spec => []SettledMoneyIsProven
<1>1. IInv => SettledMoneyIsProven
  <2>1. SUFFICES ASSUME IInv, Finished, reports["overall"] = "VALID",
                        reports["settlement"] # "SKIPPED"
                 PROVE  /\ \A l \in DOMAIN settlement.lines : \E m \in DOMAIN metering.records :
                             /\ metering.records[m].idem = settlement.lines[l].meter
                             /\ Proven(metering.records[m])
                        /\ settlement.org = metering.org /\ metering.org = bundle.pack.org
    BY DEF SettledMoneyIsProven
  <2>2. Reconcilable
    <3>1. "settlement" \in DOMAIN reports \cap Parts
      BY <2>1 DEF IInv, Reported, Due, Parts, Finished
    <3> QED
      BY <2>1, <3>1, ReportsAre DEF Judgement, Skipped
  <2>3. PackHolds /\ MP!Tallies /\ SP!BorneOut(settlement)
    BY <2>1, <2>2, OverallHolds DEF Reconcilable
  <2>4. metering \in MP!Summary /\ bundle.pack.org \in Org /\ MP!ProofsTyped
    BY <2>1, <2>2, SummariesTyped DEF IInv, Reconcilable
  <2>5. settlement.org = metering.org
    BY <2>3 DEF SP!BorneOut
  <2>6. metering.org = bundle.pack.org
    BY <2>3, <2>4, AuditorAssumption DEF MP!Tallies, MP!OrgWrong, AuditorAssumption
  <2>7. ASSUME NEW m \in DOMAIN metering.records PROVE Proven(metering.records[m])
    <3>1. metering.records[m] \in MP!Record /\ MP!Right(metering.records[m])
      BY <2>3, <2>4, Assumed, MP!RecordTyped DEF MP!Tallies
    <3> DEFINE proofs == Each(Proof, bundle.pack.records)
    <3>2. \E p \in DOMAIN proofs : MP!BearsOut(proofs[p], metering.records[m])
      BY <2>4, <3>1, Assumed, MP!RightIsBorneOut
    <3>3. /\ DOMAIN proofs = DOMAIN bundle.pack.records
          /\ \A p \in DOMAIN proofs : proofs[p] = Proof(bundle.pack.records[p])
      BY <2>1, ReceiptsTyped, PackHanded DEF IInv
    <3> HIDE DEF proofs
    <3>4. PICK p \in DOMAIN bundle.pack.records :
            MP!BearsOut(Proof(bundle.pack.records[p]), metering.records[m])
      BY <3>2, <3>3
    <3>5. M!BearsOut(Proof(bundle.pack.records[p]), metering.records[m])
      BY <3>4, BearsOutIs
    <3>6. R!Genuine(Receipt(bundle.pack.records[p]))
      BY <2>3, GenuineIs DEF PackHolds
    <3> QED
      BY <3>5, <3>6 DEF Proven
  <2>8. ASSUME NEW l \in DOMAIN settlement.lines
        PROVE  \E m \in DOMAIN metering.records :
                 metering.records[m].idem = settlement.lines[l].meter
    <3>1. SP!Right(settlement, l)
      BY <2>3 DEF SP!BorneOut
    <3> QED
      BY <3>1 DEF SP!Right
  <2> QED
    BY <2>5, <2>6, <2>7, <2>8
<1> QED
  BY <1>1, AuditorInductive, PTL

------------------------------------------------------------------------------
(* What the bundle deserves.                                                *)

\* A bundle whose parts all hold is sound.
LEMMA HoldingIsSound ==
  ASSUME IInv, \A name \in Parts : Holds(name)
  PROVE  BundleSound
<1>1. /\ PackHolds /\ CP!Sound /\ (metering = NoSummary \/ MP!Tallies)
      /\ ~Reconcilable \/ SP!BorneOut(settlement)
  <2>1. Holds("pack") /\ Holds("chain") /\ Holds("metering") /\ Holds("settlement")
    BY DEF Parts
  <2> QED
    BY <2>1 DEF Holds
<1>2. PackSound
  BY <1>1, GenuineIs DEF PackHolds, PackSound
<1>3. C!Sound
  BY <1>1, SoundIs
<1>4. ASSUME metering # NoSummary PROVE M!BorneOut
  <2>1. metering \in MP!Summary /\ MP!ProofsTyped /\ MP!Tallies
    BY <1>1, <1>4, SummariesTyped DEF IInv
  <2> QED
    BY <2>1, Assumed, MP!TalliesIsBorneOut, BorneOutIs
<1>5. ASSUME Reconcilable PROVE S!Accounted
  <2>1. settlement \in SP!Summary /\ SP!BorneOut(settlement)
    BY <1>1, <1>5, SummariesTyped DEF IInv, Reconcilable
  <2> QED
    BY <2>1, Assumed, SP!BorneOutAccounts, AccountedIs
<1> QED
  BY <1>2, <1>3, <1>4, <1>5 DEF BundleSound

\* What is audited of a bundle that nobody changed.
LEMMA AsMade ==
  ASSUME Typed, Untouched
  PROVE  /\ metering \in {NoSummary, sealed.metering}
         /\ settlement \in {NoSummary, sealed.settlement}
         /\ bundle.pack.records = sealed.records /\ bundle.prior = sealed.prior
         /\ bundle.pack.org = sealed.org /\ bundle.pack.envelope = "envelope.v1"
  BY DEF Untouched, ReceiptsSealed, MeteringSealed, SettlementSealed, Meterings, Settlements,
         metering, settlement, Preferred

(* Every part of a bundle as the platform made it holds.                    *)
LEMMA FlawlessHolds ==
  ASSUME IInv, BundleFlawless
  PROVE  \A name \in Parts : Holds(name)
<1>1. Typed /\ Untouched
  BY DEF IInv, Changes, BundleFlawless
<1>2. PICK plan \in Plans : sealed = Made(plan)
  BY <1>1 DEF Typed
<1>3. /\ ChainedFrom(bundle.pack.records, plan) /\ bundle.prior = plan.prior
      /\ sealed.org = plan.org /\ sealed.metering = MeteringOf(plan, bundle.pack.records)
      /\ sealed.settlement =
           S!Settle(plan.org, plan.schema, plan.agreement, plan.agreement.parts)
  BY <1>1, <1>2, AsMade, MadeIs
<1>4. PackHolds
  <2>1. ASSUME NEW k \in DOMAIN bundle.pack.records
        PROVE  RP!Genuine(Receipt(bundle.pack.records[k]))
    <3>1. RP!Verifiable(Receipt(bundle.pack.records[k]))
      BY <1>1, <2>1, AsMade, VerifiableIs DEF BundleFlawless
    <3>2. /\ k \in DOMAIN Each(Receipt, sealed.records)
          /\ Each(Receipt, sealed.records)[k] = Receipt(bundle.pack.records[k])
      BY <1>1, <2>1, AsMade, ReceiptsTyped, PackHanded
    <3>3. RP!Plain(Receipt(bundle.pack.records[k])) = Receipt(bundle.pack.records[k])
      BY <1>1, <2>1, AsMade, SealedPlain
    <3> QED
      BY <3>1, <3>2, <3>3 DEF RP!Genuine, RP!Issued
  <2> QED
    BY <1>1, <1>3, <2>1, AsMade DEF PackHolds, ChainedFrom
<1>5. CP!Sound
  BY <1>3, SealedChainSound
<1>6. /\ MP!HonestSummary(sealed.metering) /\ MP!DistinctReceipts /\ sealed.metering.org = plan.org
      /\ DOMAIN sealed.metering.records = DOMAIN plan.bills
      /\ \A k \in DOMAIN plan.bills : sealed.metering.records[k].idem = M!IdemKey(plan.bills[k])
  BY <1>3, SealedMeteringHonest
<1>7. ASSUME metering # NoSummary PROVE MP!Tallies
  <2>1. metering = sealed.metering /\ bundle.pack.org = metering.org
    BY <1>1, <1>3, <1>6, <1>7, AsMade
  <2> QED
    BY <1>6, <2>1, Assumed, MP!HonestTallies
<1>8. ASSUME Reconcilable PROVE SP!BorneOut(settlement)
  <2>1. metering = sealed.metering /\ settlement = sealed.settlement
    BY <1>1, <1>8, AsMade DEF Reconcilable
  <2>2. Accountable(plan)
    BY PlanIs
  <2>3. DOMAIN plan.agreement.gross
          \subseteq {metering.records[k].idem : k \in DOMAIN metering.records}
    BY <1>6, <2>1, <2>2 DEF Accountable
  <2>4. S!RoundedAlike(settlement)
    BY <2>1 DEF BundleFlawless
  <2> QED
    BY <1>3, <1>6, <2>1, <2>3, <2>4, SealedSettlementRight
<1> QED
  BY <1>4, <1>5, <1>7, <1>8 DEF Holds, Parts

\* A genuine record's text is that of its payload: nothing panics over it.
LEMMA GenuineText ==
  ASSUME Typed, NEW r \in RP!Record, RP!Genuine(r)
  PROVE  r.canonical = R!Canon(r.payload)
<1>1. PICK p \in RP!Payload, id \in KeyId : RP!Plain(r) = RP!Seal(p, id)
  BY DEF Typed, RP!Origin, RP!Genuine, RP!Issued
<1>2. RP!Plain(r).payload = p /\ RP!Plain(r).canonical = RP!Canon(p)
  BY <1>1, SealParts
<1>3. RP!Plain(r).payload = r.payload /\ RP!Plain(r).canonical = r.canonical
  BY PlainFields
<1> QED
  BY <1>2, <1>3, DomainsAre

LEMMA SameDeserts ==
  ASSUME UNCHANGED evidence
  PROVE  BundleFlawless' = BundleFlawless /\ BundleSound' = BundleSound
<1>1. \A r : R!Verifiable(Receipt(r))' <=> R!Verifiable(Receipt(r))
  BY SameBundle DEF R!Verifiable, R!Lookup, R!OutsideWindow, R!Past
<1>2. BundleFlawless' <=> BundleFlawless
  BY <1>1, SameBundle DEF BundleFlawless
<1>3. PackSound' <=> PackSound
  <2>1. R!Issued' = R!Issued
    BY SameHanded DEF R!Issued
  <2>2. \A r : R!Genuine(Receipt(r))' <=> R!Genuine(Receipt(r))
    BY <1>1, <2>1 DEF R!Genuine
  <2> QED
    BY <2>2, SameBundle DEF PackSound
<1>4. C!Sound' <=> C!Sound
  BY SameBundle, SameHanded DEF C!Sound, C!Anchored, C!Linked, C!InOrder,
       C!NoncesDistinct, C!Ordered
<1>5. M!BorneOut' <=> M!BorneOut
  <2>1. \A u : M!Billed(metering, u)' = M!Billed(metering, u)
    BY SameBundle
  <2>2. \A p, m : M!BearsOut(p, m)' <=> M!BearsOut(p, m)
    OBVIOUS
  <2>3. M!ClaimedUnits' = M!ClaimedUnits
    BY SameBundle DEF M!ClaimedUnits
  <2> QED
    BY <2>1, <2>2, <2>3, SameBundle, SameHanded DEF M!BorneOut, M!Parse
<1>6. S!Accounted' <=> S!Accounted
  BY SameBundle DEF S!Accounted, S!Lines
<1>7. BundleSound' <=> BundleSound
  BY <1>3, <1>4, <1>5, <1>6, SameBundle DEF BundleSound
<1>8. /\ BundleFlawless \in BOOLEAN /\ BundleFlawless' \in BOOLEAN
      /\ BundleSound \in BOOLEAN /\ BundleSound' \in BOOLEAN
  BY DEF BundleFlawless, BundleSound, PackSound
<1> QED
  BY <1>2, <1>7, <1>8

LEMMA Deserved ==
  ASSUME IInv
  PROVE  Promise!Evidence
<1>1. BundleFlawless => BundleSound
  BY FlawlessHolds, HoldingIsSound
<1>2. BundleFlawless \in BOOLEAN
  BY DEF BundleFlawless
<1>3. BundleSound \in BOOLEAN
  BY DEF BundleSound, PackSound
<1> QED
  BY <1>1, <1>2, <1>3 DEF Promise!Evidence

\* The verdict over the reports is one that is deserved.
LEMMA OverallDeserved ==
  ASSUME IInv, Finished
  PROVE  /\ reports["overall"] \in {"VALID", "INVALID"}
         /\ reports["overall"] = "VALID" => BundleSound
         /\ BundleFlawless => reports["overall"] = "VALID"
<1>1. reports["overall"] = IF \A name \in Parts : Holds(name) THEN "VALID" ELSE "INVALID"
  BY DEF IInv, Reported, Finished
<1> QED
  BY <1>1, FlawlessHolds, HoldingIsSound

(* Whatever the platform makes and whatever is changed of it, verify_all     *)
(* answers once, VALID for a flawless bundle and for no unsound one, and it *)
(* panics over no flawless one.                                            *)
THEOREM VerifyAllKeepsPromise == Spec => Promise!Spec
<1>1. Init => Promise!Init
  <2>1. SUFFICES ASSUME Init PROVE Promise!Init
    OBVIOUS
  <2>2. Promise!Evidence
    BY <2>1, InitIInv, Deserved
  <2> QED
    BY <2>1, <2>2 DEF Promise!Init, Init, Panicked, Finished
<1>2. IInv /\ IInv' /\ [Next]_vars => [Promise!Next]_Promise!vars
  <2>1. SUFFICES ASSUME IInv, IInv', [Next]_vars PROVE [Promise!Next]_Promise!vars
    OBVIOUS
  <2>2. Promise!Evidence'
    <3>1. IInv' => Promise!Evidence'
      BY Deserved, PTL
    <3> QED
      BY <2>1, <3>1
  <2>3. UNCHANGED evidence =>
          BundleFlawless' = BundleFlawless /\ BundleSound' = BundleSound
    BY SameDeserts
  <2>4. CASE Alter
    <3>1. phase = "transit" /\ phase' = "transit"
      BY <2>4 DEF Alter
    <3> QED
      BY <2>2, <3>1 DEF Promise!Next, Promise!Transit, Panicked, Finished
  <2>5. CASE Submit
    <3>1. phase = "transit" /\ phase' = "pack" /\ pc' = "transit" /\ UNCHANGED evidence
      BY <2>5 DEF Submit, Begin
    <3> QED
      BY <2>3, <3>1 DEF Promise!Next, Promise!Call, Panicked, Finished
  <2>6. CASE VerifyPack
    <3>1. phase = "pack" /\ phase' = "pack" /\ UNCHANGED evidence /\ R!Walk /\ pc # "panicked"
      BY <2>6 DEF VerifyPack
    <3>2. ASSUME pc' = "panicked" PROVE ~BundleFlawless
      <4>1. pc = "canonical" /\ R!rec.canonical # R!Canon(R!rec.payload)
        BY <3>1, <3>2 DEF R!Walk, R!OpenPack, R!CanonicalMatches, R!CanonicalDiffers,
           R!CanonicalPanics, R!CheckAfterHash, R!CheckKey, R!CheckSignature, R!RollUp, R!Judge
      <4>2. i \in DOMAIN bundle.pack.records
        <5>1. RP!IInv
          BY <2>1, <3>1 DEF IInv, Frame
        <5>2. i \in 1..Len(Each(Receipt, bundle.pack.records))
          BY <4>1, <5>1 DEF RP!IInv, RP!Position, RP!Points
        <5> QED
          BY <2>1, <5>2, ReceiptsTyped, PackHanded DEF IInv
      <4>3. R!rec = Receipt(bundle.pack.records[i])
        BY <2>1, <4>2, ReceiptsTyped, PackHanded DEF R!rec, IInv
      <4>4. ASSUME BundleFlawless PROVE FALSE
        <5>1. PackHolds
          BY <2>1, <4>4, FlawlessHolds DEF Holds, Parts
        <5>2. R!rec \in RP!Record
          BY <2>1, <4>2, <4>3, ReceiptsTyped, RecordHanded DEF IInv
        <5> QED
          BY <2>1, <4>1, <4>2, <4>3, <5>1, <5>2, GenuineText DEF PackHolds, IInv
      <4> QED
        BY <4>4
    <3> QED
      BY <2>3, <3>1, <3>2 DEF Promise!Next, Promise!Answer, Promise!vars, Panicked, Finished
  <2>7. CASE RollUpOverall
    <3>1. /\ phase = "rollup" /\ phase' = "done" /\ UNCHANGED evidence
          /\ pc' = "transit"
      BY <2>7 DEF RollUpOverall, Begin
    <3>2. (IInv /\ Finished)' =>
            (/\ reports["overall"] \in {"VALID", "INVALID"}
             /\ reports["overall"] = "VALID" => BundleSound
             /\ BundleFlawless => reports["overall"] = "VALID")'
      BY OverallDeserved, PTL
    <3>3. /\ reports'["overall"] \in {"VALID", "INVALID"}
          /\ reports'["overall"] = "VALID" => BundleSound'
          /\ BundleFlawless' => reports'["overall"] = "VALID"
      BY <2>1, <3>1, <3>2 DEF Finished
    <3> QED
      BY <2>3, <3>1, <3>3 DEF Promise!Next, Promise!Answer, Panicked, Finished
  <2>8. CASE VerifyAll /\ ~VerifyPack /\ ~RollUpOverall
    <3>1. /\ phase # "transit" /\ phase' # "transit" /\ phase # "done" /\ phase' # "done"
          /\ ~Panicked /\ ~Panicked' /\ UNCHANGED evidence
      BY <2>8 DEF VerifyAll, VerifyPack, RollUpOverall, PackReturns, VerifyChain, ChainReturns,
         VerifyMetering, MeteringReturns, MeteringSkipped, VerifySettlement, SettlementReturns,
         SettlementSkipped, BeginSettlement, Begin, Panicked
    <3> QED
      BY <2>3, <3>1 DEF Promise!vars, Finished
  <2>9. CASE UNCHANGED vars
    <3>1. UNCHANGED evidence /\ phase' = phase /\ pc' = pc /\ reports' = reports
      BY <2>9 DEF vars, frame
    <3> QED
      BY <2>3, <3>1 DEF Promise!vars, Panicked, Finished
  <2> QED
    BY <2>1, <2>4, <2>5, <2>6, <2>7, <2>8, <2>9 DEF Next
<1> QED
  BY <1>1, <1>2, AuditorInductive, PTL DEF Spec, Promise!Spec

------------------------------------------------------------------------------
(* One change.                                                              *)

\* A record whose signature decodes to another's, and agrees with it otherwise.
LEMMA PlainRecord ==
  ASSUME NEW r \in PackRecord, NEW s \in PackRecord,
         \A g \in {"payload", "keyId", "canonical", "afterHash", "before"} : r[g] = s[g],
         RP!Decoded(r.signature) = s.signature
  PROVE  RP!Plain(r) = s
<1>1. RP!Plain(r) = [r EXCEPT !.signature = s.signature]
  BY DEF RP!Plain
<1>2. /\ r.payload = s.payload /\ r.keyId = s.keyId /\ r.canonical = s.canonical
      /\ r.afterHash = s.afterHash /\ r.before = s.before
  OBVIOUS
<1> QED
  BY <1>1, <1>2 DEF PackRecord

\* Receipts a field, a link or the last of them away from the sealed ones, and
\* genuine and chained all the same, are the sealed ones, but for the last and
\* for "=" signs after a signature.
LEMMA ReceiptsOneAwayKept ==
  ASSUME IInv, PackHolds, CP!Sound, ReceiptsOneAway
  PROVE  /\ \A k \in DOMAIN bundle.pack.records :
              RP!Plain(bundle.pack.records[k]) = sealed.records[k]
         /\ bundle.prior = sealed.prior
<1> DEFINE rs == bundle.pack.records
           ss == sealed.records
           links == Each(Link, rs)
<1>1. PICK plan \in Plans : sealed = Made(plan)
  BY DEF IInv, Typed
<1>2. /\ ss # << >> /\ DOMAIN ss = DOMAIN plan.receipts /\ sealed.prior = plan.prior
      /\ \A k \in DOMAIN ss : /\ ss[k].payload = plan.receipts[k].payload
                              /\ ss[k].before = IF k = 1 THEN plan.prior ELSE ss[k - 1].afterHash
      /\ InTurn(plan.receipts)
  BY <1>1, MadeIs, PlanIs DEF ChainedFrom
<1>3. /\ rs \in Seq(PackRecord) /\ ss \in Seq(PackRecord)
      /\ DOMAIN rs = 1..Len(rs) /\ DOMAIN ss = 1..Len(ss) /\ Len(rs) \in Nat /\ Len(ss) \in Nat
      /\ \A k \in DOMAIN rs : rs[k] \in PackRecord
      /\ \A k \in DOMAIN ss : ss[k] \in PackRecord
  BY ReceiptsTyped DEF IInv
<1>4. /\ Len(links) = Len(rs) /\ DOMAIN links = DOMAIN rs
      /\ \A k \in DOMAIN rs : links[k] = Link(rs[k])
  BY <1>3, PackHanded
<1> HIDE DEF rs, ss, links
<1>5. \A k \in DOMAIN rs : /\ links[k].before = rs[k].before
                           /\ links[k].after = rs[k].afterHash
                           /\ links[k].nonce = rs[k].payload.body.nonce
  BY <1>3, <1>4, RecordHanded
<1>6. /\ links # << >> /\ links[1].before = bundle.prior
      /\ \A k \in 2..Len(links) : links[k].before = links[k - 1].after
      /\ \A j, k \in 1..Len(links) : links[j].nonce = links[k].nonce => j = k
  BY DEF CP!Sound, CP!Anchored, CP!Linked, CP!NoncesDistinct, links, rs
<1>7. /\ rs # << >> /\ 1 \in DOMAIN rs
      /\ rs[1].before = bundle.prior
      /\ \A k \in 2..Len(rs) : rs[k].before = rs[k - 1].afterHash
      /\ \A j, k \in DOMAIN rs : rs[j].payload.body.nonce = rs[k].payload.body.nonce => j = k
  <2>1. rs # << >> /\ 1 \in DOMAIN rs
    BY <1>3 DEF PackHolds, rs
  <2>2. \A k \in 2..Len(rs) : k \in DOMAIN rs /\ k - 1 \in DOMAIN rs
    BY <1>3
  <2>3. \A k \in 2..Len(rs) : rs[k].before = rs[k - 1].afterHash
    BY <1>4, <1>5, <1>6, <2>2
  <2>4. \A j, k \in DOMAIN rs : rs[j].payload.body.nonce = rs[k].payload.body.nonce => j = k
    BY <1>3, <1>4, <1>5, <1>6
  <2> QED
    BY <1>5, <1>6, <2>1, <2>3, <2>4
<1>8. 1 \in DOMAIN ss /\ ss[1].before = sealed.prior
      /\ \A k \in 2..Len(ss) : ss[k].before = ss[k - 1].afterHash
  BY <1>2, <1>3
<1>9. \A k \in DOMAIN ss : RP!Plain(ss[k]) = ss[k]
  <2>1. SUFFICES ASSUME NEW k \in DOMAIN ss PROVE RP!Plain(ss[k]) = ss[k]
    OBVIOUS
  <2>2. RP!Decoded(ss[k].signature) = ss[k].signature
    BY SealedPlain DEF ss, IInv
  <2> QED
    BY <1>3, <2>2, PlainRecord
<1>10. CASE rs = ss
  BY <1>7, <1>8, <1>9, <1>10 DEF rs, ss
<1>11. ASSUME bundle.prior = sealed.prior, rs = SubSeq(ss, 1, Len(ss) - 1)
       PROVE  \A k \in DOMAIN rs : RP!Plain(rs[k]) = ss[k]
  <2>1. \A k \in DOMAIN rs : k \in DOMAIN ss /\ rs[k] = ss[k]
    BY <1>3, <1>11
  <2> QED
    BY <1>9, <2>1
<1>12. ASSUME bundle.prior = sealed.prior, NEW n \in DOMAIN ss, NEW f \in R!Fields \cup {"before"},
              rs = [ss EXCEPT ![n][f] = rs[n][f]]
       PROVE  \A k \in DOMAIN rs : RP!Plain(rs[k]) = ss[k]
  <2>1. /\ DOMAIN rs = DOMAIN ss /\ n \in DOMAIN rs
        /\ \A k \in DOMAIN ss : k # n => rs[k] = ss[k]
        /\ rs[n] = [ss[n] EXCEPT ![f] = rs[n][f]]
    BY <1>3, <1>12
  <2>2. \A g \in (R!Fields \cup {"before"}) \ {f} : rs[n][g] = ss[n][g]
    <3>1. \A g \in R!Fields \cup {"before"} : g \in DOMAIN ss[n]
      BY <1>3 DEF PackRecord, R!Fields
    <3> QED
      BY <2>1, <3>1
  <2>3. CASE f = "before"
    <3>1. rs[n].before = ss[n].before
      <4>1. CASE n = 1
        BY <1>7, <1>8, <1>12, <4>1
      <4>2. CASE n # 1
        <5>1. n \in 2..Len(rs) /\ n \in 2..Len(ss) /\ n - 1 \in DOMAIN ss /\ n - 1 # n
          BY <1>3, <2>1, <4>2
        <5>2. rs[n - 1] = ss[n - 1]
          BY <2>1, <5>1
        <5> QED
          BY <1>7, <1>8, <5>1, <5>2
      <4> QED
        BY <4>1, <4>2
    <3>2. \A g \in R!Fields \cup {"before"} : rs[n][g] = ss[n][g]
      BY <2>2, <2>3, <3>1
    <3>3. rs[n].signature = ss[n].signature
      BY <3>2 DEF R!Fields
    <3>4. RP!Decoded(rs[n].signature) = ss[n].signature
      BY <3>3, SealedPlain DEF ss, IInv
    <3>5. RP!Plain(rs[n]) = ss[n]
      BY <1>3, <2>1, <3>2, <3>4, PlainRecord DEF R!Fields
    <3> QED
      BY <1>9, <2>1, <3>5
  <2>4. CASE f # "before"
    <3>1. RP!Genuine(Receipt(rs[n])) /\ Receipt(rs[n]) \in RP!Record
      BY <1>3, <2>1, RecordHanded DEF PackHolds, rs
    <3>2. PICK j \in DOMAIN ss : RP!Plain(Receipt(rs[n])) = Receipt(ss[j])
      <4>1. /\ DOMAIN Each(Receipt, ss) = DOMAIN ss
            /\ \A k \in DOMAIN ss : Each(Receipt, ss)[k] = Receipt(ss[k])
        BY <1>3, PackHanded
      <4>2. RP!Plain(Receipt(rs[n])) \in {Each(Receipt, ss)[k] : k \in DOMAIN Each(Receipt, ss)}
        BY <3>1 DEF RP!Genuine, RP!Issued, ss
      <4> QED
        BY <4>1, <4>2
    <3>3. /\ rs[n].payload = ss[j].payload /\ rs[n].keyId = ss[j].keyId
          /\ rs[n].canonical = ss[j].canonical /\ rs[n].afterHash = ss[j].afterHash
          /\ RP!Decoded(rs[n].signature) = ss[j].signature
      <4>1. rs[n] \in PackRecord /\ ss[j] \in PackRecord
        BY <1>3, <2>1
      <4>2. \A g \in R!Fields : Receipt(rs[n])[g] = rs[n][g] /\ Receipt(ss[j])[g] = ss[j][g]
        BY <4>1, RecordHanded
      <4>3. /\ RP!Plain(Receipt(rs[n])).payload = Receipt(rs[n]).payload
            /\ RP!Plain(Receipt(rs[n])).keyId = Receipt(rs[n]).keyId
            /\ RP!Plain(Receipt(rs[n])).canonical = Receipt(rs[n]).canonical
            /\ RP!Plain(Receipt(rs[n])).afterHash = Receipt(rs[n]).afterHash
            /\ RP!Plain(Receipt(rs[n])).signature = RP!Decoded(Receipt(rs[n]).signature)
        BY <3>1, PlainFields
      <4> QED
        BY <3>2, <4>2, <4>3 DEF R!Fields
    <3>4. j = n
      <4>1. CASE j # n
        <5>1. rs[j] = ss[j] /\ j \in DOMAIN rs
          BY <2>1, <4>1
        <5> QED
          BY <1>7, <2>1, <3>3, <5>1
      <4> QED
        BY <4>1
    <3>5. rs[n].before = ss[n].before
      BY <2>2, <2>4
    <3>6. RP!Plain(rs[n]) = ss[n]
      <4>1. rs[n] \in PackRecord /\ ss[n] \in PackRecord
        BY <1>3, <2>1
      <4> QED
        BY <3>3, <3>4, <3>5, <4>1, PlainRecord
    <3> QED
      BY <1>9, <2>1, <3>6
  <2> QED
    BY <2>3, <2>4
<1>13. CASE bundle.prior = sealed.prior /\ RecordsApart(rs, ss)
  BY <1>11, <1>12, <1>13 DEF RecordsApart, rs, ss
<1> QED
  BY <1>10, <1>13 DEF ReceiptsOneAway, rs, ss

(* One change to an honest bundle that gets through takes something away,    *)
(* and never adds or alters a receipt, a link, a count or a payment: a       *)
(* signature may be spelled otherwise, with "=" signs after it.  Bundles     *)
(* with a refund that the platform rounds otherwise are left out.           *)
THEOREM OneChangeAddsNothing == Spec => []OneChangeOnlyTakesAway
<1>1. IInv => OneChangeOnlyTakesAway
  <2> DEFINE
        Counts(m) == [u \in M!UnitType |-> M!Billed(m, u)]
        ReceiptsAsSealed ==
          /\ \A k \in DOMAIN bundle.pack.records :
               R!Plain(bundle.pack.records[k]) = sealed.records[k]
          /\ bundle.prior = sealed.prior
        CountsAsSealed == metering # NoSummary => Counts(metering) = Counts(sealed.metering)
        PaidAsSealed == Reconcilable => S!Payments(settlement) = S!Payments(sealed.settlement)
  <2>1. SUFFICES ASSUME IInv, Finished, altered = 1, reports["overall"] = "VALID",
                        S!RoundedAlike(sealed.settlement)
                 PROVE  ReceiptsAsSealed /\ CountsAsSealed /\ PaidAsSealed
    BY DEF OneChangeOnlyTakesAway, UnlessMissing
  <2>2. /\ PackHolds /\ CP!Sound /\ (metering # NoSummary => MP!Tallies)
        /\ (Reconcilable => SP!BorneOut(settlement))
    BY <2>1, OverallHolds
  <2>3. Typed /\ OneAway
    BY <2>1 DEF IInv, Changes
  <2>4. ReceiptsOneAway => ReceiptsAsSealed
    <3>1. \A k \in DOMAIN bundle.pack.records :
            R!Plain(bundle.pack.records[k]) = RP!Plain(bundle.pack.records[k])
      BY PlainIs
    <3> QED
      BY <2>1, <2>2, <3>1, ReceiptsOneAwayKept
  <2>5. ReceiptsSealed => ReceiptsAsSealed
    BY <2>4 DEF ReceiptsSealed, ReceiptsOneAway
  <2>6. PICK plan \in Plans : sealed = Made(plan)
    BY <2>3 DEF Typed
  <2>7. /\ metering \in Meterings /\ settlement \in Settlements
    BY DEF metering, settlement, Meterings, Settlements, Preferred
  <2>8. MeteringSealed => CountsAsSealed /\ metering \in {NoSummary, sealed.metering}
    BY <2>7 DEF MeteringSealed
  <2>9. SettlementSealed => PaidAsSealed
    BY <2>7 DEF SettlementSealed, Reconcilable
  <2>10. ASSUME ReceiptsSealed
         PROVE  /\ MP!HonestSummary(sealed.metering) /\ sealed.metering.org = plan.org
                /\ DOMAIN sealed.metering.records = DOMAIN plan.bills
                /\ \A k \in DOMAIN plan.bills :
                     sealed.metering.records[k].idem = M!IdemKey(plan.bills[k])
    BY <2>6, <2>10, MadeIs, SealedMeteringHonest DEF ReceiptsSealed
  <2>11. ASSUME ReceiptsSealed, metering \in MP!Variants(sealed.metering), metering # NoSummary
         PROVE  Counts(metering) = Counts(sealed.metering)
    <3>1. MP!Tallies /\ MP!HonestSummary(sealed.metering)
      BY <2>2, <2>10, <2>11
    <3>2. M!UnitType = MP!UnitType
      BY DEF M!UnitType, MP!UnitType
    <3>3. ASSUME NEW u \in M!UnitType PROVE M!Billed(metering, u) = M!Billed(sealed.metering, u)
      <4>1. MP!Billed(metering, u) = MP!Billed(sealed.metering, u)
        BY <2>11, <3>1, <3>2, Assumed, MP!OneChangeTallies
      <4> QED
        BY <4>1, BilledIs
    <3> QED
      BY <3>3
  <2>12. ASSUME ReceiptsSealed, MeteringSealed, Reconcilable,
                settlement \in SP!Variants(sealed.settlement)
         PROVE  S!Payments(settlement) = S!Payments(sealed.settlement)
    <3>1. metering = sealed.metering
      BY <2>8, <2>12 DEF Reconcilable
    <3>2. Accountable(plan)
      BY PlanIs
    <3>3. metering.org = plan.org /\ DOMAIN plan.agreement.gross
            \subseteq {metering.records[k].idem : k \in DOMAIN metering.records}
      BY <2>10, <2>12, <3>1, <3>2 DEF Accountable
    <3>4. /\ sealed.settlement \in SP!Summary /\ sealed.settlement.totals # NoTotals
          /\ SP!BorneOut(sealed.settlement)
      <4>1. sealed.settlement =
              S!Settle(plan.org, plan.schema, plan.agreement, plan.agreement.parts)
        BY <2>6, MadeIs
      <4> QED
        BY <2>1, <3>3, <4>1, SealedSettlementRight
    <3>5. SP!Payments(settlement) = SP!Payments(sealed.settlement)
      BY <2>2, <2>12, <3>4, Assumed, SP!OneChangeKept
    <3> QED
      BY <3>5, PaymentsAre
  <2> HIDE DEF ReceiptsAsSealed, CountsAsSealed, PaidAsSealed
  <2>13. CASE ReceiptsOneAway /\ MeteringSealed /\ SettlementSealed
    BY <2>4, <2>8, <2>9, <2>13
  <2>14. CASE /\ ReceiptsSealed /\ SettlementSealed
              /\ Meterings \subseteq {NoSummary, sealed.metering} \cup MP!Variants(sealed.metering)
    <3>1. CountsAsSealed
      BY <2>7, <2>11, <2>14 DEF CountsAsSealed
    <3> QED
      BY <2>5, <2>9, <2>14, <3>1
  <2>15. CASE /\ ReceiptsSealed /\ MeteringSealed
              /\ Settlements \subseteq {NoSummary, sealed.settlement} \cup SP!Variants(sealed.settlement)
    <3>1. PaidAsSealed
      BY <2>7, <2>12, <2>15 DEF PaidAsSealed, Reconcilable
    <3> QED
      BY <2>5, <2>8, <2>15, <3>1
  <2> QED
    BY <2>3, <2>13, <2>14, <2>15 DEF OneAway
<1> QED
  BY <1>1, AuditorInductive, PTL
==============================================================================
