------------------------ MODULE MeteringAuditProofs --------------------------
(* MeteringAudit's properties for any packs, plans and dwells, summaries of *)
(* any length, and any number of changes to them.                          *)
EXTENDS MeteringAudit, CentMathProofs

------------------------------------------------------------------------------
(* The inductive invariant.                                                 *)

Record == [receipt : ReceiptId, unit : UnitType, weight : DecimalText, count : DecimalText,
           idem : [receipt : ReceiptId, unit : UnitType]]

Summary == [org : Org, records : Seq(Record),
            totals : {NoTotals} \cup UNION {[units -> DecimalText] : units \in SUBSET UnitType}]

Typed ==
  /\ proofs \in Seq([id : ReceiptId, dwell : Int])
  /\ sealed \in Summary /\ metering \in Summary
  /\ altered \in Nat
  /\ i \in 1..(Len(metering.records) + 1)
  /\ TypeOK

\* What the totals are added up from.
Billable(m) ==
  /\ Positions(m.receipt) # {}
  /\ m.weight # BadDecimal /\ m.count # BadDecimal /\ m.unit # "CUSTOM"

Right(m) == Billable(m) /\ m.idem = IdemKey(m) /\ Parse(m.count) = Projection(m)

\* The platform bills by its own arithmetic, in texts without excess digits.
Honest(m) ==
  /\ Billable(m) /\ m.idem = IdemKey(m)
  /\ m.count \in Int /\ m.count = Text(Parse(m.count))
  /\ DistinctReceipts => Parse(m.count) = Projection(m)

\* Where the summary under audit comes from.
Origin ==
  /\ \A k \in DOMAIN sealed.records : Honest(sealed.records[k])
  /\ sealed.totals = Claims(sealed.records)
  /\ altered = 0 => metering = sealed
  /\ altered = 1 => metering \in Variants(sealed)

\* The records among the first n that count towards a unit type.
Towards(n, u) ==
  {k \in 1..n : Billable(metering.records[k]) /\ metering.records[k].unit = u}

\* The running totals are those of the projections of the records so far.
Summed ==
  \A u \in UnitType :
    Computed(computed, u) =
      Total([k \in Towards(i - 1, u) |-> Projection(metering.records[k])])

OrgWrong == packOrg # NoOrg /\ metering.org # packOrg

TotalWrong(u) ==
  metering.totals[u] # BadDecimal /\ Parse(metering.totals[u]) # Computed(computed, u)

TotalsAccused == \E s \in steps : s.status = "INVALID" /\ s.target[1] = "totals"
OthersAccused == \E s \in steps : s.status = "INVALID" /\ s.target[1] # "totals"

\* What is accused is what is wrong in what was looked at so far.
Judged ==
  /\ OthersAccused <=> OrgWrong \/ \E k \in 1..(i - 1) : ~Right(metering.records[k])
  /\ TotalsAccused <=>
       pc \in {"totals", "done"} /\ \E u \in ClaimedUnits \ pending : TotalWrong(u)

Control ==
  /\ pc = "transit" => i = 1 /\ computed = << >> /\ steps = {}
  /\ pc \in {"transit", "records"} => pending = {}
  /\ pc \in {"totals", "done"} => i = Len(metering.records) + 1
  /\ pc = "done" => pending = {} /\ status = Verdict(steps)
  /\ pc # "done" => status = "pending"
  /\ pc # "transit" => Summed /\ Judged

\* The walk over a summary, wherever it comes from.
WalkInv == Typed /\ Control

IInv == WalkInv /\ Origin

------------------------------------------------------------------------------
(* Texts.                                                                   *)

(* A total of texts without excess digits is read as the total of what they *)
(* are read as.                                                             *)
LEMMA ParseOfTotal ==
  ASSUME NEW S, IsFiniteSet(S), NEW f, NEW g, DOMAIN f = S, DOMAIN g = S,
         \A k \in S : g[k] \in Int /\ f[k] = Text(g[k])
  PROVE  Total(f) \in Int /\ Total(f) # BadDecimal /\ Parse(Total(f)) = Total(g)
<1>1. Summable(g) /\ Summable(f)
  BY ParseOfText DEF Summable
<1>2. \A k \in DOMAIN g : f[k] = Finer * g[k]
  BY TimesCommutes, ScaleAssumption DEF Text
<1>3. Finer \in Int
  BY ScaleAssumption
<1>4. DOMAIN g \in SUBSET DOMAIN g
  OBVIOUS
<1>5. Over(f, DOMAIN g) = Finer * Over(g, DOMAIN g)
  BY <1>1, <1>2, <1>3, <1>4, OverTimes
<1>6. Total(f) = Finer * Total(g) /\ Total(g) \in Int
  BY <1>1, <1>5, OverAll, TotalIsInt
<1>7. Total(f) = Text(Total(g))
  BY <1>3, <1>6, TimesCommutes DEF Text
<1> QED
  BY <1>6, <1>7, ParseOfText

------------------------------------------------------------------------------
(* What two divisions cut off.                                              *)

LEMMA MagnitudeNat ==
  \A n \in Int : Magnitude(n) \in Nat
  BY DEF Magnitude

LEMMA MagnitudeTimes ==
  ASSUME NEW a \in Int, NEW b \in Int
  PROVE  Magnitude(a * b) = Magnitude(a) * Magnitude(b)
<1>1. a * b \in Int /\ (-a) * b = -(a * b) /\ a * (-b) = -(a * b) /\ (-a) * (-b) = a * b
  OBVIOUS
<1>2. \A x, y \in Nat : x * y >= 0
  OBVIOUS
<1>3. CASE a >= 0 /\ b >= 0
  BY <1>1, <1>2, <1>3 DEF Magnitude
<1>4. CASE a >= 0 /\ b < 0
  <2>1. a * (-b) >= 0
    BY <1>2, <1>4
  <2> QED
    BY <1>1, <1>4, <2>1 DEF Magnitude
<1>5. CASE a < 0 /\ b >= 0
  <2>1. (-a) * b >= 0
    BY <1>2, <1>5
  <2> QED
    BY <1>1, <1>5, <2>1 DEF Magnitude
<1>6. CASE a < 0 /\ b < 0
  <2>1. (-a) * (-b) >= 0
    BY <1>2, <1>6
  <2> QED
    BY <1>1, <1>6, <2>1 DEF Magnitude
<1> QED
  BY <1>3, <1>4, <1>5, <1>6

LEMMA MagnitudeQuotient ==
  ASSUME NEW a \in Int, NEW b \in Nat \ {0}
  PROVE  LET q == Magnitude(Quotient(a, b))
         IN  q \in Nat /\ b * q <= Magnitude(a) /\ Magnitude(a) < b * q + b
<1>1. /\ Quotient(a, b) \in Int /\ Quotient(-a, b) \in Int
      /\ Quotient(-a, b) = -Quotient(a, b)
      /\ a >= 0 => /\ 0 <= Quotient(a, b)
                   /\ b * Quotient(a, b) <= a /\ a < b * Quotient(a, b) + b
      /\ -a >= 0 => /\ 0 <= Quotient(-a, b)
                    /\ b * Quotient(-a, b) <= -a /\ -a < b * Quotient(-a, b) + b
  BY QuotientBounds
<1>2. CASE a >= 0
  BY <1>1, <1>2 DEF Magnitude
<1>3. CASE a < 0
  <2>1. Magnitude(a) = -a
    BY <1>3 DEF Magnitude
  <2>2. Magnitude(Quotient(a, b)) = Quotient(-a, b)
    BY <1>1, <1>3 DEF Magnitude
  <2> QED
    BY <1>1, <1>3, <2>1, <2>2
<1> QED
  BY <1>2, <1>3

(* What is billed for a dwell never exceeds it, and falls short of it by    *)
(* less than a place for each division.                                     *)
LEMMA TwoCuts ==
  ASSUME NEW d \in Nat, NEW w \in Nat, NEW p \in Nat \ {0}, NEW s \in Nat \ {0},
         NEW q \in Nat, NEW c \in Nat,
         p * q <= d * s, d * s < p * q + p, s * c <= q * w, q * w < s * c + s
  PROVE  c * p <= d * w /\ s * (d * w - c * p) < p * (s + w)
<1>1. w * (p * q) <= w * (d * s) /\ w * (d * s) <= w * (p * q + p)
  BY TimesMono
<1>2. p * (s * c) <= p * (q * w)
  BY TimesMono
<1>3. p * (q * w) < p * (s * c + s)
  OBVIOUS
<1>4. /\ w * (p * q) = p * (q * w) /\ w * (d * s) = s * (d * w)
      /\ p * (s * c) = s * (c * p)
  OBVIOUS
<1>5. w * (p * q + p) = p * (q * w) + p * w
  OBVIOUS
<1>6. p * (s * c + s) = s * (c * p) + p * s
  OBVIOUS
<1>7. p * (s + w) = p * s + p * w /\ s * (d * w - c * p) = s * (d * w) - s * (c * p)
  OBVIOUS
<1>8. /\ p * (q * w) \in Int /\ s * (d * w) \in Int /\ s * (c * p) \in Int
      /\ p * s \in Int /\ p * w \in Int
  OBVIOUS
<1>9. s * (c * p) <= s * (d * w) /\ s * (d * w) - s * (c * p) < p * s + p * w
  BY <1>1, <1>2, <1>3, <1>4, <1>5, <1>6, <1>8
<1>10. c * p <= d * w
  <2>1. c * p \in Int /\ d * w \in Int
    OBVIOUS
  <2>2. SUFFICES ASSUME d * w < c * p PROVE FALSE
    BY <2>1
  <2>3. d * w + 1 <= c * p
    BY <2>1, <2>2
  <2>4. s * (d * w + 1) <= s * (c * p)
    BY <2>1, <2>3, TimesMono
  <2>5. s * (d * w + 1) = s * (d * w) + s * 1
    BY <2>1, Distributes
  <2> QED
    BY <1>8, <1>9, <2>4, <2>5
<1> QED
  BY <1>7, <1>9, <1>10

------------------------------------------------------------------------------
(* Projections.                                                             *)

ProofsTyped == proofs \in Seq([id : ReceiptId, dwell : Int])

LEMMA ProofTyped ==
  ASSUME ProofsTyped
  PROVE  /\ Len(proofs) \in Nat /\ DOMAIN proofs = 1..Len(proofs)
         /\ \A p \in DOMAIN proofs : proofs[p].id \in ReceiptId /\ proofs[p].dwell \in Int
<1>1. \A p \in DOMAIN proofs : proofs[p] \in [id : ReceiptId, dwell : Int]
  BY SequenceOf DEF ProofsTyped
<1>2. Len(proofs) \in Nat /\ DOMAIN proofs = 1..Len(proofs)
  BY SequenceOf DEF ProofsTyped
<1> QED
  BY <1>1, <1>2

(* A receipt that can be found is found.                                    *)
LEMMA ProofFound ==
  ASSUME ProofsTyped, NEW r, Positions(r) # {}
  PROVE  \E p \in Positions(r) : ProofOf(r) = proofs[p]
<1> DEFINE T == {Len(proofs) - k : k \in Positions(r)}
<1>1. Len(proofs) \in Nat /\ \A k \in Positions(r) : k \in 1..Len(proofs)
  BY ProofTyped DEF Positions
<1>2. T \in SUBSET Nat /\ T # {}
  BY <1>1
<1>3. PICK n \in T : \A m \in T : n <= m
  BY <1>2, Least
<1>4. PICK p \in Positions(r) : n = Len(proofs) - p
  BY <1>3
<1>5. \A j \in Positions(r) : j <= p
  <2>1. SUFFICES ASSUME NEW j \in Positions(r) PROVE j <= p
    OBVIOUS
  <2>2. Len(proofs) - j \in T
    OBVIOUS
  <2> HIDE DEF T
  <2>3. j \in 1..Len(proofs) /\ p \in 1..Len(proofs) /\ Len(proofs) \in Nat
    BY <1>1
  <2>4. Len(proofs) - p <= Len(proofs) - j
    BY <1>3, <1>4, <2>2
  <2> QED
    BY <2>3, <2>4
<1> HIDE DEF T
<1> QED
  BY <1>5 DEF ProofOf

LEMMA ProofOfTyped ==
  ASSUME ProofsTyped, NEW r, Positions(r) # {}
  PROVE  \E p \in DOMAIN proofs :
           ProofOf(r) = proofs[p] /\ proofs[p].id = r /\ proofs[p].dwell \in Int
<1>1. PICK p \in Positions(r) : ProofOf(r) = proofs[p]
  BY ProofFound
<1>2. p \in DOMAIN proofs /\ proofs[p].id = r
  BY DEF Positions
<1> QED
  BY <1>1, <1>2, ProofTyped

(* What a unit type with a projection comes to for a dwell.                 *)
LEMMA UnitCountIs ==
  ASSUME NEW d \in Int, NEW w \in Int, NEW u \in UnitType \ {"CUSTOM"}
  PROVE  /\ UnitCount(d, w, u) \in Int
         /\ UnitCount(d, w, u) =
              IF u = "IMPRESSION_IN_PLACE" THEN w
              ELSE Quotient(Quotient(d * Scale, Period(u)) * w, Scale)
<1>1. Scale \in Nat \ {0} /\ d * Scale \in Int /\ Period(u) \in Nat \ {0}
  BY ScaleAssumption DEF Period
<1>2. Quotient(d * Scale, Period(u)) \in Int
  BY <1>1, QuotientBounds
<1>3. Quotient(d * Scale, Period(u)) * w \in Int
  BY <1>2
<1>4. Quotient(Quotient(d * Scale, Period(u)) * w, Scale) \in Int
  BY <1>1, <1>3, QuotientBounds
<1>5. UnitCount(d, w, u) =
        IF u = "IMPRESSION_IN_PLACE" THEN w
        ELSE Quotient(Quotient(d * Scale, Period(u)) * w, Scale)
  BY DEF UnitCount, Seconds, Minutes, Period, UnitType
<1> QED
  BY <1>4, <1>5

LEMMA UnitCountCutShort ==
  ASSUME NEW d \in Int, NEW w \in Int, NEW u \in UnitType \ {"CUSTOM", "IMPRESSION_IN_PLACE"}
  PROVE  CutShort(d, w, u, UnitCount(d, w, u))
<1> DEFINE n == Quotient(d * Scale, Period(u))
           c == Quotient(n * w, Scale)
<1>1. Scale \in Nat \ {0} /\ d * Scale \in Int /\ Period(u) \in Nat \ {0}
  BY ScaleAssumption DEF Period
<1>2. n \in Int
  BY <1>1, QuotientBounds
<1>3. /\ Magnitude(n) \in Nat /\ Period(u) * Magnitude(n) <= Magnitude(d * Scale)
      /\ Magnitude(d * Scale) < Period(u) * Magnitude(n) + Period(u)
  BY <1>1, MagnitudeQuotient
<1>4. n * w \in Int
  BY <1>2
<1>5. /\ Magnitude(c) \in Nat /\ Scale * Magnitude(c) <= Magnitude(n * w)
      /\ Magnitude(n * w) < Scale * Magnitude(c) + Scale
  BY <1>1, <1>4, MagnitudeQuotient
<1>6. UnitCount(d, w, u) = c
  BY UnitCountIs
<1> HIDE DEF n, c
<1>7. Magnitude(Scale) = Scale
  BY <1>1 DEF Magnitude
<1>8. /\ Magnitude(d * Scale) = Magnitude(d) * Scale
      /\ Magnitude(n * w) = Magnitude(n) * Magnitude(w)
      /\ Magnitude(d * w) = Magnitude(d) * Magnitude(w)
  <2>1. Scale \in Int
    BY <1>1
  <2>2. Magnitude(d * Scale) = Magnitude(d) * Magnitude(Scale)
    BY <2>1, MagnitudeTimes
  <2>3. Magnitude(n * w) = Magnitude(n) * Magnitude(w)
    BY <1>2, MagnitudeTimes
  <2>4. Magnitude(d * w) = Magnitude(d) * Magnitude(w)
    BY MagnitudeTimes
  <2> QED
    BY <1>7, <2>2, <2>3, <2>4
<1>9. Magnitude(d) \in Nat /\ Magnitude(w) \in Nat
  BY MagnitudeNat
<1>10. /\ Magnitude(c) * Period(u) <= Magnitude(d) * Magnitude(w)
       /\ Scale * (Magnitude(d) * Magnitude(w) - Magnitude(c) * Period(u))
            < Period(u) * (Scale + Magnitude(w))
  BY <1>1, <1>3, <1>5, <1>8, <1>9, TwoCuts
<1> QED
  BY <1>6, <1>8, <1>10 DEF CutShort

LEMMA RecordFields ==
  ASSUME NEW m \in Record
  PROVE  /\ m.receipt \in ReceiptId /\ m.unit \in UnitType
         /\ m.weight \in DecimalText /\ m.count \in DecimalText
  BY DEF Record

LEMMA ProjectionInt ==
  ASSUME ProofsTyped, NEW m \in Record, Billable(m)
  PROVE  Projection(m) \in Int
<1>1. PICK p \in DOMAIN proofs : ProofOf(m.receipt) = proofs[p] /\ proofs[p].dwell \in Int
  BY ProofOfTyped DEF Billable
<1>2. m.unit \in UnitType \ {"CUSTOM"} /\ Parse(m.weight) \in Int
  BY RecordFields, ParseInt DEF Billable
<1> QED
  BY <1>1, <1>2, UnitCountIs DEF Projection

(* A record that is right has a receipt that bears it out.                  *)
LEMMA RightIsBorneOut ==
  ASSUME ProofsTyped, NEW m \in Record, Right(m)
  PROVE  \E p \in DOMAIN proofs : BearsOut(proofs[p], m)
<1>1. Billable(m) /\ m.idem = IdemKey(m) /\ Parse(m.count) = Projection(m)
  BY DEF Right
<1>2. PICK p \in DOMAIN proofs :
        /\ ProofOf(m.receipt) = proofs[p] /\ proofs[p].id = m.receipt
        /\ proofs[p].dwell \in Int
  BY <1>1, ProofOfTyped DEF Billable
<1>3. m.unit \in UnitType \ {"CUSTOM"} /\ Parse(m.weight) \in Int
  BY <1>1, RecordFields, ParseInt DEF Billable
<1>4. Projection(m) = UnitCount(proofs[p].dwell, Parse(m.weight), m.unit)
  BY <1>2 DEF Projection
<1>5. IF m.unit = "IMPRESSION_IN_PLACE" THEN Parse(m.count) = Parse(m.weight)
      ELSE CutShort(proofs[p].dwell, Parse(m.weight), m.unit, Parse(m.count))
  BY <1>1, <1>2, <1>3, <1>4, UnitCountIs, UnitCountCutShort
<1> QED
  BY <1>1, <1>2, <1>5 DEF BearsOut, Billable

(* The platform's own count of a planned record is honest.                  *)
LEMMA MeteredHonest ==
  ASSUME ProofsTyped,
         NEW plan \in [receipt : ReceiptId, unit : UnitType \ {"CUSTOM"}, weight : Int],
         plan.weight % Finer = 0, Positions(plan.receipt) # {}
  PROVE  Metered(proofs, plan) \in Record /\ Honest(Metered(proofs, plan))
<1> DEFINE own == CHOOSE k \in DOMAIN proofs : proofs[k].id = plan.receipt
           d == proofs[own].dwell
           w == Parse(plan.weight)
           m == Metered(proofs, plan)
<1>1. own \in DOMAIN proofs /\ proofs[own].id = plan.receipt
  BY DEF Positions
<1>2. d \in Int
  BY <1>1, ProofTyped
<1>3. plan.weight \in Int /\ plan.weight # BadDecimal /\ w \in Int /\ plan.weight = Text(w)
  <2>1. Finer \in Nat \ {0} /\ plan.weight \in Int /\ plan.weight # BadDecimal
    BY ScaleAssumption
  <2>2. PICK n \in Int : plan.weight = n * Finer
    BY <2>1
  <2>3. plan.weight = Text(n) /\ Parse(Text(n)) = n
    BY <2>2, ParseOfText DEF Text
  <2> QED
    BY <2>1, <2>3
<1>4. /\ m.receipt = plan.receipt /\ m.unit = plan.unit /\ m.weight = plan.weight
      /\ m.idem = [receipt |-> plan.receipt, unit |-> plan.unit]
      /\ m = [receipt |-> m.receipt, unit |-> m.unit, weight |-> m.weight,
              count |-> m.count, idem |-> m.idem]
  BY DEF Metered
<1>5. m.count = Text(UnitCount(d, w, plan.unit))
  <2>1. m.count = CASE plan.unit = "IMPRESSION_IN_PLACE" -> plan.weight
               [] plan.unit = "COMPLIANT_DELIVERY_MINUTE" ->
                    Text(Quotient(Quotient(d * Scale, 60000) * w, Scale))
               [] OTHER -> Text(Quotient(Quotient(d * Scale, 1000) * w, Scale))
    BY DEF Metered
  <2> HIDE DEF own, d, w, m
  <2>2. UnitCount(d, w, plan.unit) =
          IF plan.unit = "IMPRESSION_IN_PLACE" THEN w
          ELSE Quotient(Quotient(d * Scale, Period(plan.unit)) * w, Scale)
    BY <1>2, <1>3, UnitCountIs
  <2> QED
    BY <1>3, <2>1, <2>2 DEF Period
<1> HIDE DEF own, d, w, m
<1>6. UnitCount(d, w, plan.unit) \in Int
  BY <1>2, <1>3, UnitCountIs
<1>7. /\ m.count \in Int /\ m.count # BadDecimal
      /\ Parse(m.count) = UnitCount(d, w, plan.unit)
  BY <1>5, <1>6, ParseOfText
<1>8. m \in Record
  <2>1. /\ m.receipt \in ReceiptId /\ m.unit \in UnitType
        /\ m.weight \in DecimalText /\ m.count \in DecimalText
        /\ m.idem \in [receipt : ReceiptId, unit : UnitType]
    BY <1>3, <1>4, <1>7 DEF DecimalText
  <2> QED
    BY <1>4, <2>1 DEF Record
<1>9. Billable(m) /\ m.idem = IdemKey(m)
  BY <1>3, <1>4, <1>7 DEF Billable, IdemKey
<1>10. ASSUME DistinctReceipts PROVE Parse(m.count) = Projection(m)
  <2>1. PICK p \in DOMAIN proofs : ProofOf(m.receipt) = proofs[p] /\ proofs[p].id = m.receipt
    BY <1>9, ProofOfTyped DEF Billable
  <2>2. p = own
    BY <1>1, <1>4, <1>10, <2>1 DEF DistinctReceipts
  <2>3. Projection(m) = UnitCount(d, w, plan.unit)
    BY <1>4, <2>1, <2>2 DEF Projection, d, w
  <2> QED
    BY <1>7, <2>3
<1>11. Honest(m)
  BY <1>5, <1>6, <1>7, <1>9, <1>10 DEF Honest
<1> QED
  BY <1>8, <1>11 DEF m

------------------------------------------------------------------------------
(* Facts about a state of the invariant, and about a change of it.          *)

LEMMA RecordTyped ==
  ASSUME NEW s \in Summary
  PROVE  /\ Len(s.records) \in Nat /\ DOMAIN s.records = 1..Len(s.records)
         /\ \A k \in DOMAIN s.records : s.records[k] \in Record
<1>1. s.records \in Seq(Record)
  BY DEF Summary
<1> QED
  BY <1>1, SequenceOf

\* What the verdicts depend on besides the walk's own progress.
Inputs == <<proofs, packOrg, sealed, metering, altered>>

LEMMA SameProofs ==
  ASSUME proofs' = proofs
  PROVE  /\ ProofsTyped <=> ProofsTyped'
         /\ DistinctReceipts <=> DistinctReceipts'
         /\ \A r : Positions(r)' = Positions(r) /\ ProofOf(r)' = ProofOf(r)
         /\ \A m : /\ Projection(m)' = Projection(m)
                   /\ Billable(m)' <=> Billable(m)
                   /\ Right(m)' <=> Right(m)
                   /\ Honest(m)' <=> Honest(m)
<1>1. \A r : Positions(r)' = Positions(r)
  BY DEF Positions
<1>2. \A r : ProofOf(r)' = ProofOf(r)
  BY <1>1 DEF ProofOf
<1>3. \A m : Projection(m)' = Projection(m)
  BY <1>2 DEF Projection
<1>4. \A m : Billable(m)' <=> Billable(m)
  BY <1>1 DEF Billable
<1>5. \A m : Right(m)' <=> Right(m)
  BY <1>3, <1>4 DEF Right
<1>6. DistinctReceipts <=> DistinctReceipts'
  BY DEF DistinctReceipts
<1>7. \A m : Honest(m)' <=> Honest(m)
  BY <1>3, <1>4, <1>6 DEF Honest
<1>8. ProofsTyped <=> ProofsTyped'
  BY DEF ProofsTyped
<1> QED
  BY <1>1, <1>2, <1>3, <1>4, <1>5, <1>6, <1>7, <1>8

LEMMA SameInputs ==
  ASSUME UNCHANGED Inputs
  PROVE  /\ \A n, u : Towards(n, u)' = Towards(n, u)
         /\ \A n, u : Total([k \in Towards(n, u) |-> Projection(metering.records[k])])'
                     = Total([k \in Towards(n, u) |-> Projection(metering.records[k])])
         /\ \A k : Right(metering.records[k])' <=> Right(metering.records[k])
         /\ OrgWrong' <=> OrgWrong
         /\ ClaimedUnits' = ClaimedUnits
         /\ Origin => Origin'
<1>1. /\ proofs' = proofs /\ metering' = metering /\ sealed' = sealed
      /\ altered' = altered /\ packOrg' = packOrg
  BY DEF Inputs
<1>2. \A m : /\ Projection(m)' = Projection(m)
             /\ Billable(m)' <=> Billable(m)
             /\ Right(m)' <=> Right(m)
             /\ Honest(m)' <=> Honest(m)
  BY <1>1, SameProofs
<1>3. ASSUME NEW n, NEW u PROVE Towards(n, u)' = Towards(n, u)
  BY <1>1, <1>2 DEF Towards
<1>4. ASSUME NEW n, NEW u
      PROVE  Total([k \in Towards(n, u) |-> Projection(metering.records[k])])'
               = Total([k \in Towards(n, u) |-> Projection(metering.records[k])])
  <2>1. [k \in Towards(n, u) |-> Projection(metering.records[k])]'
          = [k \in Towards(n, u) |-> Projection(metering.records[k])]
    BY <1>1, <1>2, <1>3
  <2> QED
    BY <2>1
<1>5. \A k : Right(metering.records[k])' <=> Right(metering.records[k])
  BY <1>1, <1>2
<1>6. OrgWrong' <=> OrgWrong
  BY <1>1 DEF OrgWrong
<1>7. ClaimedUnits' = ClaimedUnits
  BY <1>1 DEF ClaimedUnits
<1>8. Origin => Origin'
  BY <1>1, <1>2 DEF Origin
<1> QED
  BY <1>3, <1>4, <1>5, <1>6, <1>7, <1>8

------------------------------------------------------------------------------
(* Changes.                                                                 *)

LEMMA NewTextsTyped ==
  ASSUME NEW t \in DecimalText
  PROVE  NewTexts(t) \subseteq DecimalText
<1>1. Text(1) \in Int
  BY ParseOfText
<1> QED
  BY <1>1 DEF NewTexts, DecimalText

(* A changed record is a record, and keeps its unit type or has a key that  *)
(* is not its own.                                                          *)
LEMMA NewRecordsTyped ==
  ASSUME NEW m \in Record, NEW n \in NewRecords(m)
  PROVE  /\ n \in Record
         /\ m.idem = IdemKey(m) => n.unit = m.unit \/ n.idem # IdemKey(n)
<1>1. /\ m.receipt \in ReceiptId /\ m.unit \in UnitType
      /\ m.weight \in DecimalText /\ m.count \in DecimalText
      /\ m.idem \in [receipt : ReceiptId, unit : UnitType]
  BY DEF Record
<1>2. CASE n \in {[m EXCEPT !.receipt = r] : r \in ReceiptId}
  BY <1>1, <1>2 DEF Record
<1>3. CASE n \in {[m EXCEPT !.unit = u] : u \in UnitType}
  <2>1. PICK u \in UnitType : n = [m EXCEPT !.unit = u]
    BY <1>3
  <2>2. n \in Record /\ n.unit = u /\ n.idem = m.idem /\ n.receipt = m.receipt
    BY <1>1, <2>1 DEF Record
  <2>3. IdemKey(n).unit = u /\ IdemKey(m).unit = m.unit
    BY <2>2 DEF IdemKey
  <2> QED
    BY <2>2, <2>3
<1>4. CASE n \in {[m EXCEPT !.weight = t] : t \in NewTexts(m.weight)}
  BY <1>1, <1>4, NewTextsTyped DEF Record
<1>5. CASE n \in {[m EXCEPT !.count = t] : t \in NewTexts(m.count)}
  BY <1>1, <1>5, NewTextsTyped DEF Record
<1>6. CASE n \in {[m EXCEPT !.idem = IdemKey(m)]}
  <2>1. IdemKey(m) \in [receipt : ReceiptId, unit : UnitType]
    BY <1>1 DEF IdemKey
  <2> QED
    BY <1>1, <1>6, <2>1 DEF Record
<1>7. CASE n \in {[m EXCEPT !.receipt = r, !.idem = [@ EXCEPT !.receipt = r]] : r \in ReceiptId}
  <2>1. PICK r \in ReceiptId : n = [m EXCEPT !.receipt = r, !.idem = [m.idem EXCEPT !.receipt = r]]
    BY <1>7
  <2>2. [m.idem EXCEPT !.receipt = r] \in [receipt : ReceiptId, unit : UnitType]
    BY <1>1
  <2> HIDE DEF NewRecords
  <2>3. n.unit = m.unit
    BY <2>1 DEF Record
  <2>4. n \in Record
    BY <1>1, <2>1, <2>2 DEF Record
  <2> QED
    BY <2>3, <2>4
<1> QED
  BY <1>2, <1>3, <1>4, <1>5, <1>6, <1>7 DEF NewRecords

LEMMA WithoutTyped ==
  ASSUME NEW X, NEW list \in Seq(X), NEW k \in DOMAIN list
  PROVE  /\ Without(list, k) \in Seq(X)
         /\ \A j \in DOMAIN Without(list, k) : \E h \in DOMAIN list : Without(list, k)[j] = list[h]
<1> DEFINE before == SubSeq(list, 1, k - 1)
           after == SubSeq(list, k + 1, Len(list))
<1>1. k \in 1..Len(list) /\ Len(list) \in Nat /\ DOMAIN list = 1..Len(list)
  OBVIOUS
<1>2. /\ before \in Seq(X) /\ Len(before) = k - 1
      /\ \A j \in 1..(k - 1) : before[j] = list[j]
  BY <1>1
<1>3. /\ after \in Seq(X) /\ Len(after) = Len(list) - k
      /\ \A j \in 1..(Len(list) - k) : after[j] = list[k + j]
  BY <1>1
<1>4. Without(list, k) = before \o after
  BY DEF Without
<1> HIDE DEF before, after
<1>5. /\ before \o after \in Seq(X)
      /\ DOMAIN (before \o after) = 1..(Len(before) + Len(after))
      /\ \A j \in 1..(Len(before) + Len(after)) :
           (before \o after)[j] = IF j <= Len(before) THEN before[j] ELSE after[j - Len(before)]
  BY <1>2, <1>3
<1>6. ASSUME NEW j \in DOMAIN (before \o after)
      PROVE  \E h \in DOMAIN list : (before \o after)[j] = list[h]
  <2>1. j \in 1..(Len(list) - 1)
    BY <1>1, <1>2, <1>3, <1>5, <1>6
  <2>2. CASE j <= k - 1
    <3>1. j \in 1..(k - 1) /\ j \in 1..Len(list)
      BY <1>1, <2>1, <2>2
    <3>2. (before \o after)[j] = list[j]
      BY <1>2, <1>3, <1>5, <2>2, <3>1
    <3> QED
      BY <1>1, <3>1, <3>2
  <2>3. CASE j > k - 1
    <3>1. j - (k - 1) \in 1..(Len(list) - k) /\ j + 1 \in 1..Len(list)
      BY <1>1, <2>1, <2>3
    <3>2. (before \o after)[j] = after[j - (k - 1)]
      BY <1>1, <1>2, <1>3, <1>5, <2>1, <2>3
    <3>3. after[j - (k - 1)] = list[k + (j - (k - 1))] /\ k + (j - (k - 1)) = j + 1
      BY <1>1, <1>3, <2>1, <3>1
    <3> QED
      BY <1>1, <3>1, <3>2, <3>3
  <2> QED
    BY <1>1, <2>1, <2>2, <2>3
<1> QED
  BY <1>4, <1>5, <1>6

(* One change leaves the records as they are, or the totals; and a record   *)
(* whose key is its own has a unit type that was billed before.             *)
LEMMA OneChange ==
  ASSUME NEW s \in Summary, NEW v \in Variants(s)
  PROVE  /\ v \in Summary
         /\ (\A k \in DOMAIN s.records : s.records[k].idem = IdemKey(s.records[k])) =>
              \/ v.records = s.records
              \/ /\ v.totals = s.totals
                 /\ \A k \in DOMAIN v.records :
                      v.records[k].idem = IdemKey(v.records[k]) =>
                        \E j \in DOMAIN s.records : s.records[j].unit = v.records[k].unit
<1>1. /\ s.org \in Org /\ s.records \in Seq(Record)
      /\ s.totals \in {NoTotals} \cup UNION {[units -> DecimalText] : units \in SUBSET UnitType}
      /\ s = [org |-> s.org, records |-> s.records, totals |-> s.totals]
  BY DEF Summary
<1>2. /\ Len(s.records) \in Nat /\ DOMAIN s.records = 1..Len(s.records)
      /\ \A k \in DOMAIN s.records : s.records[k] \in Record
  BY RecordTyped
<1>3. ASSUME NEW k \in DOMAIN s.records, NEW m \in NewRecords(s.records[k]),
             v = [s EXCEPT !.records[k] = m]
      PROVE  /\ v \in Summary /\ v.totals = s.totals
             /\ s.records[k].idem = IdemKey(s.records[k]) /\ m.idem = IdemKey(m) =>
                  m.unit = s.records[k].unit
             /\ v.records = [s.records EXCEPT ![k] = m]
  <2>1. /\ m \in Record
        /\ s.records[k].idem = IdemKey(s.records[k]) /\ m.idem = IdemKey(m) =>
             m.unit = s.records[k].unit
    BY <1>2, NewRecordsTyped
  <2>2. [s.records EXCEPT ![k] = m] \in Seq(Record)
    BY <1>1, <2>1
  <2>3. /\ v.org = s.org /\ v.totals = s.totals /\ v.records = [s.records EXCEPT ![k] = m]
        /\ v = [org |-> v.org, records |-> v.records, totals |-> v.totals]
    BY <1>1, <1>3
  <2> QED
    BY <1>1, <2>1, <2>2, <2>3 DEF Summary
<1>4. ASSUME NEW list \in Seq(Record), v = [s EXCEPT !.records = list]
      PROVE  v \in Summary /\ v.totals = s.totals /\ v.records = list
  BY <1>1, <1>4 DEF Summary
<1>5. ASSUME NEW totals \in {NoTotals} \cup UNION {[units -> DecimalText] : units \in SUBSET UnitType},
             v = [s EXCEPT !.totals = totals]
      PROVE  v \in Summary /\ v.records = s.records
  BY <1>1, <1>5 DEF Summary
<1>6. CASE \E k \in DOMAIN s.records : \E m \in NewRecords(s.records[k]) :
             v = [s EXCEPT !.records[k] = m]
  <2>0. PICK k \in DOMAIN s.records : \E m \in NewRecords(s.records[k]) :
          v = [s EXCEPT !.records[k] = m]
    BY <1>6
  <2>1. PICK m \in NewRecords(s.records[k]) : v = [s EXCEPT !.records[k] = m]
    BY <2>0
  <2>2. /\ v \in Summary /\ v.totals = s.totals
        /\ s.records[k].idem = IdemKey(s.records[k]) /\ m.idem = IdemKey(m) =>
             m.unit = s.records[k].unit
        /\ v.records = [s.records EXCEPT ![k] = m]
    BY <1>3, <2>1
  <2>3. ASSUME s.records[k].idem = IdemKey(s.records[k]), NEW j \in DOMAIN v.records,
               v.records[j].idem = IdemKey(v.records[j])
        PROVE  j \in DOMAIN s.records /\ s.records[j].unit = v.records[j].unit
    <3>1. j \in DOMAIN s.records
      BY <2>2
    <3>2. CASE j = k
      BY <2>2, <2>3, <3>1, <3>2
    <3>3. CASE j # k
      BY <2>2, <3>1, <3>3
    <3> QED
      BY <3>1, <3>2, <3>3
  <2> QED
    BY <2>2, <2>3
<1>7. CASE \E k \in DOMAIN s.records : v = [s EXCEPT !.records = Without(s.records, k)]
  <2>1. PICK k \in DOMAIN s.records : v = [s EXCEPT !.records = Without(s.records, k)]
    BY <1>7
  <2>2. /\ Without(s.records, k) \in Seq(Record)
        /\ \A j \in DOMAIN Without(s.records, k) :
             \E h \in DOMAIN s.records : Without(s.records, k)[j] = s.records[h]
    BY <1>1, WithoutTyped
  <2> QED
    BY <1>4, <2>1, <2>2
<1>8. CASE \E k \in DOMAIN s.records : v = [s EXCEPT !.records = Append(s.records, s.records[k])]
  <2>1. PICK k \in DOMAIN s.records : v = [s EXCEPT !.records = Append(s.records, s.records[k])]
    BY <1>8
  <2> DEFINE list == Append(s.records, s.records[k])
  <2>2. /\ list \in Seq(Record)
        /\ \A j \in DOMAIN list : \E h \in DOMAIN s.records : list[j] = s.records[h]
    <3>1. /\ list \in Seq(Record) /\ DOMAIN list = 1..(Len(s.records) + 1)
          /\ list[Len(s.records) + 1] = s.records[k]
          /\ \A j \in 1..Len(s.records) : list[j] = s.records[j]
      BY <1>1, <1>2
    <3> HIDE DEF list
    <3> QED
      BY <1>2, <3>1
  <2> HIDE DEF list
  <2>3. v = [s EXCEPT !.records = list]
    BY <2>1 DEF list
  <2> QED
    BY <1>4, <2>2, <2>3
<1>9. CASE s.totals # NoTotals /\ \E u \in DOMAIN s.totals : \E t \in NewTexts(s.totals[u]) :
             v = [s EXCEPT !.totals[u] = t]
  <2>0. PICK u \in DOMAIN s.totals : \E t \in NewTexts(s.totals[u]) :
          v = [s EXCEPT !.totals[u] = t]
    BY <1>9
  <2>1. PICK t \in NewTexts(s.totals[u]) : v = [s EXCEPT !.totals[u] = t]
    BY <2>0
  <2>2. PICK units \in SUBSET UnitType : s.totals \in [units -> DecimalText]
    BY <1>1, <1>9
  <2>3. t \in DecimalText
    BY <2>2, NewTextsTyped
  <2>4. [s.totals EXCEPT ![u] = t] \in [units -> DecimalText]
    BY <2>2, <2>3
  <2>5. v = [s EXCEPT !.totals = [s.totals EXCEPT ![u] = t]]
    BY <1>1, <2>1
  <2> QED
    BY <1>5, <2>2, <2>4, <2>5
<1>10. CASE v = [s EXCEPT !.totals = NoTotals]
  BY <1>5, <1>10
<1>11. CASE \E org \in Org : v = [s EXCEPT !.org = org]
  BY <1>1, <1>11 DEF Summary
<1> DEFINE OfRecord(k) ==
             {[s EXCEPT !.records[k] = m] : m \in NewRecords(s.records[k])}
               \cup {[s EXCEPT !.records = Without(@, k)], [s EXCEPT !.records = Append(@, @[k])]}
           OfTotal(u) == {[s EXCEPT !.totals[u] = t] : t \in NewTexts(s.totals[u])}
<1>12. CASE v \in UNION {OfRecord(k) : k \in DOMAIN s.records}
  <2>1. PICK k \in DOMAIN s.records : v \in OfRecord(k)
    BY <1>12
  <2>2. CASE v \in {[s EXCEPT !.records[k] = m] : m \in NewRecords(s.records[k])}
    BY <1>6, <2>2
  <2>3. CASE v = [s EXCEPT !.records = Without(s.records, k)]
    BY <1>7, <2>3
  <2>4. CASE v = [s EXCEPT !.records = Append(s.records, s.records[k])]
    BY <1>8, <2>4
  <2> QED
    BY <2>1, <2>2, <2>3, <2>4
<1>13. CASE v \in IF s.totals = NoTotals THEN {} ELSE UNION {OfTotal(u) : u \in DOMAIN s.totals}
  <2>1. s.totals # NoTotals
    BY <1>13
  <2>2. PICK u \in DOMAIN s.totals : v \in OfTotal(u)
    BY <1>13, <2>1
  <2> QED
    BY <1>9, <2>1, <2>2
<1> DEFINE OfRecords == UNION {OfRecord(k) : k \in DOMAIN s.records}
           OfTotals ==
             IF s.totals = NoTotals THEN {} ELSE UNION {OfTotal(u) : u \in DOMAIN s.totals}
           OfOrg == {[s EXCEPT !.org = org] : org \in Org}
<1>14. Variants(s) = OfRecords \cup OfTotals \cup {[s EXCEPT !.totals = NoTotals]} \cup OfOrg
  BY DEF Variants
<1>15. CASE v \in OfOrg
  BY <1>11, <1>15
<1> HIDE DEF OfRecords, OfTotals, OfOrg
<1>16. \/ v \in OfRecords \/ v \in OfTotals
       \/ v = [s EXCEPT !.totals = NoTotals] \/ v \in OfOrg
  BY <1>14
<1> QED
  BY <1>10, <1>12, <1>13, <1>15, <1>16 DEF OfRecords, OfTotals

------------------------------------------------------------------------------
(* What the platform's totals are read as.                                  *)

LEMMA ClaimsOfHonest ==
  ASSUME NEW s \in Summary, \A k \in DOMAIN s.records : Honest(s.records[k])
  PROVE  /\ DOMAIN Claims(s.records) \subseteq UnitType
         /\ \A u \in UnitType : u \notin DOMAIN Claims(s.records) => BilledBy(s, u) = {}
         /\ \A u \in DOMAIN Claims(s.records) :
              /\ Claims(s.records)[u] \in Int /\ Claims(s.records)[u] # BadDecimal
              /\ Parse(Claims(s.records)[u]) = Billed(s, u)
         /\ Claims(s.records) \in [DOMAIN Claims(s.records) -> DecimalText]
<1> DEFINE units == {s.records[k].unit : k \in DOMAIN s.records}
           texts(u) == [k \in BilledBy(s, u) |-> s.records[k].count]
           counts(u) == [k \in BilledBy(s, u) |-> Parse(s.records[k].count)]
<1>1. /\ Len(s.records) \in Nat /\ DOMAIN s.records = 1..Len(s.records)
      /\ \A k \in DOMAIN s.records : s.records[k] \in Record
  BY RecordTyped
<1>2. units \subseteq UnitType
  BY <1>1, RecordFields
<1>3. Claims(s.records) = [u \in units |-> Total(texts(u))]
  BY DEF Claims, BilledBy
<1>4. ASSUME NEW u \in units
      PROVE  /\ Total(texts(u)) \in Int /\ Total(texts(u)) # BadDecimal
             /\ Parse(Total(texts(u))) = Billed(s, u)
  <2>1. IsFiniteSet(DOMAIN s.records)
    BY <1>1, FS_Interval
  <2>2. BilledBy(s, u) \in SUBSET DOMAIN s.records
    BY DEF BilledBy
  <2>3. IsFiniteSet(BilledBy(s, u))
    BY <2>1, <2>2, FS_Subset
  <2>4. \A k \in BilledBy(s, u) :
          /\ s.records[k].count \in DecimalText /\ s.records[k].count # BadDecimal
          /\ s.records[k].count = Text(Parse(s.records[k].count))
    BY <1>1, <2>2, RecordFields DEF Honest, Billable
  <2>5. \A k \in BilledBy(s, u) : counts(u)[k] \in Int /\ texts(u)[k] = Text(counts(u)[k])
    BY <2>4, ParseInt
  <2>6. DOMAIN texts(u) = BilledBy(s, u) /\ DOMAIN counts(u) = BilledBy(s, u)
    OBVIOUS
  <2>7. Billed(s, u) = Total(counts(u))
    BY DEF Billed
  <2> HIDE DEF texts, counts
  <2> QED
    BY <2>3, <2>5, <2>6, <2>7, ParseOfTotal
<1> HIDE DEF texts, counts
<1>5. \A u \in UnitType : u \notin units => BilledBy(s, u) = {}
  BY DEF BilledBy
<1> HIDE DEF units
<1> QED
  BY <1>2, <1>3, <1>4, <1>5 DEF DecimalText

------------------------------------------------------------------------------
(* The beginning.                                                           *)

LEMMA InitIInv == Init => IInv
<1>1. SUFFICES ASSUME Init PROVE IInv
  OBVIOUS
<1>2. ProofsTyped
  BY <1>1, MeteringAssumption DEF Init, ProofsTyped
<1>3. PICK org \in Org, plan \in Plans :
        /\ \A k \in DOMAIN plan : Positions(plan[k].receipt) # {}
        /\ packOrg \in {org, NoOrg}
        /\ LET records == [k \in DOMAIN plan |-> Metered(proofs, plan[k])] IN
           sealed = [org |-> org, records |-> records, totals |-> Claims(records)]
  BY <1>1 DEF Init
<1> DEFINE records == [k \in DOMAIN plan |-> Metered(proofs, plan[k])]
<1>4. sealed = [org |-> org, records |-> records, totals |-> Claims(records)]
  BY <1>3
<1>5. /\ Len(plan) \in Nat /\ DOMAIN plan = 1..Len(plan)
      /\ \A k \in DOMAIN plan :
           /\ plan[k] \in [receipt : ReceiptId, unit : UnitType \ {"CUSTOM"}, weight : Int]
           /\ plan[k].weight % Finer = 0
  <2>1. plan \in Seq([receipt : ReceiptId, unit : UnitType \ {"CUSTOM"}, weight : Int])
    BY MeteringAssumption
  <2>2. \A k \in DOMAIN plan : plan[k].weight % Finer = 0
    BY MeteringAssumption
  <2> QED
    BY <2>1, <2>2, SequenceOf
<1>6. \A k \in DOMAIN plan : Metered(proofs, plan[k]) \in Record /\ Honest(Metered(proofs, plan[k]))
  BY <1>2, <1>3, <1>5, MeteredHonest
<1>7. records \in Seq(Record) /\ DOMAIN records = DOMAIN plan
      /\ \A k \in DOMAIN records : Honest(records[k])
  <2>1. records \in [1..Len(plan) -> Record]
    BY <1>5, <1>6
  <2>2. \A n \in Nat : \A f \in [1..n -> Record] : f \in Seq(Record)
    OBVIOUS
  <2>3. records \in Seq(Record)
    BY <1>5, <2>1, <2>2
  <2> QED
    BY <1>6, <2>3
<1> HIDE DEF records
<1> DEFINE blank == [org |-> org, records |-> records, totals |-> NoTotals]
<1>8. blank \in Summary /\ blank.records = records
  BY <1>7 DEF Summary
<1> HIDE DEF blank
<1>9. /\ DOMAIN Claims(records) \subseteq UnitType
      /\ Claims(records) \in [DOMAIN Claims(records) -> DecimalText]
  BY <1>7, <1>8, ClaimsOfHonest
<1>10. sealed \in Summary /\ sealed.records = records /\ sealed.totals = Claims(records)
  <2>1. Claims(records) \in UNION {[units -> DecimalText] : units \in SUBSET UnitType}
    BY <1>9
  <2> QED
    BY <1>4, <1>7, <2>1 DEF Summary
<1>11. /\ metering = sealed /\ altered = 0 /\ pc = "transit" /\ i = 1 /\ computed = << >>
       /\ pending = {} /\ steps = {} /\ status = "pending"
  BY <1>1 DEF Init
<1>12. Origin
  BY <1>7, <1>10, <1>11 DEF Origin
<1>13. Control
  BY <1>11 DEF Control
<1>14. Len(metering.records) \in Nat /\ metering.org = org
       /\ \A k \in DOMAIN metering.records :
            metering.records[k].receipt \in ReceiptId /\ metering.records[k].unit \in UnitType
  BY <1>4, <1>10, <1>11, RecordTyped, RecordFields
<1>15. TypeOK
  BY <1>3, <1>11, <1>14, MeteringAssumption DEF TypeOK
<1>16. Typed
  BY <1>2, <1>10, <1>11, <1>14, <1>15 DEF Typed, ProofsTyped
<1> QED
  BY <1>12, <1>13, <1>16 DEF IInv, WalkInv

------------------------------------------------------------------------------
(* The steps.                                                               *)

LEMMA AlterStep == IInv /\ Alter => IInv'
<1>1. SUFFICES ASSUME IInv, Alter PROVE IInv'
  OBVIOUS
<1>2. /\ pc = "transit" /\ altered < MaxAlterations
      /\ metering' \in Variants(metering) /\ altered' = altered + 1
      /\ proofs' = proofs /\ packOrg' = packOrg /\ sealed' = sealed /\ pc' = pc /\ i' = i
      /\ computed' = computed /\ pending' = pending /\ steps' = steps /\ status' = status
  BY <1>1 DEF Alter
<1>3. Typed /\ Origin /\ Control /\ TypeOK
  BY <1>1 DEF IInv, WalkInv, Typed
<1>4. metering' \in Summary
  BY <1>2, <1>3, OneChange DEF Typed
<1>5. /\ i = 1 /\ computed = << >> /\ steps = {} /\ status = "pending"
  BY <1>2, <1>3 DEF Control
<1>6. /\ Len(metering.records)' \in Nat /\ metering'.org \in Org
      /\ \A k \in DOMAIN metering.records' :
           metering'.records[k].receipt \in ReceiptId /\ metering'.records[k].unit \in UnitType
  <2>1. /\ Len(metering'.records) \in Nat
        /\ \A k \in DOMAIN metering'.records : metering'.records[k] \in Record
    BY <1>4, RecordTyped
  <2> QED
    BY <1>4, <2>1, RecordFields DEF Summary
<1>7. pending = {}
  BY <1>2, <1>3 DEF Control
<1>8. TypeOK'
  BY <1>2, <1>3, <1>5, <1>6, <1>7, MeteringAssumption DEF TypeOK
<1>9. Typed'
  BY <1>2, <1>3, <1>4, <1>5, <1>6, <1>8 DEF Typed
<1>10. Origin'
  <2>1. \A m : Honest(m)' <=> Honest(m)
    BY <1>2, SameProofs
  <2>2. altered \in Nat
    BY <1>3 DEF Typed
  <2>3. altered' = 1 => metering' \in Variants(sealed)
    BY <1>2, <1>3, <2>2 DEF Origin
  <2> QED
    BY <1>2, <1>3, <2>1, <2>2, <2>3 DEF Origin
<1>11. Control'
  BY <1>2, <1>5, <1>7 DEF Control
<1> QED
  BY <1>9, <1>10, <1>11 DEF IInv, WalkInv

LEMMA StepFields ==
  ASSUME NEW field, NEW k, NEW reason
  PROVE  /\ Ok(field, k).status = "VALID" /\ Ok(field, k).target[1] = field
         /\ Fault(field, k, reason).status = "INVALID" /\ Fault(field, k, reason).target[1] = field
  BY DEF Ok, Fault, Step

\* Steps that do not concern the totals.
Local(judged) == \A s \in judged : s.status \in Statuses /\ s.target[1] # "totals"

AnyFault(judged) == \E s \in judged : s.status = "INVALID"

(* The invariant as the records are gone through.                           *)
LEMMA WhileRecords ==
  ASSUME WalkInv, UNCHANGED Inputs, pc' = "records",
         NEW n \in 1..(Len(metering.records) + 1), i' = n,
         DOMAIN computed' \subseteq {metering.records[k].unit : k \in 1..(n - 1)},
         pending' = pending, pending = {}, status' = status, status = "pending",
         \A s \in steps' : s.status \in Statuses,
         \A u \in UnitType : Computed(computed', u) =
           Total([k \in Towards(n - 1, u) |-> Projection(metering.records[k])]),
         ~TotalsAccused',
         OthersAccused' <=> OrgWrong \/ \E k \in 1..(n - 1) : ~Right(metering.records[k])
  PROVE  WalkInv'
<1>1. /\ proofs' = proofs /\ metering' = metering /\ sealed' = sealed
      /\ altered' = altered /\ packOrg' = packOrg
  BY DEF Inputs
<1>2. Typed /\ Control /\ TypeOK
  BY DEF WalkInv, Typed
<1>3. Typed'
  <2>1. TypeOK'
    BY <1>1, <1>2 DEF TypeOK
  <2> QED
    BY <1>1, <1>2, <2>1 DEF Typed
<1>4. Summed'
  <2>1. \A u : Total([k \in Towards(n - 1, u) |-> Projection(metering.records[k])])'
               = Total([k \in Towards(n - 1, u) |-> Projection(metering.records[k])])
    BY SameInputs
  <2> QED
    BY <2>1 DEF Summed
<1>5. Judged'
  <2>1. \A k : Right(metering.records[k])' <=> Right(metering.records[k])
    BY SameInputs
  <2>2. OrgWrong' <=> OrgWrong
    BY SameInputs
  <2>3. (\E k \in 1..(i - 1) : ~Right(metering.records[k]))'
          <=> \E k \in 1..(n - 1) : ~Right(metering.records[k])
    BY <2>1
  <2> QED
    BY <2>2, <2>3 DEF Judged
<1>6. Control'
  BY <1>2, <1>4, <1>5 DEF Control
<1> QED
  BY <1>3, <1>6 DEF WalkInv

(* The first step of the walk starts from the invariant.                    *)
LEMMA WalkBegins ==
  ASSUME ProofsTyped, sealed \in Summary, metering \in Summary, packOrg \in Org \cup {NoOrg},
         altered \in 0..MaxAlterations,
         pc = "transit", i = 1, computed = << >>, pending = {}, steps = {}, status = "pending"
  PROVE  WalkInv
<1>1. /\ Len(metering.records) \in Nat /\ metering.org \in Org /\ altered \in Nat
      /\ \A k \in DOMAIN metering.records :
           metering.records[k].receipt \in ReceiptId /\ metering.records[k].unit \in UnitType
  BY RecordTyped, RecordFields, MeteringAssumption DEF Summary
<1>2. TypeOK
  BY <1>1 DEF TypeOK
<1>3. Control
  BY DEF Control
<1> QED
  BY <1>1, <1>2, <1>3 DEF WalkInv, Typed, ProofsTyped

LEMMA CheckOrgStep == WalkInv /\ CheckOrg => WalkInv'
<1>1. SUFFICES ASSUME WalkInv, CheckOrg PROVE WalkInv'
  OBVIOUS
<1>2. /\ pc = "transit" /\ pc' = "records" /\ UNCHANGED Inputs
      /\ i' = i /\ computed' = computed /\ pending' = pending /\ status' = status
      /\ steps' = IF packOrg = NoOrg THEN {}
                  ELSE {IF metering.org = packOrg THEN Ok("orgId", 0)
                        ELSE Fault("orgId", 0, "METER_ORG_MISMATCH")}
  BY <1>1 DEF CheckOrg, Inputs
<1>3. /\ i = 1 /\ computed = << >> /\ pending = {} /\ status = "pending" /\ Typed
      /\ Len(metering.records) \in Nat
  BY <1>1, <1>2, RecordTyped DEF WalkInv, Control, Typed
<1>4. \A u : Towards(0, u) = {}
  BY DEF Towards
<1>5. \A u \in UnitType : Computed(computed', u) =
        Total([k \in Towards(0, u) |-> Projection(metering.records[k])])
  <2>1. SUFFICES ASSUME NEW u \in UnitType
                 PROVE  Computed(<< >>, u) =
                          Total([k \in Towards(0, u) |-> Projection(metering.records[k])])
    BY <1>2, <1>3
  <2> DEFINE f == [k \in Towards(0, u) |-> Projection(metering.records[k])]
  <2>2. DOMAIN f = {}
    BY <1>4
  <2> HIDE DEF f
  <2>3. Total(f) = 0
    BY <2>2, TotalOfNone
  <2>4. Computed(<< >>, u) = 0
    BY DEF Computed
  <2> QED
    BY <2>3, <2>4 DEF f
<1>6. /\ \A s \in steps' : s.status \in Statuses /\ s.target[1] = "orgId"
      /\ AnyFault(steps') <=> OrgWrong
  BY <1>2, StepFields DEF AnyFault, OrgWrong, Statuses
<1>7. ~TotalsAccused' /\ (OthersAccused' <=> OrgWrong)
  BY <1>6 DEF TotalsAccused, OthersAccused, AnyFault
<1>8. 1 \in 1..(Len(metering.records) + 1) /\ 1 - 1 = 0
      /\ DOMAIN computed' \subseteq {metering.records[k].unit : k \in 1..(1 - 1)}
      /\ ~\E k \in 1..(1 - 1) : ~Right(metering.records[k])
  BY <1>2, <1>3
<1> QED
  BY <1>1, <1>2, <1>3, <1>5, <1>6, <1>7, <1>8, WhileRecords

(* A record is judged by itself.                                            *)
LEMMA JudgeStep ==
  ASSUME WalkInv, AtRecord, NEW judged, Judge(judged), Local(judged),
         AnyFault(judged) <=> ~Right(current),
         DOMAIN computed' \subseteq DOMAIN computed \cup {current.unit},
         \A u \in UnitType : Computed(computed', u) =
           Total([k \in Towards(i, u) |-> Projection(metering.records[k])])
  PROVE  WalkInv'
<1>1. /\ pc = "records" /\ pc' = "records" /\ UNCHANGED Inputs /\ i' = i + 1
      /\ pending' = pending /\ status' = status /\ steps' = steps \cup judged
      /\ i <= Len(metering.records)
  BY DEF AtRecord, Judge, Inputs
<1>2. /\ Typed /\ TypeOK /\ Summed /\ Judged /\ status = "pending"
      /\ Len(metering.records) \in Nat /\ i \in 1..Len(metering.records)
  BY <1>1, RecordTyped DEF WalkInv, Control, Typed
<1>3. pending = {}
  BY <1>1 DEF WalkInv, Control
<1>4. /\ OthersAccused' <=> OthersAccused \/ AnyFault(judged)
      /\ ~TotalsAccused'
      /\ \A s \in steps' : s.status \in Statuses
  <2>1. ~TotalsAccused
    BY <1>1, <1>2 DEF Judged
  <2> QED
    BY <1>1, <1>2, <2>1 DEF OthersAccused, TotalsAccused, AnyFault, Local, TypeOK
<1>5. (\E k \in 1..i : ~Right(metering.records[k]))
        <=> (\E k \in 1..(i - 1) : ~Right(metering.records[k])) \/ ~Right(current)
  <2>1. \A k \in 1..i : k \in 1..(i - 1) \/ k = i
    BY <1>2
  <2>2. i \in 1..i /\ \A k \in 1..(i - 1) : k \in 1..i
    BY <1>2
  <2> QED
    BY <2>1, <2>2 DEF current
<1>6. OthersAccused' <=> OrgWrong \/ \E k \in 1..i : ~Right(metering.records[k])
  BY <1>2, <1>4, <1>5 DEF Judged
<1>7. DOMAIN computed' \subseteq {metering.records[k].unit : k \in 1..i}
  <2>1. DOMAIN computed \subseteq {metering.records[k].unit : k \in 1..(i - 1)}
    BY <1>2 DEF TypeOK
  <2>2. i \in 1..i /\ \A k \in 1..(i - 1) : k \in 1..i
    BY <1>2
  <2> QED
    BY <2>1, <2>2 DEF current
<1>8. (i + 1) - 1 = i /\ i + 1 \in 1..(Len(metering.records) + 1)
  BY <1>2
<1> QED
  BY <1>1, <1>2, <1>3, <1>4, <1>6, <1>7, <1>8, WhileRecords

LEMMA AtRecordFacts ==
  ASSUME WalkInv, AtRecord
  PROVE  /\ Typed /\ ProofsTyped /\ Summed
         /\ i \in 1..Len(metering.records) /\ Len(metering.records) \in Nat
         /\ current \in Record /\ current.unit \in UnitType
         /\ \A n \in 1..Len(metering.records) : metering.records[n] \in Record
<1>1. Typed /\ ProofsTyped /\ Summed
  BY DEF WalkInv, Control, AtRecord, Typed, ProofsTyped
<1>2. /\ Len(metering.records) \in Nat /\ DOMAIN metering.records = 1..Len(metering.records)
      /\ \A k \in DOMAIN metering.records : metering.records[k] \in Record
  BY <1>1, RecordTyped DEF Typed
<1>3. i \in 1..Len(metering.records)
  BY <1>1, <1>2 DEF Typed, AtRecord
<1>4. current \in Record
  BY <1>2, <1>3 DEF current
<1> QED
  BY <1>1, <1>2, <1>3, <1>4, RecordFields

(* A record that cannot be billed is accused, and counts for nothing.       *)
LEMMA PassedOver ==
  ASSUME WalkInv, AtRecord, NEW judged, Judge(judged), Local(judged), AnyFault(judged),
         ~Billable(current), computed' = computed
  PROVE  WalkInv'
<1>1. Typed /\ Summed /\ i \in 1..Len(metering.records) /\ Len(metering.records) \in Nat
  BY AtRecordFacts
<1>2. \A u : Towards(i, u) = Towards(i - 1, u)
  <2>1. \A k : k \in 1..i <=> k \in 1..(i - 1) \/ k = i
    BY <1>1
  <2> QED
    BY <2>1 DEF Towards, current
<1>3. \A u \in UnitType : Computed(computed', u) =
        Total([k \in Towards(i, u) |-> Projection(metering.records[k])])
  BY <1>1, <1>2 DEF Summed
<1>4. ~Right(current)
  BY DEF Right
<1>5. DOMAIN computed' \subseteq DOMAIN computed \cup {current.unit}
  OBVIOUS
<1> QED
  BY <1>3, <1>4, <1>5, JudgeStep

LEMMA IdemStepIs ==
  /\ IdemStep.status \in Statuses /\ IdemStep.target[1] = "idemKey"
  /\ IdemStep.status = "INVALID" <=> current.idem # IdemKey(current)
  BY StepFields DEF IdemStep, Statuses

LEMMA UnknownProofStep == WalkInv /\ RecordForUnknownProof => WalkInv'
<1>1. SUFFICES ASSUME WalkInv, RecordForUnknownProof PROVE WalkInv'
  OBVIOUS
<1> DEFINE judged == {Fault("proofReceiptId", i, "METER_RECORD_FOR_UNKNOWN_PROOF")}
<1>2. AtRecord /\ Judge(judged) /\ ~Billable(current) /\ computed' = computed
  BY <1>1 DEF RecordForUnknownProof, Billable
<1>3. Local(judged) /\ AnyFault(judged)
  BY StepFields DEF Local, AnyFault, Statuses
<1> QED
  BY <1>1, <1>2, <1>3, PassedOver

LEMMA BadWeightStep == WalkInv /\ RecordWithBadWeight => WalkInv'
<1>1. SUFFICES ASSUME WalkInv, RecordWithBadWeight PROVE WalkInv'
  OBVIOUS
<1> DEFINE judged == {IdemStep, Fault("weight", i, "METER_UNIT_COUNT_MISMATCH")}
<1>2. AtRecord /\ Judge(judged) /\ ~Billable(current) /\ computed' = computed
  BY <1>1 DEF RecordWithBadWeight, Known, Billable
<1>3. Local(judged) /\ AnyFault(judged)
  BY StepFields, IdemStepIs DEF Local, AnyFault, Statuses
<1> QED
  BY <1>1, <1>2, <1>3, PassedOver

LEMMA WithoutProjectionStep == WalkInv /\ RecordWithoutProjection => WalkInv'
<1>1. SUFFICES ASSUME WalkInv, RecordWithoutProjection PROVE WalkInv'
  OBVIOUS
<1> DEFINE judged == {IdemStep, CountFault}
<1>2. AtRecord /\ Judge(judged) /\ ~Billable(current) /\ computed' = computed
  BY <1>1 DEF RecordWithoutProjection, Known, Billable
<1>3. Local(judged) /\ AnyFault(judged)
  BY StepFields, IdemStepIs DEF Local, AnyFault, Statuses, CountFault
<1> QED
  BY <1>1, <1>2, <1>3, PassedOver

LEMMA BadCountStep == WalkInv /\ RecordWithBadCount => WalkInv'
<1>1. SUFFICES ASSUME WalkInv, RecordWithBadCount PROVE WalkInv'
  OBVIOUS
<1> DEFINE judged == {IdemStep, CountFault}
<1>2. AtRecord /\ Judge(judged) /\ ~Billable(current) /\ computed' = computed
  BY <1>1 DEF RecordWithBadCount, Projected, Known, Billable
<1>3. Local(judged) /\ AnyFault(judged)
  BY StepFields, IdemStepIs DEF Local, AnyFault, Statuses, CountFault
<1> QED
  BY <1>1, <1>2, <1>3, PassedOver

LEMMA TowardsSummable ==
  ASSUME Typed, NEW n \in 0..Len(metering.records), NEW u
  PROVE  Summable([k \in Towards(n, u) |-> Projection(metering.records[k])])
<1>1. /\ Len(metering.records) \in Nat /\ DOMAIN metering.records = 1..Len(metering.records)
      /\ \A k \in DOMAIN metering.records : metering.records[k] \in Record
  BY RecordTyped DEF Typed
<1>2. IsFiniteSet(Towards(n, u))
  <2>1. n \in Int /\ 1 \in Int
    BY <1>1
  <2>2. IsFiniteSet(1..n)
    BY <2>1, FS_Interval
  <2>3. Towards(n, u) \in SUBSET (1..n)
    BY DEF Towards
  <2> QED
    BY <2>2, <2>3, FS_Subset
<1>3. ASSUME NEW k \in Towards(n, u) PROVE Projection(metering.records[k]) \in Int
  <2>1. metering.records[k] \in Record /\ Billable(metering.records[k])
    BY <1>1 DEF Towards
  <2> QED
    BY <2>1, ProjectionInt DEF Typed, ProofsTyped
<1> QED
  BY <1>2, <1>3 DEF Summable

(* A record that can be billed adds its projection to its unit type's.      *)
LEMMA CompareCountStep == WalkInv /\ CompareCount => WalkInv'
<1>1. SUFFICES ASSUME WalkInv, CompareCount PROVE WalkInv'
  OBVIOUS
<1> DEFINE judged == {IdemStep, IF Parse(current.count) = Projection(current)
                                THEN Ok("unitCount", i) ELSE CountFault}
           units == DOMAIN computed \cup {current.unit}
<1>2. /\ AtRecord /\ Judge(judged) /\ Billable(current)
      /\ computed' = [u \in units |->
           Computed(computed, u) + (IF u = current.unit THEN Projection(current) ELSE 0)]
  BY <1>1 DEF CompareCount, Projected, Known, Billable, Counted
<1>3. Local(judged) /\ (AnyFault(judged) <=> ~Right(current))
  BY <1>2, StepFields, IdemStepIs DEF Local, AnyFault, Statuses, CountFault, Right
<1>4. /\ Typed /\ ProofsTyped /\ Summed
      /\ i \in 1..Len(metering.records) /\ Len(metering.records) \in Nat
      /\ current \in Record /\ current.unit \in UnitType
      /\ \A n \in 1..Len(metering.records) : metering.records[n] \in Record
  BY <1>1, <1>2, AtRecordFacts
<1>5. ASSUME NEW u \in UnitType
      PROVE  Computed(computed', u) =
               Total([k \in Towards(i, u) |-> Projection(metering.records[k])])
  <2> DEFINE f == [k \in Towards(i, u) |-> Projection(metering.records[k])]
             g == [k \in Towards(i - 1, u) |-> Projection(metering.records[k])]
  <2>1. Computed(computed, u) = Total(g)
    BY <1>4 DEF Summed
  <2>2. Towards(i, u) = Towards(i - 1, u) \cup (IF u = current.unit THEN {i} ELSE {})
    <3>1. \A k : k \in 1..i <=> k \in 1..(i - 1) \/ k = i
      BY <1>4
    <3> QED
      BY <1>2, <3>1 DEF Towards, current
  <2>3. i \notin Towards(i - 1, u)
    BY <1>4 DEF Towards
  <2>4. CASE u # current.unit
    <3>1. Computed(computed', u) = Computed(computed, u)
      <4>1. Total(g) \in Int
        <5>1. Summable(g)
          BY <1>4, TowardsSummable
        <5> HIDE DEF g
        <5> QED
          BY <5>1, TotalIsInt
      <4> HIDE DEF g
      <4> QED
        BY <1>2, <2>1, <2>4, <4>1 DEF Computed
    <3>2. Towards(i, u) = Towards(i - 1, u)
      BY <2>2, <2>4
    <3> QED
      BY <2>1, <3>1, <3>2
  <2>5. CASE u = current.unit
    <3>1. Summable(f)
      BY <1>4, TowardsSummable
    <3>2. /\ i \in DOMAIN f /\ DOMAIN g = DOMAIN f \ {i} /\ \A k \in DOMAIN g : g[k] = f[k]
          /\ f[i] = Projection(current)
      BY <2>2, <2>3, <2>5 DEF current
    <3>3. Computed(computed', u) = Computed(computed, u) + Projection(current)
      BY <1>2, <2>5 DEF Computed
    <3> HIDE DEF f, g
    <3>4. Summable(g) /\ Total(g) \in Int /\ Total(f) = f[i] + Total(g)
      BY <3>1, <3>2, TotalWithout
    <3>5. Projection(current) \in Int
      BY <1>2, <1>4, ProjectionInt
    <3>6. Computed(computed', u) = Total(f)
      BY <2>1, <3>2, <3>3, <3>4, <3>5
    <3> QED
      BY <3>6 DEF f
  <2> QED
    BY <2>4, <2>5
<1>6. DOMAIN computed' \subseteq DOMAIN computed \cup {current.unit}
  BY <1>2
<1> HIDE DEF judged
<1> QED
  BY <1>1, <1>2, <1>3, <1>5, <1>6, JudgeStep

(* The invariant once the records are done with.                            *)
LEMMA WhileTotals ==
  ASSUME WalkInv, UNCHANGED Inputs, pc' \in {"totals", "done"},
         i' = i, i = Len(metering.records) + 1, computed' = computed, Summed,
         pending' \subseteq ClaimedUnits, pc' = "done" => pending' = {},
         status' \in {"pending", "VALID", "INVALID"},
         IF pc' = "done" THEN status' = Verdict(steps') ELSE status' = "pending",
         \A s \in steps' : s.status \in Statuses,
         OthersAccused' <=> OrgWrong \/ \E k \in 1..(i - 1) : ~Right(metering.records[k]),
         TotalsAccused' <=> \E u \in ClaimedUnits \ pending' : TotalWrong(u)
  PROVE  WalkInv'
<1>1. /\ proofs' = proofs /\ metering' = metering /\ sealed' = sealed
      /\ altered' = altered /\ packOrg' = packOrg
  BY DEF Inputs
<1>2. Typed /\ Control /\ TypeOK
  BY DEF WalkInv, Typed
<1>3. Typed'
  <2>1. pending' # {} => metering.totals # NoTotals /\ pending' \subseteq DOMAIN metering.totals
    BY DEF ClaimedUnits
  <2>2. TypeOK'
    BY <1>1, <1>2, <2>1 DEF TypeOK
  <2> QED
    BY <1>1, <1>2, <2>2 DEF Typed
<1>4. Summed'
  <2>1. \A n, u : Total([k \in Towards(n, u) |-> Projection(metering.records[k])])'
               = Total([k \in Towards(n, u) |-> Projection(metering.records[k])])
    BY SameInputs
  <2> QED
    BY <2>1 DEF Summed
<1>5. Judged'
  <2>1. \A k : Right(metering.records[k])' <=> Right(metering.records[k])
    BY SameInputs
  <2>2. OrgWrong' <=> OrgWrong
    BY SameInputs
  <2>3. (\E k \in 1..(i - 1) : ~Right(metering.records[k]))'
          <=> \E k \in 1..(i - 1) : ~Right(metering.records[k])
    BY <2>1
  <2>4. ClaimedUnits' = ClaimedUnits /\ \A u : TotalWrong(u)' <=> TotalWrong(u)
    BY <1>1, SameInputs DEF TotalWrong
  <2>5. (\E u \in ClaimedUnits \ pending : TotalWrong(u))'
          <=> \E u \in ClaimedUnits \ pending' : TotalWrong(u)
    BY <2>4
  <2> QED
    BY <2>2, <2>3, <2>5 DEF Judged
<1>6. Control'
  BY <1>1, <1>2, <1>4, <1>5 DEF Control
<1> QED
  BY <1>3, <1>6 DEF WalkInv

LEMMA StartTotalsStep == WalkInv /\ StartTotals => WalkInv'
<1>1. SUFFICES ASSUME WalkInv, StartTotals PROVE WalkInv'
  OBVIOUS
<1>2. /\ pc = "records" /\ i > Len(metering.records) /\ pending' = ClaimedUnits
      /\ pc' = "totals" /\ UNCHANGED Inputs
      /\ i' = i /\ computed' = computed /\ steps' = steps /\ status' = status
  BY <1>1 DEF StartTotals, Inputs
<1>3. Typed /\ TypeOK /\ Summed /\ Judged /\ status = "pending"
  BY <1>1, <1>2 DEF WalkInv, Control, Typed
<1>4. i = Len(metering.records) + 1
  BY <1>2, <1>3, RecordTyped DEF Typed
<1>5. /\ ~TotalsAccused' /\ (OthersAccused' <=> OthersAccused)
      /\ \A s \in steps' : s.status \in Statuses
  BY <1>2, <1>3 DEF Judged, TotalsAccused, OthersAccused, TypeOK
<1>6. OthersAccused' <=> OrgWrong \/ \E k \in 1..(i - 1) : ~Right(metering.records[k])
  BY <1>3, <1>5 DEF Judged
<1> QED
  BY <1>1, <1>2, <1>3, <1>4, <1>5, <1>6, WhileTotals

LEMMA CompareTotalStep == WalkInv /\ (\E u \in UnitType : CompareTotal(u)) => WalkInv'
<1>1. SUFFICES ASSUME WalkInv, NEW u \in UnitType, CompareTotal(u) PROVE WalkInv'
  OBVIOUS
<1> DEFINE claimed == metering.totals[u]
           judged == IF claimed = BadDecimal THEN {}
                     ELSE {IF Parse(claimed) = Computed(computed, u) THEN Ok("totals", u)
                           ELSE Fault("totals", u, "METER_TOTAL_MISMATCH")}
<1>2. /\ pc = "totals" /\ u \in pending /\ pending' = pending \ {u}
      /\ steps' = steps \cup judged
      /\ pc' = pc /\ UNCHANGED Inputs
      /\ i' = i /\ computed' = computed /\ status' = status
  BY <1>1 DEF CompareTotal, Inputs
<1>3. /\ Typed /\ TypeOK /\ Summed /\ Judged /\ status = "pending"
      /\ i = Len(metering.records) + 1
  BY <1>1, <1>2 DEF WalkInv, Control, Typed
<1>4. pending \subseteq ClaimedUnits
  BY <1>3 DEF TypeOK, ClaimedUnits
<1>5. /\ \A s \in judged : s.status \in Statuses /\ s.target[1] = "totals"
      /\ AnyFault(judged) <=> TotalWrong(u)
  BY StepFields DEF AnyFault, TotalWrong, Statuses
<1> HIDE DEF judged, claimed
<1>6. /\ OthersAccused' <=> OthersAccused
      /\ TotalsAccused' <=> TotalsAccused \/ TotalWrong(u)
      /\ \A s \in steps' : s.status \in Statuses
  BY <1>2, <1>3, <1>5 DEF OthersAccused, TotalsAccused, AnyFault, TypeOK
<1>7. OthersAccused' <=> OrgWrong \/ \E k \in 1..(i - 1) : ~Right(metering.records[k])
  BY <1>3, <1>6 DEF Judged
<1>8. TotalsAccused' <=> \E v \in ClaimedUnits \ pending' : TotalWrong(v)
  BY <1>2, <1>3, <1>4, <1>6 DEF Judged
<1> QED
  BY <1>1, <1>2, <1>3, <1>4, <1>6, <1>7, <1>8, WhileTotals

LEMMA RollUpStep == WalkInv /\ RollUp => WalkInv'
<1>1. SUFFICES ASSUME WalkInv, RollUp PROVE WalkInv'
  OBVIOUS
<1>2. /\ pc = "totals" /\ pending = {} /\ status' = Verdict(steps) /\ pc' = "done"
      /\ UNCHANGED Inputs
      /\ i' = i /\ computed' = computed /\ pending' = pending /\ steps' = steps
  BY <1>1 DEF RollUp, Inputs
<1>3. /\ Typed /\ TypeOK /\ Summed /\ Judged
      /\ i = Len(metering.records) + 1
  BY <1>1, <1>2 DEF WalkInv, Control, Typed
<1>4. /\ OthersAccused' <=> OthersAccused
      /\ TotalsAccused' <=> TotalsAccused
      /\ \A s \in steps' : s.status \in Statuses
  BY <1>2, <1>3 DEF OthersAccused, TotalsAccused, TypeOK
<1>5. OthersAccused' <=> OrgWrong \/ \E k \in 1..(i - 1) : ~Right(metering.records[k])
  BY <1>3, <1>4 DEF Judged
<1>6. TotalsAccused' <=> \E u \in ClaimedUnits \ pending' : TotalWrong(u)
  BY <1>2, <1>3, <1>4 DEF Judged
<1>7. status' \in {"pending", "VALID", "INVALID"}
  BY <1>2 DEF Verdict
<1> QED
  BY <1>1, <1>2, <1>3, <1>4, <1>5, <1>6, <1>7, WhileTotals

(* A step of the verifier, whatever it audits.                              *)
LEMMA WalkStep == WalkInv /\ Walk => WalkInv'
  BY CheckOrgStep, UnknownProofStep, BadWeightStep, WithoutProjectionStep, BadCountStep,
     CompareCountStep, StartTotalsStep, CompareTotalStep, RollUpStep DEF Walk

LEMMA WalkReads == Walk => UNCHANGED Inputs
  BY DEF Walk, CheckOrg, RecordForUnknownProof, RecordWithBadWeight, RecordWithoutProjection,
         RecordWithBadCount, CompareCount, StartTotals, CompareTotal, RollUp, Judge, Inputs

LEMMA WalkStutter == WalkInv /\ UNCHANGED vars => WalkInv'
<1>1. SUFFICES ASSUME WalkInv, UNCHANGED vars PROVE WalkInv'
  OBVIOUS
<1>2. /\ UNCHANGED Inputs /\ proofs' = proofs /\ metering' = metering /\ sealed' = sealed
      /\ altered' = altered /\ packOrg' = packOrg /\ pc' = pc /\ i' = i
      /\ computed' = computed /\ pending' = pending /\ steps' = steps /\ status' = status
  BY <1>1 DEF vars, Inputs
<1>3. Typed /\ Control /\ TypeOK
  BY <1>1 DEF WalkInv, Typed
<1>4. Typed'
  <2>1. TypeOK'
    BY <1>2, <1>3 DEF TypeOK
  <2> QED
    BY <1>2, <1>3, <2>1 DEF Typed
<1>5. Summed => Summed'
  <2>1. \A n, u : Total([k \in Towards(n, u) |-> Projection(metering.records[k])])'
               = Total([k \in Towards(n, u) |-> Projection(metering.records[k])])
    BY <1>2, SameInputs
  <2> QED
    BY <1>2, <2>1 DEF Summed
<1>6. Judged => Judged'
  <2>1. \A k : Right(metering.records[k])' <=> Right(metering.records[k])
    BY <1>2, SameInputs
  <2>2. OrgWrong' <=> OrgWrong
    BY <1>2, SameInputs
  <2>3. (\E k \in 1..(i - 1) : ~Right(metering.records[k]))'
          <=> \E k \in 1..(i - 1) : ~Right(metering.records[k])
    BY <1>2, <2>1
  <2>4. ClaimedUnits' = ClaimedUnits /\ \A u : TotalWrong(u)' <=> TotalWrong(u)
    BY <1>2, SameInputs DEF TotalWrong
  <2>5. (\E u \in ClaimedUnits \ pending : TotalWrong(u))'
          <=> \E u \in ClaimedUnits \ pending : TotalWrong(u)
    BY <1>2, <2>4
  <2>6. (OthersAccused' <=> OthersAccused) /\ (TotalsAccused' <=> TotalsAccused)
    BY <1>2 DEF OthersAccused, TotalsAccused
  <2> QED
    BY <1>2, <2>2, <2>3, <2>5, <2>6 DEF Judged
<1>7. Control'
  BY <1>2, <1>3, <1>5, <1>6 DEF Control
<1> QED
  BY <1>4, <1>7 DEF WalkInv

LEMMA StutterStep == IInv /\ UNCHANGED vars => IInv'
  BY WalkStutter, SameInputs DEF IInv, vars, Inputs

(* The running totals, the faults found and the summary's origin stay in    *)
(* step for packs, plans and summaries of any length, after any number of   *)
(* changes.                                                                 *)
THEOREM MeteringInductive == Spec => []IInv
<1>1. Init => IInv
  BY InitIInv
<1>2. IInv /\ [Next]_vars => IInv'
  <2>1. IInv /\ Alter => IInv'
    BY AlterStep
  <2>2. IInv /\ Walk => IInv'
    BY WalkStep, WalkReads, SameInputs DEF IInv
  <2>3. IInv /\ (Returned \/ UNCHANGED vars) => IInv'
    BY StutterStep DEF Returned
  <2> QED
    BY <2>1, <2>2, <2>3 DEF Next
<1> QED
  BY <1>1, <1>2, PTL DEF Spec

(* Every variable stays in its domain.                                      *)
THEOREM MeteringTypeCorrect == Spec => []TypeOK
<1>1. IInv => TypeOK
  BY DEF IInv, WalkInv, Typed
<1> QED
  BY <1>1, MeteringInductive, PTL

------------------------------------------------------------------------------
(* What the verdict says.                                                   *)

\* The verifier is through with the records.
Through == pc \in {"totals", "done"}

LEMMA ThroughFacts ==
  ASSUME WalkInv, Through
  PROVE  /\ Typed /\ ProofsTyped /\ Summed /\ Judged
         /\ Len(metering.records) \in Nat /\ i - 1 = Len(metering.records)
         /\ DOMAIN metering.records = 1..Len(metering.records)
         /\ \A k \in DOMAIN metering.records : metering.records[k] \in Record
<1>1. /\ Typed /\ ProofsTyped /\ Summed /\ Judged
      /\ i = Len(metering.records) + 1
  BY DEF WalkInv, Control, Through, Typed, ProofsTyped
<1>2. /\ Len(metering.records) \in Nat /\ DOMAIN metering.records = 1..Len(metering.records)
      /\ \A k \in DOMAIN metering.records : metering.records[k] \in Record
  BY <1>1, RecordTyped DEF Typed
<1> QED
  BY <1>1, <1>2

(* The running totals are what a summary bills whose counts are the         *)
(* projections of the records under audit.                                  *)
LEMMA ComputedIsBilled ==
  ASSUME WalkInv, Through, NEW s, DOMAIN s.records = DOMAIN metering.records,
         \A k \in DOMAIN metering.records :
           /\ Billable(metering.records[k])
           /\ s.records[k].unit = metering.records[k].unit
           /\ Parse(s.records[k].count) = Projection(metering.records[k])
  PROVE  \A u \in UnitType : Computed(computed, u) = Billed(s, u)
<1>1. /\ Summed /\ i - 1 = Len(metering.records)
      /\ DOMAIN metering.records = 1..Len(metering.records)
  BY ThroughFacts
<1>2. SUFFICES ASSUME NEW u \in UnitType PROVE Computed(computed, u) = Billed(s, u)
  OBVIOUS
<1>3. Towards(i - 1, u) = BilledBy(s, u)
  BY <1>1 DEF Towards, BilledBy
<1>4. [k \in Towards(i - 1, u) |-> Projection(metering.records[k])]
        = [k \in BilledBy(s, u) |-> Parse(s.records[k].count)]
  BY <1>1, <1>3 DEF BilledBy
<1> QED
  BY <1>1, <1>4 DEF Summed, Billed

LEMMA ClaimedUnitsTyped ==
  ASSUME Typed
  PROVE  ClaimedUnits \subseteq UnitType
<1>1. metering.totals # NoTotals =>
        metering.totals \in UNION {[units -> DecimalText] : units \in SUBSET UnitType}
  BY DEF Typed, Summary
<1>2. metering.totals # NoTotals => DOMAIN metering.totals \subseteq UnitType
  BY <1>1
<1> QED
  BY <1>2 DEF ClaimedUnits

\* What a VALID summary is, in terms of the evidence alone.
Tallies ==
  /\ ~OrgWrong
  /\ \A k \in DOMAIN metering.records : Right(metering.records[k])
  /\ \A u \in ClaimedUnits :
       metering.totals[u] # BadDecimal => Parse(metering.totals[u]) = Billed(metering, u)

(* The verdict is VALID exactly if the evidence tallies.                    *)
LEMMA VerdictIs ==
  ASSUME WalkInv, status # "pending"
  PROVE  /\ status \in {"VALID", "INVALID"}
         /\ status = "VALID" <=> Tallies
<1>1. /\ pc = "done" /\ pending = {} /\ status = Verdict(steps) /\ Through
  BY DEF WalkInv, Control, Through
<1>2. /\ Judged /\ i - 1 = Len(metering.records) /\ Typed
      /\ DOMAIN metering.records = 1..Len(metering.records)
  BY <1>1, ThroughFacts
<1>3. AnyInvalid(steps) <=> OthersAccused \/ TotalsAccused
  BY DEF AnyInvalid, OthersAccused, TotalsAccused
<1>4. ~OthersAccused <=> ~OrgWrong /\ \A k \in DOMAIN metering.records : Right(metering.records[k])
  BY <1>2 DEF Judged
<1>5. ~TotalsAccused <=> \A u \in ClaimedUnits : ~TotalWrong(u)
  BY <1>1, <1>2 DEF Judged
<1>6. ASSUME \A k \in DOMAIN metering.records : Right(metering.records[k])
      PROVE  \A u \in ClaimedUnits : TotalWrong(u) <=>
               ~(metering.totals[u] # BadDecimal => Parse(metering.totals[u]) = Billed(metering, u))
  <2>1. \A u \in UnitType : Computed(computed, u) = Billed(metering, u)
    BY <1>1, <1>6, ComputedIsBilled DEF Right
  <2> QED
    BY <1>2, <2>1, ClaimedUnitsTyped DEF TotalWrong
<1>7. ~AnyInvalid(steps) <=> Tallies
  BY <1>3, <1>4, <1>5, <1>6 DEF Tallies
<1> QED
  BY <1>1, <1>7 DEF Verdict

(* What tallies is borne out by the receipts.                               *)
LEMMA TalliesIsBorneOut ==
  ASSUME ProofsTyped, metering \in Summary, Tallies
  PROVE  BorneOut
<1>1. packOrg \in {NoOrg, metering.org}
  BY DEF Tallies, OrgWrong
<1>2. \A k \in DOMAIN metering.records :
        \E p \in DOMAIN proofs : BearsOut(proofs[p], metering.records[k])
  BY RecordTyped, RightIsBorneOut DEF Tallies
<1> QED
  BY <1>1, <1>2 DEF Tallies, BorneOut

\* A summary as the platform makes them.
HonestSummary(s) ==
  /\ s \in Summary
  /\ \A k \in DOMAIN s.records : Honest(s.records[k])
  /\ s.totals = Claims(s.records)

(* The platform's own summary, of a pack without repeated ids, tallies.     *)
LEMMA HonestTallies ==
  ASSUME HonestSummary(metering), DistinctReceipts, packOrg \in {NoOrg, metering.org}
  PROVE  Tallies
<1>1. \A k \in DOMAIN metering.records : Right(metering.records[k])
  BY DEF HonestSummary, Honest, Right
<1>2. \A u \in ClaimedUnits :
        metering.totals[u] # BadDecimal => Parse(metering.totals[u]) = Billed(metering, u)
  BY ClaimsOfHonest DEF HonestSummary, ClaimedUnits
<1> QED
  BY <1>1, <1>2 DEF Tallies, OrgWrong

(* A summary one change away from an honest one bills the same if it still  *)
(* tallies.                                                                 *)
LEMMA OneChangeTallies ==
  ASSUME NEW s, HonestSummary(s), metering \in Variants(s), Tallies, NEW u \in UnitType
  PROVE  Billed(metering, u) = Billed(s, u)
<1>1. /\ s \in Summary /\ s.totals = Claims(s.records)
      /\ \A k \in DOMAIN s.records : Honest(s.records[k])
  BY DEF HonestSummary
<1>2. \/ metering.records = s.records
      \/ /\ metering.totals = s.totals
         /\ \A k \in DOMAIN metering.records :
              \E j \in DOMAIN s.records : s.records[j].unit = metering.records[k].unit
  <2>1. \A k \in DOMAIN s.records : s.records[k].idem = IdemKey(s.records[k])
    BY <1>1 DEF Honest
  <2>2. \A k \in DOMAIN metering.records : metering.records[k].idem = IdemKey(metering.records[k])
    BY DEF Tallies, Right
  <2> QED
    BY <1>1, <2>1, <2>2, OneChange
<1>3. CASE metering.records = s.records
  BY <1>3 DEF Billed, BilledBy
<1>4. CASE /\ metering.totals = s.totals
           /\ \A k \in DOMAIN metering.records :
                \E j \in DOMAIN s.records : s.records[j].unit = metering.records[k].unit
  <2>1. CASE u \in DOMAIN s.totals
    <3>1. /\ s.totals[u] # BadDecimal /\ Parse(s.totals[u]) = Billed(s, u)
          /\ s.totals \in [DOMAIN s.totals -> Int]
      BY <1>1, <2>1, ClaimsOfHonest DEF Claims
    <3>2. s.totals # NoTotals
      <4>1. DOMAIN s.totals \in SUBSET UnitType
        BY <1>1, ClaimsOfHonest
      <4> QED
        BY <3>1, <4>1, MeteringAssumption
    <3>3. u \in ClaimedUnits
      BY <1>4, <2>1, <3>2 DEF ClaimedUnits
    <3> QED
      BY <1>4, <3>1, <3>3 DEF Tallies
  <2>2. CASE u \notin DOMAIN s.totals
    <3>1. BilledBy(s, u) = {}
      BY <1>1, <2>2, ClaimsOfHonest
    <3>2. BilledBy(metering, u) = {}
      BY <1>4, <3>1 DEF BilledBy
    <3>3. \A t : BilledBy(t, u) = {} => Billed(t, u) = 0
      <4>1. SUFFICES ASSUME NEW t, BilledBy(t, u) = {} PROVE Billed(t, u) = 0
        OBVIOUS
      <4> DEFINE f == [k \in BilledBy(t, u) |-> Parse(t.records[k].count)]
      <4>2. DOMAIN f = {}
        BY <4>1
      <4> HIDE DEF f
      <4>3. Total(f) = 0
        BY <4>2, TotalOfNone
      <4> QED
        BY <4>3 DEF Billed, f
    <3> QED
      BY <3>1, <3>2, <3>3
  <2> QED
    BY <2>1, <2>2
<1> QED
  BY <1>2, <1>3, <1>4

LEMMA OriginIsHonest == IInv => HonestSummary(sealed) /\ ProofsTyped /\ metering \in Summary
  BY DEF IInv, WalkInv, Typed, ProofsTyped, Origin, HonestSummary

(* The verdict depends on the evidence alone: VALID exactly for a summary   *)
(* whose records the pack bears out to the last digit and whose totals are  *)
(* theirs, whatever the order in which the totals came up.                  *)
THEOREM MeteringVerdictIsExact ==
  Spec => [](status # "pending" => (status = "VALID" <=> Tallies))
<1>1. IInv => (status # "pending" => (status = "VALID" <=> Tallies))
  BY VerdictIs DEF IInv
<1> QED
  BY <1>1, MeteringInductive, PTL

(* A VALID summary bills nothing the pack does not bear out.                *)
THEOREM BilledIsBorneOut == Spec => []ValidMeansBorneOut
<1>1. IInv => ValidMeansBorneOut
  BY VerdictIs, TalliesIsBorneOut, OriginIsHonest DEF IInv, ValidMeansBorneOut
<1> QED
  BY <1>1, MeteringInductive, PTL

(* The platform's own summary is never refused, of whatever length.         *)
THEOREM HonestBillsPass == Spec => []HonestMeteringAccepted
<1>1. IInv => HonestMeteringAccepted
  <2>1. SUFFICES ASSUME IInv, altered = 0, DistinctReceipts, packOrg \in {NoOrg, sealed.org},
                        status = "INVALID"
                 PROVE  FALSE
    BY DEF HonestMeteringAccepted
  <2>2. metering = sealed /\ HonestSummary(sealed)
    BY <2>1, OriginIsHonest DEF IInv, Origin
  <2>3. Tallies
    BY <2>1, <2>2, HonestTallies
  <2> QED
    BY <2>1, <2>3, VerdictIs DEF IInv
<1> QED
  BY <1>1, MeteringInductive, PTL

(* No single change of an honest summary that gets through changes what a   *)
(* unit type bills.                                                         *)
THEOREM OneChangeBillsTheSame == Spec => []SingleChangeDetected
<1>1. IInv => SingleChangeDetected
  <2>1. SUFFICES ASSUME IInv, altered = 1, status = "VALID", NEW u \in UnitType
                 PROVE  Billed(metering, u) = Billed(sealed, u)
    BY DEF SingleChangeDetected
  <2>2. metering \in Variants(sealed) /\ HonestSummary(sealed)
    BY <2>1, OriginIsHonest DEF IInv, Origin
  <2>3. Tallies
    BY <2>1, VerdictIs DEF IInv
  <2> QED
    BY <2>2, <2>3, OneChangeTallies
<1> QED
  BY <1>1, MeteringInductive, PTL

(* Falsified counts are accused in their records, and the totals the        *)
(* platform sealed are not.                                                 *)
THEOREM FaultsAreLocal == Spec => []FaultStaysLocal
<1>1. IInv => FaultStaysLocal
  <2>1. SUFFICES ASSUME IInv, status # "pending", DistinctReceipts,
                        metering.totals = sealed.totals,
                        Len(metering.records) = Len(sealed.records),
                        \A k \in DOMAIN sealed.records :
                          /\ metering.records[k].count # BadDecimal
                          /\ \A f \in {"receipt", "unit", "weight"} :
                               metering.records[k][f] = sealed.records[k][f]
                 PROVE  ~TotalsAccused
    BY DEF FaultStaysLocal, TotalsAccused
  <2>2. pc = "done" /\ pending = {} /\ Through
    BY <2>1 DEF IInv, WalkInv, Control, Through
  <2>3. /\ Judged /\ ProofsTyped
        /\ DOMAIN metering.records = 1..Len(metering.records)
        /\ sealed \in Summary /\ sealed.totals = Claims(sealed.records)
        /\ \A k \in DOMAIN sealed.records : Honest(sealed.records[k])
    BY <2>1, <2>2, ThroughFacts DEF IInv, Origin, Typed
  <2>4. DOMAIN sealed.records = DOMAIN metering.records
    BY <2>1, <2>3, RecordTyped
  <2>5. ASSUME NEW k \in DOMAIN metering.records
        PROVE  /\ Billable(metering.records[k])
               /\ sealed.records[k].unit = metering.records[k].unit
               /\ Parse(sealed.records[k].count) = Projection(metering.records[k])
    <3>1. /\ metering.records[k].receipt = sealed.records[k].receipt
          /\ metering.records[k].unit = sealed.records[k].unit
          /\ metering.records[k].weight = sealed.records[k].weight
          /\ metering.records[k].count # BadDecimal
      BY <2>1, <2>4
    <3>2. Billable(sealed.records[k]) /\ Parse(sealed.records[k].count) = Projection(sealed.records[k])
      BY <2>1, <2>3, <2>4 DEF Honest
    <3>3. Billable(metering.records[k])
      BY <3>1, <3>2 DEF Billable
    <3>4. Projection(metering.records[k]) = Projection(sealed.records[k])
      BY <3>1 DEF Projection
    <3> QED
      BY <3>1, <3>2, <3>3, <3>4
  <2>6. \A u \in UnitType : Computed(computed, u) = Billed(sealed, u)
    BY <2>1, <2>2, <2>4, <2>5, ComputedIsBilled DEF IInv
  <2>7. \A u \in ClaimedUnits : ~TotalWrong(u)
    BY <2>1, <2>3, <2>6, ClaimsOfHonest DEF TotalWrong, ClaimedUnits
  <2> QED
    BY <2>2, <2>3, <2>7 DEF Judged
<1> QED
  BY <1>1, MeteringInductive, PTL
==============================================================================
