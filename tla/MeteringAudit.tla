---------------------------- MODULE MeteringAudit ----------------------------
(* verify_metering_projection: every meter record is projected again from   *)
(* the proof receipt it names (metering_audit.rs).                         *)
(*                                                                         *)
(* The platform meters (external) the receipts of a pack; until the audit   *)
(* at most MaxAlterations changes are made to the summary.  Dwell times are *)
(* milliseconds; weights and counts are decimal texts (CentMath).          *)
EXTENDS Audit, CentMath

CONSTANTS ReceiptId,
          Org,
          Packs,        \* receipt sequences, of records [id, dwell]
          Plans,        \* what the platform bills, sequences of
                        \* [receipt, unit, weight]
          NoTotals, NoOrg,
          MaxAlterations

\* The wire names of MeterUnitType.
UnitType == {"DWELL_SECONDS", "IMPRESSION_IN_PLACE", "ATTENTION_SECONDS",
             "OCCUPANCY_WEIGHTED_EXPOSURE", "COMPLIANT_DELIVERY_MINUTE", "CUSTOM"}

ASSUME MeteringAssumption ==
  /\ MaxAlterations \in Nat
  /\ \A units \in SUBSET UnitType : NoTotals \notin [units -> Int]
  /\ Packs \subseteq Seq([id : ReceiptId, dwell : Int])
  /\ Plans \subseteq Seq([receipt : ReceiptId, unit : UnitType \ {"CUSTOM"}, weight : Int])
  /\ \A plan \in Plans : \A k \in DOMAIN plan : plan[k].weight % Finer = 0

\* sha256(proofReceiptId|unitType), a free constructor.
IdemKey(m) == [receipt |-> m.receipt, unit |-> m.unit]

VARIABLES proofs, packOrg,   \* the pack's receipts; its org, if one is given
          sealed, metering,  \* the summary as made, and under audit
          altered,
          pc, i,             \* control point, record index
          computed,          \* computed_totals: unit type -> scaled number
          pending,           \* claimed totals still to be compared
          steps, status

vars == <<proofs, packOrg, sealed, metering, altered, pc, i, computed, pending, steps, status>>

\* Mutation: minutes are rounded to the nearest place.
Minutes_Nearest(dwell) == Quotient(dwell * Scale + 30000, 60000)

\* Mutation: seconds are rounded to the nearest place.
Seconds_Nearest(dwell) == Quotient(dwell * Scale + 500, 1000)

\* Dwell time in scaled seconds and minutes, cut off at the last place.
Seconds(dwell) == Quotient(dwell * Scale, 1000)
Minutes(dwell) == Quotient(dwell * Scale, 60000)

\* project_unit_count; a CUSTOM unit has no projection, BadDecimal.
UnitCount(dwell, weight, unit) ==
  CASE unit \in {"DWELL_SECONDS", "ATTENTION_SECONDS", "OCCUPANCY_WEIGHTED_EXPOSURE"} ->
         Quotient(Seconds(dwell) * weight, Scale)
    [] unit = "IMPRESSION_IN_PLACE" -> weight
    [] unit = "COMPLIANT_DELIVERY_MINUTE" -> Quotient(Minutes(dwell) * weight, Scale)
    [] unit = "CUSTOM" -> BadDecimal

Positions(r) == {k \in DOMAIN proofs : proofs[k].id = r}

\* proof_by_receipt_id: the last of the receipts with one id is kept.
ProofOf(r) == proofs[CHOOSE k \in Positions(r) : \A j \in Positions(r) : j <= k]

Projection(m) == UnitCount(ProofOf(m.receipt).dwell, Parse(m.weight), m.unit)

\* A total for every unit type the records have, as the platform claims them.
Claims(records) ==
  [u \in {records[k].unit : k \in DOMAIN records} |->
     Total([k \in {j \in DOMAIN records : records[j].unit = u} |-> records[k].count])]

\* The platform's count of one planned record, by its own arithmetic.
Metered(pack, plan) ==
  LET own == CHOOSE k \in DOMAIN pack : pack[k].id = plan.receipt IN
  [receipt |-> plan.receipt, unit |-> plan.unit, weight |-> plan.weight,
   count |-> CASE plan.unit = "IMPRESSION_IN_PLACE" -> plan.weight
               [] plan.unit = "COMPLIANT_DELIVERY_MINUTE" ->
                    Text(Quotient(Quotient(pack[own].dwell * Scale, 60000) * Parse(plan.weight), Scale))
               [] OTHER ->
                    Text(Quotient(Quotient(pack[own].dwell * Scale, 1000) * Parse(plan.weight), Scale)),
   idem |-> [receipt |-> plan.receipt, unit |-> plan.unit]]

Init ==
  /\ proofs \in Packs
  /\ \E org \in Org, plan \in Plans :
       /\ \A k \in DOMAIN plan : Positions(plan[k].receipt) # {}
       /\ packOrg \in {org, NoOrg}
       /\ LET records == [k \in DOMAIN plan |-> Metered(proofs, plan[k])] IN
          sealed = [org |-> org, records |-> records, totals |-> Claims(records)]
  /\ metering = sealed
  /\ altered = 0
  /\ pc = "transit" /\ i = 1
  /\ computed = << >> /\ pending = {}
  /\ steps = {} /\ status = "pending"

------------------------------------------------------------------------------
(* Changes between the platform and the audit.                             *)

\* A text that parses to another number, one with excess digits, or garbage.
NewTexts(t) == {BadDecimal} \cup
  (IF t = BadDecimal THEN {} ELSE {t + Text(1), t - Text(1), t + 1})

NewRecords(m) ==
  {[m EXCEPT !.receipt = r] : r \in ReceiptId}
    \cup {[m EXCEPT !.unit = u] : u \in UnitType}
    \cup {[m EXCEPT !.weight = t] : t \in NewTexts(m.weight)}
    \cup {[m EXCEPT !.count = t] : t \in NewTexts(m.count)}
    \cup {[m EXCEPT !.idem = IdemKey(m)]}
    \cup {[m EXCEPT !.receipt = r, !.idem = [@ EXCEPT !.receipt = r]] : r \in ReceiptId}

Without(list, k) == SubSeq(list, 1, k - 1) \o SubSeq(list, k + 1, Len(list))

\* The summaries one change away: of a record, of a claimed total or the org;
\* a record dropped or repeated, the totals withdrawn.
Variants(s) ==
  (UNION {{[s EXCEPT !.records[k] = m] : m \in NewRecords(s.records[k])}
            \cup {[s EXCEPT !.records = Without(@, k)], [s EXCEPT !.records = Append(@, @[k])]} :
          k \in DOMAIN s.records})
    \cup (IF s.totals = NoTotals THEN {}
          ELSE UNION {{[s EXCEPT !.totals[u] = t] : t \in NewTexts(s.totals[u])} :
                      u \in DOMAIN s.totals})
    \cup {[s EXCEPT !.totals = NoTotals]} \cup {[s EXCEPT !.org = org] : org \in Org}

Alter ==
  /\ pc = "transit" /\ altered < MaxAlterations
  /\ metering' \in Variants(metering) \ {metering}
  /\ altered' = altered + 1
  /\ UNCHANGED <<proofs, packOrg, sealed, pc, i, computed, pending, steps, status>>

------------------------------------------------------------------------------
(* The org is compared when the caller gives the pack's.                   *)
CheckOrg ==
  /\ pc = "transit"
  /\ steps' = IF packOrg = NoOrg THEN {}
              ELSE {IF metering.org = packOrg THEN Ok("orgId", 0)
                    ELSE Fault("orgId", 0, "METER_ORG_MISMATCH")}
  /\ pc' = "records"
  /\ UNCHANGED <<proofs, packOrg, sealed, metering, altered, i, computed, pending, status>>

current == metering.records[i]
AtRecord == pc = "records" /\ i <= Len(metering.records)
Known == AtRecord /\ Positions(current.receipt) # {}

Judge(judged) ==
  /\ steps' = steps \cup judged
  /\ i' = i + 1
  /\ UNCHANGED <<proofs, packOrg, sealed, metering, altered, pc, pending, status>>

IdemStep ==
  IF current.idem = IdemKey(current) THEN Ok("idemKey", i)
  ELSE Fault("idemKey", i, "METER_IDEM_KEY_MISMATCH")

CountFault == Fault("unitCount", i, "METER_UNIT_COUNT_MISMATCH")

RecordForUnknownProof ==
  /\ AtRecord /\ Positions(current.receipt) = {}
  /\ Judge({Fault("proofReceiptId", i, "METER_RECORD_FOR_UNKNOWN_PROOF")})
  /\ UNCHANGED computed

(* A bad weight, a unit without projection and a bad count leave the        *)
(* record out of the totals.                                               *)
RecordWithBadWeight ==
  /\ Known /\ current.weight = BadDecimal
  /\ Judge({IdemStep, Fault("weight", i, "METER_UNIT_COUNT_MISMATCH")})
  /\ UNCHANGED computed

Projected == Known /\ current.weight # BadDecimal /\ current.unit # "CUSTOM"

RecordWithoutProjection ==
  /\ Known /\ current.weight # BadDecimal /\ current.unit = "CUSTOM"
  /\ Judge({IdemStep, CountFault})
  /\ UNCHANGED computed

RecordWithBadCount ==
  /\ Projected /\ current.count = BadDecimal
  /\ Judge({IdemStep, CountFault})
  /\ UNCHANGED computed

\* computed_totals, absent entries being zero.
Computed(f, u) == IF u \in DOMAIN f THEN f[u] ELSE 0

\* Mutation: the claimed count is added up, not the projected one.
Counted_Claimed == Parse(current.count)

Counted == Projection(current)

(* Right or wrong, what the record should have said goes into the totals.   *)
CompareCount ==
  /\ Projected /\ current.count # BadDecimal
  /\ Judge({IdemStep, IF Parse(current.count) = Projection(current)
                      THEN Ok("unitCount", i) ELSE CountFault})
  /\ computed' = [u \in DOMAIN computed \cup {current.unit} |->
                    Computed(computed, u) + (IF u = current.unit THEN Counted ELSE 0)]

\* Mutation: a total no record counts towards is not compared.
ClaimedUnits_Counted ==
  IF metering.totals = NoTotals THEN {} ELSE DOMAIN metering.totals \cap DOMAIN computed

\* The unit types whose totals are compared.
ClaimedUnits == IF metering.totals = NoTotals THEN {} ELSE DOMAIN metering.totals

StartTotals ==
  /\ pc = "records" /\ i > Len(metering.records)
  /\ pending' = ClaimedUnits
  /\ pc' = "totals"
  /\ UNCHANGED <<proofs, packOrg, sealed, metering, altered, i, computed, steps, status>>

(* One claimed total; one that does not parse is passed over in silence.   *)
CompareTotal(u) ==
  /\ pc = "totals" /\ u \in pending
  /\ pending' = pending \ {u}
  /\ LET claimed == metering.totals[u] IN
     steps' = steps \cup
       (IF claimed = BadDecimal THEN {}
        ELSE {IF Parse(claimed) = Computed(computed, u) THEN Ok("totals", u)
              ELSE Fault("totals", u, "METER_TOTAL_MISMATCH")})
  /\ UNCHANGED <<proofs, packOrg, sealed, metering, altered, pc, i, computed, status>>

RollUp ==
  /\ pc = "totals" /\ pending = {}
  /\ status' = Verdict(steps) /\ pc' = "done"
  /\ UNCHANGED <<proofs, packOrg, sealed, metering, altered, i, computed, pending, steps>>

Returned == pc = "done" /\ UNCHANGED vars

\* The verifier's own steps.
Walk ==
  \/ CheckOrg
  \/ RecordForUnknownProof \/ RecordWithBadWeight \/ RecordWithoutProjection
  \/ RecordWithBadCount \/ CompareCount \/ StartTotals
  \/ (\E u \in UnitType : CompareTotal(u)) \/ RollUp

Next == Alter \/ Walk \/ Returned

Spec == Init /\ [][Next]_vars

------------------------------------------------------------------------------
\* The records a unit type is billed by, and what they bill.
BilledBy(s, u) == {k \in DOMAIN s.records : s.records[k].unit = u}
Billed(s, u) == Total([k \in BilledBy(s, u) |-> Parse(s.records[k].count)])

Magnitude(n) == IF n >= 0 THEN n ELSE -n

\* Milliseconds to one unit of a dwell-based unit type.
Period(u) == IF u = "COMPLIANT_DELIVERY_MINUTE" THEN 60000 ELSE 1000

\* count, in 1/Scale, is the exact dwell * weight / Period cut short by less
\* than one place for either of the two divisions.
CutShort(dwell, weight, u, count) ==
  LET exact == Magnitude(dwell * weight)
      billed == Magnitude(count) * Period(u)
  IN  /\ billed <= exact
      /\ Scale * (exact - billed) < Period(u) * (Scale + Magnitude(weight))

\* A receipt that bears out what a record bills.
BearsOut(p, m) ==
  /\ p.id = m.receipt
  /\ m.idem = IdemKey(m) /\ m.unit # "CUSTOM"
  /\ BadDecimal \notin {m.weight, m.count}
  /\ IF m.unit = "IMPRESSION_IN_PLACE" THEN Parse(m.count) = Parse(m.weight)
     ELSE CutShort(p.dwell, Parse(m.weight), m.unit, Parse(m.count))

\* No two receipts of the pack have one id.
DistinctReceipts == \A j, k \in DOMAIN proofs : proofs[j].id = proofs[k].id => j = k

(* Every variable stays in its domain; totals are kept and compared only    *)
(* for unit types that records bill and that the platform claims.          *)
TypeOK ==
  /\ \A k \in DOMAIN metering.records :
       metering.records[k].receipt \in ReceiptId /\ metering.records[k].unit \in UnitType
  /\ metering.org \in Org /\ packOrg \in Org \cup {NoOrg}
  /\ altered \in 0..MaxAlterations
  /\ pc \in {"transit", "records", "totals", "done"}
  /\ i \in 1..(Len(metering.records) + 1)
  /\ DOMAIN computed \subseteq {metering.records[k].unit : k \in 1..(i - 1)}
  /\ pending # {} => metering.totals # NoTotals /\ pending \subseteq DOMAIN metering.totals
  /\ \A s \in steps : s.status \in Statuses
  /\ status \in {"pending", "VALID", "INVALID"}

\* The pack bears out all that the summary bills.
BorneOut ==
  /\ packOrg \in {NoOrg, metering.org}
  /\ \A k \in DOMAIN metering.records :
       \E p \in DOMAIN proofs : BearsOut(proofs[p], metering.records[k])
  /\ \A u \in ClaimedUnits :
       metering.totals[u] # BadDecimal => Parse(metering.totals[u]) = Billed(metering, u)

(* A VALID summary bills nothing the pack does not bear out: every record   *)
(* has a receipt, whose dwell it never exceeds, and what a unit type is     *)
(* claimed to come to is what its records add up to.                       *)
ValidMeansBorneOut == status = "VALID" => BorneOut

(* The platform's own summary, of a pack without repeated receipt ids, is   *)
(* never refused.                                                          *)
HonestMeteringAccepted ==
  /\ altered = 0 /\ DistinctReceipts
  /\ packOrg \in {NoOrg, sealed.org}
  => status # "INVALID"

(* No single change of an honest summary gets through that changes what a   *)
(* unit type bills; it takes the withdrawal of the totals as well to drop,  *)
(* repeat or add a record.                                                 *)
SingleChangeDetected ==
  altered = 1 /\ status = "VALID" =>
    \A u \in UnitType : Billed(metering, u) = Billed(sealed, u)

(* A record's fault is the record's own: the totals are judged against what *)
(* the records should have said, so a falsified count is accused once, in   *)
(* its record, and the totals the platform sealed still hold.              *)
FaultStaysLocal ==
  /\ status # "pending" /\ DistinctReceipts
  /\ metering.totals = sealed.totals
  /\ Len(metering.records) = Len(sealed.records)
  /\ \A k \in DOMAIN sealed.records :
       /\ metering.records[k].count # BadDecimal
       /\ \A f \in {"receipt", "unit", "weight"} :
            metering.records[k][f] = sealed.records[k][f]
  => ~\E s \in steps : s.status = "INVALID" /\ s.target[1] = "totals"
==============================================================================
