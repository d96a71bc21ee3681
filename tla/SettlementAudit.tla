--------------------------- MODULE SettlementAudit ---------------------------
(* verify_settlement_reconciliation: every settlement line is re-derived    *)
(* from the meters it settles and the agreement's shares (settlement_       *)
(* audit.rs).                                                              *)
(*                                                                         *)
(* The platform settles (external) an agreement: the gross of each meter    *)
(* and the parties' shares of it.  By the source's account of it every      *)
(* slice is floored, where the audit's division cuts towards zero.  It may  *)
(* list the lines in any order, and until the audit at most MaxAlterations  *)
(* changes are made to the summary.                                        *)
(* Amounts are taken to be unbounded here; CentSplit keeps their width.     *)
EXTENDS Audit, CentMath, FiniteSets

CONSTANTS Meter,        \* meter record idem keys
          Account,      \* ledger account codes
          Org,
          Agreements,   \* what the platform may settle
          NoTotals,     \* a summary without totals
          MaxAlterations

\* The wire names of SettlementPartyRole, by lexical rank.
Rank == [AFFILIATE |-> 1, AGENCY |-> 2, CUSTOMER |-> 3, PLATFORM |-> 4, RESELLER |-> 5,
         TAX_AUTHORITY |-> 6, TENANT |-> 7, VENUE |-> 8]
PartyRole == DOMAIN Rank

\* What a line settles: a party's share of a meter, booked to an account.
Part == [meter : Meter, role : PartyRole, account : Account,
         share : Int \cup {BadDecimal}]

\* The shares are decimals, and those of each meter add up to the whole.
SharedOut(parts) ==
  /\ \A k \in DOMAIN parts : parts[k].share # BadDecimal
  /\ \A k \in DOMAIN parts :
       Total([j \in {h \in DOMAIN parts : parts[h].meter = parts[k].meter} |->
                Parse(parts[j].share)]) = Scale

ASSUME AgreementAssumption ==
  /\ MaxAlterations \in Nat
  /\ \A a \in Agreements :
       /\ a.parts \in Seq(Part)
       /\ DOMAIN a.gross \subseteq Meter /\ a.gross \in [DOMAIN a.gross -> Int]
       /\ \A k \in DOMAIN a.parts : a.parts[k].meter \in DOMAIN a.gross
       /\ SharedOut(a.parts)
  /\ NoTotals \notin [gross : Int, net : Int, fee : Int]

\* Free constructors of the two hashes.
IdemV2(p) == [meter |-> p.meter, role |-> p.role, account |-> p.account]
IdemV1(p) == [meter |-> p.meter, role |-> p.role]

\* Mutation: every summary is taken for a settlement.v2 one (before VER-02).
IdemKey_AlwaysV2(schema, p) == IdemV2(p)

\* Only "settlement.v2" has the three-field key; anything else is legacy.
IdemKey(schema, p) == IF schema = "settlement.v2" THEN IdemV2(p) ELSE IdemV1(p)

VARIABLES metering,     \* the metering summary: its org and its meters
          sealed,       \* the settlement summary as the platform made it
          settlement,   \* the summary under audit
          altered,      \* how many changes were made to it
          pc, i,        \* control point, line index
          pending,      \* meters whose shares are still to be summed
          computed,     \* the running totals
          steps, status

vars == <<metering, sealed, settlement, altered, pc, i, pending, computed, steps, status>>

Lines == settlement.lines
PartOf(line) == [meter |-> line.meter, role |-> line.role,
                 account |-> line.account, share |-> line.share]

\* The positions of one meter's lines, and the split the audit expects there.
LinesOf(s, m) == {k \in DOMAIN s.lines : s.lines[k].meter = m}

\* An unparsable share counts as zero.
SharesOf(s, m) == [k \in LinesOf(s, m) |-> ParseOrZero(s.lines[k].share)]

RolesOf(s, m) == [k \in LinesOf(s, m) |-> Rank[s.lines[k].role]]

Expected(s, m) == SplitCents(s.gross[m], SharesOf(s, m), RolesOf(s, m))

\* The platform's own split of a meter: floored slices, and the remainder to
\* the line that the audit gives it to.
Floored(s, m) ==
  LET floors == [k \in LinesOf(s, m) |-> (s.gross[m] * SharesOf(s, m)[k]) \div Scale]
  IN  [floors EXCEPT ![Residual(SharesOf(s, m), RolesOf(s, m))] =
         @ + s.gross[m] - Total(floors)]

\* The totals of a set of lines, by the role that is paid.
PaidTo(s, roles) ==
  Total([k \in {j \in DOMAIN s.lines : s.lines[j].role \in roles} |-> s.lines[k].amount])

TotalsOf(s) == [gross |-> PaidTo(s, PartyRole), net |-> PaidTo(s, {"TENANT"}),
                fee |-> PaidTo(s, {"PLATFORM"})]

\* The platform's summary of an agreement, its lines in the given order.
Settle(org, schema, agreement, parts) ==
  LET blank == [org |-> org, schema |-> schema, gross |-> agreement.gross, totals |-> NoTotals,
                lines |-> [k \in DOMAIN parts |->
                             [meter |-> parts[k].meter, role |-> parts[k].role,
                              account |-> parts[k].account, share |-> parts[k].share,
                              amount |-> 0, idem |-> IF schema = "settlement.v1" THEN IdemV1(parts[k])
                                       ELSE IdemV2(parts[k])]]]
      paid == [blank EXCEPT !.lines = [k \in DOMAIN parts |->
                 [@[k] EXCEPT !.amount = Floored(blank, parts[k].meter)[k]]]]
  IN  [paid EXCEPT !.totals = TotalsOf(paid)]

Orders(n) == {p \in [1..n -> 1..n] : \A j, k \in 1..n : p[j] = p[k] => j = k}

Init ==
  /\ \E org \in Org, schema \in {"settlement.v1", "settlement.v2"}, a \in Agreements :
       /\ metering = [org |-> org, meters |-> DOMAIN a.gross]
       /\ \E p \in Orders(Len(a.parts)) :
            sealed = [Settle(org, schema, a, a.parts) EXCEPT
                        !.lines = [k \in DOMAIN p |-> @[p[k]]]]
  /\ settlement = sealed
  /\ altered = 0
  /\ pc = "transit" /\ i = 1 /\ pending = {}
  /\ computed = [gross |-> 0, net |-> 0, fee |-> 0]
  /\ steps = {} /\ status = "pending"

------------------------------------------------------------------------------
(* Changes between the platform and the audit.                             *)

\* A share that parses to another value, one with excess digits, or garbage.
NewShares(line) == {BadDecimal} \cup {Text(n) : n \in 0..Scale}
  \cup (IF line.share = BadDecimal THEN {} ELSE {line.share + 1})

NewLines(line) ==
  {[line EXCEPT !.meter = m] : m \in Meter}
    \cup {[line EXCEPT !.role = r] : r \in {"AGENCY", "PLATFORM", "TENANT"}}
    \cup {[line EXCEPT !.account = a] : a \in Account}
    \cup {[line EXCEPT !.share = s] : s \in NewShares(line)}
    \cup {[line EXCEPT !.amount = @ + d] : d \in {-1, 1}}
    \cup {[line EXCEPT !.idem = d] : d \in {IdemV1(line), IdemV2(line)}}

Without(list, k) == SubSeq(list, 1, k - 1) \o SubSeq(list, k + 1, Len(list))

\* The summaries one change away: of a line, a meter's gross, a total or the
\* header; a line dropped or repeated, a gross or the totals withdrawn.
Variants(s) ==
  (UNION {{[s EXCEPT !.lines[k] = line] : line \in NewLines(s.lines[k])}
            \cup {[s EXCEPT !.lines = Without(@, k)], [s EXCEPT !.lines = Append(@, @[k])]} :
          k \in DOMAIN s.lines})
    \cup (UNION {{[s EXCEPT !.gross[m] = @ + d] : d \in {-1, 1}}
                  \cup {[s EXCEPT !.gross = [n \in DOMAIN @ \ {m} |-> @[n]]]} :
                 m \in DOMAIN s.gross})
    \cup (IF s.totals = NoTotals THEN {}
          ELSE {[s EXCEPT !.totals[label] = @ + 1] : label \in {"gross", "net", "fee"}})
    \cup {[s EXCEPT !.totals = NoTotals]} \cup {[s EXCEPT !.org = org] : org \in Org}
    \cup {[s EXCEPT !.schema = v] : v \in {"settlement.v1", "settlement.v2", "other"}}

Alter ==
  /\ pc = "transit" /\ altered < MaxAlterations
  /\ settlement' \in Variants(settlement) \ {settlement}
  /\ altered' = altered + 1
  /\ UNCHANGED <<metering, sealed, pc, i, pending, computed, steps, status>>

------------------------------------------------------------------------------
CheckOrg ==
  /\ pc = "transit"
  /\ steps' = {IF settlement.org = metering.org THEN Ok("orgId", 0)
               ELSE Fault("orgId", 0, "SETTLEMENT_ORG_MISMATCH")}
  /\ pc' = "lines"
  /\ UNCHANGED <<metering, sealed, settlement, altered, i, pending, computed, status>>

current == Lines[i]

IdemStep ==
  IF current.idem = IdemKey(settlement.schema, PartOf(current)) THEN Ok("idemKey", i)
  ELSE Fault("idemKey", i, "SETTLEMENT_IDEM_KEY_MISMATCH")

\* The walk judges line i with these steps and goes on to the next one.
Judge(judged) ==
  /\ pc = "lines" /\ i <= Len(Lines)
  /\ steps' = steps \cup judged
  /\ i' = i + 1
  /\ UNCHANGED <<metering, sealed, settlement, altered, pc, pending, status>>

LineForUnknownMeter ==
  /\ i <= Len(Lines) /\ current.meter \notin metering.meters
  /\ Judge({Fault("meterRecordIdemKey", i, "SETTLEMENT_LINE_FOR_UNKNOWN_METER")})
  /\ UNCHANGED computed

LineWithoutGross ==
  /\ i <= Len(Lines) /\ current.meter \in metering.meters \ DOMAIN settlement.gross
  /\ Judge({IdemStep, Fault("meterGross", i, "SETTLEMENT_LINE_FOR_UNKNOWN_METER")})
  /\ UNCHANGED computed

\* The line has a known meter with a gross.
Settled == i <= Len(Lines) /\ current.meter \in metering.meters \cap DOMAIN settlement.gross

LineWithBadShare ==
  /\ Settled /\ current.share = BadDecimal
  /\ Judge({IdemStep, Fault("share", i, "SETTLEMENT_AMOUNT_MISMATCH")})
  /\ UNCHANGED computed

\* Mutation: a one-cent tolerance, as before CRYPTO-04.
AmountRight_Tolerance == current.amount - Expected(settlement, current.meter)[i] \in -1..1

AmountRight == current.amount = Expected(settlement, current.meter)[i]

LineWithWrongAmount ==
  /\ Settled /\ current.share # BadDecimal /\ ~AmountRight
  /\ Judge({IdemStep, Fault("amountCents", i, "SETTLEMENT_AMOUNT_MISMATCH")})
  /\ UNCHANGED computed

Plus(n, roles) == IF current.role \in roles THEN n + current.amount ELSE n

(* Only a line of the right amount counts towards the totals.              *)
LineRight ==
  /\ Settled /\ current.share # BadDecimal /\ AmountRight
  /\ Judge({IdemStep, Ok("amountCents", i)})
  /\ computed' = [gross |-> computed.gross + current.amount,
                  net |-> Plus(computed.net, {"TENANT"}),
                  fee |-> Plus(computed.fee, {"PLATFORM"})]

StartShares ==
  /\ pc = "lines" /\ i > Len(Lines)
  /\ pending' = {Lines[k].meter : k \in DOMAIN Lines}
  /\ pc' = "shares"
  /\ UNCHANGED <<metering, sealed, settlement, altered, i, computed, steps, status>>

\* Mutation: shares that add up to less than the whole are let through.
Whole_AtMost(sum) == sum <= Scale

Whole(sum) == sum = Scale

(* The meters come out of a HashMap in no particular order.                *)
SumShares(m) ==
  /\ pc = "shares" /\ m \in pending
  /\ pending' = pending \ {m}
  /\ steps' = steps \cup
       {IF Whole(Total(SharesOf(settlement, m))) THEN Ok("shares", m)
        ELSE Fault("shares", m, "SETTLEMENT_SHARE_SUM_NOT_ONE")}
  /\ UNCHANGED <<metering, sealed, settlement, altered, pc, i, computed, status>>

\* Mutation: the platform's fee is not compared with its claimed total.
CheckedTotals_NoFee == {"gross", "net"}

CheckedTotals == {"gross", "net", "fee"}

(* The claimed totals, when there are any, then the verdict.               *)
CheckTotals ==
  /\ pc = "shares" /\ pending = {}
  /\ steps' = steps \cup
       (IF settlement.totals = NoTotals THEN {}
        ELSE {IF settlement.totals[label] = computed[label] THEN Ok(label, 0)
              ELSE Fault(label, 0, "SETTLEMENT_TOTAL_MISMATCH") : label \in CheckedTotals})
  /\ status' = Verdict(steps') /\ pc' = "done"
  /\ UNCHANGED <<metering, sealed, settlement, altered, i, pending, computed>>

Returned == pc = "done" /\ UNCHANGED vars

\* The verifier's own steps.
Walk ==
  \/ CheckOrg
  \/ LineForUnknownMeter \/ LineWithoutGross \/ LineWithBadShare
  \/ LineWithWrongAmount \/ LineRight \/ StartShares
  \/ (\E m \in Meter : SumShares(m)) \/ CheckTotals

Next == Alter \/ Walk \/ Returned

Spec == Init /\ [][Next]_vars

------------------------------------------------------------------------------
Settling(s) == {s.lines[k].meter : k \in DOMAIN s.lines}
Agreed(s) == {PartOf(s.lines[k]) : k \in DOMAIN s.lines}

\* No two lines of a meter tie on both share and role.
Untied(s) ==
  \A j, k \in DOMAIN s.lines :
    /\ s.lines[j].meter = s.lines[k].meter /\ s.lines[j].role = s.lines[k].role
    /\ Parse(s.lines[j].share) = Parse(s.lines[k].share)
    => j = k

\* No slice is a fraction of a cent below zero: flooring and cutting agree.
RoundedAlike(s) ==
  \A k \in DOMAIN s.lines :
    LET slice == s.gross[s.lines[k].meter] * ParseOrZero(s.lines[k].share) IN
    slice >= 0 \/ slice % Scale = 0

(* Every variable stays in its domain.                                     *)
TypeOK ==
  /\ \A k \in DOMAIN Lines : PartOf(Lines[k]) \in Part /\ Lines[k].amount \in Int
  /\ DOMAIN settlement.gross \subseteq Meter
  /\ altered \in 0..MaxAlterations
  /\ pc \in {"transit", "lines", "shares", "done"}
  /\ i \in 1..(Len(Lines) + 1)
  /\ pending \subseteq Settling(settlement)
  /\ computed \in [gross : Int, net : Int, fee : Int]
  /\ \A s \in steps : s.status \in Statuses
  /\ status \in {"pending", "VALID", "INVALID"}

\* Nothing is paid but the gross of the meters, and all of it is.
Accounted ==
  /\ settlement.org = metering.org
  /\ Settling(settlement) \subseteq metering.meters \cap DOMAIN settlement.gross
  /\ \A m \in Settling(settlement) :
       /\ Total([k \in LinesOf(settlement, m) |-> Lines[k].amount]) = settlement.gross[m]
       /\ Total(SharesOf(settlement, m)) = Scale
  /\ settlement.totals # NoTotals =>
       /\ settlement.totals = TotalsOf(settlement)
       /\ settlement.totals.gross = Total([m \in Settling(settlement) |-> settlement.gross[m]])

(* A VALID settlement accounts for every cent: the lines of each meter add  *)
(* up to its gross exactly, its parties hold the whole of it, and claimed   *)
(* totals are those of the lines and of the meters settled.                *)
EveryCentAccounted == status = "VALID" => Accounted

(* The platform's own settlement is never refused, under either version and *)
(* in whatever order it lists the lines, unless two lines tie or a refund   *)
(* is shared out with a fraction of a cent.                                *)
HonestSettlementAccepted ==
  altered = 0 /\ Untied(sealed) /\ RoundedAlike(sealed) => status # "INVALID"

(* settlement_audit.rs on deterministic_split_cents: it is the mirror of    *)
(* the platform's split, so that what the platform paid is what the audit   *)
(* expects, refunds included.                                              *)
PlatformSettlementAccepted ==
  altered = 0 /\ Untied(sealed) => status # "INVALID"

(* Two settlements of one agreement that are both VALID pay everyone the    *)
(* same: no change of amounts, however it balances out, gets through.       *)
(* Refunds that the platform rounds otherwise are left out: it is not VALID. *)
SameAgreementSamePay ==
  /\ status = "VALID" /\ Untied(sealed) /\ RoundedAlike(sealed)
  /\ Len(Lines) = Len(sealed.lines) /\ Agreed(settlement) = Agreed(sealed)
  /\ \A m \in Settling(sealed) : settlement.gross[m] = sealed.gross[m]
  => \A j, k \in DOMAIN Lines :
       PartOf(Lines[j]) = PartOf(sealed.lines[k]) => Lines[j].amount = sealed.lines[k].amount

\* What a summary pays, to whom, out of what; the account is bound by a v2 key.
Payment(s, l) ==
  [meter |-> l.meter, role |-> l.role, amount |-> l.amount, share |-> Parse(l.share),
   account |-> IF s.schema = "settlement.v2" THEN {l.account} ELSE Account]

Payments(s) ==
  [lines |-> {Payment(s, s.lines[k]) : k \in {j \in DOMAIN s.lines : s.lines[j].amount # 0}},
   count |-> Cardinality({j \in DOMAIN s.lines : s.lines[j].amount # 0}), org |-> s.org]

(* No single change of an honest settlement goes unnoticed, but one that    *)
(* leaves every payment as it was: totals withdrawn, digits that are cut    *)
(* off, the unbound account of a legacy line, a line that pays nothing.    *)
SingleChangeDetected ==
  altered = 1 /\ status = "VALID" /\ Untied(sealed) /\ RoundedAlike(sealed) =>
    /\ Payments(settlement) = Payments(sealed)
    /\ settlement.totals \in {NoTotals, sealed.totals}
==============================================================================
