------------------------ MODULE SettlementAuditProofs ------------------------
(* SettlementAudit's properties for any agreements, summaries with any      *)
(* number of lines, and any number of changes to them.                     *)
EXTENDS SettlementAudit, CentMathProofs

------------------------------------------------------------------------------
(* The inductive invariant.                                                 *)

Idem == [meter : Meter, role : PartyRole]
          \cup [meter : Meter, role : PartyRole, account : Account]

Line == [meter : Meter, role : PartyRole, account : Account, share : DecimalText,
         amount : Int, idem : Idem]

Totals == [gross : Int, net : Int, fee : Int]

Summary == [org : Org, schema : {"settlement.v1", "settlement.v2", "other"},
            gross : UNION {[meters -> Int] : meters \in SUBSET Meter},
            totals : {NoTotals} \cup Totals, lines : Seq(Line)]

Typed ==
  /\ metering \in [org : Org, meters : SUBSET Meter]
  /\ sealed \in Summary /\ settlement \in Summary
  /\ TypeOK

\* Line k is what the agreement comes to, as far as the summary tells.
Right(s, k) ==
  LET line == s.lines[k]
  IN  /\ line.meter \in metering.meters \cap DOMAIN s.gross
      /\ line.idem = IdemKey(s.schema, PartOf(line))
      /\ line.share # BadDecimal
      /\ line.amount = Expected(s, line.meter)[k]

Shared(s, m) == Whole(Total(SharesOf(s, m)))

\* The summary is right in everything the audit looks at.
BorneOut(s) ==
  /\ s.org = metering.org
  /\ \A k \in DOMAIN s.lines : Right(s, k)
  /\ \A m \in Settling(s) : Shared(s, m)
  /\ s.totals # NoTotals => s.totals = TotalsOf(s)

\* Where the summary under audit comes from.
Origin ==
  /\ sealed.totals # NoTotals /\ sealed.schema # "other"
  /\ Untied(sealed) /\ RoundedAlike(sealed) => BorneOut(sealed)
  /\ altered = 0 => settlement = sealed
  /\ altered = 1 => settlement \in Variants(sealed)

\* What the first n lines pay to the roles.
PaidFirst(n, roles) ==
  Total([k \in {j \in 1..n : Lines[j].role \in roles} |-> Lines[k].amount])

\* The running totals are those of the first n lines, if these are right.
SummedTo(n, sums) ==
  (\A k \in 1..n : Right(settlement, k)) =>
    sums = [gross |-> PaidFirst(n, PartyRole), net |-> PaidFirst(n, {"TENANT"}),
            fee |-> PaidFirst(n, {"PLATFORM"})]

\* Something is wrong in the first n lines, or in what comes before them.
LinesWrong(n) ==
  settlement.org # metering.org \/ \E k \in 1..n : ~Right(settlement, k)

\* The shares of a meter that was looked at do not make up the whole.
SharesWrong(left) == \E m \in Settling(settlement) \ left : ~Shared(settlement, m)

TotalsWrong(sums) == settlement.totals # NoTotals /\ settlement.totals # sums

\* The audit's faults are what is wrong in what it looked at so far.
Judged ==
  AnyInvalid(steps) <=>
    \/ LinesWrong(i - 1)
    \/ pc \in {"shares", "done"} /\ SharesWrong(pending)
    \/ pc = "done" /\ TotalsWrong(computed)

Control ==
  /\ pc = "transit" => i = 1 /\ computed = [gross |-> 0, net |-> 0, fee |-> 0] /\ steps = {}
  /\ pc \in {"transit", "lines"} => pending = {}
  /\ pc \in {"shares", "done"} => i = Len(Lines) + 1
  /\ pc = "done" => pending = {} /\ status = Verdict(steps)
  /\ pc # "done" => status = "pending"
  /\ pc # "transit" => SummedTo(i - 1, computed) /\ Judged

\* The walk over a summary, wherever it comes from.
WalkInv == Typed /\ Control

IInv == WalkInv /\ Origin

------------------------------------------------------------------------------
(* Summaries.                                                               *)

LEMMA Ranks ==
  /\ \A r \in PartyRole : Rank[r] \in Int
  /\ \A r, q \in PartyRole : Rank[r] = Rank[q] => r = q
  /\ {"AGENCY", "PLATFORM", "TENANT"} \subseteq PartyRole
<1>1. PartyRole = {"AFFILIATE", "AGENCY", "CUSTOMER", "PLATFORM", "RESELLER",
                   "TAX_AUTHORITY", "TENANT", "VENUE"}
  BY DEF PartyRole, Rank
<1>2. /\ Rank["AFFILIATE"] = 1 /\ Rank["AGENCY"] = 2 /\ Rank["CUSTOMER"] = 3
      /\ Rank["PLATFORM"] = 4 /\ Rank["RESELLER"] = 5 /\ Rank["TAX_AUTHORITY"] = 6
      /\ Rank["TENANT"] = 7 /\ Rank["VENUE"] = 8
  BY DEF Rank
<1> QED
  BY <1>1, <1>2

LEMMA LineFields ==
  ASSUME NEW l \in Line
  PROVE  /\ l.meter \in Meter /\ l.role \in PartyRole /\ l.account \in Account
         /\ l.share \in DecimalText /\ l.amount \in Int /\ l.idem \in Idem
         /\ Rank[l.role] \in Int /\ ParseOrZero(l.share) \in Int
         /\ l.share # BadDecimal => ParseOrZero(l.share) = Parse(l.share)
<1>1. /\ l.meter \in Meter /\ l.role \in PartyRole /\ l.account \in Account
      /\ l.share \in DecimalText /\ l.amount \in Int /\ l.idem \in Idem
  BY DEF Line
<1> QED
  BY <1>1, Ranks, ParseInt DEF ParseOrZero

LEMMA SummaryFields ==
  ASSUME NEW s \in Summary
  PROVE  /\ Len(s.lines) \in Nat /\ DOMAIN s.lines = 1..Len(s.lines)
         /\ IsFiniteSet(DOMAIN s.lines)
         /\ \A k \in DOMAIN s.lines : s.lines[k] \in Line
         /\ s.org \in Org /\ s.schema \in {"settlement.v1", "settlement.v2", "other"}
         /\ s.gross \in UNION {[meters -> Int] : meters \in SUBSET Meter}
         /\ DOMAIN s.gross \subseteq Meter
         /\ \A m \in DOMAIN s.gross : s.gross[m] \in Int
         /\ s.totals \in {NoTotals} \cup Totals /\ s.lines \in Seq(Line)
<1>1. /\ s.lines \in Seq(Line) /\ s.totals \in {NoTotals} \cup Totals /\ s.org \in Org
      /\ s.schema \in {"settlement.v1", "settlement.v2", "other"}
      /\ s.gross \in UNION {[meters -> Int] : meters \in SUBSET Meter}
  BY DEF Summary
<1>2. /\ Len(s.lines) \in Nat /\ DOMAIN s.lines = 1..Len(s.lines)
      /\ \A k \in DOMAIN s.lines : s.lines[k] \in Line
  BY <1>1, SequenceOf
<1>3. IsFiniteSet(DOMAIN s.lines)
  BY <1>2, FS_Interval
<1>4. PICK meters \in SUBSET Meter : s.gross \in [meters -> Int]
  BY <1>1
<1> QED
  BY <1>1, <1>2, <1>3, <1>4

\* Two summaries with the same fields are one.
LEMMA SummaryIs ==
  ASSUME NEW org \in Org, NEW schema \in {"settlement.v1", "settlement.v2", "other"},
         NEW gross \in UNION {[meters -> Int] : meters \in SUBSET Meter},
         NEW totals \in {NoTotals} \cup Totals, NEW lines \in Seq(Line)
  PROVE  [org |-> org, schema |-> schema, gross |-> gross, totals |-> totals, lines |-> lines]
           \in Summary
  BY DEF Summary

LEMMA ExpectedIs ==
  ASSUME NEW s, NEW m
  PROVE  Expected(s, m) = SplitCents(s.gross[m], SharesOf(s, m), RolesOf(s, m))
  BY DEF Expected

LEMMA LinesRanked ==
  ASSUME NEW s \in Summary, NEW m
  PROVE  /\ Ranked(LinesOf(s, m), SharesOf(s, m), RolesOf(s, m))
         /\ LinesOf(s, m) \in SUBSET DOMAIN s.lines
         /\ m \in Settling(s) => LinesOf(s, m) # {}
<1>1. /\ Len(s.lines) \in Nat /\ DOMAIN s.lines = 1..Len(s.lines)
      /\ IsFiniteSet(DOMAIN s.lines)
      /\ \A k \in DOMAIN s.lines : s.lines[k] \in Line
  BY SummaryFields
<1>2. LinesOf(s, m) \in SUBSET DOMAIN s.lines
  BY DEF LinesOf
<1>3. IsFiniteSet(LinesOf(s, m)) /\ LinesOf(s, m) \subseteq Int
  BY <1>1, <1>2, FS_Subset
<1>4. ASSUME NEW k \in LinesOf(s, m)
      PROVE  ParseOrZero(s.lines[k].share) \in Int /\ Rank[s.lines[k].role] \in Int
  <2>1. s.lines[k] \in Line
    BY <1>1, <1>2
  <2> QED
    BY <2>1, LineFields
<1>5. m \in Settling(s) => LinesOf(s, m) # {}
  BY DEF Settling, LinesOf
<1> QED
  BY <1>2, <1>3, <1>4, <1>5 DEF Ranked, SharesOf, RolesOf

(* The lines of a meter are expected to use up its gross.                   *)
LEMMA ExpectedSums ==
  ASSUME NEW s \in Summary, NEW m \in Settling(s) \cap DOMAIN s.gross
  PROVE  /\ Expected(s, m) \in [LinesOf(s, m) -> Int]
         /\ Total(Expected(s, m)) = s.gross[m]
<1>1. s.gross[m] \in Int
  BY SummaryFields
<1>2. Ranked(LinesOf(s, m), SharesOf(s, m), RolesOf(s, m)) /\ LinesOf(s, m) # {}
  BY LinesRanked
<1> QED
  BY <1>1, <1>2, ExpectedIs, SplitSums

(* Amounts can be added up.                                                 *)
LEMMA AmountsSummable ==
  ASSUME NEW s \in Summary, NEW S \in SUBSET DOMAIN s.lines
  PROVE  Summable([k \in S |-> s.lines[k].amount])
<1>1. IsFiniteSet(S)
  BY SummaryFields, FS_Subset
<1>2. \A k \in S : s.lines[k].amount \in Int
  BY SummaryFields, LineFields
<1> QED
  BY <1>1, <1>2 DEF Summable

LEMMA TotalsTyped ==
  ASSUME NEW s \in Summary
  PROVE  TotalsOf(s) \in Totals /\ \A roles : PaidTo(s, roles) \in Int
<1>1. ASSUME NEW roles PROVE PaidTo(s, roles) \in Int
  <2> DEFINE S == {j \in DOMAIN s.lines : s.lines[j].role \in roles}
             f == [k \in S |-> s.lines[k].amount]
  <2>1. Summable(f)
    BY AmountsSummable
  <2> HIDE DEF f
  <2>2. Total(f) \in Int
    BY <2>1, TotalIsInt
  <2> QED
    BY <2>2 DEF PaidTo, f
<1> QED
  BY <1>1 DEF TotalsOf, Totals

------------------------------------------------------------------------------
(* Summaries that list the same lines in another order.                     *)

\* Line p[k] of s is line k of t.
SameParts(p, s, t) ==
  /\ Matches(p, DOMAIN t.lines, DOMAIN s.lines)
  /\ \A k \in DOMAIN t.lines : PartOf(t.lines[k]) = PartOf(s.lines[p[k]])

LEMMA PartFields ==
  ASSUME NEW a, NEW b, PartOf(a) = PartOf(b)
  PROVE  a.meter = b.meter /\ a.role = b.role /\ a.account = b.account /\ a.share = b.share
<1>1. PartOf(a).meter = PartOf(b).meter /\ PartOf(a).role = PartOf(b).role
      /\ PartOf(a).account = PartOf(b).account /\ PartOf(a).share = PartOf(b).share
  OBVIOUS
<1> QED
  BY <1>1 DEF PartOf

LEMMA MeterMatched ==
  ASSUME NEW s, NEW t, NEW p, SameParts(p, s, t), NEW m
  PROVE  Matches([k \in LinesOf(t, m) |-> p[k]], LinesOf(t, m), LinesOf(s, m))
<1>1. \A k \in DOMAIN t.lines : p[k] \in DOMAIN s.lines /\ t.lines[k].meter = s.lines[p[k]].meter
  BY PartFields DEF SameParts, Matches
<1>2. \A k \in LinesOf(t, m) : k \in DOMAIN t.lines /\ p[k] \in LinesOf(s, m)
  BY <1>1 DEF LinesOf
<1>3. ASSUME NEW b \in LinesOf(s, m) PROVE \E a \in LinesOf(t, m) : p[a] = b
  <2>1. PICK a \in DOMAIN t.lines : p[a] = b
    BY DEF SameParts, Matches, LinesOf
  <2>2. a \in LinesOf(t, m)
    BY <1>1, <2>1 DEF LinesOf
  <2> QED
    BY <2>1, <2>2
<1>4. \A a, b \in LinesOf(t, m) : p[a] = p[b] => a = b
  BY <1>2 DEF SameParts, Matches
<1> QED
  BY <1>2, <1>3, <1>4 DEF Matches

(* The parties of a meter get the same wherever their lines stand.          *)
LEMMA ExpectedMatched ==
  ASSUME NEW s \in Summary, NEW t \in Summary, NEW p, SameParts(p, s, t),
         Untied(s), \A k \in DOMAIN s.lines : s.lines[k].share # BadDecimal,
         NEW m \in Settling(s) \cap DOMAIN s.gross, t.gross[m] = s.gross[m]
  PROVE  \A k \in LinesOf(t, m) : Expected(t, m)[k] = Expected(s, m)[p[k]]
<1> DEFINE q == [k \in LinesOf(t, m) |-> p[k]]
<1>1. Matches(q, LinesOf(t, m), LinesOf(s, m))
  BY MeterMatched
<1>2. /\ Ranked(LinesOf(s, m), SharesOf(s, m), RolesOf(s, m)) /\ LinesOf(s, m) # {}
      /\ Ranked(LinesOf(t, m), SharesOf(t, m), RolesOf(t, m))
      /\ LinesOf(s, m) \in SUBSET DOMAIN s.lines /\ LinesOf(t, m) \in SUBSET DOMAIN t.lines
  BY LinesRanked
<1>3. s.gross[m] \in Int
  BY SummaryFields
<1>4. ASSUME NEW a \in LinesOf(s, m), NEW b \in LinesOf(s, m),
             SharesOf(s, m)[a] = SharesOf(s, m)[b], RolesOf(s, m)[a] = RolesOf(s, m)[b]
      PROVE  a = b
  <2>1. s.lines[a] \in Line /\ s.lines[b] \in Line /\ a \in DOMAIN s.lines /\ b \in DOMAIN s.lines
    BY <1>2, SummaryFields
  <2>2. Parse(s.lines[a].share) = Parse(s.lines[b].share)
    BY <1>4, <2>1, LineFields DEF SharesOf
  <2>3. s.lines[a].role = s.lines[b].role
    BY <1>4, <2>1, LineFields, Ranks DEF RolesOf
  <2> QED
    BY <2>1, <2>2, <2>3 DEF Untied, LinesOf
<1>5. ASSUME NEW j \in LinesOf(t, m)
      PROVE  SharesOf(t, m)[j] = SharesOf(s, m)[q[j]] /\ RolesOf(t, m)[j] = RolesOf(s, m)[q[j]]
  <2>1. p[j] \in LinesOf(s, m) /\ PartOf(t.lines[j]) = PartOf(s.lines[p[j]])
    BY <1>1, <1>2 DEF SameParts, Matches
  <2> QED
    BY <2>1, PartFields DEF SharesOf, RolesOf
<1>6. \A k \in LinesOf(t, m) : q[k] = p[k]
  OBVIOUS
<1> HIDE DEF q
<1>7. SplitCents(s.gross[m], SharesOf(t, m), RolesOf(t, m)) =
        [j \in LinesOf(t, m) |-> SplitCents(s.gross[m], SharesOf(s, m), RolesOf(s, m))[q[j]]]
  BY <1>1, <1>2, <1>3, <1>4, <1>5, SplitMatched
<1> QED
  BY <1>6, <1>7, ExpectedIs

LEMMA SharesMatched ==
  ASSUME NEW s \in Summary, NEW t \in Summary, NEW p, SameParts(p, s, t), NEW m
  PROVE  Total(SharesOf(t, m)) = Total(SharesOf(s, m))
<1> DEFINE q == [k \in LinesOf(t, m) |-> p[k]]
           f == SharesOf(s, m)
           g == SharesOf(t, m)
<1>1. Matches(q, LinesOf(t, m), LinesOf(s, m))
  BY MeterMatched
<1>2. Summable(f) /\ DOMAIN f = LinesOf(s, m) /\ Summable(g) /\ DOMAIN g = LinesOf(t, m)
  BY LinesRanked, RankedSummable
<1>3. ASSUME NEW j \in LinesOf(t, m) PROVE g[j] = f[q[j]]
  <2>1. /\ p[j] \in LinesOf(s, m) /\ j \in DOMAIN t.lines
        /\ PartOf(t.lines[j]) = PartOf(s.lines[p[j]])
    BY <1>1 DEF SameParts, Matches, LinesOf
  <2> QED
    BY <2>1, PartFields DEF SharesOf
<1> HIDE DEF f, g, q
<1>4. Total(g) = Total(f)
  BY <1>1, <1>2, <1>3, TotalPermuted DEF Matches
<1> QED
  BY <1>4 DEF f, g

LEMMA TotalsMatched ==
  ASSUME NEW s \in Summary, NEW t \in Summary, NEW p, SameParts(p, s, t),
         \A k \in DOMAIN t.lines : t.lines[k].amount = s.lines[p[k]].amount
  PROVE  TotalsOf(t) = TotalsOf(s)
<1>1. ASSUME NEW roles PROVE PaidTo(t, roles) = PaidTo(s, roles)
  <2> DEFINE S == {j \in DOMAIN s.lines : s.lines[j].role \in roles}
             T == {j \in DOMAIN t.lines : t.lines[j].role \in roles}
             f == [k \in S |-> s.lines[k].amount]
             g == [k \in T |-> t.lines[k].amount]
             q == [k \in T |-> p[k]]
  <2>1. Summable(f) /\ Summable(g)
    BY AmountsSummable
  <2>2. \A k \in DOMAIN t.lines : p[k] \in DOMAIN s.lines /\ t.lines[k].role = s.lines[p[k]].role
    BY PartFields DEF SameParts, Matches
  <2>3. q \in [T -> S]
    BY <2>2
  <2>4. \A x, y \in T : q[x] = q[y] => x = y
    BY DEF SameParts, Matches
  <2>5. \A y \in S : \E x \in T : q[x] = y
    BY <2>2 DEF SameParts, Matches
  <2>6. \A x \in T : g[x] = f[q[x]]
    BY <2>2
  <2>7. DOMAIN f = S /\ DOMAIN g = T
    OBVIOUS
  <2> HIDE DEF S, T, f, g, q
  <2>8. Total(g) = Total(f)
    BY <2>1, <2>3, <2>4, <2>5, <2>6, <2>7, TotalPermuted
  <2> QED
    BY <2>8 DEF PaidTo, f, g, S, T
<1> QED
  BY <1>1 DEF TotalsOf

------------------------------------------------------------------------------
(* What a summary that is right comes to.                                   *)

LEMMA RightFields ==
  ASSUME NEW s \in Summary, BorneOut(s), NEW k \in DOMAIN s.lines
  PROVE  /\ s.lines[k] \in Line
         /\ s.lines[k].meter \in Settling(s) \cap DOMAIN s.gross
         /\ s.lines[k].meter \in metering.meters
         /\ s.lines[k].idem = IdemKey(s.schema, PartOf(s.lines[k]))
         /\ s.lines[k].share # BadDecimal
         /\ s.lines[k].amount = Expected(s, s.lines[k].meter)[k]
  BY SummaryFields DEF BorneOut, Right, Settling

LEMMA PaidIsGross ==
  ASSUME NEW s \in Summary, BorneOut(s), NEW m \in Settling(s)
  PROVE  /\ m \in metering.meters \cap DOMAIN s.gross
         /\ [k \in LinesOf(s, m) |-> s.lines[k].amount] = Expected(s, m)
         /\ Total([k \in LinesOf(s, m) |-> s.lines[k].amount]) = s.gross[m]
<1>1. m \in metering.meters \cap DOMAIN s.gross
  BY RightFields DEF Settling
<1>2. Expected(s, m) \in [LinesOf(s, m) -> Int] /\ Total(Expected(s, m)) = s.gross[m]
  BY <1>1, ExpectedSums
<1>3. \A k \in LinesOf(s, m) : s.lines[k].amount = Expected(s, m)[k]
  BY RightFields DEF LinesOf
<1>4. [k \in LinesOf(s, m) |-> s.lines[k].amount] = Expected(s, m)
  BY <1>2, <1>3
<1> QED
  BY <1>1, <1>2, <1>4

LEMMA SettlingFinite ==
  ASSUME NEW s \in Summary
  PROVE  IsFiniteSet(Settling(s))
<1> DEFINE f == [k \in DOMAIN s.lines |-> s.lines[k].meter]
<1>1. f \in Surjection(DOMAIN s.lines, Settling(s))
  BY DEF Surjection, Settling
<1> HIDE DEF f
<1> QED
  BY <1>1, SummaryFields, FS_Surjection

(* What all lines pay is what all the meters settled are worth.             *)
LEMMA AllIsPaid ==
  ASSUME NEW s \in Summary, BorneOut(s)
  PROVE  PaidTo(s, PartyRole) = Total([m \in Settling(s) |-> s.gross[m]])
<1> DEFINE D == DOMAIN s.lines
           f == [k \in D |-> s.lines[k].amount]
           key == [k \in D |-> s.lines[k].meter]
           h == [m \in Settling(s) |-> s.gross[m]]
<1>1. Summable(f) /\ DOMAIN f = D
  BY AmountsSummable
<1>2. key \in [D -> Settling(s)]
  BY DEF Settling
<1>3. DOMAIN h = Settling(s) /\ IsFiniteSet(Settling(s))
  BY SettlingFinite
<1>4. ASSUME NEW m \in Settling(s)
      PROVE  h[m] = Total([x \in Keyed(f, key, m) |-> f[x]])
  <2>1. Keyed(f, key, m) = LinesOf(s, m)
    BY DEF Keyed, LinesOf
  <2>2. [x \in Keyed(f, key, m) |-> f[x]] = [k \in LinesOf(s, m) |-> s.lines[k].amount]
    BY <2>1 DEF LinesOf
  <2> QED
    BY <2>2, PaidIsGross
<1>5. {j \in DOMAIN s.lines : s.lines[j].role \in PartyRole} = D
  BY SummaryFields, LineFields
<1>6. PaidTo(s, PartyRole) = Total(f)
  BY <1>5 DEF PaidTo
<1> HIDE DEF f, key, h, D
<1>7. Total(h) = Total(f)
  BY <1>1, <1>2, <1>3, <1>4, TotalGrouped
<1> QED
  BY <1>6, <1>7 DEF h

LEMMA BorneOutAccounts ==
  ASSUME settlement \in Summary, BorneOut(settlement)
  PROVE  Accounted
<1>1. settlement.org = metering.org
  BY DEF BorneOut
<1>2. ASSUME NEW m \in Settling(settlement)
      PROVE  /\ m \in metering.meters \cap DOMAIN settlement.gross
             /\ Total([k \in LinesOf(settlement, m) |-> Lines[k].amount]) = settlement.gross[m]
             /\ Total(SharesOf(settlement, m)) = Scale
  BY <1>2, PaidIsGross DEF BorneOut, Shared, Whole, Lines
<1>3. settlement.totals # NoTotals =>
        /\ settlement.totals = TotalsOf(settlement)
        /\ settlement.totals.gross = Total([m \in Settling(settlement) |-> settlement.gross[m]])
  BY AllIsPaid DEF BorneOut, TotalsOf
<1> QED
  BY <1>1, <1>2, <1>3 DEF Accounted

------------------------------------------------------------------------------
(* Two settlements of one agreement.                                        *)

LEMMA SamePay ==
  ASSUME NEW s \in Summary, NEW t \in Summary, BorneOut(s), BorneOut(t), Untied(s),
         Len(t.lines) = Len(s.lines), Agreed(t) = Agreed(s),
         \A m \in Settling(s) : t.gross[m] = s.gross[m],
         NEW j \in DOMAIN t.lines, NEW k \in DOMAIN s.lines,
         PartOf(t.lines[j]) = PartOf(s.lines[k])
  PROVE  t.lines[j].amount = s.lines[k].amount
<1> DEFINE D == DOMAIN s.lines
           p == [h \in D |-> CHOOSE l \in D : PartOf(t.lines[h]) = PartOf(s.lines[l])]
<1>1. D = DOMAIN t.lines /\ IsFiniteSet(D)
  BY SummaryFields
<1>2. ASSUME NEW h \in D
      PROVE  p[h] \in D /\ PartOf(t.lines[h]) = PartOf(s.lines[p[h]])
  <2>1. PartOf(t.lines[h]) \in Agreed(s)
    BY <1>1 DEF Agreed
  <2>2. \E l \in D : PartOf(t.lines[h]) = PartOf(s.lines[l])
    BY <2>1 DEF Agreed
  <2> QED
    BY <2>2
<1>3. \A a, b \in D : PartOf(s.lines[a]) = PartOf(s.lines[b]) => a = b
  BY PartFields DEF Untied
<1>4. ASSUME NEW b \in D PROVE \E a \in D : p[a] = b
  <2>1. PartOf(s.lines[b]) \in Agreed(t)
    BY DEF Agreed
  <2>2. PICK a \in D : PartOf(t.lines[a]) = PartOf(s.lines[b])
    BY <1>1, <2>1 DEF Agreed
  <2>3. p[a] = b
    BY <1>2, <1>3, <2>2
  <2> QED
    BY <2>3
<1>5. p \in [D -> D]
  BY <1>2
<1> HIDE DEF p
<1>6. p \in Surjection(D, D)
  BY <1>4, <1>5 DEF Surjection
<1>7. p \in Injection(D, D)
  BY <1>1, <1>6, FS_SurjSameCardinalityImpliesInj
<1>8. SameParts(p, s, t)
  <2>1. \A a, b \in D : p[a] = p[b] => a = b
    BY <1>7 DEF Injection, IsInjective
  <2> QED
    BY <1>1, <1>2, <1>4, <1>5, <2>1 DEF SameParts, Matches
<1>9. p[j] = k
  BY <1>1, <1>2, <1>3
<1> DEFINE m == t.lines[j].meter
<1>10. m = s.lines[k].meter /\ j \in LinesOf(t, m)
  BY PartFields DEF LinesOf
<1>11. m \in Settling(s) \cap DOMAIN s.gross /\ \A h \in DOMAIN s.lines : s.lines[h].share # BadDecimal
  BY <1>10, RightFields
<1> HIDE DEF m
<1>12. Expected(t, m)[j] = Expected(s, m)[p[j]]
  BY <1>8, <1>10, <1>11, ExpectedMatched
<1> QED
  BY <1>9, <1>10, <1>12, RightFields DEF m

------------------------------------------------------------------------------
(* One change.                                                              *)

LEMMA KeysDiffer ==
  ASSUME NEW a, NEW b
  PROVE  /\ IdemV1(a) # IdemV2(b)
         /\ IdemV1(a) = IdemV1(b) => a.meter = b.meter /\ a.role = b.role
         /\ IdemV2(a) = IdemV2(b) => a.meter = b.meter /\ a.role = b.role /\ a.account = b.account
<1>1. IdemV1(a) # IdemV2(b)
  <2>1. "account" \notin DOMAIN IdemV1(a) /\ "account" \in DOMAIN IdemV2(b)
    BY DEF IdemV1, IdemV2
  <2> QED
    BY <2>1
<1>2. IdemV1(a) = IdemV1(b) => a.meter = b.meter /\ a.role = b.role
  <2>1. IdemV1(a).meter = a.meter /\ IdemV1(a).role = a.role
        /\ IdemV1(b).meter = b.meter /\ IdemV1(b).role = b.role
    BY DEF IdemV1
  <2> QED
    BY <2>1
<1>3. IdemV2(a) = IdemV2(b) => a.meter = b.meter /\ a.role = b.role /\ a.account = b.account
  <2>1. /\ IdemV2(a).meter = a.meter /\ IdemV2(a).role = a.role /\ IdemV2(a).account = a.account
        /\ IdemV2(b).meter = b.meter /\ IdemV2(b).role = b.role /\ IdemV2(b).account = b.account
    BY DEF IdemV2
  <2> QED
    BY <2>1
<1> QED
  BY <1>1, <1>2, <1>3

LEMMA NewSharesTyped ==
  ASSUME NEW l \in Line
  PROVE  NewShares(l) \subseteq DecimalText
<1>1. \A n \in 0..Scale : Text(n) \in Int
  BY ParseOfText, ScaleAssumption
<1>2. l.share = BadDecimal \/ l.share + 1 \in Int
  BY LineFields DEF DecimalText
<1> QED
  BY <1>1, <1>2 DEF NewShares, DecimalText

(* A changed line is a line.  Under a key that is its own it is for the     *)
(* same party; the change is of its share or of its amount, not of both.    *)
LEMMA NewLineIs ==
  ASSUME NEW l \in Line, NEW line \in NewLines(l)
  PROVE  /\ line \in Line
         /\ line.share = l.share \/ line.amount = l.amount
         /\ \A schema : l.idem = IdemKey(schema, PartOf(l)) /\ line.idem = IdemKey(schema, PartOf(line))
              => /\ line.meter = l.meter /\ line.role = l.role
                 /\ schema = "settlement.v2" => line.account = l.account
<1>1. /\ l.meter \in Meter /\ l.role \in PartyRole /\ l.account \in Account
      /\ l.share \in DecimalText /\ l.amount \in Int /\ l.idem \in Idem
      /\ l = [meter |-> l.meter, role |-> l.role, account |-> l.account, share |-> l.share,
              amount |-> l.amount, idem |-> l.idem]
  BY DEF Line
<1>2. /\ line \in Line
      /\ \/ line.idem = l.idem /\ (line.share = l.share \/ line.amount = l.amount)
         \/ /\ line.meter = l.meter /\ line.role = l.role /\ line.account = l.account
            /\ line.share = l.share
  <2>1. CASE \E m \in Meter : line = [l EXCEPT !.meter = m]
    BY <1>1, <2>1 DEF Line
  <2>2. CASE \E r \in {"AGENCY", "PLATFORM", "TENANT"} : line = [l EXCEPT !.role = r]
    BY <1>1, <2>2, Ranks DEF Line
  <2>3. CASE \E a \in Account : line = [l EXCEPT !.account = a]
    BY <1>1, <2>3 DEF Line
  <2>4. CASE \E s \in NewShares(l) : line = [l EXCEPT !.share = s]
    BY <1>1, <2>4, NewSharesTyped DEF Line
  <2>5. CASE \E d \in {-1, 1} : line = [l EXCEPT !.amount = l.amount + d]
    BY <1>1, <2>5 DEF Line
  <2>6. CASE \E d \in {IdemV1(l), IdemV2(l)} : line = [l EXCEPT !.idem = d]
    <3>1. IdemV1(l) \in Idem /\ IdemV2(l) \in Idem
      BY <1>1 DEF IdemV1, IdemV2, Idem
    <3> QED
      BY <1>1, <2>6, <3>1 DEF Line
  <2> QED
    BY <2>1, <2>2, <2>3, <2>4, <2>5, <2>6 DEF NewLines
<1>3. ASSUME NEW schema, l.idem = IdemKey(schema, PartOf(l)),
             line.idem = IdemKey(schema, PartOf(line)), line.idem = l.idem
      PROVE  /\ line.meter = l.meter /\ line.role = l.role
             /\ schema = "settlement.v2" => line.account = l.account
  <2>1. /\ PartOf(l).meter = l.meter /\ PartOf(l).role = l.role /\ PartOf(l).account = l.account
        /\ PartOf(line).meter = line.meter /\ PartOf(line).role = line.role
        /\ PartOf(line).account = line.account
    BY DEF PartOf
  <2>2. IdemKey(schema, PartOf(l)) = IdemKey(schema, PartOf(line))
    BY <1>3
  <2> QED
    BY <2>1, <2>2, KeysDiffer DEF IdemKey
<1> QED
  BY <1>2, <1>3

(* A line less is a list, of the lines that stay.                           *)
LEMMA WithoutIs ==
  ASSUME NEW X, NEW list \in Seq(X), NEW k \in DOMAIN list
  PROVE  /\ Without(list, k) \in Seq(X)
         /\ \E q : /\ Matches(q, DOMAIN Without(list, k), DOMAIN list \ {k})
                   /\ \A j \in DOMAIN Without(list, k) : Without(list, k)[j] = list[q[j]]
<1> DEFINE before == SubSeq(list, 1, k - 1)
           after == SubSeq(list, k + 1, Len(list))
           q == [j \in 1..(Len(list) - 1) |-> IF j < k THEN j ELSE j + 1]
<1>1. k \in 1..Len(list) /\ Len(list) \in Nat /\ DOMAIN list = 1..Len(list)
  OBVIOUS
<1>2. /\ before \in Seq(X) /\ Len(before) = k - 1
      /\ \A j \in 1..(k - 1) : before[j] = list[j]
  BY <1>1
<1>3. /\ after \in Seq(X) /\ Len(after) = Len(list) - k
      /\ \A j \in 1..(Len(list) - k) : after[j] = list[k + j]
  BY <1>1
<1>4. Without(list, k) = before \o after
  BY DEF Without
<1> HIDE DEF before, after
<1>5. /\ before \o after \in Seq(X)
      /\ DOMAIN (before \o after) = 1..(Len(before) + Len(after))
      /\ \A j \in 1..(Len(before) + Len(after)) :
           (before \o after)[j] = IF j <= Len(before) THEN before[j] ELSE after[j - Len(before)]
  BY <1>2, <1>3
<1>6. DOMAIN (before \o after) = 1..(Len(list) - 1)
  BY <1>1, <1>2, <1>3, <1>5
<1>7. ASSUME NEW j \in 1..(Len(list) - 1)
      PROVE  (before \o after)[j] = list[q[j]]
  <2>0. /\ j \in Int /\ k \in Int /\ Len(list) \in Int /\ 1 <= j /\ j <= Len(list) - 1
        /\ j \in 1..(Len(before) + Len(after)) /\ Len(before) = k - 1
    <3>1. Len(before) + Len(after) = Len(list) - 1 /\ Len(before) = k - 1
      BY <1>1, <1>2, <1>3
    <3> HIDE DEF q
    <3> QED
      BY <1>1, <3>1
  <2>1. CASE j <= k - 1
    <3>1. j \in 1..(k - 1) /\ q[j] = j
      BY <1>1, <2>1
    <3> QED
      BY <1>2, <1>3, <1>5, <1>6, <2>1, <3>1
  <2>2. CASE j > k - 1
    <3>1. j - (k - 1) \in 1..(Len(list) - k) /\ q[j] = j + 1
      BY <1>1, <2>2
    <3> HIDE DEF q
    <3>2. (before \o after)[j] = after[j - (k - 1)]
      BY <1>5, <2>0, <2>2
    <3>3. after[j - (k - 1)] = list[k + (j - (k - 1))] /\ k + (j - (k - 1)) = j + 1
      BY <1>1, <1>3, <3>1
    <3> QED
      BY <3>1, <3>2, <3>3
  <2> HIDE DEF q
  <2> QED
    BY <2>0, <2>1, <2>2
<1>8. Matches(q, 1..(Len(list) - 1), DOMAIN list \ {k})
  <2>1. q \in [1..(Len(list) - 1) -> DOMAIN list \ {k}]
    BY <1>1
  <2>2. \A a, b \in 1..(Len(list) - 1) : q[a] = q[b] => a = b
    BY <1>1
  <2>3. ASSUME NEW b \in DOMAIN list \ {k} PROVE \E a \in 1..(Len(list) - 1) : q[a] = b
    <3>1. CASE b < k
      <4>1. b \in 1..(Len(list) - 1) /\ q[b] = b
        BY <1>1, <3>1
      <4> QED
        BY <4>1
    <3>2. CASE b > k
      <4>1. b - 1 \in 1..(Len(list) - 1) /\ q[b - 1] = b
        BY <1>1, <3>2
      <4> QED
        BY <4>1
    <3> QED
      BY <1>1, <3>1, <3>2
  <2> HIDE DEF q
  <2> QED
    BY <2>1, <2>2, <2>3 DEF Matches
<1> DEFINE w == Without(list, k)
<1>9. DOMAIN w = 1..(Len(list) - 1) /\ w \in Seq(X) /\ \A j \in DOMAIN w : w[j] = list[q[j]]
  <2> HIDE DEF q
  <2> QED
    BY <1>4, <1>5, <1>6, <1>7
<1>10. Matches(q, DOMAIN w, DOMAIN list \ {k})
  BY <1>8, <1>9
<1> HIDE DEF q, w
<1>11. \E p : Matches(p, DOMAIN w, DOMAIN list \ {k}) /\ \A j \in DOMAIN w : w[j] = list[p[j]]
  BY <1>9, <1>10
<1> QED
  BY <1>9, <1>11 DEF w

LEMMA AppendIs ==
  ASSUME NEW X, NEW list \in Seq(X), NEW k \in DOMAIN list
  PROVE  LET longer == Append(list, list[k])
             last == Len(list) + 1
         IN  /\ longer \in Seq(X)
             /\ last \in DOMAIN longer /\ longer[last] = list[k]
             /\ \A j \in DOMAIN list : longer[j] = list[j]
             /\ Matches([j \in DOMAIN list |-> j], DOMAIN list, DOMAIN longer \ {last})
<1> DEFINE longer == Append(list, list[k])
           last == Len(list) + 1
           q == [j \in DOMAIN list |-> j]
<1>1. Len(list) \in Nat /\ DOMAIN list = 1..Len(list) /\ list[k] \in X
  OBVIOUS
<1>2. /\ longer \in Seq(X) /\ DOMAIN longer = 1..(Len(list) + 1)
      /\ longer[last] = list[k] /\ \A j \in 1..Len(list) : longer[j] = list[j]
  BY <1>1
<1> HIDE DEF longer
<1>3. DOMAIN longer \ {last} = DOMAIN list
  BY <1>1, <1>2
<1>4. Matches(q, DOMAIN list, DOMAIN longer \ {last})
  <2>1. q \in [DOMAIN list -> DOMAIN longer \ {last}] /\ \A j \in DOMAIN list : q[j] = j
    BY <1>3
  <2> HIDE DEF q
  <2> QED
    BY <1>3, <2>1 DEF Matches
<1> QED
  BY <1>1, <1>2, <1>4 DEF longer

\* One change of the lines, or of the rest.
LinesChanged(s, v) ==
  /\ v.org = s.org /\ v.schema = s.schema /\ v.gross = s.gross /\ v.totals = s.totals
  /\ \E k \in DOMAIN s.lines :
       \/ \E line \in NewLines(s.lines[k]) : v.lines = [s.lines EXCEPT ![k] = line]
       \/ v.lines = Without(s.lines, k)
       \/ v.lines = Append(s.lines, s.lines[k])

HeaderChanged(s, v) ==
  /\ v.lines = s.lines
  /\ \/ v.org = s.org /\ v.schema = s.schema /\ v.totals = s.totals
     \/ /\ v.org = s.org /\ v.schema = s.schema /\ s.totals # NoTotals
        /\ \E label \in {"gross", "net", "fee"} :
             v.totals = [s.totals EXCEPT ![label] = s.totals[label] + 1]
     \/ v.org = s.org /\ v.schema = s.schema /\ v.totals = NoTotals
     \/ v.schema = s.schema /\ v.totals = s.totals
     \/ v.org = s.org /\ v.totals = s.totals

LEMMA OneChange ==
  ASSUME NEW s \in Summary, NEW v \in Variants(s)
  PROVE  v \in Summary /\ (LinesChanged(s, v) \/ HeaderChanged(s, v))
<1>1. /\ s = [org |-> s.org, schema |-> s.schema, gross |-> s.gross, totals |-> s.totals,
              lines |-> s.lines]
      /\ s.org \in Org /\ s.schema \in {"settlement.v1", "settlement.v2", "other"}
      /\ s.gross \in UNION {[meters -> Int] : meters \in SUBSET Meter}
      /\ s.totals \in {NoTotals} \cup Totals /\ s.lines \in Seq(Line)
  BY DEF Summary
<1>2. \A k \in DOMAIN s.lines : s.lines[k] \in Line
  BY SummaryFields
<1>3. ASSUME NEW lines \in Seq(Line), v = [s EXCEPT !.lines = lines]
      PROVE  /\ v \in Summary /\ v.lines = lines
             /\ v.org = s.org /\ v.schema = s.schema /\ v.gross = s.gross /\ v.totals = s.totals
  BY <1>1, <1>3 DEF Summary
<1>4. ASSUME NEW gross \in UNION {[meters -> Int] : meters \in SUBSET Meter},
             v = [s EXCEPT !.gross = gross]
      PROVE  v \in Summary /\ HeaderChanged(s, v)
  BY <1>1, <1>4 DEF Summary, HeaderChanged
<1>5. ASSUME NEW totals \in {NoTotals} \cup Totals, v = [s EXCEPT !.totals = totals]
      PROVE  /\ v \in Summary /\ v.lines = s.lines /\ v.totals = totals
             /\ v.org = s.org /\ v.schema = s.schema
  BY <1>1, <1>5 DEF Summary
<1>6. ASSUME NEW k \in DOMAIN s.lines,
             v \in {[s EXCEPT !.lines[k] = line] : line \in NewLines(s.lines[k])}
      PROVE  v \in Summary /\ LinesChanged(s, v)
  <2>1. PICK line \in NewLines(s.lines[k]) : v = [s EXCEPT !.lines[k] = line]
    BY <1>6
  <2>2. line \in Line
    BY <1>2, NewLineIs
  <2> DEFINE lines == [s.lines EXCEPT ![k] = line]
  <2>3. lines \in Seq(Line)
    BY <1>1, <2>2
  <2>4. v = [s EXCEPT !.lines = lines]
    BY <1>1, <2>1
  <2> HIDE DEF lines
  <2>5. /\ v \in Summary /\ v.lines = lines
        /\ v.org = s.org /\ v.schema = s.schema /\ v.gross = s.gross /\ v.totals = s.totals
    BY <1>3, <2>3, <2>4
  <2> QED
    BY <2>5 DEF LinesChanged, lines
<1>7. ASSUME NEW k \in DOMAIN s.lines, v = [s EXCEPT !.lines = Without(s.lines, k)]
      PROVE  v \in Summary /\ LinesChanged(s, v)
  <2>1. Without(s.lines, k) \in Seq(Line)
    BY <1>1, WithoutIs
  <2> QED
    BY <1>3, <1>7, <2>1 DEF LinesChanged
<1>8. ASSUME NEW k \in DOMAIN s.lines, v = [s EXCEPT !.lines = Append(s.lines, s.lines[k])]
      PROVE  v \in Summary /\ LinesChanged(s, v)
  <2>1. Append(s.lines, s.lines[k]) \in Seq(Line)
    BY <1>1, AppendIs
  <2> QED
    BY <1>3, <1>8, <2>1 DEF LinesChanged
<1>9. ASSUME NEW m \in DOMAIN s.gross, NEW d \in {-1, 1},
             v = [s EXCEPT !.gross[m] = s.gross[m] + d]
      PROVE  v \in Summary /\ HeaderChanged(s, v)
  <2>1. PICK meters \in SUBSET Meter : s.gross \in [meters -> Int]
    BY <1>1
  <2>2. [s.gross EXCEPT ![m] = s.gross[m] + d] \in [meters -> Int]
    BY <2>1
  <2>3. v = [s EXCEPT !.gross = [s.gross EXCEPT ![m] = s.gross[m] + d]]
    BY <1>1, <1>9
  <2> QED
    BY <1>4, <2>2, <2>3
<1>10. ASSUME NEW m \in DOMAIN s.gross,
              v = [s EXCEPT !.gross = [n \in DOMAIN s.gross \ {m} |-> s.gross[n]]]
       PROVE  v \in Summary /\ HeaderChanged(s, v)
  <2>1. PICK meters \in SUBSET Meter : s.gross \in [meters -> Int]
    BY <1>1
  <2> DEFINE gross == [n \in DOMAIN s.gross \ {m} |-> s.gross[n]]
  <2>2. gross \in [meters \ {m} -> Int] /\ meters \ {m} \in SUBSET Meter
    BY <2>1
  <2>3. v = [s EXCEPT !.gross = gross]
    BY <1>10
  <2> HIDE DEF gross
  <2> QED
    BY <1>4, <2>2, <2>3
<1>11. ASSUME s.totals # NoTotals, NEW label \in {"gross", "net", "fee"},
              v = [s EXCEPT !.totals[label] = s.totals[label] + 1]
       PROVE  v \in Summary /\ HeaderChanged(s, v)
  <2> DEFINE totals == [s.totals EXCEPT ![label] = s.totals[label] + 1]
  <2>1. s.totals \in Totals
    BY <1>1, <1>11
  <2>2. totals \in Totals
    BY <2>1 DEF Totals
  <2>3. v = [s EXCEPT !.totals = totals]
    BY <1>1, <1>11
  <2> HIDE DEF totals
  <2>4. /\ v \in Summary /\ v.lines = s.lines /\ v.totals = totals
        /\ v.org = s.org /\ v.schema = s.schema
    BY <1>5, <2>2, <2>3
  <2> QED
    BY <1>11, <2>4 DEF HeaderChanged, totals
<1>12. ASSUME v = [s EXCEPT !.totals = NoTotals]
       PROVE  v \in Summary /\ HeaderChanged(s, v)
  BY <1>5, <1>12 DEF HeaderChanged
<1>13. ASSUME NEW org \in Org, v = [s EXCEPT !.org = org]
       PROVE  v \in Summary /\ HeaderChanged(s, v)
  BY <1>1, <1>13 DEF Summary, HeaderChanged
<1>14. ASSUME NEW schema \in {"settlement.v1", "settlement.v2", "other"},
              v = [s EXCEPT !.schema = schema]
       PROVE  v \in Summary /\ HeaderChanged(s, v)
  BY <1>1, <1>14 DEF Summary, HeaderChanged
<1> DEFINE OfLine(k) ==
             {[s EXCEPT !.lines[k] = line] : line \in NewLines(s.lines[k])}
               \cup {[s EXCEPT !.lines = Without(@, k)], [s EXCEPT !.lines = Append(@, @[k])]}
           OfMeter(m) ==
             {[s EXCEPT !.gross[m] = @ + d] : d \in {-1, 1}}
               \cup {[s EXCEPT !.gross = [n \in DOMAIN @ \ {m} |-> @[n]]]}
           OfLines == UNION {OfLine(k) : k \in DOMAIN s.lines}
           OfMeters == UNION {OfMeter(m) : m \in DOMAIN s.gross}
           OfTotals == IF s.totals = NoTotals THEN {}
                       ELSE {[s EXCEPT !.totals[label] = @ + 1] : label \in {"gross", "net", "fee"}}
           OfOrg == {[s EXCEPT !.org = org] : org \in Org}
           OfSchema == {[s EXCEPT !.schema = w] : w \in {"settlement.v1", "settlement.v2", "other"}}
<1>15. Variants(s) = OfLines \cup OfMeters \cup OfTotals \cup {[s EXCEPT !.totals = NoTotals]}
                       \cup OfOrg \cup OfSchema
  BY DEF Variants
<1>16. CASE v \in OfLines
  <2>1. PICK k \in DOMAIN s.lines : v \in OfLine(k)
    BY <1>16
  <2> QED
    BY <1>6, <1>7, <1>8, <2>1
<1>17. CASE v \in OfMeters
  <2>1. PICK m \in DOMAIN s.gross : v \in OfMeter(m)
    BY <1>17
  <2> QED
    BY <1>9, <1>10, <2>1
<1>18. CASE v \in OfTotals
  BY <1>11, <1>18
<1>19. CASE v \in OfOrg
  BY <1>13, <1>19
<1>20. CASE v \in OfSchema
  BY <1>14, <1>20
<1> HIDE DEF OfLines, OfMeters, OfTotals, OfOrg, OfSchema
<1>21. \/ v \in OfLines \/ v \in OfMeters \/ v \in OfTotals
       \/ v = [s EXCEPT !.totals = NoTotals] \/ v \in OfOrg \/ v \in OfSchema
  BY <1>15
<1> QED
  BY <1>12, <1>16, <1>17, <1>18, <1>19, <1>20, <1>21

------------------------------------------------------------------------------
(* Changes that an audit lets pass leave the payments as they were.         *)

\* The lines that pay something.
Paying(s) == {j \in DOMAIN s.lines : s.lines[j].amount # 0}

(* Lines that pay nothing do not count.                                     *)
LEMMA PaymentsMatched ==
  ASSUME NEW s \in Summary, NEW t \in Summary, s.org = t.org,
         NEW q \in [DOMAIN t.lines -> DOMAIN s.lines],
         \A a, b \in DOMAIN t.lines : q[a] = q[b] => a = b,
         \A j \in DOMAIN t.lines : Payment(t, t.lines[j]) = Payment(s, s.lines[q[j]]),
         \A b \in Paying(s) : \E a \in DOMAIN t.lines : q[a] = b
  PROVE  Payments(t) = Payments(s)
<1>1. \A j \in DOMAIN t.lines : t.lines[j].amount = s.lines[q[j]].amount
  <2>1. \A u, l : Payment(u, l).amount = l.amount
    BY DEF Payment
  <2> QED
    BY <2>1
<1>2. \A j \in DOMAIN t.lines : j \in Paying(t) <=> q[j] \in Paying(s)
  BY <1>1 DEF Paying
<1>3. Paying(t) \subseteq DOMAIN t.lines /\ Paying(s) \subseteq DOMAIN s.lines
  BY DEF Paying
<1>4. {Payment(t, t.lines[k]) : k \in Paying(t)} = {Payment(s, s.lines[k]) : k \in Paying(s)}
  <2>1. ASSUME NEW k \in Paying(t)
        PROVE  Payment(t, t.lines[k]) \in {Payment(s, s.lines[b]) : b \in Paying(s)}
    BY <1>2, <1>3
  <2>2. ASSUME NEW b \in Paying(s)
        PROVE  Payment(s, s.lines[b]) \in {Payment(t, t.lines[k]) : k \in Paying(t)}
    <3>1. PICK a \in DOMAIN t.lines : q[a] = b
      OBVIOUS
    <3>2. a \in Paying(t) /\ Payment(t, t.lines[a]) = Payment(s, s.lines[b])
      BY <1>2, <3>1
    <3> QED
      BY <3>2
  <2> QED
    BY <2>1, <2>2
<1>5. Cardinality(Paying(t)) = Cardinality(Paying(s))
  <2> DEFINE r == [k \in Paying(t) |-> q[k]]
  <2>1. r \in [Paying(t) -> Paying(s)] /\ DOMAIN r = Paying(t)
    BY <1>2, <1>3
  <2>2. \A a, b \in Paying(t) : r[a] = r[b] => a = b
    BY <1>3
  <2>3. \A b \in Paying(s) : \E a \in Paying(t) : r[a] = b
    BY <1>2
  <2>4. IsFiniteSet(Paying(t))
    BY <1>3, SummaryFields, FS_Subset
  <2> HIDE DEF r
  <2>5. r \in Bijection(Paying(t), Paying(s))
    BY <2>1, <2>2, <2>3 DEF Bijection, Injection, Surjection, IsInjective
  <2> QED
    BY <2>4, <2>5, FS_Bijection DEF ExistsBijection
<1> QED
  BY <1>4, <1>5 DEF Payments, Paying

(* A line less, and as much paid in all: the line paid nothing.             *)
LEMMA OneLineLess ==
  ASSUME NEW long \in Summary, NEW short \in Summary,
         short.org = long.org, short.schema = long.schema,
         NEW k \in DOMAIN long.lines,
         NEW q, Matches(q, DOMAIN short.lines, DOMAIN long.lines \ {k}),
         \A j \in DOMAIN short.lines : short.lines[j] = long.lines[q[j]],
         PaidTo(short, PartyRole) = PaidTo(long, PartyRole)
  PROVE  Payments(short) = Payments(long)
<1> DEFINE f == [j \in DOMAIN long.lines |-> long.lines[j].amount]
           g == [j \in DOMAIN long.lines \ {k} |-> long.lines[j].amount]
           h == [j \in DOMAIN short.lines |-> short.lines[j].amount]
<1>1. PaidTo(long, PartyRole) = Total(f) /\ PaidTo(short, PartyRole) = Total(h)
  <2>1. \A s \in Summary : {j \in DOMAIN s.lines : s.lines[j].role \in PartyRole} = DOMAIN s.lines
    BY SummaryFields, LineFields
  <2>2. {j \in DOMAIN long.lines : long.lines[j].role \in PartyRole} = DOMAIN long.lines
    BY <2>1
  <2>3. {j \in DOMAIN short.lines : short.lines[j].role \in PartyRole} = DOMAIN short.lines
    BY <2>1
  <2> QED
    BY <2>2, <2>3 DEF PaidTo
<1>2. Summable(f) /\ Summable(h)
  BY AmountsSummable
<1>3. /\ DOMAIN f = DOMAIN long.lines /\ DOMAIN g = DOMAIN f \ {k}
      /\ DOMAIN h = DOMAIN short.lines /\ \A y \in DOMAIN g : g[y] = f[y]
      /\ f[k] = long.lines[k].amount
  OBVIOUS
<1>4. \A x \in DOMAIN h : h[x] = g[q[x]]
  BY DEF Matches
<1> HIDE DEF f, g, h
<1>5. Summable(g) /\ Total(g) \in Int /\ Total(f) = f[k] + Total(g) /\ f[k] \in Int
  <2>1. f[k] \in Int
    BY <1>2, <1>3 DEF Summable
  <2>2. /\ Summable(f) /\ k \in DOMAIN f
        /\ DOMAIN g = DOMAIN f \ {k} /\ \A y \in DOMAIN g : g[y] = f[y]
    BY <1>2, <1>3
  <2>3. Summable(g) /\ Total(g) \in Int /\ Total(f) = f[k] + Total(g)
    BY ONLY <2>2, TotalWithout
  <2> QED
    BY <2>1, <2>3
<1>6. Total(h) = Total(g)
  BY <1>2, <1>3, <1>4, <1>5, TotalPermuted DEF Matches
<1>7. long.lines[k].amount = 0
  BY <1>1, <1>3, <1>5, <1>6
<1>8. \A j \in DOMAIN short.lines :
        Payment(short, short.lines[j]) = Payment(long, long.lines[q[j]])
  BY DEF Payment
<1>9. /\ q \in [DOMAIN short.lines -> DOMAIN long.lines]
      /\ \A a, b \in DOMAIN short.lines : q[a] = q[b] => a = b
      /\ \A b \in Paying(long) : \E a \in DOMAIN short.lines : q[a] = b
  BY <1>7 DEF Matches, Paying
<1> QED
  BY <1>8, <1>9, PaymentsMatched

(* Payments that are the same line by line.                                 *)
LEMMA PaymentsSame ==
  ASSUME NEW s \in Summary, NEW t \in Summary, s.org = t.org,
         DOMAIN t.lines = DOMAIN s.lines,
         \A j \in DOMAIN t.lines : Payment(t, t.lines[j]) = Payment(s, s.lines[j])
  PROVE  Payments(t) = Payments(s)
<1> DEFINE q == [j \in DOMAIN t.lines |-> j]
<1>1. q \in [DOMAIN t.lines -> DOMAIN s.lines] /\ \A j \in DOMAIN t.lines : q[j] = j
  OBVIOUS
<1> HIDE DEF q
<1>2. /\ \A a, b \in DOMAIN t.lines : q[a] = q[b] => a = b
      /\ \A j \in DOMAIN t.lines : Payment(t, t.lines[j]) = Payment(s, s.lines[q[j]])
      /\ \A b \in Paying(s) : \E a \in DOMAIN t.lines : q[a] = b
  BY <1>1 DEF Paying
<1> QED
  BY <1>1, <1>2, PaymentsMatched

(* A changed line that passes with the others pays what it paid.            *)
LEMMA OneLineChanged ==
  ASSUME NEW s \in Summary, NEW v \in Summary, BorneOut(s), BorneOut(v),
         v.org = s.org, v.schema = s.schema, v.gross = s.gross,
         NEW k \in DOMAIN s.lines, NEW line \in NewLines(s.lines[k]),
         v.lines = [s.lines EXCEPT ![k] = line]
  PROVE  Payments(v) = Payments(s)
<1> DEFINE l == s.lines[k]
           m == l.meter
<1>1. /\ DOMAIN v.lines = DOMAIN s.lines /\ v.lines[k] = line
      /\ \A j \in DOMAIN s.lines \ {k} : v.lines[j] = s.lines[j]
  OBVIOUS
<1>2. /\ l \in Line /\ l.idem = IdemKey(s.schema, PartOf(l)) /\ l.share # BadDecimal
      /\ l.amount = Expected(s, m)[k] /\ m \in Settling(s)
  BY RightFields
<1>3. /\ line.idem = IdemKey(v.schema, PartOf(line)) /\ line.share # BadDecimal
      /\ line.amount = Expected(v, line.meter)[k] /\ line.meter \in Settling(v)
  BY <1>1, RightFields
<1>4. /\ line \in Line /\ (line.share = l.share \/ line.amount = l.amount)
      /\ line.meter = l.meter /\ line.role = l.role
      /\ s.schema = "settlement.v2" => line.account = l.account
  BY <1>2, <1>3, NewLineIs
<1>5. LinesOf(v, m) = LinesOf(s, m) /\ RolesOf(v, m) = RolesOf(s, m) /\ k \in LinesOf(s, m)
  <2>1. \A j \in DOMAIN s.lines : /\ v.lines[j].meter = s.lines[j].meter
                                  /\ v.lines[j].role = s.lines[j].role
    BY <1>1, <1>4
  <2>2. LinesOf(v, m) = LinesOf(s, m) /\ k \in LinesOf(s, m)
    BY <1>1, <2>1 DEF LinesOf
  <2>3. \A j \in LinesOf(s, m) : v.lines[j].role = s.lines[j].role
    BY <2>1 DEF LinesOf
  <2> QED
    BY <2>2, <2>3 DEF RolesOf
<1>6. Parse(line.share) = Parse(l.share) /\ line.amount = l.amount
  <2>1. CASE line.share = l.share
    <3>1. \A j \in LinesOf(s, m) : v.lines[j].share = s.lines[j].share
      BY <1>1, <2>1 DEF LinesOf
    <3>2. SharesOf(v, m) = SharesOf(s, m)
      BY <1>5, <3>1 DEF SharesOf
    <3>3. Expected(v, m) = Expected(s, m)
      BY <1>5, <3>2, ExpectedIs
    <3> QED
      BY <1>2, <1>3, <1>4, <2>1, <3>3
  <2>2. CASE line.amount = l.amount
    <3> DEFINE f == SharesOf(s, m)
               g == SharesOf(v, m)
    <3>1. Summable(f) /\ DOMAIN f = LinesOf(s, m) /\ DOMAIN g = LinesOf(s, m)
      BY <1>5, LinesRanked, RankedSummable
    <3>2. f[k] = ParseOrZero(l.share) /\ g[k] = ParseOrZero(line.share)
      BY <1>1, <1>5 DEF SharesOf
    <3>3. \A y \in DOMAIN f \ {k} : g[y] = f[y]
      BY <1>1, <1>5 DEF SharesOf, LinesOf
    <3>4. Total(f) = Scale /\ Total(g) = Scale
      BY <1>2, <1>3, <1>4 DEF BorneOut, Shared, Whole
    <3>5. ParseOrZero(line.share) \in Int /\ ParseOrZero(line.share) = Parse(line.share)
          /\ ParseOrZero(l.share) \in Int /\ ParseOrZero(l.share) = Parse(l.share)
      BY <1>2, <1>3, <1>4, LineFields
    <3> HIDE DEF f, g
    <3>6. Total(g) = Total(f) - f[k] + g[k]
      BY <1>5, <3>1, <3>2, <3>3, <3>5, TotalChanged
    <3> QED
      BY <2>2, <3>2, <3>4, <3>5, <3>6, ScaleAssumption
  <2> QED
    BY <1>4, <2>1, <2>2
<1>7. Payment(v, line) = Payment(s, l)
  BY <1>4, <1>6 DEF Payment
<1>8. \A j \in DOMAIN v.lines : Payment(v, v.lines[j]) = Payment(s, s.lines[j])
  <2>1. \A j \in DOMAIN s.lines \ {k} : Payment(v, s.lines[j]) = Payment(s, s.lines[j])
    BY DEF Payment
  <2> QED
    BY <1>1, <1>7, <2>1
<1> QED
  BY <1>1, <1>8, PaymentsSame

(* A changed version of the key is noticed by any line there is.            *)
LEMMA OneSchemaChanged ==
  ASSUME NEW s \in Summary, NEW v \in Summary, BorneOut(s), BorneOut(v),
         v.org = s.org, v.lines = s.lines
  PROVE  Payments(v) = Payments(s)
<1>1. ASSUME NEW j \in DOMAIN s.lines
      PROVE  v.schema = "settlement.v2" <=> s.schema = "settlement.v2"
  <2>1. IdemKey(v.schema, PartOf(s.lines[j])) = IdemKey(s.schema, PartOf(s.lines[j]))
    BY RightFields
  <2> QED
    BY <2>1, KeysDiffer DEF IdemKey
<1>2. \A j \in DOMAIN v.lines : Payment(v, v.lines[j]) = Payment(s, s.lines[j])
  BY <1>1 DEF Payment
<1> QED
  BY <1>2, PaymentsSame

LEMMA OneChangeKept ==
  ASSUME NEW s \in Summary, NEW v \in Variants(s), BorneOut(s), BorneOut(v),
         s.totals # NoTotals
  PROVE  Payments(v) = Payments(s) /\ v.totals \in {NoTotals, s.totals}
<1>1. v \in Summary /\ (LinesChanged(s, v) \/ HeaderChanged(s, v))
  BY OneChange
<1>2. /\ s.org = metering.org /\ v.org = metering.org /\ s.totals = TotalsOf(s)
      /\ v.totals # NoTotals => v.totals = TotalsOf(v)
  BY DEF BorneOut
<1>3. CASE LinesChanged(s, v)
  <2>1. /\ v.org = s.org /\ v.schema = s.schema /\ v.gross = s.gross /\ v.totals = s.totals
    BY <1>3 DEF LinesChanged
  <2>2. PaidTo(v, PartyRole) = PaidTo(s, PartyRole)
    <3>1. TotalsOf(v).gross = TotalsOf(s).gross
      BY <1>2, <2>1
    <3> QED
      BY <3>1 DEF TotalsOf
  <2>3. PICK k \in DOMAIN s.lines :
          \/ \E line \in NewLines(s.lines[k]) : v.lines = [s.lines EXCEPT ![k] = line]
          \/ v.lines = Without(s.lines, k)
          \/ v.lines = Append(s.lines, s.lines[k])
    BY <1>3 DEF LinesChanged
  <2>4. s.lines \in Seq(Line)
    BY SummaryFields
  <2>5. CASE \E line \in NewLines(s.lines[k]) : v.lines = [s.lines EXCEPT ![k] = line]
    BY <1>1, <2>1, <2>5, OneLineChanged
  <2>6. CASE v.lines = Without(s.lines, k)
    <3>1. PICK q : /\ Matches(q, DOMAIN v.lines, DOMAIN s.lines \ {k})
                   /\ \A j \in DOMAIN v.lines : v.lines[j] = s.lines[q[j]]
      <4>1. \E q : /\ Matches(q, DOMAIN Without(s.lines, k), DOMAIN s.lines \ {k})
                   /\ \A j \in DOMAIN Without(s.lines, k) :
                        Without(s.lines, k)[j] = s.lines[q[j]]
        BY <2>4, WithoutIs
      <4> QED
        BY <2>6, <4>1
    <3> QED
      BY <1>1, <2>1, <2>2, <3>1, OneLineLess
  <2>7. CASE v.lines = Append(s.lines, s.lines[k])
    <3> DEFINE q == [j \in DOMAIN s.lines |-> j]
               last == Len(s.lines) + 1
    <3>1. /\ last \in DOMAIN v.lines /\ \A j \in DOMAIN s.lines : v.lines[j] = s.lines[j]
          /\ Matches(q, DOMAIN s.lines, DOMAIN v.lines \ {last})
      BY <2>4, <2>7, AppendIs
    <3>2. \A j \in DOMAIN s.lines : s.lines[j] = v.lines[q[j]]
      BY <3>1
    <3> HIDE DEF q, last
    <3>3. Payments(s) = Payments(v)
      BY <1>1, <2>1, <2>2, <3>1, <3>2, OneLineLess
    <3> QED
      BY <2>1, <3>3
  <2> QED
    BY <2>1, <2>3, <2>5, <2>6, <2>7
<1>4. CASE HeaderChanged(s, v)
  <2>1. Payments(v) = Payments(s)
    <3>1. v.org = s.org /\ v.lines = s.lines
      BY <1>2, <1>4 DEF HeaderChanged
    <3> QED
      BY <1>1, <3>1, OneSchemaChanged
  <2>2. ASSUME NEW label \in {"gross", "net", "fee"}, s.totals # NoTotals,
               v.totals = [s.totals EXCEPT ![label] = s.totals[label] + 1]
        PROVE  v.totals = NoTotals
    <3>1. TotalsOf(v) = TotalsOf(s)
      BY <1>4 DEF HeaderChanged, TotalsOf, PaidTo
    <3>2. TotalsOf(s) \in Totals
      BY TotalsTyped
    <3>3. s.totals[label] \in Int /\ label \in DOMAIN s.totals
      BY <1>2, <3>2 DEF Totals
    <3>4. v.totals[label] = s.totals[label] + 1
      BY <2>2, <3>3
    <3> QED
      BY <1>2, <3>1, <3>3, <3>4
  <2> QED
    BY <1>4, <2>1, <2>2 DEF HeaderChanged
<1> QED
  BY <1>1, <1>3, <1>4

------------------------------------------------------------------------------
(* The platform's settlements.                                              *)

(* A summary is right with its lines in another order, unless two tie.      *)
LEMMA ReorderedIsRight ==
  ASSUME NEW s \in Summary, NEW p \in Orders(Len(s.lines)),
         NEW t, t = [s EXCEPT !.lines = [k \in DOMAIN p |-> s.lines[p[k]]]]
  PROVE  /\ t \in Summary /\ t.schema = s.schema /\ t.totals = s.totals
         /\ Untied(t) /\ BorneOut(s) => BorneOut(t)
         /\ RoundedAlike(t) => RoundedAlike(s)
<1> DEFINE n == Len(s.lines)
           D == DOMAIN s.lines
<1>1. /\ n \in Nat /\ D = 1..n /\ IsFiniteSet(D) /\ \A k \in D : s.lines[k] \in Line
      /\ s.org \in Org /\ s.schema \in {"settlement.v1", "settlement.v2", "other"}
      /\ s.gross \in UNION {[meters -> Int] : meters \in SUBSET Meter}
      /\ s.totals \in {NoTotals} \cup Totals
  BY SummaryFields
<1>2. p \in [D -> D] /\ \A a, b \in D : p[a] = p[b] => a = b
  BY <1>1 DEF Orders
<1>3. /\ t = [org |-> s.org, schema |-> s.schema, gross |-> s.gross, totals |-> s.totals,
              lines |-> [k \in D |-> s.lines[p[k]]]]
      /\ t.org = s.org /\ t.schema = s.schema /\ t.gross = s.gross /\ t.totals = s.totals
      /\ DOMAIN t.lines = D /\ \A k \in D : t.lines[k] = s.lines[p[k]]
  BY <1>2 DEF Summary
<1>4. t \in Summary
  <2> DEFINE lines == [k \in D |-> s.lines[p[k]]]
  <2>1. lines \in [1..n -> Line]
    BY <1>1, <1>2
  <2>2. \A l \in Nat : \A f \in [1..l -> Line] : f \in Seq(Line)
    OBVIOUS
  <2>3. lines \in Seq(Line)
    BY <1>1, <2>1, <2>2
  <2> HIDE DEF lines
  <2>4. [org |-> s.org, schema |-> s.schema, gross |-> s.gross, totals |-> s.totals,
         lines |-> lines] \in Summary
    BY <1>1, <2>3, SummaryIs
  <2> QED
    BY <1>3, <2>4 DEF lines
<1>5. \A b \in D : \E a \in D : p[a] = b
  <2>1. p \in Injection(D, D)
    BY <1>2 DEF Injection, IsInjective
  <2>2. p \in Surjection(D, D)
    BY <1>1, <2>1, FS_Injection
  <2> QED
    BY <2>2 DEF Surjection
<1>6. SameParts(p, s, t)
  BY <1>2, <1>3, <1>5 DEF SameParts, Matches
<1>7. ASSUME Untied(t), BorneOut(s) PROVE BorneOut(t)
  <2>1. Untied(s)
    <3>1. SUFFICES ASSUME NEW a \in D, NEW b \in D,
                          s.lines[a].meter = s.lines[b].meter, s.lines[a].role = s.lines[b].role,
                          Parse(s.lines[a].share) = Parse(s.lines[b].share)
                   PROVE  a = b
      BY DEF Untied
    <3>2. PICK x \in D : p[x] = a
      BY <1>5
    <3>3. PICK y \in D : p[y] = b
      BY <1>5
    <3>4. x = y
      BY <1>3, <1>7, <3>1, <3>2, <3>3 DEF Untied
    <3> QED
      BY <3>2, <3>3, <3>4
  <2>2. \A k \in DOMAIN s.lines : s.lines[k].share # BadDecimal
    BY <1>7, RightFields
  <2>3. ASSUME NEW k \in DOMAIN t.lines PROVE Right(t, k)
    <3> DEFINE m == t.lines[k].meter
    <3>1. p[k] \in DOMAIN s.lines /\ t.lines[k] = s.lines[p[k]] /\ k \in LinesOf(t, m)
      BY <1>2, <1>3 DEF LinesOf
    <3>2. /\ m \in Settling(s) \cap DOMAIN s.gross /\ m \in metering.meters
          /\ t.lines[k].idem = IdemKey(t.schema, PartOf(t.lines[k]))
          /\ t.lines[k].share # BadDecimal
          /\ t.lines[k].amount = Expected(s, m)[p[k]]
      <4>1. /\ s.lines[p[k]].meter \in Settling(s) \cap DOMAIN s.gross
            /\ s.lines[p[k]].meter \in metering.meters
            /\ s.lines[p[k]].idem = IdemKey(s.schema, PartOf(s.lines[p[k]]))
            /\ s.lines[p[k]].share # BadDecimal
            /\ s.lines[p[k]].amount = Expected(s, s.lines[p[k]].meter)[p[k]]
        BY <1>7, <3>1, RightFields
      <4> QED
        BY <1>3, <3>1, <4>1
    <3> HIDE DEF m
    <3>3. t.gross[m] = s.gross[m] /\ m \in DOMAIN t.gross
      BY <1>3, <3>2
    <3>4. Expected(t, m)[k] = Expected(s, m)[p[k]]
      <4>1. s \in Summary /\ m \in Settling(s) \cap DOMAIN s.gross
        BY <3>2
      <4>2. \A h \in LinesOf(t, m) : Expected(t, m)[h] = Expected(s, m)[p[h]]
        BY ONLY <1>4, <1>6, <2>1, <2>2, <3>3, <4>1, ExpectedMatched
      <4> QED
        BY <3>1, <4>2
    <3> QED
      BY <3>2, <3>3, <3>4 DEF Right, m
  <2>4. ASSUME NEW m \in Settling(t) PROVE Shared(t, m)
    <3>1. m \in Settling(s)
      BY <1>2, <1>3 DEF Settling
    <3>2. Total(SharesOf(t, m)) = Total(SharesOf(s, m))
      BY <1>4, <1>6, SharesMatched
    <3> QED
      BY <1>7, <3>1, <3>2 DEF BorneOut, Shared
  <2>5. TotalsOf(t) = TotalsOf(s)
    BY <1>3, <1>4, <1>6, TotalsMatched
  <2> QED
    BY <1>3, <1>7, <2>3, <2>4, <2>5 DEF BorneOut
<1>8. ASSUME RoundedAlike(t) PROVE RoundedAlike(s)
  <2>1. ASSUME NEW b \in D
        PROVE  LET slice == s.gross[s.lines[b].meter] * ParseOrZero(s.lines[b].share)
               IN  slice >= 0 \/ slice % Scale = 0
    <3>1. PICK a \in D : p[a] = b
      BY <1>5
    <3>2. t.lines[a] = s.lines[b] /\ t.gross = s.gross /\ a \in DOMAIN t.lines
      BY <1>3, <3>1
    <3> QED
      BY <1>8, <3>2 DEF RoundedAlike
  <2> QED
    BY <2>1 DEF RoundedAlike
<1> QED
  BY <1>3, <1>4, <1>7, <1>8

(* Flooring and cutting agree on what is not negative and on whole cents.   *)
LEMMA CutIsFloor ==
  ASSUME NEW n \in Int, n >= 0 \/ n % Scale = 0
  PROVE  Quotient(n, Scale) = n \div Scale
<1>1. CASE n >= 0
  BY <1>1 DEF Quotient
<1>2. CASE n < 0
  <2> DEFINE q == n \div Scale
  <2>1. n % Scale = 0 /\ Scale \in Nat \ {0}
    BY <1>2, ScaleAssumption
  <2>2. q \in Int /\ n = Scale * q
    BY <2>1
  <2> HIDE DEF q
  <2>3. -n = (-q) * Scale /\ -q \in Int
    BY <2>1, <2>2, TimesCommutes
  <2>4. (-n) \div Scale = -q
    BY <2>1, <2>3, DivExact
  <2> QED
    BY <1>2, <2>2, <2>4 DEF Quotient, q
<1> QED
  BY <1>1, <1>2

(* What the platform pays for a meter is in whole cents, and is what the    *)
(* audit expects where the two round alike.                                *)
LEMMA FlooredIs ==
  ASSUME NEW s \in Summary, NEW m \in Settling(s) \cap DOMAIN s.gross
  PROVE  /\ Floored(s, m) \in [LinesOf(s, m) -> Int]
         /\ RoundedAlike(s) => Floored(s, m) = Expected(s, m)
<1> DEFINE D == LinesOf(s, m)
           g == s.gross[m]
           shares == SharesOf(s, m)
           t == Residual(shares, RolesOf(s, m))
           floors == [k \in D |-> (g * shares[k]) \div Scale]
           slices == [k \in D |-> Slice(g, shares[k])]
<1>1. g \in Int
  BY SummaryFields
<1>2. Ranked(D, shares, RolesOf(s, m)) /\ D # {} /\ D \in SUBSET DOMAIN s.lines
  BY LinesRanked
<1>3. t \in D
  BY <1>2, ResidualLeads DEF Leader
<1>4. /\ IsFiniteSet(D) /\ DOMAIN shares = D
      /\ \A k \in D : shares[k] \in Int /\ shares[k] = ParseOrZero(s.lines[k].share)
  BY <1>2 DEF Ranked, SharesOf
<1>5. Floored(s, m) = [floors EXCEPT ![t] = @ + g - Total(floors)]
  BY DEF Floored
<1>6. Expected(s, m) = [slices EXCEPT ![t] = @ + g - Total(slices)]
  BY <1>2, <1>4, ExpectedIs DEF SplitCents
<1>7. Floored(s, m) \in [D -> Int]
  <2>1. ASSUME NEW k \in D PROVE floors[k] \in Int
    <3>1. g * shares[k] \in Int
      BY <1>1, <1>4, TimesCommutes
    <3> QED
      BY <3>1, DivBounds, ScaleAssumption
  <2>2. DOMAIN floors = D
    OBVIOUS
  <2> HIDE DEF floors, t, D, g
  <2>3. Summable(floors)
    BY <1>4, <2>1, <2>2 DEF Summable
  <2>4. Total(floors) \in Int /\ floors[t] \in Int
    BY <1>3, <2>1, <2>3, TotalIsInt
  <2>5. floors \in [D -> Int]
    BY <2>1, <2>2 DEF floors
  <2> QED
    BY <1>1, <1>3, <1>5, <2>4, <2>5
<1>8. ASSUME RoundedAlike(s) PROVE floors = slices
  <2>1. ASSUME NEW k \in D PROVE (g * shares[k]) \div Scale = Slice(g, shares[k])
    <3>1. k \in DOMAIN s.lines /\ s.lines[k].meter = m
      BY DEF LinesOf
    <3>2. g * shares[k] >= 0 \/ (g * shares[k]) % Scale = 0
      BY <1>4, <1>8, <3>1 DEF RoundedAlike
    <3>3. g * shares[k] \in Int
      BY <1>1, <1>4, TimesCommutes
    <3> HIDE DEF g, shares
    <3> QED
      BY <3>2, <3>3, CutIsFloor DEF Slice
  <2> HIDE DEF D, g, shares
  <2> QED
    BY <2>1
<1> QED
  BY <1>5, <1>6, <1>7, <1>8

(* The platform's arithmetic is that of the audit, where they round alike.  *)
LEMMA SettledIsRight ==
  ASSUME NEW org \in Org, NEW schema \in {"settlement.v1", "settlement.v2"},
         NEW a \in Agreements
  PROVE  LET s == Settle(org, schema, a, a.parts)
         IN  /\ s \in Summary /\ Len(s.lines) = Len(a.parts)
             /\ s.org = org /\ s.schema = schema /\ s.totals # NoTotals
             /\ RoundedAlike(s) /\ metering.org = org /\ DOMAIN a.gross \subseteq metering.meters
                  => BorneOut(s)
<1> DEFINE parts == a.parts
           lines == [k \in DOMAIN parts |->
                       [meter |-> parts[k].meter, role |-> parts[k].role,
                        account |-> parts[k].account, share |-> parts[k].share,
                        amount |-> 0, idem |-> IF schema = "settlement.v1" THEN IdemV1(parts[k])
                                               ELSE IdemV2(parts[k])]]
           blank == [org |-> org, schema |-> schema, gross |-> a.gross, totals |-> NoTotals,
                     lines |-> lines]
           booked == [k \in DOMAIN parts |->
                        [lines[k] EXCEPT !.amount = Floored(blank, parts[k].meter)[k]]]
           paid == [blank EXCEPT !.lines = booked]
           s == [paid EXCEPT !.totals = TotalsOf(paid)]
<1>1. Settle(org, schema, a, a.parts) = s
  BY DEF Settle
<1>2. /\ parts \in Seq(Part) /\ DOMAIN a.gross \subseteq Meter
      /\ a.gross \in [DOMAIN a.gross -> Int]
      /\ \A k \in DOMAIN parts : parts[k].meter \in DOMAIN a.gross
      /\ SharedOut(parts) /\ NoTotals \notin Totals
  BY AgreementAssumption DEF Totals
<1>3. /\ Len(parts) \in Nat /\ DOMAIN parts = 1..Len(parts)
      /\ \A k \in DOMAIN parts : parts[k] \in Part
  BY <1>2, SequenceOf
<1>4. ASSUME NEW k \in DOMAIN parts
      PROVE  /\ parts[k].meter \in Meter /\ parts[k].role \in PartyRole
             /\ parts[k].account \in Account /\ parts[k].share \in DecimalText
             /\ parts[k].share # BadDecimal
             /\ parts[k] = [meter |-> parts[k].meter, role |-> parts[k].role,
                            account |-> parts[k].account, share |-> parts[k].share]
             /\ IdemV1(parts[k]) \in Idem /\ IdemV2(parts[k]) \in Idem
             /\ IdemKey(schema, parts[k]) = IF schema = "settlement.v1" THEN IdemV1(parts[k])
                                            ELSE IdemV2(parts[k])
  <2>1. parts[k] \in Part /\ parts[k].share # BadDecimal
    BY <1>2, <1>3 DEF SharedOut
  <2>2. /\ parts[k].meter \in Meter /\ parts[k].role \in PartyRole
        /\ parts[k].account \in Account /\ parts[k].share \in DecimalText
        /\ parts[k] = [meter |-> parts[k].meter, role |-> parts[k].role,
                       account |-> parts[k].account, share |-> parts[k].share]
    BY <2>1 DEF Part, DecimalText
  <2>3. IdemV1(parts[k]) \in Idem /\ IdemV2(parts[k]) \in Idem
    BY <2>2 DEF IdemV1, IdemV2, Idem
  <2>4. IdemKey(schema, parts[k]) = IF schema = "settlement.v1" THEN IdemV1(parts[k])
                                    ELSE IdemV2(parts[k])
    BY DEF IdemKey
  <2> QED
    BY <2>1, <2>2, <2>3, <2>4
<1> HIDE DEF parts
<1>5. /\ DOMAIN lines = DOMAIN parts
      /\ \A k \in DOMAIN parts :
           /\ lines[k] \in Line /\ PartOf(lines[k]) = parts[k]
           /\ lines[k].idem = IdemKey(schema, parts[k])
  BY <1>4 DEF Line, PartOf
<1> HIDE DEF lines
<1>6. \A l \in Nat : \A f \in [1..l -> Line] : f \in Seq(Line)
  OBVIOUS
<1>7. a.gross \in UNION {[meters -> Int] : meters \in SUBSET Meter}
  BY <1>2
<1>8. blank \in Summary
  <2>1. lines \in [1..Len(parts) -> Line]
    <3>1. lines = [k \in DOMAIN lines |-> lines[k]]
      BY DEF lines
    <3> QED
      BY <1>3, <1>5, <3>1
  <2>2. lines \in Seq(Line)
    BY <1>3, <1>6, <2>1
  <2> QED
    BY <1>7, <2>2, SummaryIs
<1>9. /\ blank.lines = lines /\ blank.gross = a.gross /\ blank.schema = schema
      /\ blank.org = org
      /\ blank = [org |-> org, schema |-> schema, gross |-> a.gross, totals |-> NoTotals,
                  lines |-> lines]
  OBVIOUS
<1> HIDE DEF blank
<1>10. ASSUME NEW k \in DOMAIN parts
       PROVE  /\ Floored(blank, parts[k].meter)[k] \in Int
              /\ RoundedAlike(blank) =>
                   Floored(blank, parts[k].meter)[k] = Expected(blank, parts[k].meter)[k]
  <2> DEFINE m == parts[k].meter
  <2>1. m = lines[k].meter
    BY <1>5 DEF PartOf
  <2>2. m \in Settling(blank) \cap DOMAIN blank.gross /\ k \in LinesOf(blank, m)
    BY <1>2, <1>5, <1>9, <2>1 DEF Settling, LinesOf
  <2> HIDE DEF m
  <2>3. /\ Floored(blank, m) \in [LinesOf(blank, m) -> Int]
        /\ RoundedAlike(blank) => Floored(blank, m) = Expected(blank, m)
    BY <1>8, <2>2, FlooredIs
  <2> QED
    BY <2>2, <2>3 DEF m
<1>11. /\ DOMAIN booked = DOMAIN parts
       /\ \A k \in DOMAIN parts :
            /\ booked[k] \in Line /\ PartOf(booked[k]) = parts[k]
            /\ booked[k].idem = IdemKey(schema, parts[k])
            /\ booked[k].amount = Floored(blank, parts[k].meter)[k]
  BY <1>5, <1>10 DEF Line, PartOf
<1> HIDE DEF booked
<1>12. booked \in Seq(Line) /\ Len(booked) = Len(parts)
  <2>1. booked = [k \in DOMAIN booked |-> booked[k]]
    BY DEF booked
  <2>2. booked \in [1..Len(parts) -> Line]
    BY <1>3, <1>11, <2>1
  <2>3. booked \in Seq(Line)
    BY <1>3, <1>6, <2>2
  <2> QED
    BY <1>3, <1>11, <2>3
<1>13. /\ paid = [org |-> org, schema |-> schema, gross |-> a.gross, totals |-> NoTotals,
                  lines |-> booked]
       /\ paid.lines = booked
  BY <1>9
<1> HIDE DEF paid
<1>14. paid \in Summary
  <2>1. [org |-> org, schema |-> schema, gross |-> a.gross, totals |-> NoTotals,
         lines |-> booked] \in Summary
    BY <1>7, <1>12, SummaryIs
  <2> QED
    BY <1>13, <2>1
<1>15. TotalsOf(paid) \in Totals
  BY <1>14, TotalsTyped
<1>16. /\ s = [org |-> org, schema |-> schema, gross |-> a.gross, totals |-> TotalsOf(paid),
               lines |-> booked]
       /\ s.org = org /\ s.schema = schema /\ s.gross = a.gross /\ s.totals = TotalsOf(paid)
       /\ s.lines = booked
  BY <1>13
<1> HIDE DEF s
<1>17. s \in Summary
  BY <1>7, <1>12, <1>15, <1>16, SummaryIs
<1>18. s.totals = TotalsOf(s) /\ s.totals # NoTotals
  <2>1. TotalsOf(s) = TotalsOf(paid)
    BY <1>13, <1>16 DEF TotalsOf, PaidTo
  <2> QED
    BY <1>2, <1>15, <1>16, <2>1
<1>19. ASSUME NEW m
       PROVE  /\ LinesOf(s, m) = {h \in DOMAIN parts : parts[h].meter = m}
              /\ SharesOf(s, m) = [j \in LinesOf(s, m) |-> Parse(parts[j].share)]
              /\ Expected(s, m) = Expected(blank, m)
  <2>1. \A k \in DOMAIN parts :
          /\ booked[k].meter = parts[k].meter /\ booked[k].role = parts[k].role
          /\ booked[k].share = parts[k].share
          /\ lines[k].meter = parts[k].meter /\ lines[k].role = parts[k].role
          /\ lines[k].share = parts[k].share
    BY <1>5, <1>11 DEF PartOf
  <2>2. /\ LinesOf(s, m) = {h \in DOMAIN parts : parts[h].meter = m}
        /\ LinesOf(blank, m) = {h \in DOMAIN parts : parts[h].meter = m}
    BY <1>5, <1>9, <1>11, <1>16, <2>1 DEF LinesOf
  <2>3. \A j \in LinesOf(s, m) :
          /\ j \in DOMAIN parts
          /\ s.lines[j].share = parts[j].share /\ blank.lines[j].share = parts[j].share
          /\ s.lines[j].role = parts[j].role /\ blank.lines[j].role = parts[j].role
          /\ ParseOrZero(parts[j].share) = Parse(parts[j].share)
    BY <1>4, <1>9, <1>16, <2>1, <2>2 DEF ParseOrZero
  <2>4. /\ SharesOf(s, m) = [j \in LinesOf(s, m) |-> Parse(parts[j].share)]
        /\ SharesOf(blank, m) = SharesOf(s, m)
    BY <2>2, <2>3 DEF SharesOf
  <2>5. RolesOf(blank, m) = RolesOf(s, m)
    BY <2>2, <2>3 DEF RolesOf
  <2>6. blank.gross = s.gross
    BY <1>9, <1>16
  <2> QED
    BY <2>2, <2>4, <2>5, <2>6, ExpectedIs
<1>23. RoundedAlike(s) => RoundedAlike(blank)
  <2>1. /\ DOMAIN blank.lines = DOMAIN s.lines /\ blank.gross = s.gross
        /\ \A k \in DOMAIN s.lines : /\ blank.lines[k].meter = s.lines[k].meter
                                      /\ blank.lines[k].share = s.lines[k].share
    BY <1>5, <1>9, <1>11, <1>16 DEF PartOf
  <2> QED
    BY <2>1 DEF RoundedAlike
<1>20. ASSUME RoundedAlike(s), metering.org = org, DOMAIN a.gross \subseteq metering.meters,
              NEW k \in DOMAIN s.lines
       PROVE  Right(s, k)
  <2>1. k \in DOMAIN parts /\ s.lines[k] = booked[k]
    BY <1>11, <1>16
  <2>2. /\ booked[k].meter = parts[k].meter /\ booked[k].share = parts[k].share
        /\ PartOf(booked[k]) = parts[k]
    BY <1>11, <2>1 DEF PartOf
  <2>3. parts[k].meter \in metering.meters \cap DOMAIN s.gross
    BY <1>2, <1>16, <1>20, <2>1
  <2>4. s.lines[k].idem = IdemKey(s.schema, PartOf(s.lines[k]))
    BY <1>11, <1>16, <2>1
  <2>5. s.lines[k].amount = Expected(s, s.lines[k].meter)[k]
    BY <1>10, <1>11, <1>19, <1>20, <1>23, <2>1, <2>2
  <2>6. s.lines[k].share # BadDecimal
    BY <1>4, <2>1, <2>2
  <2> QED
    BY <2>1, <2>2, <2>3, <2>4, <2>5, <2>6 DEF Right
<1>21. ASSUME NEW m \in Settling(s) PROVE Shared(s, m)
  <2>1. PICK k \in DOMAIN s.lines : m = s.lines[k].meter
    BY DEF Settling
  <2>2. k \in DOMAIN parts /\ m = parts[k].meter
    BY <1>11, <1>16, <2>1 DEF PartOf
  <2>3. Total([j \in {h \in DOMAIN parts : parts[h].meter = parts[k].meter} |->
                 Parse(parts[j].share)]) = Scale
    BY <1>2, <2>2 DEF SharedOut
  <2>4. Total(SharesOf(s, m)) = Scale
    BY <1>19, <2>2, <2>3
  <2> QED
    BY <2>4 DEF Shared, Whole
<1>22. RoundedAlike(s) /\ metering.org = org /\ DOMAIN a.gross \subseteq metering.meters
         => BorneOut(s)
  BY <1>16, <1>18, <1>20, <1>21 DEF BorneOut
<1> QED
  BY <1>1, <1>12, <1>16, <1>17, <1>18, <1>22 DEF parts

------------------------------------------------------------------------------
(* What a step leaves alone.                                                *)

LEMMA SummaryTyped ==
  ASSUME NEW s \in Summary
  PROVE  /\ Len(s.lines) \in Nat /\ DOMAIN s.gross \subseteq Meter
         /\ \A k \in DOMAIN s.lines : PartOf(s.lines[k]) \in Part /\ s.lines[k].amount \in Int
<1>1. Len(s.lines) \in Nat /\ DOMAIN s.gross \subseteq Meter
  BY SummaryFields
<1>2. ASSUME NEW k \in DOMAIN s.lines
      PROVE  PartOf(s.lines[k]) \in Part /\ s.lines[k].amount \in Int
  <2>1. s.lines[k] \in Line
    BY SummaryFields
  <2> QED
    BY <2>1, LineFields DEF PartOf, Part, DecimalText
<1> QED
  BY <1>1, <1>2

LEMMA LinesTyped ==
  ASSUME settlement \in Summary
  PROVE  /\ Len(Lines) \in Nat /\ DOMAIN Lines = 1..Len(Lines)
         /\ DOMAIN settlement.gross \subseteq Meter
         /\ \A k \in DOMAIN Lines : /\ PartOf(Lines[k]) \in Part /\ Lines[k].amount \in Int
                                    /\ Lines[k] \in Line
  BY SummaryTyped, SummaryFields DEF Lines

\* What the audit does not change.
Inputs == <<metering, sealed, settlement, altered>>

LEMMA SealedSame ==
  ASSUME metering' = metering, sealed' = sealed
  PROVE  BorneOut(sealed) => BorneOut(sealed)'
<1>1. \A k : Right(sealed, k)' <=> Right(sealed, k)
  BY DEF Right
<1> QED
  BY <1>1 DEF BorneOut

LEMMA SameInputs ==
  ASSUME UNCHANGED Inputs
  PROVE  /\ metering' = metering /\ sealed' = sealed /\ settlement' = settlement
         /\ altered' = altered /\ Lines' = Lines
         /\ \A n, sums : SummedTo(n, sums)' <=> SummedTo(n, sums)
         /\ \A n : LinesWrong(n)' <=> LinesWrong(n)
         /\ \A left : SharesWrong(left)' <=> SharesWrong(left)
         /\ \A sums : TotalsWrong(sums)' <=> TotalsWrong(sums)
         /\ Origin => Origin'
<1>1. /\ metering' = metering /\ sealed' = sealed /\ settlement' = settlement
      /\ altered' = altered /\ Lines' = Lines
  BY DEF Inputs, Lines
<1>2. \A k : Right(settlement, k)' <=> Right(settlement, k)
  BY <1>1 DEF Right
<1>3. \A n, roles : PaidFirst(n, roles)' = PaidFirst(n, roles)
  BY <1>1 DEF PaidFirst
<1>4. \A n, sums : SummedTo(n, sums)' <=> SummedTo(n, sums)
  BY <1>2, <1>3 DEF SummedTo
<1>5. \A n : LinesWrong(n)' <=> LinesWrong(n)
  BY <1>1, <1>2 DEF LinesWrong
<1>6. \A left : SharesWrong(left)' <=> SharesWrong(left)
  BY <1>1 DEF SharesWrong
<1>7. \A sums : TotalsWrong(sums)' <=> TotalsWrong(sums)
  BY <1>1 DEF TotalsWrong
<1>8. Origin => Origin'
  <2>1. BorneOut(sealed) => BorneOut(sealed)'
    BY <1>1, SealedSame
  <2>2. Untied(sealed)' <=> Untied(sealed)
    BY <1>1 DEF Untied
  <2>3. RoundedAlike(sealed)' <=> RoundedAlike(sealed)
    BY <1>1 DEF RoundedAlike
  <2> QED
    BY <1>1, <2>1, <2>2, <2>3 DEF Origin
<1> QED
  BY <1>1, <1>4, <1>5, <1>6, <1>7, <1>8

------------------------------------------------------------------------------
(* The beginning, and the changes.                                          *)

LEMMA InitIInv == Init => IInv
<1>1. SUFFICES ASSUME Init PROVE IInv
  OBVIOUS
<1>2. PICK org \in Org, schema \in {"settlement.v1", "settlement.v2"}, a \in Agreements :
        /\ metering = [org |-> org, meters |-> DOMAIN a.gross]
        /\ \E p \in Orders(Len(a.parts)) :
             sealed = [Settle(org, schema, a, a.parts) EXCEPT
                         !.lines = [k \in DOMAIN p |-> @[p[k]]]]
  BY <1>1 DEF Init
<1> DEFINE s == Settle(org, schema, a, a.parts)
<1>3. PICK p \in Orders(Len(a.parts)) : sealed = [s EXCEPT !.lines = [k \in DOMAIN p |-> s.lines[p[k]]]]
  BY <1>2
<1>4. /\ s \in Summary /\ (RoundedAlike(s) => BorneOut(s)) /\ Len(s.lines) = Len(a.parts)
      /\ s.schema = schema /\ s.totals # NoTotals
  BY <1>2, SettledIsRight
<1> HIDE DEF s
<1>5. /\ sealed \in Summary /\ sealed.schema = s.schema /\ sealed.totals = s.totals
      /\ Untied(sealed) /\ RoundedAlike(sealed) => BorneOut(sealed)
  BY <1>3, <1>4, ReorderedIsRight
<1>6. /\ settlement = sealed /\ altered = 0 /\ pc = "transit" /\ i = 1 /\ pending = {}
      /\ computed = [gross |-> 0, net |-> 0, fee |-> 0] /\ steps = {} /\ status = "pending"
  BY <1>1 DEF Init
<1>7. Origin
  BY <1>4, <1>5, <1>6 DEF Origin
<1>8. Control
  BY <1>6 DEF Control
<1>9. Len(Lines) \in Nat /\ DOMAIN settlement.gross \subseteq Meter
      /\ \A k \in DOMAIN Lines : PartOf(Lines[k]) \in Part /\ Lines[k].amount \in Int
  BY <1>5, <1>6, LinesTyped
<1>10. TypeOK
  BY <1>6, <1>9, AgreementAssumption DEF TypeOK
<1>11. metering \in [org : Org, meters : SUBSET Meter]
  BY <1>2, AgreementAssumption
<1> QED
  BY <1>5, <1>6, <1>7, <1>8, <1>10, <1>11 DEF IInv, WalkInv, Typed

LEMMA AlterStep == IInv /\ Alter => IInv'
<1>1. SUFFICES ASSUME IInv, Alter PROVE IInv'
  OBVIOUS
<1>2. /\ pc = "transit" /\ altered < MaxAlterations
      /\ settlement' \in Variants(settlement) /\ altered' = altered + 1
      /\ metering' = metering /\ sealed' = sealed /\ pc' = pc /\ i' = i
      /\ computed' = computed /\ pending' = pending /\ steps' = steps /\ status' = status
  BY <1>1 DEF Alter
<1>3. Typed /\ Origin /\ Control /\ TypeOK
  BY <1>1 DEF IInv, WalkInv, Typed
<1>4. settlement' \in Summary
  BY <1>2, <1>3, OneChange DEF Typed
<1>5. /\ i = 1 /\ computed = [gross |-> 0, net |-> 0, fee |-> 0] /\ steps = {}
      /\ status = "pending" /\ pending = {}
  BY <1>2, <1>3 DEF Control
<1>6. Len(Lines') \in Nat /\ DOMAIN settlement'.gross \subseteq Meter
      /\ \A k \in DOMAIN Lines' : PartOf(Lines'[k]) \in Part /\ Lines'[k].amount \in Int
  <2>1. Lines' = settlement'.lines
    BY DEF Lines
  <2> QED
    BY <1>4, <2>1, SummaryTyped
<1>7. altered' \in 0..MaxAlterations /\ altered \in Nat
  BY <1>2, <1>3, AgreementAssumption DEF TypeOK
<1>8. TypeOK'
  BY <1>2, <1>3, <1>5, <1>6, <1>7 DEF TypeOK
<1>9. Typed'
  BY <1>2, <1>3, <1>4, <1>8 DEF Typed
<1>10. Origin'
  <2>1. altered' = 1 => settlement' \in Variants(sealed)
    BY <1>2, <1>3, <1>7 DEF Origin
  <2>2. BorneOut(sealed) => BorneOut(sealed)'
    BY <1>2, SealedSame
  <2>3. Untied(sealed)' <=> Untied(sealed)
    BY <1>2 DEF Untied
  <2>4. RoundedAlike(sealed)' <=> RoundedAlike(sealed)
    BY <1>2 DEF RoundedAlike
  <2> QED
    BY <1>2, <1>3, <1>7, <2>1, <2>2, <2>3, <2>4 DEF Origin
<1>11. Control'
  BY <1>2, <1>5 DEF Control
<1> QED
  BY <1>9, <1>10, <1>11 DEF IInv, WalkInv

------------------------------------------------------------------------------
(* The steps of the audit.                                                  *)

LEMMA StepStatus ==
  ASSUME NEW field, NEW k, NEW reason
  PROVE  Ok(field, k).status = "VALID" /\ Fault(field, k, reason).status = "INVALID"
  BY DEF Ok, Fault, Step

(* The invariant after the org was looked at.                               *)
LEMMA WhileAudited ==
  ASSUME WalkInv, UNCHANGED Inputs, pc' \in {"lines", "shares", "done"},
         NEW n \in 0..Len(Lines), i' = n + 1, pc' # "lines" => n = Len(Lines),
         pending' \subseteq Settling(settlement), pc' # "shares" => pending' = {},
         computed' \in Totals, SummedTo(n, computed'),
         \A s \in steps' : s.status \in Statuses,
         AnyInvalid(steps') <=>
           \/ LinesWrong(n)
           \/ pc' \in {"shares", "done"} /\ SharesWrong(pending')
           \/ pc' = "done" /\ TotalsWrong(computed'),
         IF pc' = "done" THEN status' = Verdict(steps') ELSE status' = "pending"
  PROVE  WalkInv'
<1>1. /\ metering' = metering /\ sealed' = sealed /\ settlement' = settlement
      /\ altered' = altered /\ Lines' = Lines
  BY SameInputs
<1>2. Typed /\ TypeOK
  BY DEF WalkInv, Typed
<1>3. Len(Lines) \in Nat /\ i' - 1 = n /\ i' \in 1..(Len(Lines) + 1)
  <2>1. Len(Lines) \in Nat
    BY <1>2, LinesTyped DEF Typed
  <2> DEFINE len == Len(Lines)
  <2> HIDE DEF len
  <2>2. len \in Nat /\ n \in 0..len /\ i' = n + 1
    BY <2>1 DEF len
  <2>3. i' - 1 = n /\ i' \in 1..(len + 1)
    BY ONLY <2>2
  <2> QED
    BY <2>1, <2>3 DEF len
<1>4. TypeOK'
  <2>1. Settling(settlement)' = Settling(settlement)
    BY <1>1 DEF Settling
  <2>2. status' \in {"pending", "VALID", "INVALID"}
    BY DEF Verdict
  <2>3. computed' \in [gross : Int, net : Int, fee : Int]
    BY DEF Totals
  <2>4. pc' \in {"transit", "lines", "shares", "done"}
    OBVIOUS
  <2> QED
    BY <1>1, <1>2, <1>3, <2>1, <2>2, <2>3, <2>4 DEF TypeOK
<1>5. Typed'
  BY <1>1, <1>2, <1>4 DEF Typed
<1>6. SummedTo(i - 1, computed)'
  <2>1. SummedTo(i' - 1, computed')
    BY <1>3
  <2>2. \A k : Right(settlement, k)' <=> Right(settlement, k)
    BY <1>1 DEF Right
  <2>3. \A l, roles : PaidFirst(l, roles)' = PaidFirst(l, roles)
    BY <1>1 DEF PaidFirst
  <2> QED
    BY <1>1, <2>1, <2>2, <2>3 DEF SummedTo
<1>7. Judged'
  <2>1. LinesWrong(i - 1)' <=> LinesWrong(n)
    <3>1. \A k : Right(settlement, k)' <=> Right(settlement, k)
      BY <1>1 DEF Right
    <3> QED
      BY <1>1, <1>3, <3>1 DEF LinesWrong
  <2>2. SharesWrong(pending)' <=> SharesWrong(pending')
    BY <1>1 DEF SharesWrong
  <2>3. TotalsWrong(computed)' <=> TotalsWrong(computed')
    BY <1>1 DEF TotalsWrong
  <2> QED
    BY <2>1, <2>2, <2>3 DEF Judged
<1>8. Control'
  BY <1>1, <1>3, <1>6, <1>7 DEF Control
<1> QED
  BY <1>5, <1>8 DEF WalkInv

LEMMA NothingPaid ==
  ASSUME NEW roles
  PROVE  PaidFirst(0, roles) = 0
<1> DEFINE f == [k \in {j \in 1..0 : Lines[j].role \in roles} |-> Lines[k].amount]
<1>1. DOMAIN f = {}
  OBVIOUS
<1> HIDE DEF f
<1>2. Total(f) = 0
  BY <1>1, TotalOfNone
<1> QED
  BY <1>2 DEF PaidFirst, f

(* The first step of the walk starts from the invariant.                    *)
LEMMA WalkBegins ==
  ASSUME metering \in [org : Org, meters : SUBSET Meter], sealed \in Summary,
         settlement \in Summary, altered \in 0..MaxAlterations,
         pc = "transit", i = 1, pending = {}, computed = [gross |-> 0, net |-> 0, fee |-> 0],
         steps = {}, status = "pending"
  PROVE  WalkInv
<1>1. /\ Len(Lines) \in Nat /\ DOMAIN settlement.gross \subseteq Meter
      /\ \A k \in DOMAIN Lines : PartOf(Lines[k]) \in Part /\ Lines[k].amount \in Int
  BY LinesTyped
<1>2. TypeOK
  BY <1>1 DEF TypeOK
<1>3. Control
  BY DEF Control
<1> QED
  BY <1>2, <1>3 DEF WalkInv, Typed

LEMMA CheckOrgStep == WalkInv /\ CheckOrg => WalkInv'
<1>1. SUFFICES ASSUME WalkInv, CheckOrg PROVE WalkInv'
  OBVIOUS
<1>2. /\ pc = "transit" /\ pc' = "lines" /\ UNCHANGED Inputs
      /\ i' = i /\ computed' = computed /\ pending' = pending /\ status' = status
      /\ steps' = {IF settlement.org = metering.org THEN Ok("orgId", 0)
                   ELSE Fault("orgId", 0, "SETTLEMENT_ORG_MISMATCH")}
  BY <1>1 DEF CheckOrg, Inputs
<1>3. /\ i = 1 /\ computed = [gross |-> 0, net |-> 0, fee |-> 0] /\ pending = {}
      /\ status = "pending" /\ Len(Lines) \in Nat
  BY <1>1, <1>2, LinesTyped DEF WalkInv, Control, Typed
<1>4. computed' \in Totals /\ SummedTo(0, computed')
  BY <1>2, <1>3, NothingPaid DEF SummedTo, Totals
<1>5. LinesWrong(0) <=> settlement.org # metering.org
  BY DEF LinesWrong
<1>6. /\ \A s \in steps' : s.status \in Statuses
      /\ AnyInvalid(steps') <=> LinesWrong(0)
  BY <1>2, <1>5, StepStatus DEF AnyInvalid, Statuses
<1>7. 0 \in 0..Len(Lines) /\ i' = 0 + 1
  BY <1>2, <1>3
<1> QED
  BY <1>1, <1>2, <1>3, <1>4, <1>6, <1>7, WhileAudited

(* A line adds its amount to the totals of its role.                        *)
LEMMA PaidMore ==
  ASSUME settlement \in Summary, NEW n \in 1..Len(Lines), NEW roles
  PROVE  /\ PaidFirst(n - 1, roles) \in Int
         /\ PaidFirst(n, roles) =
              PaidFirst(n - 1, roles) + (IF Lines[n].role \in roles THEN Lines[n].amount ELSE 0)
<1> DEFINE S(l) == {j \in 1..l : Lines[j].role \in roles}
           f == [k \in S(n) |-> Lines[k].amount]
           g == [k \in S(n - 1) |-> Lines[k].amount]
<1>1. Len(Lines) \in Nat /\ DOMAIN Lines = 1..Len(Lines) /\ Lines[n].amount \in Int
  BY LinesTyped
<1>2. S(n) \in SUBSET DOMAIN settlement.lines /\ S(n - 1) \in SUBSET DOMAIN settlement.lines
  BY <1>1 DEF Lines
<1>3. Summable(f) /\ Summable(g)
  BY <1>2, AmountsSummable DEF Lines
<1>4. /\ S(n) = S(n - 1) \cup (IF Lines[n].role \in roles THEN {n} ELSE {})
      /\ n \notin S(n - 1)
  <2>1. \A k : k \in 1..n <=> k \in 1..(n - 1) \/ k = n
    BY <1>1
  <2> QED
    BY <1>1, <2>1
<1>5. Total(g) \in Int
  <2> HIDE DEF g
  <2> QED
    BY <1>3, TotalIsInt
<1>6. PaidFirst(n, roles) = Total(f) /\ PaidFirst(n - 1, roles) = Total(g)
  BY DEF PaidFirst
<1>7. CASE Lines[n].role \in roles
  <2>1. /\ Summable(f) /\ n \in DOMAIN f /\ DOMAIN g = DOMAIN f \ {n}
        /\ \A k \in DOMAIN g : g[k] = f[k]
    BY <1>3, <1>4, <1>7
  <2>2. f[n] = Lines[n].amount
    BY <1>4, <1>7
  <2> HIDE DEF f, g
  <2>3. Total(f) = f[n] + Total(g)
    BY ONLY <2>1, TotalWithout
  <2> QED
    BY <1>1, <1>5, <1>6, <1>7, <2>2, <2>3
<1>8. CASE Lines[n].role \notin roles
  <2>1. S(n) = S(n - 1)
    BY <1>4, <1>8
  <2>2. f = g
    BY <2>1
  <2> HIDE DEF f, g
  <2> QED
    BY <1>5, <1>6, <1>8, <2>2
<1> QED
  BY <1>7, <1>8

LEMMA AtLineFacts ==
  ASSUME WalkInv, pc = "lines", i <= Len(Lines)
  PROVE  /\ settlement \in Summary /\ Len(Lines) \in Nat /\ i \in 1..Len(Lines)
         /\ computed \in Totals /\ SummedTo(i - 1, computed) /\ Judged
         /\ pending = {} /\ status = "pending" /\ \A s \in steps : s.status \in Statuses
         /\ current = settlement.lines[i] /\ current.amount \in Int
<1>1. /\ settlement \in Summary /\ TypeOK /\ SummedTo(i - 1, computed) /\ Judged
      /\ pending = {} /\ status = "pending"
  BY DEF WalkInv, Typed, Control
<1>2. Len(Lines) \in Nat /\ i \in 1..Len(Lines)
  BY <1>1, LinesTyped DEF TypeOK
<1>3. current = settlement.lines[i] /\ current.amount \in Int
  BY <1>1, <1>2, LinesTyped DEF current, Lines
<1> QED
  BY <1>1, <1>2, <1>3 DEF TypeOK, Totals

(* A line is judged by itself.                                              *)
LEMMA JudgeStep ==
  ASSUME WalkInv, NEW judged, Judge(judged), \A s \in judged : s.status \in Statuses,
         AnyInvalid(judged) <=> ~Right(settlement, i), computed' \in Totals,
         Right(settlement, i) =>
           computed' = [gross |-> computed.gross + current.amount,
                        net |-> Plus(computed.net, {"TENANT"}),
                        fee |-> Plus(computed.fee, {"PLATFORM"})]
  PROVE  WalkInv'
<1>1. /\ pc = "lines" /\ i <= Len(Lines) /\ steps' = steps \cup judged /\ i' = i + 1
      /\ UNCHANGED Inputs /\ pc' = pc /\ pending' = pending /\ status' = status
  BY DEF Judge, Inputs
<1>2. /\ settlement \in Summary /\ Len(Lines) \in Nat /\ i \in 1..Len(Lines)
      /\ computed \in Totals /\ SummedTo(i - 1, computed) /\ Judged
      /\ pending = {} /\ status = "pending" /\ \A s \in steps : s.status \in Statuses
      /\ current = settlement.lines[i] /\ current.amount \in Int
  BY <1>1, AtLineFacts
<1>3. \A k : k \in 1..i <=> k \in 1..(i - 1) \/ k = i
  BY <1>2
<1>4. LinesWrong(i) <=> LinesWrong(i - 1) \/ ~Right(settlement, i)
  BY <1>3 DEF LinesWrong
<1>5. AnyInvalid(steps') <=> LinesWrong(i)
  <2>1. AnyInvalid(steps') <=> AnyInvalid(steps) \/ AnyInvalid(judged)
    BY <1>1 DEF AnyInvalid
  <2>2. AnyInvalid(steps) <=> LinesWrong(i - 1)
    BY <1>1, <1>2 DEF Judged
  <2> QED
    BY <1>4, <2>1, <2>2
<1>6. SummedTo(i, computed')
  <2>1. SUFFICES ASSUME \A k \in 1..i : Right(settlement, k)
                 PROVE  computed' = [gross |-> PaidFirst(i, PartyRole),
                                     net |-> PaidFirst(i, {"TENANT"}),
                                     fee |-> PaidFirst(i, {"PLATFORM"})]
    BY DEF SummedTo
  <2>2. /\ computed.gross = PaidFirst(i - 1, PartyRole)
        /\ computed.net = PaidFirst(i - 1, {"TENANT"})
        /\ computed.fee = PaidFirst(i - 1, {"PLATFORM"})
    BY <1>2, <1>3, <2>1 DEF SummedTo
  <2>3. \A roles : /\ PaidFirst(i - 1, roles) \in Int
                   /\ PaidFirst(i, roles) = PaidFirst(i - 1, roles)
                        + (IF current.role \in roles THEN current.amount ELSE 0)
    BY <1>2, PaidMore DEF Lines
  <2>4. computed' = [gross |-> computed.gross + current.amount,
                     net |-> Plus(computed.net, {"TENANT"}),
                     fee |-> Plus(computed.fee, {"PLATFORM"})]
    BY <1>3, <2>1
  <2>5. current.role \in PartyRole
    BY <1>2, SummaryFields, LineFields DEF Lines
  <2>6. /\ PaidFirst(i, PartyRole) = computed.gross + current.amount
        /\ PaidFirst(i, {"TENANT"}) = Plus(computed.net, {"TENANT"})
        /\ PaidFirst(i, {"PLATFORM"}) = Plus(computed.fee, {"PLATFORM"})
    BY <2>2, <2>3, <2>5 DEF Plus
  <2> QED
    BY <2>4, <2>6
<1>7. \A s \in steps' : s.status \in Statuses
  BY <1>1, <1>2
<1>8. i \in 0..Len(Lines)
  BY <1>2
<1> QED
  BY <1>1, <1>2, <1>5, <1>6, <1>7, <1>8, WhileAudited

(* A line that is wrong is accused, and counts for nothing.                 *)
LEMMA AccusedStep ==
  ASSUME WalkInv, NEW judged, Judge(judged), \A s \in judged : s.status \in Statuses,
         AnyInvalid(judged), ~Right(settlement, i), computed' = computed
  PROVE  WalkInv'
<1>1. computed \in Totals
  BY DEF WalkInv, Typed, TypeOK, Totals
<1> QED
  BY <1>1, JudgeStep

LEMMA IdemStepIs ==
  /\ IdemStep.status \in Statuses
  /\ IdemStep.status = "INVALID" <=> current.idem # IdemKey(settlement.schema, PartOf(current))
  BY StepStatus DEF IdemStep, Statuses

LEMMA UnknownMeterStep == WalkInv /\ LineForUnknownMeter => WalkInv'
<1>1. SUFFICES ASSUME WalkInv, LineForUnknownMeter PROVE WalkInv'
  OBVIOUS
<1> DEFINE judged == {Fault("meterRecordIdemKey", i, "SETTLEMENT_LINE_FOR_UNKNOWN_METER")}
<1>2. Judge(judged) /\ computed' = computed /\ current.meter \notin metering.meters
  BY <1>1 DEF LineForUnknownMeter
<1>3. ~Right(settlement, i)
  BY <1>2 DEF Right, current, Lines
<1>4. AnyInvalid(judged) /\ \A s \in judged : s.status \in Statuses
  BY StepStatus DEF AnyInvalid, Statuses
<1> QED
  BY <1>1, <1>2, <1>3, <1>4, AccusedStep

LEMMA WithoutGrossStep == WalkInv /\ LineWithoutGross => WalkInv'
<1>1. SUFFICES ASSUME WalkInv, LineWithoutGross PROVE WalkInv'
  OBVIOUS
<1> DEFINE judged == {IdemStep, Fault("meterGross", i, "SETTLEMENT_LINE_FOR_UNKNOWN_METER")}
<1>2. Judge(judged) /\ computed' = computed /\ current.meter \notin DOMAIN settlement.gross
  BY <1>1 DEF LineWithoutGross
<1>3. ~Right(settlement, i)
  BY <1>2 DEF Right, current, Lines
<1>4. AnyInvalid(judged) /\ \A s \in judged : s.status \in Statuses
  BY StepStatus, IdemStepIs DEF AnyInvalid, Statuses
<1> QED
  BY <1>1, <1>2, <1>3, <1>4, AccusedStep

LEMMA BadShareStep == WalkInv /\ LineWithBadShare => WalkInv'
<1>1. SUFFICES ASSUME WalkInv, LineWithBadShare PROVE WalkInv'
  OBVIOUS
<1> DEFINE judged == {IdemStep, Fault("share", i, "SETTLEMENT_AMOUNT_MISMATCH")}
<1>2. Judge(judged) /\ computed' = computed /\ current.share = BadDecimal
  BY <1>1 DEF LineWithBadShare
<1>3. ~Right(settlement, i)
  BY <1>2 DEF Right, current, Lines
<1>4. AnyInvalid(judged) /\ \A s \in judged : s.status \in Statuses
  BY StepStatus, IdemStepIs DEF AnyInvalid, Statuses
<1> QED
  BY <1>1, <1>2, <1>3, <1>4, AccusedStep

LEMMA WrongAmountStep == WalkInv /\ LineWithWrongAmount => WalkInv'
<1>1. SUFFICES ASSUME WalkInv, LineWithWrongAmount PROVE WalkInv'
  OBVIOUS
<1> DEFINE judged == {IdemStep, Fault("amountCents", i, "SETTLEMENT_AMOUNT_MISMATCH")}
<1>2. Judge(judged) /\ computed' = computed /\ ~AmountRight
  BY <1>1 DEF LineWithWrongAmount
<1>3. ~Right(settlement, i)
  BY <1>2 DEF Right, AmountRight, current, Lines
<1>4. AnyInvalid(judged) /\ \A s \in judged : s.status \in Statuses
  BY StepStatus, IdemStepIs DEF AnyInvalid, Statuses
<1> QED
  BY <1>1, <1>2, <1>3, <1>4, AccusedStep

LEMMA RightAmountStep == WalkInv /\ LineRight => WalkInv'
<1>1. SUFFICES ASSUME WalkInv, LineRight PROVE WalkInv'
  OBVIOUS
<1> DEFINE judged == {IdemStep, Ok("amountCents", i)}
<1>2. /\ Judge(judged) /\ Settled /\ current.share # BadDecimal /\ AmountRight
      /\ computed' = [gross |-> computed.gross + current.amount,
                      net |-> Plus(computed.net, {"TENANT"}),
                      fee |-> Plus(computed.fee, {"PLATFORM"})]
  BY <1>1 DEF LineRight
<1>3. Right(settlement, i) <=> current.idem = IdemKey(settlement.schema, PartOf(current))
  BY <1>2 DEF Right, Settled, AmountRight, current, Lines
<1>4. /\ AnyInvalid(judged) <=> ~Right(settlement, i)
      /\ \A s \in judged : s.status \in Statuses
  BY <1>3, StepStatus, IdemStepIs DEF AnyInvalid, Statuses
<1>5. computed' \in Totals
  <2>1. computed \in Totals /\ current.amount \in Int
    BY <1>1, <1>2, AtLineFacts DEF Judge
  <2> QED
    BY <1>2, <2>1 DEF Totals, Plus
<1> QED
  BY <1>1, <1>2, <1>4, <1>5, JudgeStep


(* The meters settled are those whose shares are to be summed.              *)
LEMMA StartSharesStep == WalkInv /\ StartShares => WalkInv'
<1>1. SUFFICES ASSUME WalkInv, StartShares PROVE WalkInv'
  OBVIOUS
<1>2. /\ pc = "lines" /\ i > Len(Lines) /\ pc' = "shares" /\ UNCHANGED Inputs /\ i' = i
      /\ computed' = computed /\ steps' = steps /\ status' = status
      /\ pending' = Settling(settlement)
  BY <1>1 DEF StartShares, Inputs, Settling, Lines
<1>3. /\ settlement \in Summary /\ TypeOK /\ SummedTo(i - 1, computed) /\ Judged
      /\ status = "pending" /\ Len(Lines) \in Nat
  BY <1>1, <1>2, LinesTyped DEF WalkInv, Typed, Control
<1>4. i = Len(Lines) + 1 /\ i - 1 = Len(Lines)
  <2>1. i \in 1..(Len(Lines) + 1)
    BY <1>3 DEF TypeOK
  <2> QED
    BY <1>2, <1>3, <2>1
<1>5. AnyInvalid(steps') <=> LinesWrong(Len(Lines)) \/ SharesWrong(pending')
  BY <1>2, <1>3, <1>4 DEF Judged, SharesWrong
<1>6. /\ computed' \in Totals /\ SummedTo(Len(Lines), computed')
      /\ \A s \in steps' : s.status \in Statuses
  BY <1>2, <1>3, <1>4 DEF TypeOK, Totals
<1>7. Len(Lines) \in 0..Len(Lines) /\ i' = Len(Lines) + 1
  BY <1>2, <1>3, <1>4
<1> QED
  BY <1>1, <1>2, <1>3, <1>5, <1>6, <1>7, WhileAudited

LEMMA AtSharesFacts ==
  ASSUME WalkInv, pc = "shares"
  PROVE  /\ settlement \in Summary /\ Len(Lines) \in 0..Len(Lines) /\ i = Len(Lines) + 1
         /\ computed \in Totals /\ SummedTo(Len(Lines), computed)
         /\ AnyInvalid(steps) <=> LinesWrong(Len(Lines)) \/ SharesWrong(pending)
         /\ pending \subseteq Settling(settlement) /\ status = "pending"
         /\ \A s \in steps : s.status \in Statuses
<1>1. /\ settlement \in Summary /\ TypeOK /\ SummedTo(i - 1, computed) /\ Judged
      /\ i = Len(Lines) + 1 /\ status = "pending"
  BY DEF WalkInv, Typed, Control
<1>2. Len(Lines) \in Nat
  BY <1>1, LinesTyped
<1>3. i - 1 = Len(Lines) /\ Len(Lines) \in 0..Len(Lines)
  BY <1>1, <1>2
<1>4. AnyInvalid(steps) <=> LinesWrong(Len(Lines)) \/ SharesWrong(pending)
  BY <1>1, <1>3 DEF Judged
<1>5. SummedTo(Len(Lines), computed)
  BY <1>1, <1>3
<1> QED
  BY <1>1, <1>3, <1>4, <1>5 DEF TypeOK, Totals

(* Whatever the order of the meters, each is judged by its own shares.      *)
LEMMA SumSharesStep ==
  ASSUME WalkInv, NEW m \in Meter, SumShares(m)
  PROVE  WalkInv'
<1> DEFINE judged == {IF Whole(Total(SharesOf(settlement, m))) THEN Ok("shares", m)
                      ELSE Fault("shares", m, "SETTLEMENT_SHARE_SUM_NOT_ONE")}
<1>1. /\ pc = "shares" /\ m \in pending /\ pending' = pending \ {m} /\ pc' = pc
      /\ steps' = steps \cup judged /\ UNCHANGED Inputs /\ i' = i /\ computed' = computed
      /\ status' = status
  BY DEF SumShares, Inputs
<1>2. /\ settlement \in Summary /\ Len(Lines) \in 0..Len(Lines) /\ i = Len(Lines) + 1
      /\ computed \in Totals /\ SummedTo(Len(Lines), computed)
      /\ AnyInvalid(steps) <=> LinesWrong(Len(Lines)) \/ SharesWrong(pending)
      /\ pending \subseteq Settling(settlement) /\ status = "pending"
      /\ \A s \in steps : s.status \in Statuses
  BY <1>1, AtSharesFacts
<1>3. /\ AnyInvalid(judged) <=> ~Shared(settlement, m)
      /\ \A s \in judged : s.status \in Statuses
  BY StepStatus DEF AnyInvalid, Statuses, Shared
<1> HIDE DEF judged
<1>4. SharesWrong(pending') <=> SharesWrong(pending) \/ ~Shared(settlement, m)
  BY <1>1, <1>2 DEF SharesWrong
<1>5. AnyInvalid(steps') <=> AnyInvalid(steps) \/ AnyInvalid(judged)
  BY <1>1 DEF AnyInvalid
<1>6. \A s \in steps' : s.status \in Statuses
  BY <1>1, <1>2, <1>3
<1>7. AnyInvalid(steps') <=> LinesWrong(Len(Lines)) \/ SharesWrong(pending')
  BY <1>2, <1>3, <1>4, <1>5
<1>8. pending' \subseteq Settling(settlement)
  BY <1>1, <1>2
<1> QED
  BY <1>1, <1>2, <1>6, <1>7, <1>8, WhileAudited

(* The claimed totals are accused as soon as one of them is off.            *)
LEMMA CheckTotalsStep == WalkInv /\ CheckTotals => WalkInv'
<1>1. SUFFICES ASSUME WalkInv, CheckTotals PROVE WalkInv'
  OBVIOUS
<1> DEFINE compared(label) == IF settlement.totals[label] = computed[label] THEN Ok(label, 0)
                              ELSE Fault(label, 0, "SETTLEMENT_TOTAL_MISMATCH")
           judged == IF settlement.totals = NoTotals THEN {}
                     ELSE {compared(label) : label \in CheckedTotals}
<1>2. /\ pc = "shares" /\ pending = {} /\ pending' = pending /\ pc' = "done"
      /\ steps' = steps \cup judged /\ UNCHANGED Inputs /\ i' = i /\ computed' = computed
      /\ status' = Verdict(steps')
  BY <1>1 DEF CheckTotals, Inputs
<1>3. /\ settlement \in Summary /\ Len(Lines) \in 0..Len(Lines) /\ i = Len(Lines) + 1
      /\ computed \in Totals /\ SummedTo(Len(Lines), computed)
      /\ AnyInvalid(steps) <=> LinesWrong(Len(Lines)) \/ SharesWrong(pending)
      /\ pending \subseteq Settling(settlement)
      /\ \A s \in steps : s.status \in Statuses
  BY <1>1, <1>2, AtSharesFacts
<1>4. /\ AnyInvalid(judged) <=> TotalsWrong(computed)
      /\ \A s \in judged : s.status \in Statuses
  <2>1. CASE settlement.totals = NoTotals
    BY <2>1 DEF TotalsWrong, AnyInvalid
  <2>2. CASE settlement.totals # NoTotals
    <3>1. settlement.totals \in Totals
      BY <1>3, <2>2, SummaryFields
    <3>2. settlement.totals = computed <=>
            \A label \in CheckedTotals : settlement.totals[label] = computed[label]
      BY <1>3, <3>1 DEF Totals, CheckedTotals
    <3>3. \A label \in CheckedTotals :
            /\ compared(label).status \in Statuses
            /\ compared(label).status = "INVALID" <=> settlement.totals[label] # computed[label]
      BY StepStatus DEF Statuses
    <3> HIDE DEF compared
    <3>4. judged = {compared(label) : label \in CheckedTotals}
      BY <2>2
    <3> HIDE DEF judged
    <3> QED
      BY <2>2, <3>2, <3>3, <3>4 DEF TotalsWrong, AnyInvalid
  <2> QED
    BY <2>1, <2>2
<1> HIDE DEF judged
<1>5. AnyInvalid(steps') <=>
        LinesWrong(Len(Lines)) \/ SharesWrong(pending') \/ TotalsWrong(computed')
  <2>1. AnyInvalid(steps') <=> AnyInvalid(steps) \/ AnyInvalid(judged)
    BY <1>2 DEF AnyInvalid
  <2> QED
    BY <1>2, <1>3, <1>4, <2>1
<1>6. \A s \in steps' : s.status \in Statuses
  BY <1>2, <1>3, <1>4
<1> QED
  BY <1>1, <1>2, <1>3, <1>5, <1>6, WhileAudited

(* A step of the verifier, whatever it audits.                              *)
LEMMA WalkStep == WalkInv /\ Walk => WalkInv'
  BY CheckOrgStep, UnknownMeterStep, WithoutGrossStep, BadShareStep, WrongAmountStep,
     RightAmountStep, StartSharesStep, SumSharesStep, CheckTotalsStep DEF Walk

LEMMA WalkReads == Walk => UNCHANGED Inputs
  BY DEF Walk, CheckOrg, LineForUnknownMeter, LineWithoutGross, LineWithBadShare,
         LineWithWrongAmount, LineRight, StartShares, SumShares, CheckTotals, Judge, Inputs

LEMMA WalkStutter == WalkInv /\ UNCHANGED vars => WalkInv'
<1>1. SUFFICES ASSUME WalkInv, UNCHANGED vars PROVE WalkInv'
  OBVIOUS
<1>2. /\ UNCHANGED Inputs /\ metering' = metering /\ sealed' = sealed
      /\ settlement' = settlement /\ altered' = altered /\ pc' = pc /\ i' = i
      /\ computed' = computed /\ pending' = pending /\ steps' = steps /\ status' = status
  BY <1>1 DEF vars, Inputs
<1>3. Typed /\ Control /\ TypeOK
  BY <1>1 DEF WalkInv, Typed
<1>4. Lines' = Lines
  BY <1>2 DEF Lines
<1>5. Typed'
  <2>1. Settling(settlement)' = Settling(settlement)
    BY <1>2 DEF Settling
  <2>2. TypeOK'
    BY <1>2, <1>3, <1>4, <2>1 DEF TypeOK
  <2> QED
    BY <1>2, <1>3, <2>2 DEF Typed
<1>6. Control'
  <2>1. SummedTo(i - 1, computed)' <=> SummedTo(i - 1, computed)
    <3>1. \A k : Right(settlement, k)' <=> Right(settlement, k)
      BY <1>2 DEF Right
    <3>2. \A n, roles : PaidFirst(n, roles)' = PaidFirst(n, roles)
      BY <1>2, <1>4 DEF PaidFirst
    <3> QED
      BY <1>2, <3>1, <3>2 DEF SummedTo
  <2>2. LinesWrong(i - 1)' <=> LinesWrong(i - 1)
    <3>1. \A k : Right(settlement, k)' <=> Right(settlement, k)
      BY <1>2 DEF Right
    <3> QED
      BY <1>2, <3>1 DEF LinesWrong
  <2>3. /\ SharesWrong(pending)' <=> SharesWrong(pending)
        /\ TotalsWrong(computed)' <=> TotalsWrong(computed)
    BY <1>2 DEF SharesWrong, TotalsWrong, Settling, Shared, SharesOf, LinesOf
  <2>4. Judged' <=> Judged
    BY <1>2, <2>2, <2>3 DEF Judged
  <2> QED
    BY <1>2, <1>3, <1>4, <2>1, <2>4 DEF Control
<1> QED
  BY <1>5, <1>6 DEF WalkInv

LEMMA StutterStep == IInv /\ UNCHANGED vars => IInv'
  BY WalkStutter, SameInputs DEF IInv, vars, Inputs

(* The inductive invariant holds, whatever the platform settles.            *)
THEOREM SettlementInductive == Spec => []IInv
<1>1. Init => IInv
  BY InitIInv
<1>2. IInv /\ [Next]_vars => IInv'
  <2>1. IInv /\ Alter => IInv'
    BY AlterStep
  <2>2. IInv /\ Walk => IInv'
    BY WalkStep, WalkReads, SameInputs DEF IInv
  <2>3. IInv /\ (Returned \/ UNCHANGED vars) => IInv'
    BY StutterStep DEF Returned
  <2> QED
    BY <2>1, <2>2, <2>3 DEF Next
<1> QED
  BY <1>1, <1>2, PTL DEF Spec

(* Every variable stays in its domain.                                      *)
THEOREM SettlementTypeCorrect == Spec => []TypeOK
<1>1. IInv => TypeOK
  BY DEF IInv, WalkInv, Typed
<1> QED
  BY <1>1, SettlementInductive, PTL

------------------------------------------------------------------------------
(* What the verdict says.                                                   *)

(* The walk has looked at everything the verdict is about, and at nothing   *)
(* else.                                                                    *)
LEMMA VerdictIs ==
  ASSUME WalkInv, status # "pending"
  PROVE  status = IF BorneOut(settlement) THEN "VALID" ELSE "INVALID"
<1>1. /\ pc = "done" /\ i = Len(Lines) + 1 /\ pending = {} /\ status = Verdict(steps)
      /\ SummedTo(i - 1, computed) /\ Judged /\ settlement \in Summary
  BY DEF WalkInv, Control, Typed
<1>2. /\ Len(Lines) \in Nat /\ i - 1 = Len(Lines)
      /\ DOMAIN settlement.lines = 1..Len(Lines)
  <2>1. Len(Lines) \in Nat /\ DOMAIN Lines = 1..Len(Lines)
    BY <1>1, LinesTyped
  <2> QED
    BY <1>1, <2>1 DEF Lines
<1>3. AnyInvalid(steps) <=>
        LinesWrong(Len(Lines)) \/ SharesWrong({}) \/ TotalsWrong(computed)
  BY <1>1, <1>2 DEF Judged
<1>4. LinesWrong(Len(Lines)) <=>
        ~(settlement.org = metering.org /\ \A k \in DOMAIN settlement.lines : Right(settlement, k))
  BY <1>2 DEF LinesWrong
<1>5. SharesWrong({}) <=> ~(\A m \in Settling(settlement) : Shared(settlement, m))
  BY DEF SharesWrong
<1>6. (\A k \in DOMAIN settlement.lines : Right(settlement, k)) => computed = TotalsOf(settlement)
  <2>1. \A roles : PaidFirst(Len(Lines), roles) = PaidTo(settlement, roles)
    BY <1>2 DEF PaidFirst, PaidTo, Lines
  <2> QED
    BY <1>1, <1>2, <2>1 DEF SummedTo, TotalsOf
<1>7. AnyInvalid(steps) <=> ~BorneOut(settlement)
  BY <1>3, <1>4, <1>5, <1>6 DEF TotalsWrong, BorneOut
<1> QED
  BY <1>1, <1>7 DEF Verdict

(* The verdict is exact: VALID is said of the summaries that are right in   *)
(* every line, every meter's shares and the totals, and of no other, in     *)
(* whatever order the meters come out of the map.                           *)
THEOREM VerdictIsExact ==
  Spec => [](status # "pending" => (status = "VALID" <=> BorneOut(settlement)))
<1>1. IInv => (status # "pending" => (status = "VALID" <=> BorneOut(settlement)))
  BY VerdictIs DEF IInv
<1> QED
  BY <1>1, SettlementInductive, PTL

(* A VALID settlement accounts for every cent of every gross.               *)
THEOREM EveryCentIsPaid == Spec => []EveryCentAccounted
<1>1. IInv => EveryCentAccounted
  <2>1. SUFFICES ASSUME IInv, status = "VALID" PROVE Accounted
    BY DEF EveryCentAccounted
  <2>2. settlement \in Summary /\ BorneOut(settlement)
    BY <2>1, VerdictIs DEF IInv, WalkInv, Typed
  <2> QED
    BY <2>2, BorneOutAccounts
<1> QED
  BY <1>1, SettlementInductive, PTL

(* The platform's own settlement is never refused, under either version and *)
(* in whatever order it lists the lines, unless two lines tie or a refund   *)
(* is shared out with a fraction of a cent, where the platform's flooring   *)
(* and the audit's division part.                                           *)
THEOREM HonestSettlementsPass == Spec => []HonestSettlementAccepted
<1>1. IInv => HonestSettlementAccepted
  <2>1. SUFFICES ASSUME IInv, altered = 0, Untied(sealed), RoundedAlike(sealed)
                 PROVE  status # "INVALID"
    BY DEF HonestSettlementAccepted
  <2>2. BorneOut(settlement)
    BY <2>1 DEF IInv, Origin
  <2> QED
    BY <2>1, <2>2, VerdictIs DEF IInv
<1> QED
  BY <1>1, SettlementInductive, PTL

(* An agreement can be settled in one way only: whatever was changed, and   *)
(* however it balances out, a VALID settlement pays what was agreed.        *)
THEOREM PayIsUnique == Spec => []SameAgreementSamePay
<1>1. IInv => SameAgreementSamePay
  <2>1. SUFFICES ASSUME IInv, status = "VALID", Untied(sealed), RoundedAlike(sealed),
                        Len(Lines) = Len(sealed.lines), Agreed(settlement) = Agreed(sealed),
                        \A m \in Settling(sealed) : settlement.gross[m] = sealed.gross[m],
                        NEW j \in DOMAIN Lines, NEW k \in DOMAIN Lines,
                        PartOf(Lines[j]) = PartOf(sealed.lines[k])
                 PROVE  Lines[j].amount = sealed.lines[k].amount
    BY DEF SameAgreementSamePay
  <2>2. /\ settlement \in Summary /\ sealed \in Summary
        /\ BorneOut(settlement) /\ BorneOut(sealed)
    BY <2>1, VerdictIs DEF IInv, WalkInv, Typed, Origin
  <2>3. DOMAIN Lines = DOMAIN sealed.lines
    <3>1. Lines \in Seq(Line) /\ sealed.lines \in Seq(Line)
      BY <2>2, SummaryFields DEF Lines
    <3> QED
      BY <2>1, <3>1
  <2>4. /\ Len(settlement.lines) = Len(sealed.lines)
        /\ j \in DOMAIN settlement.lines /\ k \in DOMAIN sealed.lines
        /\ PartOf(settlement.lines[j]) = PartOf(sealed.lines[k])
    BY <2>1, <2>3 DEF Lines
  <2> QED
    BY <2>1, <2>2, <2>4, SamePay DEF Lines
<1> QED
  BY <1>1, SettlementInductive, PTL

(* No single change of an honest settlement that gets through moves money.  *)
THEOREM OneChangePaysTheSame == Spec => []SingleChangeDetected
<1>1. IInv => SingleChangeDetected
  <2>1. SUFFICES ASSUME IInv, altered = 1, status = "VALID", Untied(sealed),
                        RoundedAlike(sealed)
                 PROVE  /\ Payments(settlement) = Payments(sealed)
                        /\ settlement.totals \in {NoTotals, sealed.totals}
    BY DEF SingleChangeDetected
  <2>2. /\ sealed \in Summary /\ settlement \in Variants(sealed) /\ sealed.totals # NoTotals
        /\ BorneOut(sealed) /\ BorneOut(settlement)
    BY <2>1, VerdictIs DEF IInv, WalkInv, Typed, Origin
  <2> QED
    BY <2>2, OneChangeKept
<1> QED
  BY <1>1, SettlementInductive, PTL
==============================================================================
