--------------------------- MODULE CentSplitProofs ---------------------------
(* What the loops of deterministic_split_cents do for any number of lines,  *)
(* any shares and amounts of any width.                                    *)
EXTENDS CentSplit, CentMathProofs

\* Line t keeps the remainder against all of the first n lines.
Leads(t, n) == \A j \in (1..n) \ {t} : Keeps(shares, roles, t, j)

\* The slices as they are cut.
Cut == [j \in 1..Count |-> Wrap(Slice(gross, shares[j]))]

Domains ==
  /\ gross \in Cents /\ sum \in Cents
  /\ shares \in Seq(Int) /\ roles \in Seq(Nat) /\ Len(roles) = Len(shares)
  /\ checks \in BOOLEAN
  /\ point \in {"slice", "sum", "seek", "done", "panicked"}
  /\ k \in 1..(Count + 2) /\ target \in 1..(Count + 1)
  /\ point \in {"sum", "seek", "done"} => floors \in [1..Count -> Cents]

\* The search has compared the lines behind it, and the slices are as they
\* were cut until it has ended.
Searched ==
  /\ point \in {"slice", "sum"} => target = 1
  /\ point \in {"slice", "sum"} => k \in 1..(Count + 1)
  /\ point \in {"sum", "seek"} => floors = Cut
  /\ point = "seek" => /\ k \in 2..(Count + 1)
                    /\ target \in 1..(k - 1)
                    /\ Leads(target, k - 1)

(* No line but the one that ranks first is ever paid anything else than its *)
(* own slice: the remainder goes to that line whole.                       *)
OnlyResidualAbsorbs ==
  point = "done" =>
    \A j \in 1..Count : j # Residual(shares, roles) => floors[j] = Cut[j]

\* The inductive invariant of the search.
IInv == Domains /\ Searched /\ OnlyResidualAbsorbs

\* Equal but for wrapping.
Congruent(a, b) == \E q \in Int : a = b + (2 * Half) * q

\* The running sum is that of the first n slices: exactly where an overflow
\* panics, wrapped where it does not.
Tally(n) ==
  /\ Congruent(sum, Over(Cut, 1..n))
  /\ checks => sum = Over(Cut, 1..n)

\* What the line that takes the remainder is to be paid.
Due == Cut[Residual(shares, roles)] + gross - Total(Cut)

\* It is paid that.
Paid ==
  /\ Congruent(floors[Residual(shares, roles)], Due)
  /\ checks => floors[Residual(shares, roles)] = Due

\* The inductive invariant of the sums, beside that of the search.
Money ==
  /\ point = "slice" => sum = 0 /\ k = 1
  /\ point = "sum" => Tally(k - 1)
  /\ point = "seek" => Tally(Count) /\ (checks => gross - sum \in Cents)
  /\ point = "done" /\ Count > 0 => Paid
  /\ PartsNeverPanic

------------------------------------------------------------------------------
(* A residue modulo a positive width lies below it.                         *)
LEMMA ModRange ==
  ASSUME NEW a \in Int, NEW n \in Nat \ {0}
  PROVE  a % n \in 0..(n - 1)
  OBVIOUS

(* Whatever wraps ends up among the amounts.                                *)
LEMMA WrapFits ==
  ASSUME NEW n \in Int
  PROVE  Wrap(n) \in Cents
<1>1. Half \in Nat \ {0} /\ 2 * Half \in Nat \ {0} /\ n + Half \in Int
  BY SplitAssumption
<1>2. (n + Half) % (2 * Half) \in 0..(2 * Half - 1)
  BY <1>1, ModRange
<1> QED
  BY <1>1, <1>2 DEF Wrap, Cents

LEMMA CentsInt == Cents \subseteq Int
  BY SplitAssumption DEF Cents

LEMMA DomainsLines ==
  ASSUME Domains
  PROVE  Count \in Nat /\ Ranked(1..Count, shares, roles) /\ gross \in Int
<1>1. DOMAIN shares = 1..Count /\ DOMAIN roles = 1..Count /\ Count \in Nat
  BY DEF Domains, Count
<1>2. \A j \in 1..Count : shares[j] \in Int /\ roles[j] \in Int
  BY <1>1 DEF Domains
<1>3. shares = [j \in 1..Count |-> shares[j]] /\ roles = [j \in 1..Count |-> roles[j]]
  BY <1>1 DEF Domains
<1>4. IsFiniteSet(1..Count) /\ 1..Count \subseteq Int
  BY <1>1, FS_Interval
<1>5. shares \in [1..Count -> Int] /\ roles \in [1..Count -> Int]
  BY <1>2, <1>3
<1>6. gross \in Int
  BY CentsInt DEF Domains
<1> QED
  BY <1>1, <1>4, <1>5, <1>6 DEF Ranked

(* The ranking of the lines at hand.                                        *)
LEMMA LinesOrdered ==
  ASSUME Domains, NEW a \in 1..Count, NEW b \in 1..Count, NEW c \in 1..Count,
         Keeps(shares, roles, a, b), Keeps(shares, roles, b, c)
  PROVE  Keeps(shares, roles, a, c)
<1> DEFINE D == 1..Count
<1>1. Ranked(D, shares, roles) /\ a \in D /\ b \in D /\ c \in D
  BY DomainsLines
<1> HIDE DEF D
<1> QED
  BY <1>1, KeepsOrders

LEMMA LeadingResidual ==
  ASSUME Domains, NEW t \in 1..Count, Leads(t, Count)
  PROVE  t = Residual(shares, roles)
<1> DEFINE D == 1..Count
<1>1. Ranked(D, shares, roles) /\ Leader(D, shares, roles, t)
  BY DomainsLines DEF Leads, Leader
<1> HIDE DEF D
<1> QED
  BY <1>1, LeaderUnique

------------------------------------------------------------------------------
LEMMA InitIInv == SplitInit => IInv
<1>1. SUFFICES ASSUME SplitInit PROVE IInv
  OBVIOUS
<1>2. PICK in \in Inputs : gross = in.gross /\ shares = in.shares /\ roles = in.roles
  BY <1>1 DEF SplitInit
<1>3. gross \in Cents /\ shares \in Seq(Int) /\ roles \in Seq(Nat) /\ Len(roles) = Len(shares)
  BY <1>2, SplitAssumption
<1>4. Count \in Nat /\ 0 \in Cents
  BY <1>3, SplitAssumption DEF Count, Cents
<1> QED
  BY <1>1, <1>3, <1>4 DEF SplitInit, IInv, Domains, Searched, OnlyResidualAbsorbs

LEMMA CutStep ==
  ASSUME IInv, CutSlices
  PROVE  IInv'
<1>1. /\ point = "slice" /\ point' = "sum" /\ floors' = Cut
      /\ UNCHANGED <<gross, shares, roles, checks, k, sum, target>>
  BY DEF CutSlices, Cut
<1>2. ASSUME NEW j \in 1..Count PROVE Wrap(Slice(gross, shares[j])) \in Cents
  <2>1. gross \in Int /\ shares[j] \in Int
    BY <1>2, CentsInt DEF IInv, Domains, Count
  <2> QED
    BY <2>1, SliceBounds, WrapFits
<1>3. Cut \in [1..Count -> Cents]
  BY <1>2 DEF Cut
<1>4. Count' = Count /\ Cut' = Cut
  BY <1>1 DEF Count, Cut
<1>5. Domains'
  BY <1>1, <1>3, <1>4 DEF IInv, Domains, Count, Cents
<1>6. Searched' /\ OnlyResidualAbsorbs'
  BY <1>1, <1>4 DEF IInv, Searched, OnlyResidualAbsorbs
<1> QED
  BY <1>5, <1>6 DEF IInv

LEMMA AddStep ==
  ASSUME IInv, AddSlice
  PROVE  IInv'
<1>1. /\ point = "sum" /\ k <= Count /\ sum' = Wrap(sum + floors[k]) /\ k' = k + 1
      /\ UNCHANGED <<gross, shares, roles, checks, point, floors, target>>
  BY DEF AddSlice
<1>2. Count \in Nat /\ k \in 1..Count
  BY <1>1 DEF IInv, Domains, Count
<1>3. sum \in Int /\ floors[k] \in Int
  BY <1>1, <1>2, CentsInt DEF IInv, Domains
<1>4. sum' \in Cents
  BY <1>1, <1>3, WrapFits
<1>5. Count' = Count /\ Cut' = Cut /\ Cents' = Cents
  BY <1>1 DEF Count, Cut, Cents
<1>6. Domains'
  BY <1>1, <1>2, <1>4, <1>5 DEF IInv, Domains
<1>7. Searched' /\ OnlyResidualAbsorbs'
  BY <1>1, <1>2, <1>5 DEF IInv, Searched, OnlyResidualAbsorbs
<1> QED
  BY <1>6, <1>7 DEF IInv

(* The sum is complete: the slices are the answer, or the search begins     *)
(* with the first line in the lead.                                        *)
LEMMA SummedStep ==
  ASSUME IInv, NoRemainder \/ SeekTarget
  PROVE  IInv'
<1>1. /\ point = "sum"
      /\ UNCHANGED <<gross, shares, roles, checks, floors, sum, target>>
      /\ \/ point' = "done" /\ k' = k
         \/ point' = "seek" /\ k' = 2 /\ Count > 0
  BY DEF NoRemainder, SeekTarget
<1>2. Count \in Nat
  BY DEF IInv, Domains, Count
<1>3. Count' = Count /\ Cut' = Cut /\ Cents' = Cents
  BY <1>1 DEF Count, Cut, Cents
<1>4. Domains'
  BY <1>1, <1>2, <1>3 DEF IInv, Domains
<1>5. target = 1 /\ floors = Cut
  BY <1>1 DEF IInv, Searched
<1>6. Searched'
  BY <1>1, <1>2, <1>3, <1>5 DEF Searched, Leads
<1>7. OnlyResidualAbsorbs'
  BY <1>1, <1>3, <1>5 DEF OnlyResidualAbsorbs
<1> QED
  BY <1>4, <1>6, <1>7 DEF IInv

(* One comparison: the winner leads the lines compared so far.              *)
LEMMA CompareStep ==
  ASSUME IInv, Compare
  PROVE  IInv'
<1>1. /\ point = "seek" /\ k <= Count /\ k' = k + 1
      /\ target' = IF Outranks(shares, roles, k, target) THEN k ELSE target
      /\ UNCHANGED <<gross, shares, roles, checks, point, floors, sum>>
  BY DEF Compare
<1>2. /\ Count \in Nat /\ k \in 2..Count /\ target \in 1..(k - 1) /\ Leads(target, k - 1)
      /\ floors = Cut
  BY <1>1 DEF IInv, Domains, Searched, Count
<1>3. target' \in 1..k
  BY <1>1, <1>2
<1>4. Count' = Count /\ Cut' = Cut /\ Cents' = Cents
  BY <1>1 DEF Count, Cut, Cents
<1>5. Domains'
  BY <1>1, <1>2, <1>3, <1>4 DEF IInv, Domains
<1>6. Leads(target', k)
  <2>1. CASE Outranks(shares, roles, k, target)
    <3>1. SUFFICES ASSUME NEW j \in (1..k) \ {k} PROVE Keeps(shares, roles, k, j)
      BY <1>1, <2>1 DEF Leads
    <3>2. Keeps(shares, roles, k, target)
      BY <2>1 DEF Keeps
    <3>3. j = target \/ Keeps(shares, roles, target, j)
      BY <1>2 DEF Leads
    <3>4. j \in 1..Count /\ k \in 1..Count /\ target \in 1..Count
      BY <1>2
    <3> QED
      BY <3>2, <3>3, <3>4, LinesOrdered DEF IInv
  <2>2. CASE ~Outranks(shares, roles, k, target)
    <3>1. SUFFICES ASSUME NEW j \in (1..k) \ {target} PROVE Keeps(shares, roles, target, j)
      BY <1>1, <2>2 DEF Leads
    <3>2. CASE j = k
      BY <1>2, <2>2, <3>2 DEF Keeps
    <3>3. CASE j # k
      BY <1>2, <3>3 DEF Leads
    <3> QED
      BY <3>2, <3>3
  <2> QED
    BY <2>1, <2>2
<1>7. Leads(target, k)' <=> Leads(target', k')
  BY <1>1 DEF Leads, Keeps
<1>8. Searched'
  <2>1. (k - 1)' = k
    BY <1>1, <1>2
  <2>2. Leads(target, k - 1)'
    BY <1>1, <1>6, <2>1 DEF Leads, Keeps
  <2> QED
    BY <1>1, <1>2, <1>3, <1>4, <2>1, <2>2 DEF Searched
<1>9. OnlyResidualAbsorbs'
  BY <1>1 DEF OnlyResidualAbsorbs
<1> QED
  BY <1>5, <1>8, <1>9 DEF IInv

(* The leader of all lines absorbs the remainder.                           *)
LEMMA AbsorbStep ==
  ASSUME IInv, Absorb
  PROVE  IInv'
<1>1. /\ point = "seek" /\ k > Count /\ point' = "done"
      /\ floors' = [floors EXCEPT ![target] = Wrap(Absorbed)]
      /\ UNCHANGED <<gross, shares, roles, checks, k, sum, target>>
  BY DEF Absorb
<1>2. /\ Count \in Nat /\ k = Count + 1 /\ target \in 1..Count /\ Leads(target, Count)
      /\ floors = Cut /\ floors \in [1..Count -> Cents]
  BY <1>1 DEF IInv, Domains, Searched, Count
<1>3. Wrap(Absorbed) \in Cents
  <2>1. gross - sum \in Int /\ floors[target] \in Int
    <3>1. gross \in Int /\ sum \in Int
      BY CentsInt DEF IInv, Domains
    <3>2. floors[target] \in Int
      BY <1>2, CentsInt
    <3>3. gross - sum \in Int
      BY <3>1
    <3> QED
      BY <3>2, <3>3
  <2>2. Wrap(gross - sum) \in Int
    BY <2>1, WrapFits, CentsInt
  <2> QED
    BY <2>1, <2>2, WrapFits DEF Absorbed
<1>4. Count' = Count /\ Cut' = Cut /\ Cents' = Cents
  BY <1>1 DEF Count, Cut, Cents
<1>5. floors' \in [1..Count -> Cents]
  BY <1>1, <1>2, <1>3
<1>6. Domains'
  BY <1>1, <1>4, <1>5 DEF IInv, Domains
<1>7. Searched'
  BY <1>1 DEF Searched
<1>8. target = Residual(shares, roles)
  BY <1>2, LeadingResidual DEF IInv
<1>9. \A j \in 1..Count : j # target => floors'[j] = Cut[j]
  BY <1>1, <1>2
<1>10. OnlyResidualAbsorbs'
  BY <1>1, <1>4, <1>8, <1>9 DEF OnlyResidualAbsorbs
<1> QED
  BY <1>6, <1>7, <1>10 DEF IInv

(* An overflow ends the call; nothing else moves.                           *)
LEMMA PanicStep ==
  ASSUME IInv, Panic
  PROVE  IInv'
<1>1. /\ point' = "panicked"
      /\ UNCHANGED <<gross, shares, roles, checks, k, floors, sum, target>>
  BY DEF Panic
<1> QED
  BY <1>1 DEF IInv, Domains, Searched, OnlyResidualAbsorbs, Count, Cents

LEMMA StutterStep ==
  ASSUME IInv, UNCHANGED splitVars
  PROVE  IInv'
<1>1. UNCHANGED <<gross, shares, roles, checks, point, k, floors, sum, target>>
  BY DEF splitVars
<1>2. Cut' = Cut /\ Count' = Count /\ Cents' = Cents
  BY <1>1 DEF Cut, Count, Cents
<1>3. Leads(target, k - 1)' <=> Leads(target, k - 1)
  BY <1>1 DEF Leads, Keeps
<1>4. Domains' /\ Searched'
  BY <1>1, <1>2, <1>3 DEF IInv, Domains, Searched
<1>5. OnlyResidualAbsorbs'
  BY <1>1, <1>2 DEF IInv, OnlyResidualAbsorbs
<1> QED
  BY <1>4, <1>5 DEF IInv

LEMMA InductiveStep == IInv /\ [SplitNext]_splitVars => IInv'
<1>1. ASSUME IInv, CutSlices PROVE IInv'
  BY <1>1, CutStep
<1>2. ASSUME IInv, AddSlice PROVE IInv'
  BY <1>2, AddStep
<1>3. ASSUME IInv, NoRemainder \/ SeekTarget PROVE IInv'
  BY <1>3, SummedStep
<1>4. ASSUME IInv, Compare PROVE IInv'
  BY <1>4, CompareStep
<1>5. ASSUME IInv, Absorb PROVE IInv'
  BY <1>5, AbsorbStep
<1>6. ASSUME IInv, AddOverflows \/ RemainderOverflows \/ AbsorbOverflows PROVE IInv'
  BY <1>6, PanicStep DEF AddOverflows, RemainderOverflows, AbsorbOverflows
<1>7. ASSUME IInv, SplitReturned \/ UNCHANGED splitVars PROVE IInv'
  BY <1>7, StutterStep DEF SplitReturned
<1> QED
  BY <1>1, <1>2, <1>3, <1>4, <1>5, <1>6, <1>7 DEF SplitNext

------------------------------------------------------------------------------
(* Wrapping.                                                                *)

LEMMA WrapCongruent ==
  ASSUME NEW n \in Int
  PROVE  Congruent(Wrap(n), n)
<1> DEFINE W == 2 * Half
           m == n + Half
<1>1. W \in Nat \ {0} /\ Half \in Int /\ m \in Int
  BY SplitAssumption
<1>2. m = W * (m \div W) + (m % W) /\ m \div W \in Int /\ m % W \in Int
  <2> HIDE DEF W, m
  <2> QED
    BY <1>1
<1>3. Wrap(n) = (m % W) - Half
  BY DEF Wrap
<1> DEFINE q == -(m \div W)
<1>4. q \in Int /\ W * q = -(W * (m \div W)) /\ W * (m \div W) \in Int
  <2> HIDE DEF W, m
  <2> QED
    BY <1>1, <1>2
<1>5. m = n + Half
  OBVIOUS
<1> HIDE DEF m, q
<1>6. Wrap(n) = n + W * q
  <2> HIDE DEF W
  <2> QED
    BY <1>1, <1>2, <1>3, <1>4, <1>5
<1> QED
  BY <1>4, <1>6 DEF Congruent

LEMMA CongruentSame ==
  ASSUME NEW a \in Cents, NEW b \in Cents, Congruent(a, b)
  PROVE  a = b
<1> DEFINE W == 2 * Half
<1>1. PICK q \in Int : a = b + W * q
  BY DEF Congruent
<1>2. W \in Int /\ W >= 1 /\ a \in Int /\ b \in Int /\ W * q \in Int
      /\ -W < a - b /\ a - b < W
  BY SplitAssumption DEF Cents
<1> HIDE DEF W
<1>3. W * q < W * 1 /\ W * (-1) < W * q
  BY <1>1, <1>2
<1>4. q < 1 /\ -1 < q
  BY <1>2, <1>3, TimesCancel
<1>5. q = 0
  BY <1>4
<1> QED
  BY <1>1, <1>2, <1>5

LEMMA CongruentPlus ==
  ASSUME NEW a \in Int, NEW b \in Int, NEW c \in Int, Congruent(a, b)
  PROVE  Congruent(a + c, b + c) /\ Congruent(c - a, c - b)
<1> DEFINE W == 2 * Half
<1>1. PICK q \in Int : a = b + W * q
  BY DEF Congruent
<1>2. W \in Int /\ W * q \in Int /\ W * (-q) = -(W * q)
  BY SplitAssumption
<1>3. a + c = (b + c) + W * q /\ c - a = (c - b) + W * (-q)
  <2> HIDE DEF W
  <2> QED
    BY <1>1, <1>2
<1> QED
  BY <1>3 DEF Congruent

LEMMA CongruentChain ==
  ASSUME NEW a \in Int, NEW b \in Int, NEW c \in Int, Congruent(a, b), Congruent(b, c)
  PROVE  Congruent(a, c)
<1> DEFINE W == 2 * Half
<1>1. PICK p \in Int : a = b + W * p
  BY DEF Congruent
<1>2. PICK q \in Int : b = c + W * q
  BY DEF Congruent
<1>3. W \in Int /\ W * p \in Int /\ W * q \in Int /\ W * (q + p) = W * q + W * p
  BY SplitAssumption
<1>4. a = c + W * (q + p)
  <2> HIDE DEF W
  <2> QED
    BY <1>1, <1>2, <1>3
<1> QED
  BY <1>4 DEF Congruent

(* What fits is not wrapped.                                                *)
LEMMA WrapSame ==
  ASSUME NEW n \in Cents
  PROVE  Wrap(n) = n
  BY CentsInt, WrapFits, WrapCongruent, CongruentSame

LEMMA WithinFits ==
  ASSUME NEW g \in Cents, NEW n, Within(n, g)
  PROVE  n \in Cents
  BY SplitAssumption DEF Cents, Within

------------------------------------------------------------------------------
(* The sums.                                                                *)

LEMMA CutSummable ==
  ASSUME Domains
  PROVE  /\ DOMAIN Cut = 1..Count /\ Cut \in [1..Count -> Cents] /\ Summable(Cut)
         /\ \A n \in 0..Count : Over(Cut, 1..n) \in Int
         /\ Total(Cut) = Over(Cut, 1..Count)
<1>1. ASSUME NEW j \in 1..Count PROVE Wrap(Slice(gross, shares[j])) \in Cents
  <2>1. gross \in Int /\ shares[j] \in Int
    BY DomainsLines DEF Ranked
  <2> QED
    BY <2>1, SliceBounds, WrapFits
<1>2. DOMAIN Cut = 1..Count /\ Cut \in [1..Count -> Cents]
  BY <1>1 DEF Cut
<1>3. Count \in Nat
  BY DomainsLines
<1>4. Summable(Cut)
  <2>1. IsFiniteSet(1..Count)
    BY <1>3, FS_Interval
  <2>2. \A j \in 1..Count : Cut[j] \in Int
    BY <1>2, CentsInt
  <2> QED
    BY <1>2, <2>1, <2>2 DEF Summable
<1>5. ASSUME NEW n \in 0..Count PROVE Over(Cut, 1..n) \in Int
  <2>1. 1..n \in SUBSET DOMAIN Cut
    BY <1>2, <1>3
  <2> QED
    BY <1>4, <2>1, OverInt
<1> QED
  BY <1>2, <1>4, <1>5, OverAll

LEMMA TallyMore ==
  ASSUME Domains, NEW n \in 1..Count
  PROVE  Over(Cut, 1..n) = Over(Cut, 1..(n - 1)) + Cut[n] /\ Cut[n] \in Int
<1> DEFINE S == 1..n
<1>1. S \in SUBSET DOMAIN Cut /\ n \in S /\ S \ {n} = 1..(n - 1)
  BY CutSummable, DomainsLines
<1>2. Summable(Cut)
  BY CutSummable
<1> HIDE DEF S
<1>3. /\ Over(Cut, S) = Cut[n] + Over(Cut, S \ {n})
      /\ Cut[n] \in Int /\ Over(Cut, S \ {n}) \in Int
  BY <1>1, <1>2, OverMore
<1>4. Over(Cut, S) = Over(Cut, S \ {n}) + Cut[n]
  BY <1>3
<1>5. Over(Cut, S) = Over(Cut, 1..(n - 1)) + Cut[n]
  BY <1>1, <1>4
<1> QED
  BY <1>3, <1>5 DEF S

(* Parts of a whole: no slice is wrapped, no sum of slices, and nothing     *)
(* that is left of the amount.                                              *)
LEMMA PartsWhole ==
  ASSUME Domains, Parts
  PROVE  IsWhole(shares) /\ Count > 0
<1>1. Summable(shares) /\ DOMAIN shares = 1..Count
  BY DomainsLines, RankedSummable
<1>2. IsWhole(shares)
  BY <1>1 DEF IsWhole, Parts
<1>3. ASSUME Count = 0 PROVE FALSE
  <2>1. DOMAIN shares = {}
    BY <1>1, <1>3
  <2>2. Total(shares) = 0
    BY <2>1, TotalOfNone
  <2> QED
    BY <2>2, ScaleAssumption DEF Parts
<1> QED
  BY <1>2, <1>3, DomainsLines

LEMMA PartsExact ==
  ASSUME Domains, Parts
  PROVE  /\ Cut = Slices(gross, shares)
         /\ \A S \in SUBSET (1..Count) : Within(Over(Cut, S), gross)
<1> DEFINE slices == Slices(gross, shares)
<1>1. IsWhole(shares) /\ gross \in Int /\ gross \in Cents
  BY PartsWhole, DomainsLines DEF Domains
<1>2. Summable(shares) /\ DOMAIN shares = 1..Count
  BY DomainsLines, RankedSummable
<1>3. /\ DOMAIN slices = 1..Count /\ Summable(slices)
      /\ \A j \in 1..Count : slices[j] = Slice(gross, shares[j])
  BY <1>1, <1>2, SlicesSummable
<1>4. ASSUME NEW S \in SUBSET (1..Count) PROVE Within(Over(slices, S), gross)
  BY <1>1, <1>2, SlicesWithin
<1> HIDE DEF slices
<1>5. ASSUME NEW j \in 1..Count PROVE Cut[j] = slices[j]
  <2>1. {j} \in SUBSET (1..Count) /\ j \in DOMAIN slices /\ Summable(slices)
    BY <1>3
  <2>2. Over(slices, {j}) = slices[j]
    BY <2>1, OverOne
  <2>4. Within(slices[j], gross)
    BY <1>4, <2>1, <2>2
  <2>5. Wrap(slices[j]) = slices[j]
    BY <1>1, <2>4, WithinFits, WrapSame
  <2>6. Cut[j] = Wrap(slices[j])
    BY <1>3 DEF Cut
  <2> QED
    BY <2>5, <2>6
<1>6. Cut = slices
  <2>1. DOMAIN Cut = 1..Count /\ Cut = [j \in 1..Count |-> Cut[j]]
    BY DEF Cut
  <2>2. slices = [j \in 1..Count |-> slices[j]]
    BY <1>3 DEF slices, Slices
  <2> QED
    BY <1>5, <2>1, <2>2
<1> QED
  BY <1>4, <1>6 DEF slices

\* What is left of the amount without the lines of S, and what the line that
\* absorbs it comes to.
LEMMA LeftFits ==
  ASSUME Domains, Parts
  PROVE  /\ \A n \in 0..Count : Over(Cut, 1..n) \in Cents
         /\ gross - Total(Cut) \in Cents
         /\ \A t \in 1..Count : Cut[t] + gross - Total(Cut) \in Cents
<1>1. gross \in Cents /\ gross \in Int /\ Count \in Nat
  BY DomainsLines DEF Domains
<1>2. ASSUME NEW n \in 0..Count PROVE Over(Cut, 1..n) \in Cents
  <2>1. 1..n \in SUBSET (1..Count)
    BY <1>1
  <2> QED
    BY <1>1, <2>1, PartsExact, WithinFits
<1>3. ASSUME NEW S \in SUBSET (1..Count) PROVE gross - Over(Cut, S) \in Cents
  <2>1. Within(Over(Cut, S), gross)
    BY PartsExact
  <2>2. Within(gross - Over(Cut, S), gross)
    BY <1>1, <2>1 DEF Within
  <2> QED
    BY <1>1, <2>2, WithinFits
<1>4. gross - Total(Cut) \in Cents
  BY <1>3, CutSummable
<1>5. ASSUME NEW t \in 1..Count PROVE Cut[t] + gross - Total(Cut) \in Cents
  <2>1. 1..Count \in SUBSET DOMAIN Cut /\ (1..Count) \ {t} \in SUBSET (1..Count)
    BY CutSummable
  <2>2. /\ Over(Cut, 1..Count) = Cut[t] + Over(Cut, (1..Count) \ {t})
        /\ Cut[t] \in Int /\ Over(Cut, (1..Count) \ {t}) \in Int
    <3>1. Summable(Cut)
      BY CutSummable
    <3> QED
      BY <2>1, <3>1, OverMore
  <2>3. Cut[t] + gross - Total(Cut) = gross - Over(Cut, (1..Count) \ {t})
    BY <1>1, <2>2, CutSummable
  <2> QED
    BY <1>3, <2>1, <2>3
<1> QED
  BY <1>2, <1>4, <1>5

------------------------------------------------------------------------------
LEMMA InitMoney == SplitInit => Money
  BY DEF SplitInit, Money, PartsNeverPanic

LEMMA CutMoney ==
  ASSUME IInv, Money, CutSlices
  PROVE  Money'
<1>1. /\ point = "slice" /\ point' = "sum"
      /\ UNCHANGED <<gross, shares, roles, checks, k, sum, target>>
  BY DEF CutSlices
<1>2. sum = 0 /\ k = 1
  BY <1>1 DEF Money
<1>3. Cut' = Cut
  BY <1>1 DEF Cut, Count
<1>4. Over(Cut, 1..0) = 0
  <2>1. 1..0 = {}
    OBVIOUS
  <2> QED
    BY <2>1, CutSummable, OverNone DEF IInv
<1>5. Congruent(0, 0)
  BY SplitAssumption DEF Congruent
<1>6. Tally(0)'
  BY <1>1, <1>2, <1>3, <1>4, <1>5 DEF Tally, Congruent
<1>7. Tally(k - 1)'
  BY <1>1, <1>2, <1>6 DEF Tally
<1> QED
  BY <1>1, <1>7 DEF Money, PartsNeverPanic

LEMMA AddMoney ==
  ASSUME IInv, Money, AddSlice
  PROVE  Money'
<1>1. /\ point = "sum" /\ k <= Count /\ sum' = Wrap(sum + floors[k]) /\ k' = k + 1
      /\ ~Overflows(sum + floors[k])
      /\ UNCHANGED <<gross, shares, roles, checks, point, floors, target>>
  BY DEF AddSlice
<1>2. Count \in Nat /\ k \in 1..Count /\ floors = Cut /\ Tally(k - 1) /\ Cut' = Cut
  BY <1>1 DEF IInv, Domains, Searched, Money, Count, Cut
<1>3. Over(Cut, 1..k) = Over(Cut, 1..(k - 1)) + Cut[k] /\ Cut[k] \in Int
  BY <1>2, TallyMore DEF IInv
<1>4. sum \in Int /\ Over(Cut, 1..(k - 1)) \in Int /\ sum + Cut[k] \in Int
  <2>1. k - 1 \in 0..Count
    BY <1>2
  <2>2. sum \in Int
    BY CentsInt DEF IInv, Domains
  <2> QED
    BY <1>3, <2>1, <2>2, CutSummable DEF IInv
<1>5. Congruent(sum + Cut[k], Over(Cut, 1..k))
  BY <1>2, <1>3, <1>4, CongruentPlus DEF Tally
<1>6. Congruent(sum', Over(Cut, 1..k))
  <2>1. Congruent(sum', sum + Cut[k]) /\ sum' \in Int
    BY <1>1, <1>2, <1>4, WrapCongruent, WrapFits, CentsInt
  <2>2. Over(Cut, 1..k) \in Int
    BY <1>3, <1>4
  <2> QED
    BY <1>4, <1>5, <2>1, <2>2, CongruentChain
<1>7. checks => sum' = Over(Cut, 1..k)
  <2>1. checks => sum + Cut[k] \in Cents
    BY <1>1, <1>2 DEF Overflows, Fits
  <2>2. checks => sum' = sum + Cut[k]
    BY <1>1, <1>2, <2>1, WrapSame
  <2> QED
    BY <1>2, <1>3, <1>4, <2>2 DEF Tally
<1>8. k' - 1 = k
  BY <1>1, <1>2
<1>9. Tally(k - 1)'
  <2>1. Over(Cut, 1..(k - 1))' = Over(Cut, 1..k)
    BY <1>2, <1>8
  <2>2. checks' = checks
    BY <1>1
  <2> QED
    BY <1>6, <1>7, <2>1, <2>2 DEF Tally, Congruent
<1> QED
  BY <1>1, <1>9 DEF Money, PartsNeverPanic

\* The remainder that is looked at is that of the exact sums but for wrapping.
LEMMA RemainderTallies ==
  ASSUME IInv, Tally(Count)
  PROVE  /\ gross - sum \in Int /\ gross - Total(Cut) \in Int
         /\ Wrap(gross - sum) \in Cents
         /\ Congruent(Wrap(gross - sum), gross - Total(Cut))
         /\ checks => gross - sum = gross - Total(Cut)
<1>1. gross \in Int /\ sum \in Int /\ Count \in 0..Count /\ Total(Cut) = Over(Cut, 1..Count)
  BY CentsInt, DomainsLines, CutSummable DEF IInv, Domains
<1>2. Total(Cut) \in Int
  BY <1>1, CutSummable DEF IInv
<1>3. gross - sum \in Int /\ gross - Total(Cut) \in Int
  BY <1>1, <1>2
<1>4. Congruent(gross - sum, gross - Total(Cut))
  BY <1>1, <1>2, CongruentPlus DEF Tally
<1>5. Wrap(gross - sum) \in Cents /\ Wrap(gross - sum) \in Int
      /\ Congruent(Wrap(gross - sum), gross - sum)
  BY <1>3, WrapFits, CentsInt, WrapCongruent
<1>6. Congruent(Wrap(gross - sum), gross - Total(Cut))
  BY <1>3, <1>4, <1>5, CongruentChain
<1>7. checks => sum = Total(Cut)
  BY <1>1 DEF Tally
<1> QED
  BY <1>1, <1>3, <1>5, <1>6, <1>7

LEMMA ResidualIsLine ==
  ASSUME Domains, Count > 0
  PROVE  Residual(shares, roles) \in 1..Count /\ Cut[Residual(shares, roles)] \in Int
<1>1. Count \in Nat \ {0} /\ Ranked(1..Count, shares, roles)
  BY DomainsLines
<1>2. Residual(shares, roles) \in 1..Count
  BY <1>1, ResidualLeads DEF Leader
<1> QED
  BY <1>2, CutSummable, CentsInt

LEMMA NoRemainderMoney ==
  ASSUME IInv, Money, NoRemainder
  PROVE  Money'
<1> DEFINE R == Residual(shares, roles)
           left == gross - Total(Cut)
<1>1. /\ point = "sum" /\ k > Count /\ point' = "done" /\ ~Overflows(gross - sum)
      /\ ~RemainderLeft \/ Count = 0
      /\ UNCHANGED <<gross, shares, roles, checks, k, floors, sum, target>>
  BY DEF NoRemainder
<1>2. /\ Count \in Nat /\ k - 1 = Count /\ floors = Cut /\ Tally(Count)
      /\ Cut' = Cut /\ Count' = Count
  BY <1>1 DEF IInv, Domains, Searched, Money, Count, Cut
<1>3. ASSUME Count > 0 PROVE Paid'
  <2>1. R \in 1..Count /\ Cut[R] \in Int
    BY <1>3, ResidualIsLine DEF IInv
  <2>2. Wrap(gross - sum) = 0
    BY <1>1, <1>3 DEF RemainderLeft
  <2>3. left \in Int /\ Congruent(0, left) /\ (checks => gross - sum = left)
    BY <1>2, <2>2, RemainderTallies
  <2> HIDE DEF left
  <2>4. Congruent(0 + Cut[R], left + Cut[R])
    <3>1. 0 \in Int
      OBVIOUS
    <3> HIDE DEF R
    <3> QED
      BY <3>1, <2>1, <2>3, CongruentPlus
  <2>5. 0 + Cut[R] = Cut[R] /\ left + Cut[R] = Due
    <3>1. gross \in Int /\ Total(Cut) \in Int
      <4>1. Count \in 0..Count
        BY <1>2
      <4> QED
        BY <4>1, DomainsLines, CutSummable DEF IInv
    <3> QED
      BY <2>1, <3>1 DEF Due, left
  <2>6. checks => left = 0
    <3>1. checks => gross - sum \in Cents
      BY <1>1 DEF Overflows, Fits
    <3> QED
      BY <2>2, <2>3, <3>1, WrapSame
  <2>7. Congruent(Cut[R], Due) /\ (checks => Cut[R] = Due)
    BY <2>1, <2>3, <2>4, <2>5, <2>6
  <2>8. Due' = Due /\ floors' = Cut /\ Residual(shares, roles)' = R /\ checks' = checks
    BY <1>1, <1>2 DEF Due
  <2> QED
    BY <2>7, <2>8 DEF Paid, Congruent
<1> QED
  BY <1>1, <1>2, <1>3 DEF Money, PartsNeverPanic

LEMMA SeekMoney ==
  ASSUME IInv, Money, SeekTarget
  PROVE  Money'
<1>1. /\ point = "sum" /\ k > Count /\ point' = "seek" /\ ~Overflows(gross - sum)
      /\ UNCHANGED <<gross, shares, roles, checks, floors, sum, target>>
  BY DEF SeekTarget
<1>2. Count \in Nat /\ k - 1 = Count /\ Tally(Count) /\ Cut' = Cut /\ Count' = Count
  BY <1>1 DEF IInv, Domains, Searched, Money, Count, Cut
<1>3. Tally(Count)'
  BY <1>1, <1>2 DEF Tally, Congruent
<1>4. checks => gross - sum \in Cents
  BY <1>1 DEF Overflows, Fits
<1> QED
  BY <1>1, <1>3, <1>4 DEF Money, PartsNeverPanic, Cents

LEMMA CompareMoney ==
  ASSUME IInv, Money, Compare
  PROVE  Money'
<1>1. point = "seek" /\ UNCHANGED <<gross, shares, roles, checks, point, floors, sum>>
  BY DEF Compare
<1>2. Tally(Count) /\ Cut' = Cut /\ Count' = Count
  BY <1>1 DEF Money, Count, Cut
<1>3. Tally(Count)'
  BY <1>1, <1>2 DEF Tally, Congruent
<1> QED
  BY <1>1, <1>3 DEF Money, PartsNeverPanic, Cents

LEMMA AbsorbMoney ==
  ASSUME IInv, Money, Absorb
  PROVE  Money'
<1> DEFINE R == Residual(shares, roles)
           left == gross - Total(Cut)
           rest == Wrap(gross - sum)
<1>1. /\ point = "seek" /\ k > Count /\ point' = "done" /\ ~Overflows(Absorbed)
      /\ floors' = [floors EXCEPT ![target] = Wrap(Absorbed)]
      /\ UNCHANGED <<gross, shares, roles, checks, k, sum, target>>
  BY DEF Absorb
<1>2. /\ Count \in Nat /\ Count > 0 /\ target \in 1..Count /\ Leads(target, Count)
      /\ floors = Cut /\ Tally(Count) /\ Cut' = Cut /\ Count' = Count
  BY <1>1 DEF IInv, Domains, Searched, Money, Count, Cut
<1>3. target = R
  BY <1>2, LeadingResidual DEF IInv
<1>4. R \in 1..Count /\ Cut[R] \in Int /\ DOMAIN Cut = 1..Count
  BY <1>2, ResidualIsLine, CutSummable DEF IInv
<1>5. /\ left \in Int /\ rest \in Cents /\ rest \in Int /\ Congruent(rest, left)
      /\ gross - sum \in Int /\ (checks => gross - sum = left)
  BY <1>2, RemainderTallies, CentsInt
<1>6. Absorbed = Cut[R] + rest /\ Due = Cut[R] + left
  <2>1. gross \in Int /\ Total(Cut) \in Int
    <3>1. Count \in 0..Count
      BY <1>2
    <3> QED
      BY <3>1, DomainsLines, CutSummable DEF IInv
  <2>2. Due = Cut[R] + left
    BY <1>4, <2>1 DEF Due
  <2>3. Absorbed = Cut[R] + rest
    BY <1>2, <1>3 DEF Absorbed
  <2> QED
    BY <2>2, <2>3
<1>7. floors'[R] = Wrap(Cut[R] + rest)
  <2>1. floors' = [Cut EXCEPT ![R] = Wrap(Absorbed)]
    BY <1>1, <1>2, <1>3
  <2> QED
    BY <1>4, <1>6, <2>1
<1>8. checks => rest = gross - sum \/ ~(gross - sum \in Cents)
  BY WrapSame
<1> HIDE DEF rest, left, R
<1>9. Cut[R] + rest \in Int /\ Cut[R] + left \in Int /\ Congruent(Cut[R] + rest, Cut[R] + left)
  <2>1. Congruent(rest + Cut[R], left + Cut[R])
    BY <1>4, <1>5, CongruentPlus
  <2>2. rest + Cut[R] = Cut[R] + rest /\ left + Cut[R] = Cut[R] + left
    BY <1>4, <1>5
  <2>3. Cut[R] + rest \in Int /\ Cut[R] + left \in Int
    BY <1>4, <1>5
  <2> QED
    BY <2>1, <2>2, <2>3
<1>10. Congruent(floors'[R], Due)
  <2>1. Wrap(Cut[R] + rest) \in Int /\ Congruent(Wrap(Cut[R] + rest), Cut[R] + rest)
    BY <1>9, WrapFits, CentsInt, WrapCongruent
  <2> QED
    BY <1>6, <1>7, <1>9, <2>1, CongruentChain
<1>11. checks => floors'[R] = Due
  <2>1. SUFFICES ASSUME checks PROVE floors'[R] = Due
    OBVIOUS
  <2>2. Cut[R] + rest \in Cents
    BY <1>1, <1>6, <2>1 DEF Overflows, Fits
  <2>3. floors'[R] = Cut[R] + rest
    BY <1>7, <2>2, WrapSame
  <2>4. left \in Cents
    BY <1>1, <1>5, <2>1, Zenon DEF Money
  <2>5. rest = left
    BY <1>5, <2>4, CongruentSame
  <2> QED
    BY <1>6, <2>3, <2>5
<1>12. Due' = Due /\ Residual(shares, roles)' = R /\ checks' = checks
  BY <1>1, <1>2 DEF Due, R
<1>13. Paid'
  BY <1>10, <1>11, <1>12 DEF Paid, Congruent
<1> QED
  BY <1>1, <1>13 DEF Money, PartsNeverPanic

(* No sum of a whole's parts overflows: an addition that does is not of one.*)
LEMMA PanicMoney ==
  ASSUME IInv, Money, AddOverflows \/ RemainderOverflows \/ AbsorbOverflows
  PROVE  Money'
<1> DEFINE left == gross - Total(Cut)
<1>1. point' = "panicked" /\ UNCHANGED <<gross, shares, roles, checks, k, floors, sum, target>>
  BY DEF AddOverflows, RemainderOverflows, AbsorbOverflows, Panic
<1>2. ASSUME AddOverflows, Parts PROVE FALSE
  <2>1. point = "sum" /\ k <= Count /\ checks /\ sum + floors[k] \notin Cents
    BY <1>2 DEF AddOverflows, Overflows, Fits
  <2>2. Count \in Nat /\ k \in 1..Count /\ floors = Cut /\ Tally(k - 1)
    BY <2>1 DEF IInv, Domains, Searched, Money, Count
  <2>3. sum + floors[k] = Over(Cut, 1..k)
    BY <2>1, <2>2, TallyMore DEF Tally, IInv
  <2>4. k \in 0..Count
    BY <2>2
  <2> QED
    BY <1>2, <2>1, <2>3, <2>4, LeftFits DEF IInv
<1>3. ASSUME RemainderOverflows, Parts PROVE FALSE
  <2>1. point = "sum" /\ k > Count /\ checks /\ gross - sum \notin Cents
    BY <1>3 DEF RemainderOverflows, Overflows, Fits
  <2>2. Count \in Nat /\ k - 1 = Count /\ Tally(Count)
    BY <2>1 DEF IInv, Domains, Searched, Money, Count
  <2>3. gross - sum = left
    BY <2>1, <2>2, RemainderTallies
  <2> QED
    BY <1>3, <2>1, <2>3, LeftFits DEF IInv
<1>4. ASSUME AbsorbOverflows, Parts PROVE FALSE
  <2>1. point = "seek" /\ k > Count /\ checks /\ Absorbed \notin Cents
    BY <1>4 DEF AbsorbOverflows, Overflows, Fits
  <2>2. Count \in Nat /\ target \in 1..Count /\ floors = Cut /\ Tally(Count)
    BY <2>1 DEF IInv, Domains, Searched, Money, Count
  <2>3. gross - sum = left
    BY <2>1, <2>2, RemainderTallies
  <2>4. left \in Cents /\ Cut[target] + gross - Total(Cut) \in Cents
    BY <1>4, <2>2, LeftFits DEF IInv
  <2>5. Absorbed = Cut[target] + left
    BY <2>2, <2>3, <2>4, WrapSame DEF Absorbed
  <2>6. Cut[target] \in Int /\ gross \in Int /\ Total(Cut) \in Int
    <3>1. Count \in 0..Count
      BY <2>2
    <3> QED
      BY <2>2, <3>1, CutSummable, CentsInt, DomainsLines DEF IInv
  <2>7. Cut[target] + left = Cut[target] + gross - Total(Cut)
    BY <2>6
  <2> QED
    BY <2>1, <2>4, <2>5, <2>7
<1>5. ~Parts
  BY <1>2, <1>3, <1>4
<1>6. ~Parts'
  BY <1>1, <1>5 DEF Parts, Count
<1> QED
  BY <1>1, <1>6 DEF Money, PartsNeverPanic

LEMMA StutterMoney ==
  ASSUME Money, UNCHANGED splitVars
  PROVE  Money'
<1>1. UNCHANGED <<gross, shares, roles, checks, point, k, floors, sum, target>>
  BY DEF splitVars
<1>2. Cut' = Cut /\ Count' = Count /\ Cents' = Cents
  BY <1>1 DEF Cut, Count, Cents
<1>3. (Tally(Count)' <=> Tally(Count)) /\ (Tally(k - 1)' <=> Tally(k - 1))
  BY <1>1, <1>2 DEF Tally, Congruent
<1>4. Paid' <=> Paid
  BY <1>1, <1>2 DEF Paid, Due, Congruent
<1>5. PartsNeverPanic' <=> PartsNeverPanic
  BY <1>1, <1>2 DEF PartsNeverPanic, Parts
<1> QED
  BY <1>1, <1>2, <1>3, <1>4, <1>5 DEF Money

LEMMA MoneyStep == IInv /\ Money /\ [SplitNext]_splitVars => Money'
<1>1. ASSUME IInv, Money, CutSlices PROVE Money'
  BY <1>1, CutMoney
<1>2. ASSUME IInv, Money, AddSlice PROVE Money'
  BY <1>2, AddMoney
<1>3. ASSUME IInv, Money, NoRemainder PROVE Money'
  BY <1>3, NoRemainderMoney
<1>4. ASSUME IInv, Money, SeekTarget PROVE Money'
  BY <1>4, SeekMoney
<1>5. ASSUME IInv, Money, Compare PROVE Money'
  BY <1>5, CompareMoney
<1>6. ASSUME IInv, Money, Absorb PROVE Money'
  BY <1>6, AbsorbMoney
<1>7. ASSUME IInv, Money, AddOverflows \/ RemainderOverflows \/ AbsorbOverflows PROVE Money'
  BY <1>7, PanicMoney
<1>8. ASSUME IInv, Money, SplitReturned \/ UNCHANGED splitVars PROVE Money'
  BY <1>8, StutterMoney DEF SplitReturned
<1> QED
  BY <1>1, <1>2, <1>3, <1>4, <1>5, <1>6, <1>7, <1>8 DEF SplitNext

------------------------------------------------------------------------------
(* What the invariants say of an answer.                                    *)

LEMMA Answer ==
  ASSUME IInv, Money, point = "done", Count > 0
  PROVE  LET R == Residual(shares, roles)
         IN  /\ R \in 1..Count /\ Cut[R] \in Int /\ Total(Cut) \in Int /\ gross \in Int
             /\ floors \in [1..Count -> Cents] /\ Summable(floors)
             /\ \A j \in 1..Count \ {R} : floors[j] = Cut[j]
             /\ floors[R] \in Int
             /\ Total(floors) = Total(Cut) - Cut[R] + floors[R]
             /\ Parts \/ checks => floors[R] = Cut[R] + gross - Total(Cut)
<1> DEFINE R == Residual(shares, roles)
<1>1. R \in 1..Count /\ Cut[R] \in Int
  BY ResidualIsLine DEF IInv
<1>2. gross \in Int /\ Total(Cut) \in Int /\ Count \in Nat
  <2>1. Count \in Nat /\ gross \in Int
    BY DomainsLines DEF IInv
  <2> QED
    BY <2>1, CutSummable DEF IInv
<1>3. floors \in [1..Count -> Cents] /\ \A j \in 1..Count \ {R} : floors[j] = Cut[j]
  BY DEF IInv, Domains, OnlyResidualAbsorbs
<1>4. floors[R] \in Cents /\ floors[R] \in Int
  BY <1>1, <1>3, CentsInt
<1>5. DOMAIN Cut = 1..Count /\ Summable(Cut)
  BY CutSummable DEF IInv
<1>6. Summable(floors) /\ Total(floors) = Total(Cut) - Cut[R] + floors[R]
  <2>1. R \in DOMAIN Cut /\ DOMAIN floors = DOMAIN Cut
        /\ \A j \in DOMAIN Cut \ {R} : floors[j] = Cut[j]
    BY <1>1, <1>3, <1>5
  <2> HIDE DEF R
  <2> QED
    BY <1>4, <1>5, <2>1, TotalChanged
<1>7. Paid
  BY DEF Money
<1>8. ASSUME Parts PROVE floors[R] = Due
  <2>1. Due \in Cents
    BY <1>1, <1>8, LeftFits DEF IInv, Due
  <2> QED
    BY <1>4, <1>7, <2>1, CongruentSame DEF Paid
<1>9. Parts \/ checks => floors[R] = Cut[R] + gross - Total(Cut)
  BY <1>7, <1>8 DEF Paid, Due
<1> QED
  BY <1>1, <1>2, <1>3, <1>4, <1>6, <1>9

LEMMA MoneyConserved ==
  ASSUME IInv, Money
  PROVE  SumsToGross
<1> DEFINE R == Residual(shares, roles)
           W == 2 * Half
<1>1. SUFFICES ASSUME point = "done", Count > 0
               PROVE  /\ Parts \/ checks => Total(floors) = gross
                      /\ (Total(floors) - gross) % W = 0
  BY DEF SumsToGross
<1>2. /\ Cut[R] \in Int /\ Total(Cut) \in Int /\ gross \in Int /\ floors[R] \in Int
      /\ Total(floors) = Total(Cut) - Cut[R] + floors[R]
      /\ Parts \/ checks => floors[R] = Cut[R] + gross - Total(Cut)
  BY <1>1, Answer
<1>3. Congruent(floors[R], Cut[R] + gross - Total(Cut))
  BY <1>1 DEF Money, Paid, Due
<1>4. PICK q \in Int : floors[R] = (Cut[R] + gross - Total(Cut)) + W * q
  BY <1>3 DEF Congruent
<1> HIDE DEF R
<1>5. W \in Nat \ {0} /\ W * q \in Int
  BY SplitAssumption
<1> HIDE DEF W
<1>6. Total(floors) - gross = W * q
  BY <1>2, <1>4, <1>5
<1>7. (Total(floors) - gross) % W = 0
  <2> DEFINE d == Total(floors) - gross
  <2>1. d \in Int /\ d = W * q
    BY <1>5, <1>6
  <2> HIDE DEF d
  <2>2. d % W = 0
    BY <1>5, <2>1
  <2> QED
    BY <2>2 DEF d
<1>8. Parts \/ checks => Total(floors) = gross
  BY <1>2
<1> QED
  BY <1>7, <1>8

\* What a whole's parts are answered with.
LEMMA PartsAnswer ==
  ASSUME IInv, Money, point = "done", Parts
  PROVE  LET R == Residual(shares, roles)
             slices == Slices(gross, shares)
         IN  /\ R \in 1..Count /\ Count \in Nat \ {0} /\ gross \in Int /\ IsWhole(shares)
             /\ DOMAIN shares = 1..Count /\ DOMAIN slices = 1..Count /\ Summable(slices)
             /\ Total(slices) \in Int
             /\ Within(Total(slices), gross)
             /\ \A j \in 1..Count : slices[j] = Slice(gross, shares[j]) /\ slices[j] \in Int
             /\ floors = [slices EXCEPT ![R] = @ + gross - Total(slices)]
<1> DEFINE R == Residual(shares, roles)
           slices == Slices(gross, shares)
<1>1. IsWhole(shares) /\ Count > 0 /\ Count \in Nat /\ gross \in Int
  BY PartsWhole, DomainsLines DEF IInv
<1>2. Summable(shares) /\ DOMAIN shares = 1..Count
  BY DomainsLines, RankedSummable DEF IInv
<1>3. /\ DOMAIN slices = 1..Count /\ Summable(slices)
      /\ \A j \in 1..Count : slices[j] = Slice(gross, shares[j])
  BY <1>1, <1>2, SlicesSummable
<1>4. slices = Cut
  BY PartsExact DEF IInv
<1>5. /\ R \in 1..Count /\ floors \in [1..Count -> Cents]
      /\ \A j \in 1..Count \ {R} : floors[j] = Cut[j]
      /\ floors[R] = Cut[R] + gross - Total(Cut)
  BY <1>1, Answer
<1>6. Within(Total(Cut), gross)
  <2>1. 1..Count \in SUBSET (1..Count)
    OBVIOUS
  <2>2. Within(Over(Cut, 1..Count), gross)
    BY <2>1, PartsExact DEF IInv
  <2> QED
    BY <2>2, CutSummable DEF IInv
<1> HIDE DEF R, slices
<1>7. floors = [slices EXCEPT ![R] = @ + gross - Total(slices)]
  <2> DEFINE paid == [slices EXCEPT ![R] = @ + gross - Total(slices)]
  <2>1. slices = [j \in 1..Count |-> slices[j]]
    BY <1>3 DEF slices, Slices
  <2>2. paid = [j \in 1..Count |-> paid[j]]
    BY <1>3
  <2>3. ASSUME NEW j \in 1..Count PROVE floors[j] = paid[j]
    BY <1>3, <1>4, <1>5
  <2> HIDE DEF paid
  <2>4. floors = [j \in 1..Count |-> floors[j]]
    BY <1>5
  <2>5. floors = paid
    BY <2>2, <2>3, <2>4
  <2> QED
    BY <2>5 DEF paid
<1>8. \A j \in 1..Count : slices[j] \in Int
  BY <1>3 DEF Summable
<1>9. Within(Total(slices), gross) /\ Total(slices) \in Int
  BY <1>4, <1>6 DEF Within
<1> QED
  BY <1>1, <1>2, <1>3, <1>5, <1>7, <1>8, <1>9 DEF R, slices

LEMMA Computed ==
  ASSUME IInv, Money
  PROVE  ComputesSplit
<1>1. SUFFICES ASSUME point = "done", Parts PROVE floors = SplitCents(gross, shares, roles)
  BY DEF ComputesSplit
<1>2. /\ Residual(shares, roles) \in DOMAIN shares
      /\ floors = [Slices(gross, shares) EXCEPT
                     ![Residual(shares, roles)] = @ + gross - Total(Slices(gross, shares))]
  BY <1>1, PartsAnswer
<1> QED
  BY <1>2 DEF SplitCents, Slices

(* A slice of an amount that is not negative grows with the share.          *)
LEMMA SliceMonotone ==
  ASSUME NEW g \in Nat, NEW a \in Nat, NEW b \in Nat, a <= b
  PROVE  Slice(g, a) <= Slice(g, b)
<1> DEFINE x == Slice(g, a)
           y == Slice(g, b)
<1>1. x \in Int /\ Scale * x <= g * a
  BY SliceBounds DEF x
<1>2. y \in Int /\ g * b < Scale * y + Scale
  BY SliceBounds DEF y
<1> HIDE DEF x, y
<1>3. g * a <= g * b
  BY TimesMono
<1>4. Scale \in Int /\ Scale >= 1
  BY ScaleAssumption
<1>5. Scale * (y + 1) = Scale * y + Scale
  BY <1>2, <1>4
<1>6. Scale * x < Scale * (y + 1)
  <2>1. g * a \in Int /\ g * b \in Int /\ Scale * x \in Int /\ Scale * y \in Int
    BY <1>1, <1>2, <1>4, TimesCommutes
  <2> QED
    BY <1>1, <1>2, <1>3, <1>4, <1>5, <2>1
<1>7. x < y + 1
  BY <1>1, <1>2, <1>4, <1>6, TimesCancel
<1>8. x <= y
  BY <1>1, <1>2, <1>7
<1> QED
  BY <1>8 DEF x, y

LEMMA Fair ==
  ASSUME IInv, Money
  PROVE  RoundingIsFair
<1> DEFINE R == Residual(shares, roles)
           slices == Slices(gross, shares)
           error(j) == floors[j] * Scale - gross * shares[j]
<1> SUFFICES ASSUME point = "done", Parts, gross >= 0
             PROVE  /\ \A j, l \in 1..Count :
                         Outranks(shares, roles, j, l) => floors[j] >= floors[l]
                    /\ \A j \in 1..Count :
                         IF j = R THEN error(j) \in 0..(Count * Scale - 1)
                         ELSE error(j) \in (1 - Scale)..0
  BY DEF RoundingIsFair, Outranks
<1>1. /\ R \in 1..Count /\ Count \in Nat \ {0} /\ gross \in Int /\ IsWhole(shares)
      /\ DOMAIN shares = 1..Count /\ DOMAIN slices = 1..Count
      /\ Total(slices) \in Int /\ Within(Total(slices), gross)
      /\ \A j \in 1..Count : slices[j] = Slice(gross, shares[j]) /\ slices[j] \in Int
      /\ floors = [slices EXCEPT ![R] = @ + gross - Total(slices)]
  BY PartsAnswer
<1>2. /\ gross \in Nat /\ Scale \in Int /\ Scale >= 1
      /\ Total(slices) <= gross
      /\ \A j \in 1..Count : shares[j] \in Nat
  <2>1. \A j \in 1..Count : shares[j] \in Nat
    <3>1. \A j \in DOMAIN shares : shares[j] \in Int /\ shares[j] >= 0
      BY PartsWhole DEF IInv, IsWhole, Summable
    <3>2. DOMAIN shares = 1..Count
      BY <1>1
    <3> QED
      BY <3>1, <3>2
  <2> QED
    BY <1>1, <2>1, ScaleAssumption DEF Within
<1>3. /\ floors[R] = slices[R] + gross - Total(slices)
      /\ \A j \in 1..Count \ {R} : floors[j] = slices[j]
  BY <1>1
<1>4. ASSUME NEW j \in 1..Count, NEW l \in 1..Count, Outranks(shares, roles, j, l)
      PROVE  floors[j] >= floors[l]
  <2>1. Ranked(1..Count, shares, roles)
    BY DomainsLines DEF IInv
  <2>2. shares[j] \in Int /\ shares[l] \in Int /\ roles[j] \in Int /\ roles[l] \in Int
    BY <2>1 DEF Ranked
  <2>3. j # l /\ ~Outranks(shares, roles, l, j)
    BY <1>4, <2>2 DEF Outranks
  <2>4. l # R
    <3>1. SUFFICES ASSUME l = R PROVE FALSE
      OBVIOUS
    <3>2. Keeps(shares, roles, l, j)
      BY <1>1, <2>1, <2>3, <3>1, ResidualLeads DEF Leader
    <3> QED
      BY <1>4, <2>3, <3>2 DEF Keeps
  <2>5. shares[l] <= shares[j]
    BY <1>4, <2>2 DEF Outranks
  <2> HIDE DEF R, slices
  <2>6. slices[l] <= slices[j]
    BY <1>1, <1>2, <2>5, SliceMonotone
  <2>7. floors[l] = slices[l] /\ slices[j] <= floors[j] /\ slices[j] \in Int /\ slices[l] \in Int
        /\ floors[j] \in Int
    <3>1. CASE j = R
      BY <1>1, <1>2, <1>3, <2>4, <3>1
    <3>2. CASE j # R
      BY <1>1, <1>2, <1>3, <2>4, <3>2
    <3> QED
      BY <3>1, <3>2
  <2> QED
    BY <2>6, <2>7
<1>5. ASSUME NEW j \in 1..Count, j # R PROVE error(j) \in (1 - Scale)..0
  <2> DEFINE slice == Slice(gross, shares[j])
             exact == gross * shares[j]
  <2>1. floors[j] = slice
    BY <1>1, <1>3, <1>5
  <2>2. shares[j] \in Nat
    BY <1>2
  <2>3. slice \in Int /\ Scale * slice <= exact /\ exact < Scale * slice + Scale
    <3>1. gross \in Int /\ gross >= 0 /\ shares[j] \in Int /\ shares[j] >= 0
      BY <1>2, <2>2
    <3> QED
      BY <3>1, SliceBounds
  <2>4. exact \in Int /\ Scale * slice \in Int /\ slice * Scale = Scale * slice
    BY <1>2, <2>2, <2>3, TimesCommutes
  <2>5. error(j) = slice * Scale - exact
    BY <2>1
  <2> HIDE DEF slice, exact, error
  <2> QED
    BY <1>2, <2>3, <2>4, <2>5
<1>6. error(R) \in 0..(Count * Scale - 1)
  <2>1. Cardinality(DOMAIN shares) = Count
    BY <1>1, FS_Interval
  <2>2. LET lead == (slices[R] + gross - Total(slices)) * Scale - gross * shares[R]
        IN  0 <= lead /\ lead <= (Scale - 1) * (Cardinality(DOMAIN shares) - 1)
    BY <1>1, <1>2, SlicesShort
  <2>3. 0 <= error(R) /\ error(R) <= (Scale - 1) * (Count - 1)
    BY <1>3, <2>1, <2>2
  <2>4. error(R) \in Int
    <3>1. floors[R] \in Int /\ shares[R] \in Int
      BY <1>1, <1>2, <1>3
    <3> QED
      BY <1>2, <3>1, TimesCommutes
  <2>5. (Scale - 1) * (Count - 1) = Count * Scale - Scale - Count + 1
    BY <1>1, <1>2
  <2>6. Count * Scale \in Int
    BY <1>1, <1>2
  <2> HIDE DEF R, error
  <2> QED
    BY <1>1, <1>2, <2>3, <2>4, <2>5, <2>6
<1> QED
  BY <1>4, <1>5, <1>6

\* A rearrangement of n lines.
Rearranges(p, n) == Matches(p, 1..n, 1..n)

\* The lines may stand in any order.
AnyOrder ==
  point = "done" /\ Parts /\ NoTies =>
    \A p \in [1..Count -> 1..Count] : Rearranges(p, Count) =>
      SplitCents(gross, [j \in 1..Count |-> shares[p[j]]], [j \in 1..Count |-> roles[p[j]]])
        = [j \in 1..Count |-> floors[p[j]]]

LEMMA Unordered ==
  ASSUME IInv, Money
  PROVE  AnyOrder
<1>1. SUFFICES ASSUME point = "done", Parts, NoTies,
                      NEW p \in [1..Count -> 1..Count], Rearranges(p, Count)
               PROVE  SplitCents(gross, [j \in 1..Count |-> shares[p[j]]],
                                        [j \in 1..Count |-> roles[p[j]]])
                        = [j \in 1..Count |-> floors[p[j]]]
  BY DEF AnyOrder
<1>2. floors = SplitCents(gross, shares, roles)
  BY <1>1, Computed DEF ComputesSplit
<1>3. Count \in Nat \ {0} /\ gross \in Int /\ Ranked(1..Count, shares, roles)
  BY <1>1, PartsWhole, DomainsLines DEF IInv
<1>4. \A a, b \in 1..Count : shares[a] = shares[b] /\ roles[a] = roles[b] => a = b
  BY <1>1 DEF NoTies
<1> DEFINE D == 1..Count
           shares2 == [j \in D |-> shares[p[j]]]
           roles2 == [j \in D |-> roles[p[j]]]
<1>5. Matches(p, D, D) /\ D # {}
  BY <1>1, <1>3 DEF Rearranges
<1>6. Ranked(D, shares2, roles2)
  BY <1>3, <1>5 DEF Ranked, Matches
<1>7. /\ Ranked(D, shares, roles)
      /\ \A a, b \in D : shares[a] = shares[b] /\ roles[a] = roles[b] => a = b
      /\ \A j \in D : shares2[j] = shares[p[j]] /\ roles2[j] = roles[p[j]]
  BY <1>3, <1>4
<1> HIDE DEF shares2, roles2, D
<1>8. SplitCents(gross, shares2, roles2) = [j \in D |-> SplitCents(gross, shares, roles)[p[j]]]
  BY <1>3, <1>5, <1>6, <1>7, SplitMatched
<1> QED
  BY <1>2, <1>8 DEF shares2, roles2, D

LEMMA TurnRearranges ==
  ASSUME NEW n \in Nat \ {0}
  PROVE  /\ Rearranges([j \in 1..n |-> n + 1 - j], n)
         /\ Rearranges([j \in 1..n |-> (j % n) + 1], n)
<1>1. Rearranges([j \in 1..n |-> n + 1 - j], n)
  <2> DEFINE p == [j \in 1..n |-> n + 1 - j]
  <2>1. \A j \in 1..n : p[j] = n + 1 - j /\ n + 1 - j \in 1..n
    OBVIOUS
  <2>2. p \in [1..n -> 1..n]
    BY <2>1
  <2> HIDE DEF p
  <2>3. \A a, b \in 1..n : p[a] = p[b] => a = b
    BY <2>1
  <2>4. ASSUME NEW b \in 1..n PROVE \E a \in 1..n : p[a] = b
    <3>1. n + 1 - b \in 1..n /\ n + 1 - (n + 1 - b) = b
      OBVIOUS
    <3> QED
      BY <2>1, <3>1
  <2>5. Matches(p, 1..n, 1..n)
    BY <2>2, <2>3, <2>4 DEF Matches
  <2> QED
    BY <2>5 DEF p, Rearranges
<1>2. Rearranges([j \in 1..n |-> (j % n) + 1], n)
  <2> DEFINE p == [j \in 1..n |-> (j % n) + 1]
  <2>1. ASSUME NEW j \in 1..n PROVE (j % n) + 1 = IF j < n THEN j + 1 ELSE 1
    <3>1. CASE j < n
      BY <3>1
    <3>2. CASE j = n
      <4>1. n = n * 1 /\ 1 \in Int
        OBVIOUS
      <4>2. n % n = 0
        BY <4>1
      <4> QED
        BY <3>2, <4>2
    <3> QED
      BY <3>1, <3>2
  <2>2. \A j \in 1..n : p[j] = IF j < n THEN j + 1 ELSE 1
    BY <2>1
  <2>3. \A j \in 1..n : p[j] \in 1..n
    <3> HIDE DEF p
    <3> QED
      BY <2>2
  <2>4. p \in [1..n -> 1..n]
    BY <2>3
  <2> HIDE DEF p
  <2>5. \A a, b \in 1..n : p[a] = p[b] => a = b
    BY <2>2
  <2>6. ASSUME NEW b \in 1..n PROVE \E a \in 1..n : p[a] = b
    <3>1. CASE b = 1
      BY <2>2, <3>1
    <3>2. CASE b # 1
      <4>1. b - 1 \in 1..n /\ p[b - 1] = b
        BY <2>2, <3>2
      <4> QED
        BY <4>1
    <3> QED
      BY <3>1, <3>2
  <2>7. Matches(p, 1..n, 1..n)
    BY <2>4, <2>5, <2>6 DEF Matches
  <2> QED
    BY <2>7 DEF p, Rearranges
<1> QED
  BY <1>1, <1>2

LEMMA OrderFree ==
  ASSUME IInv, Money
  PROVE  OrderDoesNotMatter
<1>1. SUFFICES ASSUME point = "done", Parts, NoTies
               PROVE  /\ SplitCents(gross, Reversed(shares), Reversed(roles)) = Reversed(floors)
                      /\ SplitCents(gross, Rotated(shares), Rotated(roles)) = Rotated(floors)
  BY DEF OrderDoesNotMatter
<1> DEFINE back == [j \in 1..Count |-> Count + 1 - j]
           turn == [j \in 1..Count |-> (j % Count) + 1]
<1>2. Count \in Nat \ {0} /\ shares \in Seq(Int) /\ roles \in Seq(Nat) /\ Len(roles) = Count
      /\ Len(shares) = Count /\ floors \in [1..Count -> Cents]
  BY <1>1, PartsWhole, DomainsLines DEF IInv, Domains, Count
<1>3. /\ DOMAIN shares = 1..Count /\ DOMAIN roles = 1..Count
      /\ DOMAIN floors = 1..Count /\ floors \in Seq(Cents) /\ Len(floors) = Count
  BY <1>2
<1>4. Rearranges(back, Count) /\ Rearranges(turn, Count)
  BY <1>2, TurnRearranges
<1>5. back \in [1..Count -> 1..Count] /\ turn \in [1..Count -> 1..Count]
  BY <1>4 DEF Rearranges, Matches
<1>6. /\ SplitCents(gross, [j \in 1..Count |-> shares[back[j]]], [j \in 1..Count |-> roles[back[j]]])
           = [j \in 1..Count |-> floors[back[j]]]
      /\ SplitCents(gross, [j \in 1..Count |-> shares[turn[j]]], [j \in 1..Count |-> roles[turn[j]]])
           = [j \in 1..Count |-> floors[turn[j]]]
  <2> HIDE DEF back, turn
  <2> QED
    BY <1>1, <1>4, <1>5, Unordered DEF AnyOrder
<1>7. /\ Reversed(shares) = [j \in 1..Count |-> shares[back[j]]]
      /\ Reversed(roles) = [j \in 1..Count |-> roles[back[j]]]
      /\ Reversed(floors) = [j \in 1..Count |-> floors[back[j]]]
  BY <1>2, <1>3 DEF Reversed
<1>8. /\ Rotated(shares) = [j \in 1..Count |-> shares[turn[j]]]
      /\ Rotated(roles) = [j \in 1..Count |-> roles[turn[j]]]
      /\ Rotated(floors) = [j \in 1..Count |-> floors[turn[j]]]
  BY <1>2, <1>3 DEF Rotated
<1> HIDE DEF back, turn
<1> QED
  BY <1>6, <1>7, <1>8

------------------------------------------------------------------------------
(* The running comparison leads the lines behind it, for any shares.        *)
THEOREM Inductive == SplitSpec => []IInv
  BY InitIInv, InductiveStep, PTL DEF SplitSpec

(* The split keeps every variable in its domain: no amount leaves the width *)
(* of an i64, in either build, for any shares and any number of lines.      *)
THEOREM TypeCorrect == SplitSpec => []SplitTypeOK
<1>1. IInv => SplitTypeOK
  BY DEF IInv, Domains, SplitTypeOK
<1> QED
  BY <1>1, Inductive, PTL

(* deterministic_split_cents pays every line but one its own slice, and the *)
(* one is the first in rank: a later, equal or smaller line never takes the *)
(* remainder from it.                                                      *)
THEOREM RemainderGoesToResidual == SplitSpec => []OnlyResidualAbsorbs
<1>1. IInv => OnlyResidualAbsorbs
  BY DEF IInv
<1> QED
  BY <1>1, Inductive, PTL

(* Beside it the running sum is that of the slices, but for wrapping.       *)
THEOREM MoneyInductive == SplitSpec => [](IInv /\ Money)
<1>1. SplitInit => IInv /\ Money
  BY InitIInv, InitMoney
<1>2. IInv /\ Money /\ [SplitNext]_splitVars => (IInv /\ Money)'
  BY InductiveStep, MoneyStep
<1> QED
  BY <1>1, <1>2, PTL DEF SplitSpec

(* The split creates and loses no cent, for any number of parts of a whole  *)
(* and, where overflows panic, for any shares; wrapped sums agree modulo    *)
(* the width of an i64, whatever that is.                                  *)
THEOREM NoCentLost == SplitSpec => []SumsToGross
  BY MoneyInductive, MoneyConserved, PTL

(* The parts of a whole overflow nothing: deterministic_split_cents cannot  *)
(* panic on them, be the amount the largest or the smallest there is.       *)
THEOREM NeverPanics == SplitSpec => []PartsNeverPanic
<1>1. Money => PartsNeverPanic
  BY DEF Money
<1> QED
  BY <1>1, MoneyInductive, PTL

(* The loops compute the split the settlement audit holds an operator to.   *)
THEOREM SplitComputed == SplitSpec => []ComputesSplit
  BY MoneyInductive, Computed, PTL

(* Of a gross that is not negative no larger part is paid less than a       *)
(* smaller one, every part is within a cent of its exact share, and the one *)
(* that takes the remainder within a cent per line.                        *)
THEOREM RoundsFairly == SplitSpec => []RoundingIsFair
  BY MoneyInductive, Fair, PTL

(* Lines that do not tie are paid the same in whatever order they stand,    *)
(* reversed and rotated in particular.                                     *)
THEOREM OrderIrrelevant == SplitSpec => [](AnyOrder /\ OrderDoesNotMatter)
<1>1. IInv /\ Money => AnyOrder /\ OrderDoesNotMatter
  BY Unordered, OrderFree
<1> QED
  BY <1>1, MoneyInductive, PTL
==============================================================================
