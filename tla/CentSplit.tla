------------------------------ MODULE CentSplit ------------------------------
(* deterministic_split_cents as the loops run: the slices, their sum, the   *)
(* search for the line that takes the remainder, and the remainder's        *)
(* absorption.  An amount is an i64, here an integer of -Half..Half-1;      *)
(* products are i128 and taken to be unbounded.  Overflow of an i64 panics  *)
(* in a build with overflow checks and wraps in one without.               *)
EXTENDS CentMath

CONSTANTS Half,        \* 2^63
          Inputs       \* records [gross, shares, roles] the split is called with

Cents == -Half..(Half - 1)

ASSUME SplitAssumption ==
  /\ Half \in Nat \ {0}
  /\ \A in \in Inputs : /\ in.gross \in Cents
                        /\ in.shares \in Seq(Int) /\ in.roles \in Seq(Nat)
                        /\ Len(in.roles) = Len(in.shares)

VARIABLES gross, shares, roles,   \* the arguments; roles by lexical rank
          checks,                 \* built with overflow checks
          point, k, floors, sum, target

splitVars == <<gross, shares, roles, checks, point, k, floors, sum, target>>

Wrap(n) == ((n + Half) % (2 * Half)) - Half

SplitInit ==
  /\ \E in \in Inputs : gross = in.gross /\ shares = in.shares /\ roles = in.roles
  /\ checks \in BOOLEAN
  /\ point = "slice" /\ k = 1 /\ floors = << >> /\ sum = 0 /\ target = 1

Count == Len(shares)

\* What an i64 can hold.
Fits(n) == n \in Cents

Overflows(n) == checks /\ ~Fits(n)

Panic ==
  /\ point' = "panicked"
  /\ UNCHANGED <<gross, shares, roles, checks, k, floors, sum, target>>

\* Mutation: the products are i64 too.
CutSlices_NarrowProduct ==
  /\ point = "slice"
  /\ IF \E j \in 1..Count : Overflows(gross * shares[j]) THEN Panic
     ELSE /\ floors' = [j \in 1..Count |-> Quotient(Wrap(gross * shares[j]), Scale)]
          /\ point' = "sum"
          /\ UNCHANGED <<gross, shares, roles, checks, k, sum, target>>

(* Every line's slice; the cast to i64 wraps in either build.              *)
CutSlices ==
  /\ point = "slice"
  /\ floors' = [j \in 1..Count |-> Wrap(Slice(gross, shares[j]))]
  /\ point' = "sum"
  /\ UNCHANGED <<gross, shares, roles, checks, k, sum, target>>

AddSlice ==
  /\ point = "sum" /\ k <= Count /\ ~Overflows(sum + floors[k])
  /\ sum' = Wrap(sum + floors[k])
  /\ k' = k + 1
  /\ UNCHANGED <<gross, shares, roles, checks, point, floors, target>>

AddOverflows ==
  /\ point = "sum" /\ k <= Count /\ Overflows(sum + floors[k])
  /\ Panic

\* Mutation: the remainder is absorbed only when it is positive.
RemainderLeft_Positive == Wrap(gross - sum) > 0

RemainderLeft == Wrap(gross - sum) # 0

(* Without a remainder, or without lines, the slices are the answer.       *)
NoRemainder ==
  /\ point = "sum" /\ k > Count /\ ~Overflows(gross - sum)
  /\ ~RemainderLeft \/ Count = 0
  /\ point' = "done"
  /\ UNCHANGED <<gross, shares, roles, checks, k, floors, sum, target>>

SeekTarget ==
  /\ point = "sum" /\ k > Count /\ ~Overflows(gross - sum)
  /\ RemainderLeft /\ Count > 0
  /\ point' = "seek" /\ k' = 2
  /\ UNCHANGED <<gross, shares, roles, checks, floors, sum, target>>

RemainderOverflows ==
  /\ point = "sum" /\ k > Count /\ Overflows(gross - sum)
  /\ Panic

\* Mutation: the last of equally ranked lines takes the lead.
Compare_LastOfEquals ==
  /\ point = "seek" /\ k <= Count
  /\ target' = IF Outranks(shares, roles, target, k) THEN target ELSE k
  /\ k' = k + 1
  /\ UNCHANGED <<gross, shares, roles, checks, point, floors, sum>>

(* One iteration of the search: a strictly better line takes the lead.     *)
Compare ==
  /\ point = "seek" /\ k <= Count
  /\ target' = IF Outranks(shares, roles, k, target) THEN k ELSE target
  /\ k' = k + 1
  /\ UNCHANGED <<gross, shares, roles, checks, point, floors, sum>>

Absorbed == floors[target] + Wrap(gross - sum)

Absorb ==
  /\ point = "seek" /\ k > Count /\ ~Overflows(Absorbed)
  /\ floors' = [floors EXCEPT ![target] = Wrap(Absorbed)]
  /\ point' = "done"
  /\ UNCHANGED <<gross, shares, roles, checks, k, sum, target>>

AbsorbOverflows ==
  /\ point = "seek" /\ k > Count /\ Overflows(Absorbed)
  /\ Panic

SplitReturned == point \in {"done", "panicked"} /\ UNCHANGED splitVars

SplitNext ==
  \/ CutSlices \/ AddSlice \/ AddOverflows \/ NoRemainder \/ SeekTarget
  \/ RemainderOverflows \/ Compare \/ Absorb \/ AbsorbOverflows \/ SplitReturned

SplitSpec == SplitInit /\ [][SplitNext]_splitVars

------------------------------------------------------------------------------
\* The shares of one meter as an agreement fixes them: parts of a whole.
Parts == (\A j \in 1..Count : shares[j] >= 0) /\ Total(shares) = Scale

(* Every variable stays in its domain.                                     *)
SplitTypeOK ==
  /\ gross \in Cents /\ sum \in Cents
  /\ shares \in Seq(Int) /\ roles \in Seq(Nat) /\ checks \in BOOLEAN
  /\ point \in {"slice", "sum", "seek", "done", "panicked"}
  /\ k \in 1..(Count + 2) /\ target \in 1..(Count + 1)
  /\ point \in {"sum", "seek", "done"} => floors \in [1..Count -> Cents]

(* Not a cent is created or lost: the parts of a whole add up to it, and in *)
(* a build with overflow checks any shares do; wrapped sums agree modulo    *)
(* the width of the amounts.                                               *)
SumsToGross ==
  point = "done" /\ Count > 0 =>
    /\ Parts \/ checks => Total(floors) = gross
    /\ (Total(floors) - gross) % (2 * Half) = 0

(* Parts of a whole never overflow, in either build.                       *)
PartsNeverPanic == Parts => point # "panicked"

(* The rounding of what is not a refund is fair: a larger part is never     *)
(* paid less than a smaller one, and every part is within a cent of its     *)
(* exact share but the one that takes the remainder, which is less than a   *)
(* cent per line away.                                                     *)
RoundingIsFair ==
  point = "done" /\ Parts /\ gross >= 0 =>
    /\ \A j, l \in 1..Count :
         shares[j] > shares[l] \/ (shares[j] = shares[l] /\ roles[j] < roles[l])
           => floors[j] >= floors[l]
    /\ \A j \in 1..Count :
         LET error == floors[j] * Scale - gross * shares[j] IN
         IF j = Residual(shares, roles) THEN error \in 0..(Count * Scale - 1)
         ELSE error \in (1 - Scale)..0

(* The loops compute the split that the settlement audit is stated with.    *)
ComputesSplit ==
  point = "done" /\ Parts => floors = SplitCents(gross, shares, roles)

\* No two lines tie on both share and role.
NoTies == \A j, l \in 1..Count :
            shares[j] = shares[l] /\ roles[j] = roles[l] => j = l

Reversed(s) == [j \in DOMAIN s |-> s[Len(s) + 1 - j]]
Rotated(s) == [j \in DOMAIN s |-> s[(j % Len(s)) + 1]]

(* The order in which a settlement lists its lines does not move a cent,    *)
(* unless two lines tie on share and role: reversal and rotation generate   *)
(* every order of three lines.                                             *)
OrderDoesNotMatter ==
  point = "done" /\ Parts /\ NoTies =>
    /\ SplitCents(gross, Reversed(shares), Reversed(roles)) = Reversed(floors)
    /\ SplitCents(gross, Rotated(shares), Rotated(roles)) = Rotated(floors)
==============================================================================
