-------------------------- MODULE MCSettlementAudit --------------------------
(* Two instances side by side, one of them idle in every behaviour.         *)
(*                                                                         *)
(* The audit: agreements over up to two meters and three lines, shares of a *)
(* whole of four, with remainders, ties, a party without a share, refunds   *)
(* and a meter worth nothing; two changes on the way to the audit.         *)
(*                                                                         *)
(* The split: up to three lines of two roles, every gross of a four-bit     *)
(* amount, shares of a whole of four, and shares no agreement would fix,    *)
(* negative or larger than the whole, to reach the overflows.              *)
EXTENDS SettlementAudit, CentSplit, TLC

CONSTANTS m1, m2, m3, a1, a2

Of(m, role, account, share) ==
  [meter |-> m, role |-> role, account |-> account, share |-> Text(share)]

MCAgreements ==
  {[gross |-> (m1 :> 3) @@ (m2 :> 0),
    parts |-> <<Of(m1, "TENANT", a1, 2), Of(m1, "PLATFORM", a1, 2), Of(m2, "TENANT", a1, 4)>>],
   [gross |-> (m1 :> -3) @@ (m2 :> 2),
    parts |-> <<Of(m1, "PLATFORM", a1, 1), Of(m1, "TENANT", a2, 3), Of(m2, "VENUE", a2, 4)>>],
   [gross |-> (m1 :> 5) @@ (m2 :> 1),
    parts |-> <<Of(m1, "TENANT", a1, 2), Of(m1, "TENANT", a2, 2), Of(m1, "VENUE", a1, 0)>>],
   [gross |-> (m1 :> -2),
    parts |-> <<Of(m1, "TENANT", a1, 2), Of(m1, "PLATFORM", a1, 2)>>]}

MCShares == {-3, 0, 1, 2, 3, 4, 9}

MCInputs ==
  UNION {[gross : Cents, shares : [1..n -> MCShares], roles : [1..n -> {1, 2}]] : n \in 0..3}

NothingToAudit ==
  /\ \E org \in Org : metering = [org |-> org, meters |-> {}]
  /\ sealed = [org |-> metering.org, schema |-> "settlement.v2", gross |-> << >>,
               totals |-> NoTotals, lines |-> << >>]
  /\ settlement = sealed /\ altered = 0
  /\ pc = "idle" /\ i = 1 /\ pending = {}
  /\ computed = [gross |-> 0, net |-> 0, fee |-> 0]
  /\ steps = {} /\ status = "pending"

NothingToSplit ==
  /\ gross = 0 /\ shares = << >> /\ roles = << >> /\ checks = FALSE
  /\ point = "idle" /\ k = 1 /\ floors = << >> /\ sum = 0 /\ target = 1

MCInit ==
  \/ Init /\ NothingToSplit
  \/ SplitInit /\ NothingToAudit

MCNext ==
  \/ Next /\ UNCHANGED splitVars
  \/ SplitNext /\ UNCHANGED vars

MCSpec == MCInit /\ [][MCNext]_<<vars, splitVars>>

Interchangeable == Permutations(Org)
==============================================================================
