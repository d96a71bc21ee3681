----------------------------- MODULE ProofChain ------------------------------
(***************************************************************************)
(* verify_proof_chain: the walk that decides whether a pack's receipts     *)
(* form one hash chain hanging off the anchor the caller supplies.         *)
(*                                                                         *)
(* One action per decision the function takes: the empty-pack return, the  *)
(* genesis check, one iteration of the continuity-and-ordering loop, one   *)
(* iteration of the nonce loop, and the roll-up.  `records` and `prior`    *)
(* are the arguments; nothing writes them.                                 *)
(*                                                                         *)
(* Hashes and nonces are opaque values that the function only compares.    *)
(* An `issuedAt` is an integer instant, or BadInstant when it does not     *)
(* parse as RFC 3339 (parse_iso returns None).                             *)
(***************************************************************************)
EXTENDS Audit

CONSTANTS Hash, Nonce, Instant,
          NoHash,       \* an absent beforeHash / prior_after_hash
          BadInstant,   \* an issuedAt that does not parse
          Packs         \* the record sequences handed to the verifier

Record == [before : Hash \cup {NoHash}, after : Hash,
           issued : Instant \cup {BadInstant}, nonce : Nonce]

ASSUME ChainAssumption ==
  /\ NoHash \notin Hash
  /\ Instant \subseteq Int
  /\ BadInstant \notin Int
  /\ Packs \subseteq Seq(Record)

VARIABLES records, prior,   \* the arguments
          pc, i,            \* control point and loop index
          prevMs,           \* prev_issued_at_ms
          seen,             \* seen_nonce: nonce -> index of its first holder
          reuse,            \* nonce_reuse
          steps, status     \* the report

vars == <<records, prior, pc, i, prevMs, seen, reuse, steps, status>>

Init ==
  /\ records \in Packs
  /\ prior \in Hash \cup {NoHash}
  /\ pc = "genesis" /\ i = 1
  /\ prevMs = BadInstant
  /\ seen = << >> /\ reuse = 0
  /\ steps = {} /\ status = "pending"

------------------------------------------------------------------------------
(* A zero-record pack is refused at once. *)
RejectEmpty ==
  /\ pc = "genesis" /\ records = << >>
  /\ steps' = {Fault("records", 0, "MALFORMED_PACK")}
  /\ status' = "INVALID" /\ pc' = "done"
  /\ UNCHANGED <<records, prior, i, prevMs, seen, reuse>>

GenesisReason ==
  IF prior = NoHash THEN "GENESIS_BEFORE_HASH_NOT_NULL" ELSE "CHAIN_LINK_MISMATCH"

GenesisStep ==
  IF records[1].before = prior
  THEN Ok("beforeHash", 1) ELSE Fault("beforeHash", 1, GenesisReason)

(* The first record must hang off the anchor; its instant seeds the walk. *)
CheckGenesis ==
  /\ pc = "genesis" /\ records # << >>
  /\ steps' = {GenesisStep}
  /\ prevMs' = records[1].issued
  /\ i' = 2 /\ pc' = "walk"
  /\ UNCHANGED <<records, prior, seen, reuse, status>>

LinkStep(k) ==
  CASE records[k].before = NoHash ->
         Fault("beforeHash", k, "GENESIS_BEFORE_HASH_NOT_NULL")
    [] records[k].before \notin {NoHash, records[k - 1].after} ->
         Fault("beforeHash", k, "CHAIN_LINK_MISMATCH")
    [] OTHER -> Ok("beforeHash", k)

\* Mutation: an equal instant is taken for a step back in time.
StepsBack_Strict(k) ==
  prevMs # BadInstant /\ records[k].issued # BadInstant /\ records[k].issued <= prevMs

StepsBack(k) ==
  prevMs # BadInstant /\ records[k].issued # BadInstant /\ records[k].issued < prevMs

\* Mutation: the walk stops at the first record whose link is broken.
WalkRecord_StopAtFault ==
  /\ pc = "walk" /\ i <= Len(records)
  /\ steps' = steps \cup {LinkStep(i)} \cup
       {s \in {Fault("issuedAt", i, "CHAIN_OUT_OF_ORDER")} : StepsBack(i)}
  /\ prevMs' = records[i].issued
  /\ IF LinkStep(i).status = "INVALID" THEN i' = 1 /\ pc' = "nonces"
     ELSE i' = i + 1 /\ UNCHANGED pc
  /\ UNCHANGED <<records, prior, seen, reuse, status>>

\* Mutation: every instant is compared with the first record's.
WalkRecord_KeepFirstInstant ==
  /\ pc = "walk" /\ i <= Len(records)
  /\ steps' = steps \cup {LinkStep(i)} \cup
       {s \in {Fault("issuedAt", i, "CHAIN_OUT_OF_ORDER")} : StepsBack(i)}
  /\ i' = i + 1
  /\ UNCHANGED <<records, prior, pc, prevMs, seen, reuse, status>>

(* One iteration of the loop over records[1..]: the link to the record     *)
(* before, then the order of the two instants when both of them parse.     *)
WalkRecord ==
  /\ pc = "walk" /\ i <= Len(records)
  /\ steps' = steps \cup {LinkStep(i)} \cup
       {s \in {Fault("issuedAt", i, "CHAIN_OUT_OF_ORDER")} : StepsBack(i)}
  /\ prevMs' = records[i].issued
  /\ i' = i + 1
  /\ UNCHANGED <<records, prior, pc, seen, reuse, status>>

StartNonces ==
  /\ pc = "walk" /\ i > Len(records)
  /\ i' = 1 /\ pc' = "nonces"
  /\ UNCHANGED <<records, prior, prevMs, seen, reuse, steps, status>>

Remember(f, n, k) == [m \in DOMAIN f \cup {n} |-> IF m = n THEN k ELSE f[m]]

\* Mutation: a repeat overwrites the map entry of the nonce's first holder.
CheckNonce_Overwriting ==
  /\ pc = "nonces" /\ i <= Len(records)
  /\ LET n == records[i].nonce IN
     /\ seen' = Remember(seen, n, i)
     /\ IF n \in DOMAIN seen
        THEN /\ reuse' = reuse + 1
             /\ steps' = steps \cup
                  {Step(<<"nonce", i, seen[n]>>, "INVALID", "CHAIN_NONCE_REUSED")}
        ELSE UNCHANGED <<reuse, steps>>
  /\ i' = i + 1
  /\ UNCHANGED <<records, prior, pc, prevMs, status>>

(* One iteration of the nonce loop: a repeat is reported with the index of *)
(* the nonce's first holder (detail.firstIndex), a new nonce is remembered. *)
CheckNonce ==
  /\ pc = "nonces" /\ i <= Len(records)
  /\ LET n == records[i].nonce IN
     IF n \in DOMAIN seen
     THEN /\ reuse' = reuse + 1
          /\ steps' = steps \cup
               {Step(<<"nonce", i, seen[n]>>, "INVALID", "CHAIN_NONCE_REUSED")}
          /\ UNCHANGED seen
     ELSE /\ seen' = Remember(seen, n, i)
          /\ UNCHANGED <<reuse, steps>>
  /\ i' = i + 1
  /\ UNCHANGED <<records, prior, pc, prevMs, status>>

RollUp ==
  /\ pc = "nonces" /\ i > Len(records)
  /\ steps' = steps \cup {s \in {Ok("nonce", 0)} : reuse = 0}
  /\ status' = Verdict(steps') /\ pc' = "done"
  /\ UNCHANGED <<records, prior, i, prevMs, seen, reuse>>

\* The report is the caller's.  With this step a deadlock is a walk that is
\* stuck before its verdict.
Returned == pc = "done" /\ UNCHANGED vars

\* The verifier's own steps.
Walk ==
  \/ RejectEmpty \/ CheckGenesis \/ WalkRecord
  \/ StartNonces \/ CheckNonce \/ RollUp

Next == Walk \/ Returned

Spec == Init /\ [][Next]_vars

------------------------------------------------------------------------------
(* What the report promises, stated over the arguments alone.              *)

Anchored == records # << >> /\ records[1].before = prior

Linked == \A k \in 2..Len(records) : records[k].before = records[k - 1].after

\* Consecutive instants do not decrease where both of them parse.
Ordered(k) ==
  {records[k - 1].issued, records[k].issued} \subseteq Instant =>
    records[k - 1].issued <= records[k].issued

InOrder == \A k \in 2..Len(records) : Ordered(k)

NoncesDistinct ==
  \A j, k \in 1..Len(records) : records[j].nonce = records[k].nonce => j = k

\* A pack that is one chain off its anchor.
Sound == Anchored /\ Linked /\ InOrder /\ NoncesDistinct

(* Every variable stays in its domain.                                     *)
TypeOK ==
  /\ records \in Seq(Record)
  /\ prior \in Hash \cup {NoHash}
  /\ pc \in {"genesis", "walk", "nonces", "done"}
  /\ i \in 1..(Len(records) + 1)
  /\ prevMs \in Instant \cup {BadInstant}
  /\ DOMAIN seen \subseteq Nonce
  /\ \A n \in DOMAIN seen : seen[n] \in 1..Len(records)
  /\ reuse \in Nat
  /\ \A s \in steps : s.status \in Statuses
  /\ status \in {"pending", "VALID", "INVALID"}

(* A pack reported VALID is one chain off the anchor: every record names    *)
(* its predecessor's afterHash, no nonce recurs, no step back in time is    *)
(* visible between neighbours (proof_chain.rs, invariants 1-4).            *)
ValidMeansChained == status = "VALID" => Sound

(* No false alarm: a pack with all of those properties is never refused,    *)
(* whatever records carry equal instants, equal hashes or unparsable times. *)
SoundChainAccepted == Sound => status # "INVALID"

RepeatSteps == {s \in steps : s.reason = "CHAIN_NONCE_REUSED"}

IsRepeat(k) == \E j \in 1..(k - 1) : records[j].nonce = records[k].nonce

\* The step accuses record target[2] and names record target[3].
NamesFirstHolder(s) ==
  LET k == s.target[2]  first == s.target[3] IN
  /\ k \in 1..Len(records) /\ first \in 1..(k - 1)
  /\ records[first].nonce = records[k].nonce
  /\ ~IsRepeat(first)

(* A replayed nonce is traced to its first holder, however many repeats lie *)
(* between: the record a nonce step names is earlier, holds the same nonce  *)
(* and repeats nobody itself; and every repeat is accused.                 *)
ReuseNamesFirstHolder ==
  /\ \A s \in RepeatSteps : NamesFirstHolder(s)
  /\ status # "pending" =>
       \A k \in 1..Len(records) : IsRepeat(k) => \E s \in RepeatSteps : s.target[2] = k

(* The report of a non-empty pack judges the link of every record, exactly  *)
(* once each: no early fault cuts the walk short.                          *)
EveryLinkJudged ==
  status # "pending" =>
    \A k \in 1..Len(records) :
      \E s \in steps : /\ s.target = <<"beforeHash", k>>
                       /\ \A t \in steps : t.target = s.target => t = s

(* proof_chain.rs:15, "issued_at MUST be non-decreasing along the chain":   *)
(* of any two records of a VALID pack, the later has not the earlier time.  *)
OrderedAlongChain ==
  status = "VALID" =>
    \A j, k \in 1..Len(records) :
      j < k /\ {records[j].issued, records[k].issued} \subseteq Instant =>
        records[j].issued <= records[k].issued

AllParse == \A k \in 1..Len(records) : records[k].issued \in Instant

(* What becomes of that promise: it holds whenever every issuedAt parses.   *)
OrderedIfAllParse == AllParse => OrderedAlongChain

------------------------------------------------------------------------------
(* The inductive strengthening of the properties above: what a walk without *)
(* a fault has established of the records behind it, and what its report    *)
(* says of them.                                                           *)

Position ==
  /\ pc \in {"walk", "nonces"} => records # << >>
  /\ pc \in {"genesis", "walk"} => DOMAIN seen = {} /\ reuse = 0
  /\ pc = "walk" => i >= 2 /\ prevMs = records[i - 1].issued
  /\ status = "pending" <=> pc # "done"

\* The records whose link and order have been judged.
Walked ==
  CASE pc = "genesis" -> {}
    [] pc = "walk" -> 2..(i - 1)
    [] OTHER -> 2..Len(records)

\* The records whose nonce has been judged.
Counted ==
  CASE pc \in {"genesis", "walk"} -> {}
    [] pc = "nonces" -> 1..(i - 1)
    [] OTHER -> 1..Len(records)

CleanSoFar ==
  ~AnyInvalid(steps) =>
    /\ pc # "genesis" => Anchored
    /\ \A k \in Walked : records[k].before = records[k - 1].after /\ Ordered(k)
    /\ \A j, k \in Counted : records[j].nonce = records[k].nonce => j = k

SortedSoFar ==
  AllParse /\ ~AnyInvalid(steps) =>
    \A j, k \in 1..Len(records) :
      j < k /\ k \in Walked => records[j].issued <= records[k].issued

NonceMap ==
  pc = "nonces" =>
    /\ DOMAIN seen = {records[k].nonce : k \in Counted}
    /\ \A n \in DOMAIN seen :
         seen[n] \in Counted /\ records[seen[n]].nonce = n /\ ~IsRepeat(seen[n])
    /\ reuse > 0 => AnyInvalid(steps)

RepeatsTraced ==
  /\ \A s \in RepeatSteps : NamesFirstHolder(s)
  /\ \A k \in Counted : IsRepeat(k) => \E s \in RepeatSteps : s.target[2] = k

VerdictFollows == pc = "done" => status = Verdict(steps)

NoFalseAlarm == Sound => ~AnyInvalid(steps)

\* The records whose link has been judged, the first one's to the anchor too.
Judged ==
  CASE pc = "genesis" -> {}
    [] pc = "walk" -> 1..(i - 1)
    [] OTHER -> 1..Len(records)

LinksJudged ==
  /\ \A k \in Judged : \E s \in steps : s.target = <<"beforeHash", k>>
  /\ \A s \in steps : s.target[1] = "beforeHash" => s.target[2] \in Judged
  /\ \A s, t \in steps : s.target[1] = "beforeHash" /\ t.target = s.target => t = s

IInv ==
  /\ TypeOK /\ Position /\ CleanSoFar /\ SortedSoFar
  /\ NonceMap /\ RepeatsTraced /\ VerdictFollows
  /\ NoFalseAlarm /\ LinksJudged
==============================================================================
