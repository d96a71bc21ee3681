----------------------------- MODULE TenantChain ------------------------------
(* verify_tenant_chain: the position of every provenance row a tenant has   *)
(* written, as a chain of hashes over predecessor, row and sequence number  *)
(* (tenant_chain.rs).                                                      *)
(*                                                                         *)
(* The platform writes (external) the chain.  Its links are not signed, so  *)
(* whoever changes a row may seal it again: until the audit at most         *)
(* MaxAlterations rows are changed, dropped, moved, repeated or resealed.   *)
(* The hash is its free constructor; the genesis seed of a tenant differs   *)
(* in length from every hash.  A sequence number is a u64; one that is      *)
(* larger, or BadSequence, is a text that does not parse as one.            *)
EXTENDS Audit, AuditFrame

CONSTANTS RowHash,
          Tenant,
          BadSequence,
          Limit,          \* 2^64 - 1
          Histories,      \* row hash sequences a tenant may have written
          Starts          \* sequence numbers of their first rows

ASSUME TenantAssumption ==
  /\ Limit \in Nat /\ BadSequence \notin Int
  /\ Histories \subseteq Seq(RowHash) /\ Starts \subseteq 0..Limit
  /\ MaxAlterations \in Nat

\* genesis_chain_tip, "provenance.tenantChain.v1.org", of every tenant.
Tip == {[org |-> org] : org \in Tenant}

\* An absent tenantChainPrev, or an empty one.
NoPrev == [absent |-> TRUE]

\* sha256 of "tenantChain.v1|prev|row|sequence".
Link(prev, row, sequence) == [prev |-> prev, row |-> row, sequence |-> sequence]

Sealed(r) == Link(r.prev, r.row, r.sequence)

\* The chain the platform writes over a history.
Written(root, history, start) ==
  LET link[k \in 0..Len(history)] ==
        IF k = 0 THEN root ELSE Link(link[k - 1], history[k], start + k - 1)
  IN  [k \in DOMAIN history |->
         [prev |-> link[k - 1], row |-> history[k], sequence |-> start + k - 1,
          next |-> link[k]]]

VARIABLES written, rows,      \* the chain as written, and under audit
          checks,             \* built with overflow checks
          prevSequence

tenantVars == <<written, rows, expected, checks, altered, pc, i, prevSequence, steps, status>>

TenantInit ==
  /\ \E root \in Tip \cup {NoPrev}, history \in Histories, start \in Starts :
       written = Written(root, history, start)
  /\ rows = written
  /\ expected \in Tip \cup {NoPrev}
  /\ checks \in BOOLEAN
  /\ altered = 0
  /\ pc = "transit" /\ i = 1 /\ prevSequence = BadSequence
  /\ steps = {} /\ status = "pending"

------------------------------------------------------------------------------
(* Changes between the platform and the audit.                             *)

Change(changed) ==
  /\ pc = "transit" /\ altered < MaxAlterations /\ changed # rows
  /\ rows' = changed
  /\ altered' = altered + 1
  /\ UNCHANGED <<written, expected, checks, pc, i, prevSequence, steps, status>>

WrittenLinks == {written[k].next : k \in DOMAIN written}

NewRows(r) ==
  {[r EXCEPT !.row = h] : h \in RowHash}
    \cup {[r EXCEPT !.prev = p] : p \in WrittenLinks \cup Tip \cup {NoPrev}}
    \cup {[r EXCEPT !.next = n] : n \in WrittenLinks \cup {Sealed(r)}}
    \cup {[r EXCEPT !.sequence = n] : n \in {0, Limit, BadSequence}}

AlterRow(k) == \E r \in NewRows(rows[k]) : Change([rows EXCEPT ![k] = r])

DropRow(k) == Change(SubSeq(rows, 1, k - 1) \o SubSeq(rows, k + 1, Len(rows)))

RepeatRow(k) == Change(SubSeq(rows, 1, k) \o SubSeq(rows, k, Len(rows)))

SwapRows(k) == k < Len(rows) /\ Change([rows EXCEPT ![k] = rows[k + 1], ![k + 1] = rows[k]])

------------------------------------------------------------------------------
RejectEmpty ==
  /\ pc = "transit" /\ rows = << >>
  /\ steps' = {Fault("records", 0, "MALFORMED_PACK")}
  /\ status' = "INVALID" /\ pc' = "done"
  /\ UNCHANGED <<written, rows, expected, checks, altered, i, prevSequence>>

\* Mutation: only the first row is held against its predecessor.
LinkStep_GenesisOnly(k, link) ==
  IF k > 1 \/ rows[k].prev = link THEN Ok("tenantChainPrev", k)
  ELSE Fault("tenantChainPrev", k, "CHAIN_LINK_MISMATCH")

LinkStep(k, link) ==
  IF rows[k].prev = link THEN Ok("tenantChainPrev", k)
  ELSE Fault("tenantChainPrev", k, "CHAIN_LINK_MISMATCH")

(* The first row must hang off the expected genesis seed.                  *)
CheckGenesis ==
  /\ pc = "transit" /\ rows # << >>
  /\ steps' = {LinkStep(1, expected)}
  /\ pc' = "walk"
  /\ UNCHANGED <<written, rows, expected, checks, altered, i, prevSequence, status>>

AtRow == pc = "walk" /\ i <= Len(rows)

Parses(sequence) == sequence \in 0..Limit

(* A row whose sequence does not parse is left at that: its links are not   *)
(* judged, and the next row is held against the row before it.             *)
RowWithBadSequence ==
  /\ AtRow /\ ~Parses(rows[i].sequence)
  /\ steps' = steps \cup {Fault("tenantChainSequence", i, "MALFORMED_PACK")}
  /\ i' = i + 1
  /\ UNCHANGED <<written, rows, expected, checks, altered, pc, prevSequence, status>>

(* prev_seq + 1 panics at the limit of a u64 when overflow is checked.     *)
SequenceOverflows ==
  /\ AtRow /\ Parses(rows[i].sequence) /\ prevSequence = Limit /\ checks
  /\ pc' = "panicked"
  /\ UNCHANGED <<written, rows, expected, checks, altered, i, prevSequence, steps, status>>

\* Mutation: a sequence number only has to be larger than the last one.
Follows_Larger(sequence) == prevSequence = BadSequence \/ sequence > prevSequence

\* Without checks prev_seq + 1 wraps to zero.
Follows(sequence) ==
  prevSequence = BadSequence \/ sequence = (prevSequence + 1) % (Limit + 1)

Recomputed(r) == r.next = Sealed(r)

\* Mutation: the links of a row are judged only when its sequence follows.
JudgeRow_SequenceFirst ==
  /\ AtRow /\ Parses(rows[i].sequence) /\ ~(prevSequence = Limit /\ checks)
  /\ steps' = steps
       \cup (IF Follows(rows[i].sequence)
             THEN {LinkStep(k, rows[k - 1].next) : k \in {i} \ {1}}
                    \cup {IF Recomputed(rows[i]) THEN Ok("tenantChainNext", i)
                          ELSE Fault("tenantChainNext", i, "CHAIN_LINK_MISMATCH")}
             ELSE {Fault("tenantChainSequence", i, "CHAIN_OUT_OF_ORDER")})
  /\ prevSequence' = rows[i].sequence
  /\ i' = i + 1
  /\ UNCHANGED <<written, rows, expected, checks, altered, pc, status>>

\* Mutation: every row's sequence is held against the first row's.
JudgeRow_FirstSequenceKept ==
  /\ AtRow /\ Parses(rows[i].sequence) /\ ~(prevSequence = Limit /\ checks)
  /\ steps' = steps
       \cup {s \in {Fault("tenantChainSequence", i, "CHAIN_OUT_OF_ORDER")} :
               ~Follows(rows[i].sequence)}
       \cup {LinkStep(k, rows[k - 1].next) : k \in {i} \ {1}}
       \cup {IF Recomputed(rows[i]) THEN Ok("tenantChainNext", i)
             ELSE Fault("tenantChainNext", i, "CHAIN_LINK_MISMATCH")}
  /\ prevSequence' = IF prevSequence = BadSequence THEN rows[i].sequence ELSE prevSequence
  /\ i' = i + 1
  /\ UNCHANGED <<written, rows, expected, checks, altered, pc, status>>

(* One row: its sequence, its link to the row before, and its own link.     *)
JudgeRow ==
  /\ AtRow /\ Parses(rows[i].sequence) /\ ~(prevSequence = Limit /\ checks)
  /\ steps' = steps
       \cup {s \in {Fault("tenantChainSequence", i, "CHAIN_OUT_OF_ORDER")} :
               ~Follows(rows[i].sequence)}
       \cup {LinkStep(k, rows[k - 1].next) : k \in {i} \ {1}}
       \cup {IF Recomputed(rows[i]) THEN Ok("tenantChainNext", i)
             ELSE Fault("tenantChainNext", i, "CHAIN_LINK_MISMATCH")}
  /\ prevSequence' = rows[i].sequence
  /\ i' = i + 1
  /\ UNCHANGED <<written, rows, expected, checks, altered, pc, status>>

RollUp ==
  /\ pc = "walk" /\ i > Len(rows)
  /\ status' = Verdict(steps) /\ pc' = "done"
  /\ UNCHANGED <<written, rows, expected, checks, altered, i, prevSequence, steps>>

Returned == pc \in {"done", "panicked"} /\ UNCHANGED tenantVars

TenantNext ==
  \/ \E k \in DOMAIN rows : AlterRow(k) \/ DropRow(k) \/ RepeatRow(k) \/ SwapRows(k)
  \/ RejectEmpty \/ CheckGenesis \/ RowWithBadSequence \/ SequenceOverflows
  \/ JudgeRow \/ RollUp \/ Returned

TenantSpec == TenantInit /\ [][TenantNext]_tenantVars

------------------------------------------------------------------------------
\* Where a row differs from the one the platform wrote there.
Changed == {k \in DOMAIN rows : k \notin DOMAIN written \/ rows[k] # written[k]}

Accused == {s.target[2] : s \in {t \in steps : t.status = "INVALID"}}

\* No row carries a link the platform did not write.
NoneResealed == \A k \in DOMAIN rows : rows[k].next \in WrittenLinks

(* Every variable stays in its domain.                                     *)
TenantTypeOK ==
  /\ \A k \in DOMAIN rows : rows[k].row \in RowHash
  /\ Len(rows) <= Len(written) + MaxAlterations
  /\ expected \in Tip \cup {NoPrev} /\ checks \in BOOLEAN
  /\ altered \in 0..MaxAlterations
  /\ pc \in {"transit", "walk", "done", "panicked"}
  /\ i \in 1..(Len(rows) + 1)
  /\ prevSequence = BadSequence \/ Parses(prevSequence)
  /\ \A s \in steps : s.status \in Statuses
  /\ status \in {"pending", "VALID", "INVALID"}

(* A VALID chain is unbroken from the expected genesis on: every row names  *)
(* its predecessor's link, its own link seals what it shows, and the        *)
(* sequence numbers count up by one (tenant_chain.rs, invariants 1-3).      *)
ValidMeansUnbroken ==
  status = "VALID" =>
    /\ rows # << >> /\ rows[1].prev = expected
    /\ \A k \in DOMAIN rows : Parses(rows[k].sequence) /\ rows[k].next = Sealed(rows[k])
    /\ \A k \in 2..Len(rows) :
         /\ rows[k].prev = rows[k - 1].next
         /\ (rows[k].sequence - rows[k - 1].sequence - 1) % (Limit + 1) = 0

(* One tip, one history: a VALID chain that ends in a link the platform     *)
(* wrote is what the platform wrote up to there.  No row was changed,       *)
(* dropped, moved or inserted, resealed or not; only the tail may be short. *)
SameTipSameHistory ==
  status = "VALID" /\ expected = written[1].prev =>
    \A n \in DOMAIN written :
      rows[Len(rows)].next = written[n].next => rows = SubSeq(written, 1, n)

(* Until links are resealed, the first row accused is the first one that is *)
(* not as written, and nothing is accused if there is none.                *)
AccusesFirstChange ==
  /\ status # "pending" /\ rows # << >> /\ NoneResealed
  /\ expected = written[1].prev /\ \A k \in DOMAIN written : Parses(written[k].sequence)
  => /\ Accused = {} <=> Changed = {}
     /\ \A k \in Changed : \E a \in Accused : a <= k
     /\ \A a \in Accused : \E k \in Changed : k <= a

(* Every row is judged whatever the rows before it: by its own link, or as  *)
(* one whose sequence does not parse.                                      *)
EveryRowJudged ==
  status # "pending" =>
    \A k \in DOMAIN rows :
      \E s \in steps :
        s.target = <<IF Parses(rows[k].sequence) THEN "tenantChainNext"
                     ELSE "tenantChainSequence", k>>

(* tenant_chain.rs:93-94: "records[i].tenant_chain_sequence MUST equal      *)
(* records[i-1].tenant_chain_sequence + 1".                                *)
SequenceCountsUp ==
  status = "VALID" =>
    \A k \in 2..Len(rows) : rows[k].sequence = rows[k - 1].sequence + 1
==============================================================================
