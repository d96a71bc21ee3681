----------------------------- MODULE PinnedAudit -----------------------------
(* From the keys an auditor is given to its report on a pack: a constructor *)
(* builds the directory, the Auditor takes it over, and every signature of  *)
(* the pack is judged under it (auditor.rs).                               *)
EXTENDS KeyDirectory, ReceiptAudit

pinnedVars == <<directoryVars, vars>>

PinnedInit ==
  /\ DirectoryInit
  /\ directory = << >> /\ envelope = "none" /\ sealed = << >> /\ records = << >>
  /\ altered = 0 /\ pc = "waiting" /\ i = 1 /\ steps = {} /\ status = "pending"

(* The constructor returns the Auditor, which holds the directory: what was *)
(* local to the construction is gone.  A pack is on its way to it.         *)
Receive ==
  /\ stage = "ready" /\ answer = NoAnswer /\ index \in Directories
  /\ directory' = index
  /\ entry' = "" /\ reply' = "" /\ supplied' = << >> /\ stage' = "returned"
  /\ position' = 1 /\ index' = << >>
  /\ envelope' \in {"envelope.v1", "other"}
  /\ \E pack \in SealedPacks :
       sealed' = [k \in 1..Len(pack) |-> Seal(pack[k][1], pack[k][2])]
  /\ records' = sealed'
  /\ pc' = "transit"
  /\ UNCHANGED <<answer, altered, i, steps, status>>

PinnedNext ==
  \/ DirectoryNext /\ UNCHANGED vars
  \/ Receive
  \/ stage = "returned" /\ Next /\ UNCHANGED directoryVars

PinnedSpec == PinnedInit /\ [][PinnedNext]_pinnedVars
==============================================================================
