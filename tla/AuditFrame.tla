------------------------------ MODULE AuditFrame ------------------------------
(* What the verifiers that walk over shipped evidence have in common, and    *)
(* what happens to the evidence before: how often it is changed, what the   *)
(* caller expects of it, and the frame of the call (pc its control point, i *)
(* the record it is at, and the report it builds).                          *)
CONSTANT MaxAlterations    \* changes made between the platform and the audit

VARIABLES altered,         \* how many there were
          expected,        \* expected_org_id, expected_genesis
          pc, i, steps, status
==============================================================================
