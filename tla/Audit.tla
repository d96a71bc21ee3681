-------------------------------- MODULE Audit --------------------------------
(***************************************************************************)
(* The report vocabulary every verifier of the crate shares: audit steps,  *)
(* their statuses, and the rules that fold the steps of a report into its  *)
(* verdict.                                                                *)
(*                                                                         *)
(* A report's `steps` vector is kept as a set: no verdict depends on the   *)
(* order or on the multiplicity of steps, and a step's target names the    *)
(* field it judges.  A target is a pair <<field, index>>; messages and     *)
(* `detail` objects are left out.  Indices are 1-based (the code's index   *)
(* plus one); index 0 stands for the record set as a whole.                *)
(***************************************************************************)
EXTENDS Integers, Sequences

Statuses == {"VALID", "INVALID", "SKIPPED"}

\* "none" is the absent reason of a VALID step.
Step(target, status, reason) ==
  [target |-> target, status |-> status, reason |-> reason]

Ok(field, k) == Step(<<field, k>>, "VALID", "none")
Fault(field, k, reason) == Step(<<field, k>>, "INVALID", reason)

AnyInvalid(steps) == \E s \in steps : s.status = "INVALID"

\* What the chain, tenant-chain, metering, settlement and export verifiers
\* end with: INVALID if any step is, VALID otherwise.
Verdict(steps) == IF AnyInvalid(steps) THEN "INVALID" ELSE "VALID"

\* The pack report's fold, and the fold of sub-report statuses: a report of
\* SKIPPED steps only is SKIPPED, a mix of VALID and SKIPPED is VALID.
Rollup(statuses) ==
  CASE "INVALID" \in statuses -> "INVALID"
    [] statuses \subseteq {"SKIPPED"} -> "SKIPPED"
    [] OTHER -> "VALID"

RollupStatus(steps) == Rollup({s.status : s \in steps})
==============================================================================
