------------------------------ MODULE CentMath -------------------------------
(* The fixed-point arithmetic of the metering and settlement audits.       *)
(*                                                                         *)
(* A decimal is a number scaled by Scale (10^6 in the code, 6 places).  A   *)
(* decimal text may carry more places than that: it is a number of         *)
(* 1/(Scale * Finer), or BadDecimal when it does not parse.                *)
EXTENDS Integers, Sequences, Functions

CONSTANTS Scale, Finer, BadDecimal

ASSUME ScaleAssumption ==
  Scale \in Nat \ {0} /\ Finer \in Nat \ {0} /\ BadDecimal \notin Int

\* Rust's integer division: towards zero (TLA+'s \div is towards minus infinity).
Quotient(a, b) == IF a >= 0 THEN a \div b ELSE -((-a) \div b)

\* parse_decimal_to_scaled: digits beyond the last place are cut off.
Parse(text) == IF text = BadDecimal THEN BadDecimal ELSE Quotient(text, Finer)

ParseOrZero(text) == IF text = BadDecimal THEN 0 ELSE Parse(text)

\* The text of a number without excess digits.
Text(n) == n * Finer

\* The sum of a function's values, of a sequence's in particular.
Total(f) == FoldFunction(+, 0, f)

------------------------------------------------------------------------------
(* deterministic_split_cents, as a function of its arguments: every line    *)
(* gets its share of gross cut to the cent, and what is left over goes to   *)
(* the largest share, of those to the lexically smallest role, of those to  *)
(* the line that comes first.                                              *)

\* Mutation: a slice is rounded to the nearest cent.
Slice_Nearest(gross, share) == Quotient(2 * gross * share + Scale, 2 * Scale)

Slice(gross, share) == Quotient(gross * share, Scale)

\* Mutation: among equal shares the roles are not looked at.
Outranks_ByShareOnly(shares, roles, j, k) == shares[j] > shares[k]

\* Line j takes the remainder rather than line k.
Outranks(shares, roles, j, k) ==
  shares[j] > shares[k] \/ (shares[j] = shares[k] /\ roles[j] < roles[k])

Residual(shares, roles) ==
  CHOOSE t \in DOMAIN shares :
    \A k \in DOMAIN shares \ {t} :
      Outranks(shares, roles, t, k) \/ (~Outranks(shares, roles, k, t) /\ t < k)

SplitCents(gross, shares, roles) ==
  LET slices == [k \in DOMAIN shares |-> Slice(gross, shares[k])]
  IN  IF DOMAIN shares = {} THEN shares
      ELSE [slices EXCEPT ![Residual(shares, roles)] = @ + gross - Total(slices)]
==============================================================================
