---------------------------- MODULE MCTenantChain -----------------------------
(* Histories of up to three rows, from the first number or at the limit of  *)
(* a two-bit counter, under the right seed, another tenant's or none; two    *)
(* changes, enough to alter a row and seal it again.                       *)
EXTENDS TenantChain

CONSTANTS h1, h2

MCHistories == {<<h1>>, <<h1, h2>>, <<h2, h1, h2>>}
MCStarts == {0, 2, 3}
==============================================================================
