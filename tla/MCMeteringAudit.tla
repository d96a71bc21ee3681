--------------------------- MODULE MCMeteringAudit ---------------------------
(* Packs of up to two receipts, one with a repeated id; dwells whose        *)
(* seconds and minutes are cut off; every unit type; two changes.          *)
EXTENDS MeteringAudit, TLC

CONSTANTS r1, r2, r3

At(r, dwell) == [id |-> r, dwell |-> dwell]
Bill(r, unit, weight) == [receipt |-> r, unit |-> unit, weight |-> weight]

MCPacks == {<<At(r1, 61005), At(r2, 1999)>>, <<At(r1, 1999), At(r1, -700)>>, <<At(r2, 0)>>}

MCPlans ==
  {<<Bill(r1, "DWELL_SECONDS", 1500), Bill(r2, "DWELL_SECONDS", 330)>>,
   <<Bill(r1, "COMPLIANT_DELIVERY_MINUTE", 1000), Bill(r1, "IMPRESSION_IN_PLACE", 1000)>>,
   <<Bill(r2, "OCCUPANCY_WEIGHTED_EXPOSURE", 10), Bill(r2, "ATTENTION_SECONDS", -1010)>>,
   <<Bill(r1, "IMPRESSION_IN_PLACE", 0)>>, << >>}

Interchangeable == Permutations(Org)
==============================================================================
