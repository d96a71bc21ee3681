------------------------------ MODULE MCAuditor ------------------------------
(* Bundles of one or two receipts, metered and settled, carried in every    *)
(* way, with one change to any part of them; an auditor with the right keys *)
(* or a revoked one.                                                       *)
EXTENDS Auditor, TLC

CONSTANTS k1, pk1, r1, r2, n1, n2, o1, o2, a1, a2

MCInstant == {1, 2}
MCSigner == [id \in KeyId |-> pk1]

Good == [id |-> k1, algorithm |-> "ed25519", material |-> pk1,
         notBefore |-> 1, notAfter |-> NoBound, revokedAt |-> NoBound]
MCDirectories == {(k1 :> Good), (k1 :> [Good EXCEPT !.revokedAt = 1])}

B1 == [id |-> r1, dwell |-> 1999, nonce |-> n1]
B2 == [id |-> r2, dwell |-> 61005, nonce |-> n2]
MCBody == {B1, B2}
MCWideBodies == {B2}

MCCarriages ==
  {<<"bundle", "bundle">>, <<"pack", "pack">>, <<"both", "both">>, <<"bundle", "pack">>,
   <<"pack", "neither">>, <<"neither", "bundle">>, <<"neither", "neither">>}

At(body, t) == [payload |-> [body |-> body, issued |-> t], keyId |-> k1]
Bill(r, unit, weight) == [receipt |-> r, unit |-> unit, weight |-> weight]

\* What is settled, its share a text of that many quarters of the meter.
Of(r, unit, role, account, share) ==
  [meter |-> [receipt |-> r, unit |-> unit], role |-> role, account |-> account,
   share |-> share * Finer]

\* The second pack is anchored at the hash of a receipt of another pack.
MCPlans ==
  {[receipts |-> <<At(B1, 1), At(B2, 2)>>, prior |-> NoHash, org |-> o1, schema |-> "settlement.v2",
    bills |-> <<Bill(r1, "DWELL_SECONDS", 40), Bill(r2, "COMPLIANT_DELIVERY_MINUTE", 60)>>,
    agreement |->
      [gross |-> [m \in {[receipt |-> r1, unit |-> "DWELL_SECONDS"]} |-> 3],
       parts |-> <<Of(r1, "DWELL_SECONDS", "TENANT", a1, 3),
                   Of(r1, "DWELL_SECONDS", "PLATFORM", a1, 1)>>]],
   [receipts |-> <<At(B1, 1)>>, prior |-> [sha256 |-> [other |-> "narrow"]],
    org |-> o1, schema |-> "settlement.v1",
    bills |-> <<Bill(r1, "IMPRESSION_IN_PLACE", 40)>>,
    agreement |->
      [gross |-> [m \in {[receipt |-> r1, unit |-> "IMPRESSION_IN_PLACE"]} |-> -2],
       parts |-> <<Of(r1, "IMPRESSION_IN_PLACE", "VENUE", a2, 4)>>]]}
==============================================================================
