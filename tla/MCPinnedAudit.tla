---------------------------- MODULE MCPinnedAudit ----------------------------
(* Lists of up to three keys over two ids, with windows and revocations     *)
(* that exclude, admit or just admit an instant; packs of up to two         *)
(* receipts sealed under two platform keys, two fields of which may be      *)
(* altered, read by auditors who built directories that are right, short of *)
(* a key, out of window, revoked, wrong or unreadable.                     *)
EXTENDS PinnedAudit, TLC

CONSTANTS k1, k2, pk1, pk2, b1, b2

MCInstant == {1, 2}
MCSigner == (k1 :> pk1) @@ (k2 :> pk2)

Good(id) == [id |-> id, algorithm |-> "ed25519", material |-> Signer[id],
             notBefore |-> 1, notAfter |-> NoBound, revokedAt |-> NoBound]

\* The platform always writes notBefore; a bound may be absent or unreadable.
MCKeys == {k \in Key : /\ k.material \in {pk1, pk2, "no point"}
                       /\ k.notBefore \in {1, 2, BadInstant}
                       /\ k.notAfter \in {1, NoBound, BadInstant}
                       /\ k.revokedAt \in {1, NoBound, BadInstant}}

Unbounded == {k \in MCKeys : /\ k.algorithm = "ed25519" /\ k.material # "no point"
                             /\ k.notBefore = 1
                             /\ k.notAfter = NoBound /\ k.revokedAt = NoBound}

\* The third key repeats the first id or the second.
MCKeyLists ==
  UNION {[1..n -> MCKeys] : n \in 0..1}
    \cup {<<k, u>> : k \in MCKeys, u \in Unbounded} \cup [1..3 -> Unbounded]

Both == [id \in {k1, k2} |-> Good(id)]

MCDirectories ==
  {Both, (k1 :> Good(k1))} \cup
  {[Both EXCEPT ![k1] = key] :
     key \in {[Good(k1) EXCEPT !.notAfter = 1], [Good(k1) EXCEPT !.notBefore = 2],
              [Good(k1) EXCEPT !.revokedAt = 1], [Good(k1) EXCEPT !.revokedAt = BadInstant],
              [Good(k1) EXCEPT !.material = pk2], [Good(k1) EXCEPT !.material = "no point"]}}

P(b, t) == [body |-> b, issued |-> t]

MCSealedPacks ==
  {<< >>} \cup {<<<<P(b, t), k1>>>> : b \in Body, t \in Instant \cup {BadInstant}}
    \cup {<<<<P(b1, 1), k1>>, s>> :
            s \in {P(b1, 1), P(b2, 1), P(b1, 2), P(b1, BadInstant)} \X {k1, k2}}
==============================================================================
