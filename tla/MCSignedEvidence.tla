-------------------------- MODULE MCSignedEvidence ---------------------------
(* Sets of up to two provenance rows, and exports from three pairs, with    *)
(* the directories an auditor may hold; two fields altered.                *)
EXTENDS SignedEvidence, TLC

CONSTANTS k1, k2, ledger,       \* two signing keys; the tag of unsigned rows
          pk1, pk2,
          o1, o2, e1, e2,       \* orgs; events
          x1, x2,               \* what pointers point to
          c1, c2                \* contents of exports

MCInstant == {1, 2}
MCSigner == (k1 :> pk1) @@ (k2 :> pk2)

Good(id) == [id |-> id, algorithm |-> "ed25519", material |-> MCSigner[id],
             notBefore |-> 1, notAfter |-> NoBound, revokedAt |-> NoBound]

Both == [id \in {k1, k2} |-> Good(id)]

MCDirectories ==
  {Both} \cup
  {[Both EXCEPT ![k1] = key] :
     key \in {[Good(k1) EXCEPT !.revokedAt = 1], [Good(k1) EXCEPT !.material = pk2],
              [Good(k1) EXCEPT !.material = "undecodable"],
              [Good(k1) EXCEPT !.material = "no point"]}}

Row(org, event, right, after, at, id, isSigned) ==
  [signed |-> isSigned,
   claims |-> ("org" :> org) @@ ("event" :> event) @@ ("rightId" :> right)
                @@ ("afterHash" :> after) @@ ("at" :> at) @@ ("keyId" :> id)]

Row1 == Row(o1, e1, x1, "none", 1, k1, TRUE)
OldRow == Row(o1, e1, x1, "none", 1, ledger, FALSE)

MCSealedSets ==
  {<< >>, <<OldRow>>, <<OldRow, OldRow>>, <<Row1, OldRow>>,
   <<Row1, Row(o1, e2, x1, x2, 2, k2, TRUE)>>, <<Row1, Row(o2, e1, x1, "empty", 2, k1, TRUE)>>}

E(c, l, t, id) == [payload |-> [content |-> c, layout |-> l], at |-> t, keyId |-> id]

MCSealedExports ==
  {<<E(c1, "sorted", 1, k1), other>> :
     other \in {E(c1, "shuffled", 2, k1), E(c2, "sorted", 2, k1), E(c1, "sorted", 1, k2)}}
==============================================================================
