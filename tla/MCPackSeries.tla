---------------------------- MODULE MCPackSeries -----------------------------
(* Packs of up to three records over two hashes, three nonces, two       *)
(* instants and an unparsable one: enough for a broken, skipped or          *)
(* restarted link, a step back over a record that does not parse, a nonce   *)
(* repeated at a distance or twice, and a VALID pack of full length.  And   *)
(* series of two packs of up to two records, all of one instant: enough for *)
(* a record to recur in the second pack.                                   *)
EXTENDS PackSeries, TLC

MCInstant == {1, 2}
MCPacks == UNION {[1..n -> Record] : n \in 0..3}

OfOneInstant == {r \in Record : r.issued = 1}
MCSeriesPacks == UNION {[1..n -> OfOneInstant] : n \in 1..2}

Interchangeable == Permutations(Hash) \cup Permutations(Nonce)
==============================================================================
