---------------------------- MODULE MCProofChain -----------------------------
(* Packs of up to three records over two hashes, three nonces, two       *)
(* instants and an unparsable one: enough for a broken, skipped or          *)
(* restarted link, a step back over a record that does not parse, a nonce   *)
(* repeated at a distance or twice, and a VALID pack of full length.        *)
EXTENDS ProofChain, TLC

MCInstant == {1, 2}
MCPacks == UNION {[1..n -> Record] : n \in 0..3}

Interchangeable == Permutations(Hash) \cup Permutations(Nonce)
==============================================================================
