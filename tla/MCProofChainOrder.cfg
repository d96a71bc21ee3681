CONSTANTS
  Hash = {h1, h2}
  Nonce = {n1, n2, n3}
  Instant <- MCInstant
  NoHash = NoHash
  BadInstant = BadInstant
  Packs <- MCPacks
SPECIFICATION Spec
SYMMETRY Interchangeable
INVARIANT OrderedAlongChain
