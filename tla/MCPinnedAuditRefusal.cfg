CONSTANTS
  k1 = k1
  k2 = k2
  pk1 = pk1
  pk2 = pk2
  b1 = b1
  b2 = b2
  KeyId = {k1, k2}
  PublicKey = {pk1, pk2, pk3}
  Foreign = pk3
  Body = {b1, b2}
  WideBodies = {b2}
  Instant <- MCInstant
  BadInstant = BadInstant
  NoBound = NoBound
  Signer <- MCSigner
  Directories <- MCDirectories
  NoAnswer = NoAnswer
  KeyLists <- MCKeyLists
  SealedPacks <- MCSealedPacks
  MaxAlterations = 2
SPECIFICATION PinnedSpec
INVARIANT RefusalReturned
