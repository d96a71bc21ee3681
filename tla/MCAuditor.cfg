CONSTANTS
  k1 = k1
  pk1 = pk1
  r1 = r1
  r2 = r2
  n1 = n1
  n2 = n2
  o1 = o1
  o2 = o2
  a1 = a1
  a2 = a2
  KeyId = {k1, k2}
  PublicKey = {pk1, pk2}
  Foreign = pk2
  Instant <- MCInstant
  BadInstant = BadInstant
  NoBound = NoBound
  Signer <- MCSigner
  Directories <- MCDirectories
  ReceiptId = {r1, r2}
  Nonce = {n1, n2}
  Org = {o1, o2}
  Account = {a1, a2}
  Body <- MCBody
  WideBodies <- MCWideBodies
  Scale = 4
  Finer = 10
  BadDecimal = BadDecimal
  NoHash = NoHash
  NoTotals = NoTotals
  NoSummary = NoSummary
  Plans <- MCPlans
  Carriages <- MCCarriages
  MaxAlterations = 1
SPECIFICATION Spec
INVARIANTS
  TypeOK
  SettledMoneyIsProven
  SkippedOnlyIfAbsent
  OneChangeOnlyTakesAway
PROPERTIES
  KeepsPromise
