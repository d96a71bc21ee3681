CONSTANTS
  k1 = k1
  k2 = k2
  ledger = ledger
  pk1 = pk1
  pk2 = pk2
  o1 = o1
  o2 = o2
  e1 = e1
  e2 = e2
  x1 = x1
  x2 = x2
  c1 = c1
  c2 = c2
  NoOrg = NoOrg
  Nothing = Nothing
  KeyId = {k1, k2, ledger}
  PublicKey = {pk1, pk2, pk3}
  Foreign = pk3
  Instant <- MCInstant
  BadInstant = BadInstant
  NoBound = NoBound
  Signer <- MCSigner
  Directories <- MCDirectories
  MaxAlterations = 2
  Org = {o1, o2}
  Event = {e1, e2}
  Pointer = {"rightId", "afterHash"}
  Id = {x1, x2}
  SealedSets <- MCSealedSets
  Content = {c1, c2}
  Layout = {"sorted", "shuffled"}
  SealedExports <- MCSealedExports
SPECIFICATION Spec
INVARIANTS
  TypeOK
  RowsBlamedExactly
  UnsignedNeverPromoted
  SignatureStepIsForensic
  ExportValidIffAuthentic
  ExportDiagnosisPinpoints
