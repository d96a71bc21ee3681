CONSTANTS
  r1 = r1
  r2 = r2
  r3 = r3
  Scale = 100
  Finer = 10
  BadDecimal = BadDecimal
  ReceiptId = {r1, r2, r3}
  Org = {o1, o2}
  Packs <- MCPacks
  Plans <- MCPlans
  NoTotals = NoTotals
  NoOrg = NoOrg
  MaxAlterations = 2
SPECIFICATION Spec
SYMMETRY Interchangeable
INVARIANTS
  ValidMeansBorneOut
  HonestMeteringAccepted
  SingleChangeDetected
  FaultStaysLocal
