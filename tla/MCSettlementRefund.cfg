CONSTANTS
  m1 = m1
  m2 = m2
  m3 = m3
  a1 = a1
  a2 = a2
  Scale = 4
  Finer = 10
  Half = 8
  Inputs <- MCInputs
  BadDecimal = BadDecimal
  Meter = {m1, m2, m3}
  Account = {a1, a2}
  Org = {o1, o2}
  Agreements <- MCAgreements
  NoTotals = NoTotals
  MaxAlterations = 0
SPECIFICATION MCSpec
SYMMETRY Interchangeable
INVARIANTS
  PlatformSettlementAccepted
