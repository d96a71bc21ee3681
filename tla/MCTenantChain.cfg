CONSTANTS
  h1 = h1
  h2 = h2
  RowHash = {h1, h2}
  Tenant = {t1, t2}
  BadSequence = BadSequence
  Limit = 3
  Histories <- MCHistories
  Starts <- MCStarts
  MaxAlterations = 2
SPECIFICATION TenantSpec
INVARIANTS
  ValidMeansUnbroken
  SameTipSameHistory
  AccusesFirstChange
  EveryRowJudged
