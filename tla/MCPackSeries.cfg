CONSTANTS
  Hash = {h1, h2}
  Nonce = {n1, n2, n3}
  Instant <- MCInstant
  NoHash = NoHash
  BadInstant = BadInstant
  Packs <- MCPacks
  SeriesPacks <- MCSeriesPacks
  MaxPacks = 2
SPECIFICATION SeriesSpec
SYMMETRY Interchangeable
INVARIANTS
  ReuseNamesFirstHolder
  EveryLinkJudged
  OrderedIfAllParse
  SeriesIsOneChain
  ReplayNeedsRelinking
PROPERTIES
  KeepsPromise
