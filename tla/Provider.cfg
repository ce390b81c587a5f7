CONSTANTS
  h1 = h1
  Requests = {r1, r2}
  Hosts = {h1}
  NoHost = NoHost
  NoRequest = NoRequest
  Names <- OneHostNames
  NormalizeHost <- OneHostNormalize
  TTL = 2
  FailBehavior = "use_stale_then_fail_open"
  MaxVersion = 2
  Rejected = {2}
  MaxClock = 3
SPECIFICATION FairSpec
INVARIANTS
  TypeOK
  OneFetchPerHost
  CurrentWithinTTL
  MonotonicReads
PROPERTIES
  CacheNeverRegresses
  FillsSpacedByTTL
  LookupsReturn
