SPECIFICATION Spec
CONSTANTS
  Events <- MCEvents
  Requests <- MCRequests
  DefaultLimit = 2
  MaxLimit = 4
  MaxSamples = 2
  MaxPaths = 1
  Unknown = 9
  ResponseBytes = 7
  MaxLine = 3
INVARIANTS
  OwnEventsOnly
  NothingNewerLeftOut
  EveryEventCanBeFound
  SummaryIsTrue
