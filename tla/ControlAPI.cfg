SPECIFICATION Spec
CONSTANTS
  Requests <- MCRequests
  Seed <- MCSeed
  Malformed = 99
  MaxClock = 9
INVARIANTS
  OtherTenantsDoNotMatter
  RetryHasNoSecondEffect
  GatewayGetsLastPublished
