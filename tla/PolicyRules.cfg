SPECIFICATION RulesSpec
CONSTANTS
  Conditions <- MCConditions
  Depth <- MCDepth
  Drafts <- MCDrafts
  FirstDrafts <- MCFirstDrafts
  Configs <- MCConfigs
  Requests <- MCRequests
  Nothing = Nothing
  MaxEdits = 2
CHECK_DEADLOCK FALSE
INVARIANTS PublishedLoads AppliesAsDrafted StaticHostsRoute
