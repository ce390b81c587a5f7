SPECIFICATION Spec
CONSTANTS
  Calls = {c1}
  Apps = {a1}
  Policies = {p1}
  AppOf <- OneApp
  Hosts = {h1}
  Urls = {u1, u2}
  NoCall = NoCall
  NoUrl = NoUrl
  MaxClock = 2
INVARIANTS OriginPatchApplies
