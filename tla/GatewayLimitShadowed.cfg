SPECIFICATION Spec
CONSTANTS
  Apps <- MCApps
  NoApp = NoApp
  DetectionOnly = FALSE
INVARIANT BlockingLimitDenies
