SPECIFICATION Spec
CONSTANTS
  Apps <- MCApps
  NoApp = NoApp
  DetectionOnly = FALSE
INVARIANTS FirstObjectionDecides DeniedIsNotForwarded CountModeForwards OneEventPerRequest
