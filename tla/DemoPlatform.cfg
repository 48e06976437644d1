CONSTANTS
  Clients = {c1, c2}
  Readiness = rp
  MaxCrashes = 1
  MaxOutages = 1
  TargetReplicas = 2
SPECIFICATION MCSpec
INVARIANTS PlatformTypeOK InFlightExact StaleReadyOnce CompleteRestores
PROPERTIES Unroutable Routable Stops Recovers
CHECK_DEADLOCK FALSE
