CONSTANTS
  Endpoints = {pods, slo}
  PollInterval = 1
  InitialDelay = 1
  MaxDelay = 3
  MaxFailures = 2
  MaxTicks = 2
  MaxCopies = 2
  MaxBursts = 1
  Requests = {r1, r2}
  Ips = {"ip1", "ip2"}
  Credentials = {"bearer1"}
  Shapes <- MCShapes
  MaxRows = 5
  PageSize = 2
  MaxPages = 2
  Amount <- MCAmount
  Statements <- MCStatements
SPECIFICATION FairServices
INVARIANTS ServicesTypeOK LogAlternates ControlsShowStore AlarmsAreCurrent NeverUnthrottled FeedExact BalancedIsTrue
PROPERTIES Reconnects GoesOffline
CHECK_DEADLOCK FALSE
