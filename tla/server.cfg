SPECIFICATION FairSpec
CONSTANTS
  Sources = {labels}
  Requests = {r}
  MaxPings = 2
  Capacity = 1
  MaxVersion = 2
  Ifaces = {eth0, ppp0}
  Modulus = 3
  QueueSize = 1
  Hosts = {h}
  Attempts = {a, b}
  Limit = 2
  Window = 2
  MaxDelay = 1
  MaxClock = 6
  Ids = {x, y}
  None = None
  TTL = 1
  MaxWall = 2
  MaxStarts = 1
  Environments <- All
INVARIANTS ForcedAnswerIsFresh RatesAreTraffic AttemptsBounded ValidExactly
PROPERTIES NeverBackInTime PageCatchesUp InternetShownRight PageSurvivesRestarts ShutdownEnds
CHECK_DEADLOCK FALSE
