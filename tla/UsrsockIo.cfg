SPECIFICATION Spec
CONSTANTS
  NConns = 1
  Threads = {t1}
  NoThread = NoThread
  UsockIds = {0, 1}
  Ops = {"socket", "connect", "sendto", "recvfrom", "poll"}
  Shared = FALSE
  NonBlock = {TRUE, FALSE}
  StreamTypes = {TRUE, FALSE}
  Timeouts = TRUE
  Signals = TRUE
  NCallbacks = 2
  MaxRefs = 1
  EventMsgs <- IoEvents
  Results <- MCRetry
  InProgress = {"connect", "recvfrom"}
  FreshIds = FALSE
  FaultyDaemon = FALSE
  DaemonPolls = FALSE
  PollMasks = {{"IN"}, {"IN", "OUT"}}
  MaxSessions = 1
  DaemonCloses = FALSE
  WalkUninterrupted = TRUE
  TimelyWakeup = TRUE
  MaxAck = 2
INVARIANTS
  PollConsistent
  ConnectReturns
