SPECIFICATION Spec
CONSTANTS
  NConns = 2
  Threads = {t1}
  NoThread = NoThread
  UsockIds = {0, 1}
  Ops = {"socket", "close", "bind", "sendto"}
  Shared = FALSE
  NonBlock = {FALSE}
  StreamTypes = {FALSE}
  Timeouts = FALSE
  Signals = FALSE
  NCallbacks = 2
  MaxRefs = 1
  EventMsgs <- SendEvents
  Results <- MCResults
  InProgress = {"bind"}
  FreshIds = TRUE
  FaultyDaemon = FALSE
  DaemonPolls = FALSE
  PollMasks = {}
  MaxSessions = 2
  DaemonCloses = TRUE
  WalkUninterrupted = FALSE
  TimelyWakeup = TRUE
  MaxAck = 2
INVARIANTS
  EventReachesSocket
CHECK_DEADLOCK FALSE
