SPECIFICATION FairSpec
CONSTANTS
  NConns = 2
  Threads = {t1, t2}
  NoThread = NoThread
  UsockIds = {0}
  Ops = {"socket", "getsockopt"}
  Shared = FALSE
  NonBlock = {FALSE}
  StreamTypes = {FALSE}
  Timeouts = FALSE
  Signals = FALSE
  NCallbacks = 2
  MaxRefs = 1
  EventMsgs <- NoEvents
  Results <- MCResults
  InProgress = {}
  FreshIds = FALSE
  FaultyDaemon = FALSE
  DaemonPolls = TRUE
  PollMasks = {}
  MaxSessions = 1
  DaemonCloses = TRUE
  WalkUninterrupted = TRUE
  TimelyWakeup = TRUE
  MaxAck = 2
PROPERTIES
  RequestsComplete
  CloseTerminates
