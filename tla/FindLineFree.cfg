SPECIFICATION Spec
CONSTANTS
  NConns = 2
  Threads = {t1, t2}
  NoThread = NoThread
  UsockIds = {0, 1}
  Ops = {"socket", "bind"}
  Shared = FALSE
  NonBlock = {FALSE}
  StreamTypes = {FALSE}
  Timeouts = FALSE
  Signals = FALSE
  NCallbacks = 2
  MaxRefs = 1
  EventMsgs <- NoEvents
  Results <- MCResults
  InProgress = {}
  FreshIds = FALSE
  FaultyDaemon = FALSE
  DaemonPolls = FALSE
  PollMasks = {}
  MaxSessions = 2
  DaemonCloses = TRUE
  WalkUninterrupted = TRUE
  TimelyWakeup = TRUE
  MaxAck = 2
INVARIANTS
  LineFreeAssert
