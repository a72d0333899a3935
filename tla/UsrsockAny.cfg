SPECIFICATION Spec
CONSTANTS
  NConns = 1
  Threads = {t1, t2}
  NoThread = NoThread
  UsockIds = {0}
  Ops = {"socket", "close", "getsockopt"}
  Shared = TRUE
  NonBlock = {FALSE}
  StreamTypes = {FALSE}
  Timeouts = FALSE
  Signals = FALSE
  NCallbacks = 1
  MaxRefs = 2
  EventMsgs <- NoEvents
  Results <- MCResults
  InProgress = {}
  FreshIds = FALSE
  FaultyDaemon = TRUE
  DaemonPolls = FALSE
  PollMasks = {}
  MaxSessions = 2
  DaemonCloses = TRUE
  WalkUninterrupted = FALSE
  TimelyWakeup = FALSE
  MaxAck = 2
SYMMETRY Symmetry
INVARIANTS
  TypeOK
  LineOwner
  ConnLists
  CallbackLists
CHECK_DEADLOCK FALSE
