SPECIFICATION Spec
CONSTANTS
  NConns = 2
  Threads = {t1, t2}
  NoThread = NoThread
  UsockIds = {0, 1}
  Ops = {"socket", "close", "sendto"}
  Shared = FALSE
  NonBlock = {FALSE}
  StreamTypes = {FALSE}
  Timeouts = FALSE
  Signals = FALSE
  NCallbacks = 2
  MaxRefs = 1
  EventMsgs <- SendAbort
  Results <- MCResults
  InProgress = {}
  FreshIds = TRUE
  FaultyDaemon = FALSE
  DaemonPolls = FALSE
  PollMasks = {}
  MaxSessions = 1
  DaemonCloses = TRUE
  WalkUninterrupted = FALSE
  TimelyWakeup = FALSE
  MaxAck = 2
SYMMETRY Symmetry
INVARIANTS
  NoLostWakeup
  AllAborted
PROPERTIES
  AbortIsFinal
CHECK_DEADLOCK FALSE
