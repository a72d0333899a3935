SPECIFICATION Spec
CONSTANTS
  NConns = 2
  Threads = {t1, t2}
  NoThread = NoThread
  UsockIds = {0, 1}
  Ops = {"socket", "close", "bind", "setsockopt", "getsockopt", "getsockname"}
  Shared = FALSE
  NonBlock = {FALSE}
  StreamTypes = {FALSE}
  Timeouts = FALSE
  Signals = FALSE
  NCallbacks = 2
  MaxRefs = 1
  EventMsgs <- NoEvents
  Results <- MCResults
  InProgress = {"socket", "close"}
  FreshIds = FALSE
  FaultyDaemon = FALSE
  DaemonPolls = TRUE
  PollMasks = {}
  MaxSessions = 1
  DaemonCloses = FALSE
  WalkUninterrupted = TRUE
  TimelyWakeup = TRUE
  MaxAck = 2
SYMMETRY Symmetry
INVARIANTS
  LineCount
  DaemonWoken
  OneRequestPerConn
  ResponseMatch
  WriteInStep
  SocketsAgree
  NoLostWakeup
