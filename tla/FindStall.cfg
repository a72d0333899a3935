SPECIFICATION Spec
CONSTANTS
  Requests <- Asks
  Reactions <- Listens
  Forced = {}
  UserTasks = {"info", "raw"}
  MaxTasks = 1
  Sockets = TRUE
  VccAtStart = {FALSE}
  MaxTry = 1
  NumConfig = 1
  NumApn = 0
  NumSlots = 2
  Delays = {FALSE}
  Reliable = {"ipconfig"}
  CregUrcs = {"home", "lost", "idle"}
  RequestAny = TRUE
  RequestAwake = FALSE
  DebugBuild = FALSE
INVARIANTS
  NoStall
CHECK_DEADLOCK FALSE
