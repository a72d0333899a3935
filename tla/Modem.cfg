SPECIFICATION FairSpec
CONSTANTS
  Requests <- Asks
  Reactions <- TurnsOff
  Forced <- ForcesOff
  UserTasks = {"info", "raw"}
  MaxTasks = 1
  Sockets = TRUE
  VccAtStart = {TRUE, FALSE}
  MaxTry = 2
  NumConfig = 1
  NumApn = 1
  NumSlots = 2
  Delays = {TRUE, FALSE}
  Reliable = {"ipconfig"}
  CregUrcs = {"home", "lost", "idle"}
  RequestAny = FALSE
  RequestAwake = FALSE
  DebugBuild = TRUE
INVARIANTS
  TypeOK
  NoAssertionFails
  NoLostWork
  PmBalanced
  CommandTimesOut
  OneThingAtATime
  NoStall
  RegistrationWatched
  PowerAgrees
PROPERTIES
  KeepsPromise
