SPECIFICATION Spec
CONSTANTS
  Asked <- Asks
  Answered <- Replies
  ConnIds = {c1, c2}
  NoConn = NoConn
  NumInfos = 2
  MaxSms = 0
  Patient = TRUE
INVARIANTS
  NotMisled
