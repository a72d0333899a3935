SPECIFICATION FairSpec
CONSTANTS
  Asked <- Asks
  Answered <- Replies
  ConnIds = {c1, c2}
  NoConn = NoConn
  NumInfos = 2
  MaxSms = 2
  Patient = TRUE
INVARIANTS
  TypeOK
  RefcntCounts
  OffWhenUnused
  TargetsAgree
  SmsInStep
PROPERTIES
  UnusedGoesOff
  AttemptEnds
