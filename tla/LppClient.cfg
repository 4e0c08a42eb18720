SPECIFICATION FairSpec
CONSTANTS
  NumIds = 2
  NumSessions = 2
  Hacks = {{}, {"never_send_abort", "bad_transaction_initiator"}}
  ManyEvents = TRUE
  MaxGeneration = 3
INVARIANTS
  TypeOK
  RoutesAgree
  WaitedForIsLive
  DeallocatesItsOwn
PROPERTIES
  CancelStopsSessions
  TimedRequestsEnd
