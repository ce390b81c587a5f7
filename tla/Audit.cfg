CONSTANTS
  Requests = {r1, r2, r3}
  NoEvent = NoEvent
  QueueSize = 2
  NumSinks = 2
SPECIFICATION FairSpec
INVARIANTS
  TypeOK
  NoSendOnClosedQueue
  CleanStopLosesNothing
  CountersAgree
PROPERTIES
  ImplementsTrail
  ShutdownEnds
  AcceptedIsSettled
