CONSTANTS
  MaxSeg = 5
  DelAckMax = 2
  CeEventAfterAdvance = TRUE
  TimeoutEvent = "CA_EVENT_NON_DELAYED_ACK"

SPECIFICATION Spec

INVARIANTS
  TypeOK
  EchoAccurate
  RegenOnlyWhenPending


PROPERTY
  SegmentsEventuallyAcked
