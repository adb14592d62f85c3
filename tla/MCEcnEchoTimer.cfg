CONSTANTS
  MaxSeg = 5
  DelAckMax = 2
  CeEventAfterAdvance = TRUE
  TimeoutEvent = "CA_EVENT_DELAYED_ACK"

SPECIFICATION Spec

INVARIANT RegenOnlyWhenPending
