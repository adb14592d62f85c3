CONSTANTS
  MaxSeg = 5
  DelAckMax = 2
  CeEventAfterAdvance = FALSE
  TimeoutEvent = "CA_EVENT_NON_DELAYED_ACK"

SPECIFICATION Spec

INVARIANT EchoAccurate
