------------------------- MODULE MCDstcpEstimator ---------------------------
(* Model-checking instance of DstcpEstimator: two-byte segments, a cwnd of *)
(* two segments growing to three, a four-segment flow, alpha/beta in 1/8. *)
EXTENDS DstcpEstimator

MCRttSamples == {0, 3, 4, 6}
=============================================================================
