---------------------------- MODULE MCDstcpFork -----------------------------
(* Model-checking instance of DstcpFork with the bounds of MCDstcpEstimator. *)
EXTENDS DstcpFork

MCRttSamples == {0, 3, 4, 6}
=============================================================================
