---------------------------- MODULE MCDcVegasFork ---------------------------
(* Model-checking instance of DcVegasFork with the bounds of               *)
(* MCDcVegasEstimator.                                                     *)
EXTENDS DcVegasFork

MCRttSamples == {0, 3, 4, 6}
=============================================================================
