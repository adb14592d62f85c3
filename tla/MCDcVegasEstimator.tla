------------------------ MODULE MCDcVegasEstimator ------------------------
(* Model of TcpDcVegas for TLC: RTT samples of none, below, at and above   *)
(* the configured minimum RTT.                                             *)
EXTENDS DcVegasEstimator

MCRttSamples == {0, 3, 4, 6}

=============================================================================
