------------------------------ MODULE MCEcnEcho -----------------------------
(* Model-checking instance of EcnEcho; the transport's contract is chosen  *)
(* in each configuration.                                                  *)
EXTENDS EcnEcho
=============================================================================
