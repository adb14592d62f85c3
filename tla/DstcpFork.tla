------------------------------ MODULE DstcpFork -----------------------------
(***************************************************************************)
(* A connection accepted by a listening TcpDstcp socket: the transport    *)
(* calls TcpDstcp::Fork, which copies the listener's estimator with the   *)
(* copy constructor, and the accepted connection runs on the copy.        *)
(*                                                                         *)
(* The copy constructor's initialiser list names every member except      *)
(* m_ackedBytesRtt and m_tdcv, which the copy leaves indeterminate; the   *)
(* model lets them be any of UninitValues.                                 *)
(***************************************************************************)
EXTENDS DstcpEstimator

CONSTANT UninitValues   \* values an indeterminate uint32 member may hold

ASSUME UninitValues \subseteq Nat

VARIABLE forked         \* the connection runs on a forked copy

forkVars == <<vars, forked>>

\* TcpDstcp::Fork (CopyObject, i.e. the copy constructor) on a listener that
\* has been initialised and has sent nothing; every other member is copied.
Fork ==
  /\ ~forked /\ initialized /\ phase = "idle" /\ nextTx = 0
  /\ forked' = TRUE
  /\ ackedBytesRtt' \in UninitValues
  /\ tdcv' \in UninitValues
  /\ UNCHANGED <<alpha, beta, minRtt, initialized, ackedBytesEcn,
                 ackedBytesTotal, nextSeq, nextSeqFlag, tcb, phase, ack,
                 recover, dupAcks, winQueued>>

ForkInit == Init /\ forked = FALSE

ForkNext == (Next /\ UNCHANGED forked) \/ Fork

ForkSpec == ForkInit /\ [][ForkNext]_forkVars

=============================================================================
