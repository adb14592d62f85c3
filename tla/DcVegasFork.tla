----------------------------- MODULE DcVegasFork ----------------------------
(***************************************************************************)
(* A connection accepted by a listening TcpDcVegas socket runs on the copy *)
(* TcpDcVegas::Fork makes with the copy constructor.  Its initialiser list *)
(* names every member except m_tdcv, which the copy leaves indeterminate;  *)
(* the model lets it be any of UninitValues.                               *)
(***************************************************************************)
EXTENDS DcVegasEstimator

CONSTANT UninitValues   \* values an indeterminate uint32 member may hold

ASSUME UninitValues \subseteq Nat

VARIABLES
  forked,       \* the connection runs on a forked copy
  winDelayed    \* history: an ACK of the current window had rtt > minRtt

forkVars == <<vars, forked, winDelayed>>

\* TcpDcVegas::Fork (CopyObject, the copy constructor) on a listener that
\* has been initialised and has sent nothing; all but m_tdcv is copied.
Fork ==
  /\ ~forked /\ initialized /\ phase = "idle" /\ nextTx = 0
  /\ forked' = TRUE
  /\ tdcv' \in UninitValues
  /\ UNCHANGED <<beta, minRtt, initialized, ackedBytesRtt, ackedBytesTotal,
                 nextSeq, nextSeqFlag, tcb, phase, ack, dupAcks, winQueued,
                 winDelayed>>

\* The history follows PktsAcked: set by a delayed sample, cleared when the
\* window closes (Reset empties the byte total).
DelayedSample == ack.rtt # 0 /\ ack.rtt > UpdateMinRtt(minRtt, ack.rtt)
TrackDelay ==
  winDelayed' = IF phase = "acked" /\ phase' = "cc"
                  THEN ackedBytesTotal' # 0 /\ (winDelayed \/ DelayedSample)
                  ELSE winDelayed

ForkInit == Init /\ forked = FALSE /\ winDelayed = FALSE

ForkNext == (Next /\ UNCHANGED forked /\ TrackDelay) \/ Fork

ForkSpec == ForkInit /\ [][ForkNext]_forkVars

\* Spec 4.1: a window is RTT-marked only by queueing delay, so the cwnd cut
\* of PktsAcked follows a window in which some ACK's RTT exceeded the
\* minimum RTT.  On the forked copy the threshold m_tdcv is whatever the
\* copy constructor left there.
CutNeedsDelay ==
  [][phase = "acked" /\ cWnd' < cWnd => winDelayed \/ DelayedSample]_forkVars

=============================================================================
