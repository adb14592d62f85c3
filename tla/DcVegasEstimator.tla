-------------------------- MODULE DcVegasEstimator --------------------------
(***************************************************************************)
(* TcpDcVegas (src/src/internet/model/tcp-dcvegas.cc): the RTT-only       *)
(* variant of the DSTCP estimator.  PktsAcked counts the bytes of ACKs     *)
(* whose RTT sample shows a queue of at least tdcv segments; at the close  *)
(* of each observation window beta is updated by an EWMA and, if any byte *)
(* of the window was marked, cwnd is cut to max((1 - beta/2) cwnd, 2 seg). *)
(* Init switches ECN off, so the transport never reports ECN-Echo.         *)
(*                                                                         *)
(* The transport (ns-3 TcpSocketBase, not in this repository) is the same  *)
(* environment as in DstcpEstimator without the ECN/CWR steps.  Data      *)
(* abstraction as there: segments, bytes, whole microseconds, 1/Scale.    *)
(***************************************************************************)
EXTENDS Integers, FiniteSetsExt

CONSTANTS
  SegSize,      \* tcb->m_segmentSize, in bytes
  InitCwnd,     \* cwnd when the connection starts, in bytes
  MaxCwnd,      \* bound on cwnd growth by the transport (model bound)
  MaxSeq,       \* number of segments the flow sends (model bound)
  Scale,        \* fixed-point unit of beta: 1.0 == Scale
  G,            \* DcVegasShiftG as G/Scale
  MinRttInit,   \* DcVegasMinRtt attribute, microseconds
  RttSamples,   \* RTT values an ACK may carry, microseconds (0 = none)
  BetaValues,   \* values DcVegasBetaOnInit may be given, in 1/Scale
  TdcvValues,   \* values DcVegasTdcvOnInit may be given
  TdcvDefault,  \* default of DcVegasTdcvOnInit
  UseEct0       \* UseEct0 attribute

ASSUME SegSize \in Nat \ {0} /\ InitCwnd >= 2 * SegSize /\ MaxCwnd >= InitCwnd
ASSUME MaxSeq \in Nat \ {0} /\ Scale \in Nat \ {0} /\ G \in 0..Scale
ASSUME MinRttInit \in Nat \ {0} /\ RttSamples \subseteq Nat /\ 0 \in RttSamples
ASSUME BetaValues \subseteq 0..Scale /\ TdcvValues \cup {TdcvDefault} \subseteq Nat
ASSUME UseEct0 \in BOOLEAN

VARIABLES
  \* TcpDcVegas members
  beta, tdcv, minRtt, initialized,
  ackedBytesRtt, ackedBytesTotal, nextSeq, nextSeqFlag,
  \* TcpSocketState fields the estimator reads or writes
  cWnd, ssThresh, cWndInfl, useEcn, ectCodePoint, nextTx, lastAcked,
  \* transport (environment) state
  phase,        \* "config", "idle", "acked" (PktsAcked due), "cc"
  ack,          \* arguments of the pending PktsAcked call
  dupAcks,      \* duplicate ACKs since the last new ACK
  \* history: did an ACK of the current observation window show a queue
  winQueued

estimator == <<beta, tdcv, minRtt, initialized, ackedBytesRtt,
               ackedBytesTotal, nextSeq, nextSeqFlag>>
tcb == <<cWnd, ssThresh, cWndInfl, useEcn, ectCodePoint, nextTx, lastAcked>>
vars == <<estimator, tcb, phase, ack, dupAcks, winQueued>>

NoAck == [segs |-> 0, rtt |-> 0]

-----------------------------------------------------------------------------
(* Arithmetic of PktsAcked.                                                *)

\* tcb->GetCwndInSegments ()
GetCwndInSegments(cw) == cw \div SegSize

\* Fault injection: minRtt / rtt in integer arithmetic (0 when minRtt < rtt).
TargetCwndIntDiv(segCwnd, minR, rtt) == segCwnd * (minR \div rtt)

\* targetCwnd = (uint32) (segCwnd * (minRtt * 1.0 / rtt)); nql = segCwnd - targetCwnd
TargetCwnd(segCwnd, minR, rtt) == (segCwnd * minR) \div rtt
Nql(segCwnd, minR, rtt) == segCwnd - TargetCwnd(segCwnd, minR, rtt)

\* Fault injection: minRtt taken over every sample, without !rtt.IsZero ().
UpdateMinRttNoZeroCheck(old, rtt) == Min({old, rtt})

\* if (!rtt.IsZero ()) m_minRtt = std::min (m_minRtt, rtt)
UpdateMinRtt(old, rtt) == IF rtt # 0 THEN Min({old, rtt}) ELSE old

\* bytesRtt = m_ackedBytesRtt * 1.0 / m_ackedBytesTotal, in 1/Scale
Fraction(marked, total) == IF total > 0 THEN (marked * Scale) \div total ELSE 0

\* Fault injection: the decay term of the EWMA dropped.
EwmaNoDecay(old, frac) == old + (G * frac) \div Scale

\* (1.0 - m_g) * m_beta + m_g * bytesRtt
Ewma(old, frac) == ((Scale - G) * old + G * frac) \div Scale

\* std::max ((uint32) ((1 - m_beta / 2.0) * cWnd), 2 * segmentSize)
Cut(b, cw) == Max({((2 * Scale - b) * cw) \div (2 * Scale), 2 * SegSize})

\* History (not code): the queue the sample shows, segCwnd * (1 - minR/rtt)
\* rounded up as the truncated targetCwnd makes it, is at least t.
QueueAtLeast(segCwnd, minR, rtt, t) == segCwnd * (rtt - minR) > (t - 1) * rtt

-----------------------------------------------------------------------------
(* Construction, attribute setters and Init.                               *)

\* Attribute defaults applied at construction (DcVegasBetaOnInit 1.0, ...)
Init ==
  /\ beta = Scale /\ tdcv = TdcvDefault /\ minRtt = MinRttInit
  /\ initialized = FALSE
  /\ ackedBytesRtt = 0 /\ ackedBytesTotal = 0
  /\ nextSeq = 0 /\ nextSeqFlag = FALSE
  /\ cWnd = InitCwnd /\ ssThresh = MaxCwnd /\ cWndInfl = InitCwnd
  /\ useEcn = "On" /\ ectCodePoint = "Ect0"
  /\ nextTx = 0 /\ lastAcked = 0
  /\ phase = "config" /\ ack = NoAck /\ dupAcks = 0 /\ winQueued = FALSE

\* The setters abort when m_initialized; an abort has no successor state.
InitializeDcVegasBeta(b) ==
  /\ ~initialized /\ beta' = b
  /\ UNCHANGED <<tdcv, minRtt, initialized, ackedBytesRtt, ackedBytesTotal,
                 nextSeq, nextSeqFlag, tcb, phase, ack, dupAcks, winQueued>>

InitializeDcVegasTdcv(t) ==
  /\ ~initialized /\ tdcv' = t
  /\ UNCHANGED <<beta, minRtt, initialized, ackedBytesRtt, ackedBytesTotal,
                 nextSeq, nextSeqFlag, tcb, phase, ack, dupAcks, winQueued>>

\* TcpDcVegas::Init: ECN off, codepoint from UseEct0, initialized.
DcVegasInit ==
  /\ phase = "config"
  /\ useEcn' = "Off"
  /\ ectCodePoint' = IF UseEct0 THEN "Ect0" ELSE "Ect1"
  /\ initialized' = TRUE
  /\ phase' = "idle"
  /\ UNCHANGED <<beta, tdcv, minRtt, ackedBytesRtt, ackedBytesTotal, nextSeq,
                 nextSeqFlag, cWnd, ssThresh, cWndInfl, nextTx, lastAcked,
                 ack, dupAcks, winQueued>>

-----------------------------------------------------------------------------
(* TcpDcVegas::Reset and TcpDcVegas::PktsAcked.                            *)

\* Fault injection: the next window ends one segment past m_nextTxSequence.
ResetPastNextTx ==
  /\ nextSeq' = nextTx + 1
  /\ ackedBytesRtt' = 0 /\ ackedBytesTotal' = 0

\* Fault injection: the next window ends at m_lastAckedSeq, so it is already
\* over when the next ACK arrives.
ResetFromLastAcked ==
  /\ nextSeq' = lastAcked
  /\ ackedBytesRtt' = 0 /\ ackedBytesTotal' = 0

\* TcpDcVegas::Reset: the next observation window ends at m_nextTxSequence.
Reset ==
  /\ nextSeq' = nextTx
  /\ ackedBytesRtt' = 0 /\ ackedBytesTotal' = 0

PktsAcked ==
  LET bytes    == ack.segs * SegSize
      segCwnd  == GetCwndInSegments(cWnd)
      minR     == UpdateMinRtt(minRtt, ack.rtt)
      rttMark  == ack.rtt # 0 /\ Nql(segCwnd, minR, ack.rtt) >= tdcv
      total    == ackedBytesTotal + bytes
      byRtt    == ackedBytesRtt + (IF rttMark THEN bytes ELSE 0)
      boundary == IF nextSeqFlag THEN nextSeq ELSE nextTx
      queued   == winQueued \/ (ack.rtt # 0 /\ QueueAtLeast(segCwnd, minR, ack.rtt, tdcv))
  IN
  /\ phase = "acked"
  /\ phase' = "cc"
  /\ minRtt' = minR
  /\ nextSeqFlag' = TRUE
  /\ \/ \* the observation window is still open
        /\ lastAcked < boundary
        /\ ackedBytesTotal' = total /\ ackedBytesRtt' = byRtt
        /\ nextSeq' = boundary /\ winQueued' = queued
        /\ UNCHANGED <<beta, cWnd, ssThresh, cWndInfl>>
     \/ \* rtt expire: update beta, cut cwnd if any byte was marked, Reset
        LET b2 == Ewma(beta, Fraction(byRtt, total))
        IN
        /\ lastAcked >= boundary
        /\ beta' = b2
        /\ IF total > 0 /\ byRtt > 0
             THEN /\ cWnd' = Cut(b2, cWnd) /\ ssThresh' = Cut(b2, cWnd)
                  /\ cWndInfl' = Cut(b2, cWnd)
             ELSE UNCHANGED <<cWnd, ssThresh, cWndInfl>>
        /\ Reset
        /\ winQueued' = FALSE
  /\ UNCHANGED <<tdcv, initialized, useEcn, ectCodePoint, nextTx, lastAcked,
                 ack, dupAcks>>

-----------------------------------------------------------------------------
(* The transport (environment): sending, ACK arrival and window growth.   *)

\* Send one segment if cwnd allows it (one always goes out if none is in
\* flight).
SendSegment ==
  /\ phase = "idle"
  /\ nextTx < MaxSeq
  /\ nextTx = lastAcked \/ (nextTx - lastAcked + 1) * SegSize <= cWnd
  /\ nextTx' = nextTx + 1
  /\ UNCHANGED <<estimator, cWnd, ssThresh, cWndInfl, useEcn, ectCodePoint,
                 lastAcked, phase, ack, dupAcks, winQueued>>

\* An ACK of k new segments (k = 0: duplicate ACK, PktsAcked with one
\* segment) carrying RTT sample rtt; fewer duplicate ACKs than segments
\* outstanding.
ReceiveAck(k, rtt) ==
  /\ phase = "idle"
  /\ nextTx > lastAcked
  /\ k \in 0..(nextTx - lastAcked)
  /\ k = 0 => dupAcks + 1 < nextTx - lastAcked
  /\ dupAcks' = IF k = 0 THEN dupAcks + 1 ELSE 0
  /\ lastAcked' = lastAcked + k
  /\ ack' = [segs |-> IF k = 0 THEN 1 ELSE k, rtt |-> rtt]
  /\ phase' = "acked"
  /\ UNCHANGED <<estimator, cWnd, ssThresh, cWndInfl, useEcn, ectCodePoint,
                 nextTx, winQueued>>

\* After PktsAcked: the window may grow by one segment or stay.
IncreaseWindow ==
  /\ phase = "cc"
  /\ \/ cWnd' = cWnd
     \/ cWnd + SegSize <= MaxCwnd /\ cWnd' = cWnd + SegSize
  /\ cWndInfl' = cWnd'
  /\ phase' = "idle" /\ ack' = NoAck
  /\ UNCHANGED <<estimator, ssThresh, useEcn, ectCodePoint, nextTx, lastAcked,
                 dupAcks, winQueued>>

\* The flow is over: everything sent and acknowledged.
FlowDone ==
  /\ phase = "idle" /\ nextTx = MaxSeq /\ lastAcked = MaxSeq
  /\ UNCHANGED vars

Next ==
  \/ \E b \in BetaValues : InitializeDcVegasBeta(b)
  \/ \E t \in TdcvValues : InitializeDcVegasTdcv(t)
  \/ DcVegasInit
  \/ SendSegment
  \/ \E k \in 0..MaxSeq, rtt \in RttSamples : ReceiveAck(k, rtt)
  \/ PktsAcked
  \/ IncreaseWindow
  \/ FlowDone

\* Calls run to completion on the simulator thread (WF); a new ACK
\* eventually arrives while data is outstanding, through retransmission,
\* however many duplicate ACKs intervene (SF).
NewAck == \E k \in 1..MaxSeq, rtt \in RttSamples : ReceiveAck(k, rtt)
Fairness ==
  /\ WF_vars(DcVegasInit) /\ WF_vars(PktsAcked) /\ WF_vars(IncreaseWindow)
  /\ SF_vars(NewAck)

Spec == Init /\ [][Next]_vars
FairSpec == Spec /\ Fairness

-----------------------------------------------------------------------------
(* Properties.                                                             *)

TypeOK ==
  /\ beta \in Nat /\ tdcv \in Nat /\ minRtt \in Nat \ {0}
  /\ initialized \in BOOLEAN /\ nextSeqFlag \in BOOLEAN
  /\ {ackedBytesRtt, ackedBytesTotal, nextSeq} \subseteq Nat
  /\ {cWnd, ssThresh, cWndInfl} \subseteq Nat
  /\ useEcn \in {"On", "Off"} /\ ectCodePoint \in {"Ect0", "Ect1"}
  /\ 0 <= lastAcked /\ lastAcked <= nextTx /\ nextTx <= MaxSeq
  /\ phase \in {"config", "idle", "acked", "cc"}
  /\ ack \in [segs : 0..MaxSeq, rtt : RttSamples]
  /\ dupAcks \in 0..MaxSeq /\ winQueued \in BOOLEAN

\* PktsAcked adds every ACK's bytes to the total before it may add them to
\* the RTT-marked count, and Reset clears both: beta, the EWMA of the marked
\* fraction, stays in [0, 1] across any number of windows.
BetaBounded == beta \in 0..Scale /\ ackedBytesRtt <= ackedBytesTotal

\* The cwnd cut of PktsAcked happens only at the close of a window in which
\* some ACK carried an RTT sample showing a queue of at least tdcv segments.
AckShowsQueue ==
  ack.rtt # 0 /\ QueueAtLeast(GetCwndInSegments(cWnd), Min({minRtt, ack.rtt}),
                              ack.rtt, tdcv)
RttCutJustified ==
  [][phase = "acked" /\ cWnd' < cWnd => winQueued \/ AckShowsQueue]_vars

\* Every window that has started with data outstanding is eventually
\* closed by PktsAcked.
WindowEventuallyCloses ==
  (phase = "idle" /\ nextSeqFlag /\ lastAcked < nextSeq)
    ~> (phase = "cc" /\ ackedBytesTotal = 0)

\* Refinement: DcVegas implements the abstract CongestionEstimator without
\* ECN accounting (alpha and the ECN count are constants of the mapping).
\* PktsAcked is one Observe or Close step, DcVegasInit is Lock, the beta
\* setter is Configure, the transport's steps are Transport or stutter.
Abs == INSTANCE CongestionEstimator
         WITH UsesEcn <- FALSE, MaxAckSegs <- MaxSeq, alpha <- Scale,
              locked <- initialized,
              win <- [total |-> ackedBytesTotal, ecn |-> 0, rtt |-> ackedBytesRtt],
              boundary <- IF nextSeqFlag THEN nextSeq ELSE -1

\* PktsAcked, Reset and the setters keep the promises of spec 4.1 over every
\* interleaving: beta moves only at a window close by one EWMA step, a
\* close with RTT marks cuts cwnd once to between half of it and all of it
\* (at least two segments), the counters are emptied and the next window
\* ends at m_nextTxSequence.
ImplementsCongestionEstimator == Abs!Spec

=============================================================================
