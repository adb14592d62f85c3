--------------------------- MODULE DstcpEstimator ---------------------------
(***************************************************************************)
(* Sender side of TcpDstcp (src/src/internet/model/tcp-dstcp.cc): the     *)
(* per-window byte accounting of PktsAcked, the EWMA of alpha (ECN) and   *)
(* beta (RTT), the immediate RTT-based cwnd cut, GetSsThresh, Reset, Init *)
(* and the attribute setters.                                              *)
(*                                                                         *)
(* The transport that drives the estimator (ns-3 TcpSocketBase, not part  *)
(* of this repository) is modelled as an environment: it sends segments,  *)
(* receives cumulative and duplicate ACKs, calls PktsAcked once per ACK   *)
(* and enters / leaves CWR on ECN-Echo, calling GetSsThresh on entry.     *)
(*                                                                         *)
(* Data abstraction: sequence numbers count segments; byte counts, cwnd   *)
(* and ssthresh are bytes; RTTs are whole microseconds (GetMicroSeconds); *)
(* alpha and beta are fixed point in units of 1/Scale, g = G/Scale.       *)
(***************************************************************************)
EXTENDS Integers, FiniteSetsExt

CONSTANTS
  SegSize,      \* tcb->m_segmentSize, in bytes
  InitCwnd,     \* cwnd when the connection starts, in bytes
  MaxCwnd,      \* bound on cwnd growth by the transport (model bound)
  MaxSeq,       \* number of segments the flow sends (model bound)
  Scale,        \* fixed-point unit of alpha and beta: 1.0 == Scale
  G,            \* DstcpShiftG as G/Scale (0.0625 == 1/16)
  MinRttInit,   \* DstcpMinRtt attribute, microseconds
  RttSamples,   \* RTT values an ACK may carry, microseconds (0 = none)
  AlphaValues,  \* values DstcpAlphaOnInit may be given, in 1/Scale
  BetaValues,   \* values DstcpBetaOnInit may be given, in 1/Scale
  TdcvValues,   \* values DstcpTdcvOnInit may be given
  TdcvDefault,  \* default of DstcpTdcvOnInit
  UseEct0       \* UseEct0 attribute

ASSUME SegSize \in Nat \ {0} /\ InitCwnd >= 2 * SegSize /\ MaxCwnd >= InitCwnd
ASSUME MaxSeq \in Nat \ {0} /\ Scale \in Nat \ {0} /\ G \in 0..Scale
ASSUME MinRttInit \in Nat \ {0} /\ RttSamples \subseteq Nat /\ 0 \in RttSamples
ASSUME AlphaValues \cup BetaValues \subseteq 0..Scale
ASSUME TdcvValues \cup {TdcvDefault} \subseteq Nat /\ UseEct0 \in BOOLEAN

VARIABLES
  \* TcpDstcp members
  alpha, beta, tdcv, minRtt, initialized,
  ackedBytesEcn, ackedBytesRtt, ackedBytesTotal, nextSeq, nextSeqFlag,
  \* TcpSocketState fields the estimator reads or writes
  cWnd, ssThresh, cWndInfl, useEcn, ecnMode, ectCodePoint,
  nextTx, lastAcked, ecnState,
  \* transport (environment) state
  phase,        \* "config", "idle", "acked" (PktsAcked due), "cc"
  ack,          \* arguments of the pending PktsAcked call
  recover,      \* nextTx when CWR was entered
  dupAcks,      \* duplicate ACKs since the last new ACK
  \* history: did an ACK of the current observation window show a queue
  winQueued

estimator == <<alpha, beta, tdcv, minRtt, initialized, ackedBytesEcn,
               ackedBytesRtt, ackedBytesTotal, nextSeq, nextSeqFlag>>
tcb == <<cWnd, ssThresh, cWndInfl, useEcn, ecnMode, ectCodePoint, nextTx,
         lastAcked, ecnState>>
vars == <<estimator, tcb, phase, ack, recover, dupAcks, winQueued>>

EcnStates == {"ECN_IDLE", "ECN_ECE_RCVD", "ECN_CWR_SENT"}

\* No PktsAcked call pending.
NoAck == [segs |-> 0, rtt |-> 0]

-----------------------------------------------------------------------------
(* Arithmetic of PktsAcked and GetSsThresh.                                *)

\* tcb->GetCwndInSegments ()
GetCwndInSegments(cw) == cw \div SegSize

\* Fault injection: the ratio taken in integer arithmetic (minRtt / rtt
\* without the "* 1.0"), which truncates to 0 whenever minRtt < rtt.
TargetCwndIntDiv(segCwnd, minR, rtt) == segCwnd * (minR \div rtt)

\* targetCwnd = (uint32) (segCwnd * (minRtt / rtt)); nql = segCwnd - targetCwnd
TargetCwnd(segCwnd, minR, rtt) == (segCwnd * minR) \div rtt
Nql(segCwnd, minR, rtt) == segCwnd - TargetCwnd(segCwnd, minR, rtt)

\* m_ackedBytes* * 1.0 / m_ackedBytesTotal, as a multiple of 1/Scale
Fraction(marked, total) == IF total > 0 THEN (marked * Scale) \div total ELSE 0

\* Fault injection: the decay term of the EWMA dropped, old + g * frac.
EwmaNoDecay(old, frac) == old + (G * frac) \div Scale

\* (1.0 - m_g) * old + m_g * frac
Ewma(old, frac) == ((Scale - G) * old + G * frac) \div Scale

\* Fault injection: the sign of the reduction flipped, (1 + f / 2.0).
ReducedSignFlip(f, cw) == ((2 * Scale + f) * cw) \div (2 * Scale)

\* (uint32) ((1 - f / 2.0) * cWnd)
Reduced(f, cw) == ((2 * Scale - f) * cw) \div (2 * Scale)

\* TcpDstcp::GetSsThresh
GetSsThresh == Reduced(alpha, cWnd)

\* History (not code): the queue a sample shows, segCwnd * (1 - minR / rtt),
\* rounded up as the code's truncated targetCwnd does, is at least t.
QueueAtLeast(segCwnd, minR, rtt, t) == segCwnd * (rtt - minR) > (t - 1) * rtt

-----------------------------------------------------------------------------
(* Construction, attribute setters and Init.                               *)

\* Attribute defaults applied at construction (DstcpAlphaOnInit 1.0, ...)
Init ==
  /\ alpha = Scale /\ beta = Scale /\ tdcv = TdcvDefault
  /\ minRtt = MinRttInit /\ initialized = FALSE
  /\ ackedBytesEcn = 0 /\ ackedBytesRtt = 0 /\ ackedBytesTotal = 0
  /\ nextSeq = 0 /\ nextSeqFlag = FALSE
  /\ cWnd = InitCwnd /\ ssThresh = MaxCwnd /\ cWndInfl = InitCwnd
  /\ useEcn = "Off" /\ ecnMode = "ClassicEcn" /\ ectCodePoint = "Ect0"
  /\ nextTx = 0 /\ lastAcked = 0 /\ ecnState = "ECN_IDLE"
  /\ phase = "config" /\ ack = NoAck /\ recover = 0 /\ dupAcks = 0
  /\ winQueued = FALSE

\* The setters abort when m_initialized; an abort leaves no successor state.
InitializeDstcpAlpha(a) ==
  /\ ~initialized /\ alpha' = a
  /\ UNCHANGED <<beta, tdcv, minRtt, initialized, ackedBytesEcn, ackedBytesRtt,
                 ackedBytesTotal, nextSeq, nextSeqFlag, tcb, phase, ack,
                 recover, winQueued, dupAcks>>

InitializeDstcpBeta(b) ==
  /\ ~initialized /\ beta' = b
  /\ UNCHANGED <<alpha, tdcv, minRtt, initialized, ackedBytesEcn, ackedBytesRtt,
                 ackedBytesTotal, nextSeq, nextSeqFlag, tcb, phase, ack,
                 recover, winQueued, dupAcks>>

InitializeDstcpTdcv(t) ==
  /\ ~initialized /\ tdcv' = t
  /\ UNCHANGED <<alpha, beta, minRtt, initialized, ackedBytesEcn, ackedBytesRtt,
                 ackedBytesTotal, nextSeq, nextSeqFlag, tcb, phase, ack,
                 recover, winQueued, dupAcks>>

\* TcpDstcp::Init, called by the transport when the connection starts.
DstcpInit ==
  /\ phase = "config"
  /\ useEcn' = "On" /\ ecnMode' = "DctcpEcn"
  /\ ectCodePoint' = IF UseEct0 THEN "Ect0" ELSE "Ect1"
  /\ initialized' = TRUE
  /\ phase' = "idle"
  /\ UNCHANGED <<alpha, beta, tdcv, minRtt, ackedBytesEcn, ackedBytesRtt,
                 ackedBytesTotal, nextSeq, nextSeqFlag, cWnd, ssThresh,
                 cWndInfl, nextTx, lastAcked, ecnState, ack, recover,
                 winQueued, dupAcks>>

-----------------------------------------------------------------------------
(* TcpDstcp::Reset and TcpDstcp::PktsAcked, for the ACK the transport has *)
(* just processed: ack.segs segments, RTT sample ack.rtt.                 *)

\* Fault injection: Reset forgets one of the counters, or starts the next
\* window one segment past m_nextTxSequence.
ResetKeepsRtt ==
  /\ nextSeq' = nextTx
  /\ ackedBytesEcn' = 0 /\ ackedBytesRtt' = ackedBytesRtt /\ ackedBytesTotal' = 0
ResetKeepsEcn ==
  /\ nextSeq' = nextTx
  /\ ackedBytesEcn' = ackedBytesEcn /\ ackedBytesRtt' = 0 /\ ackedBytesTotal' = 0
ResetPastNextTx ==
  /\ nextSeq' = nextTx + 1
  /\ ackedBytesEcn' = 0 /\ ackedBytesRtt' = 0 /\ ackedBytesTotal' = 0

\* Fault injection: the next window ends at m_lastAckedSeq, so it is already
\* over when the next ACK arrives.
ResetFromLastAcked ==
  /\ nextSeq' = lastAcked
  /\ ackedBytesEcn' = 0 /\ ackedBytesRtt' = 0 /\ ackedBytesTotal' = 0

\* TcpDstcp::Reset: the next observation window ends at m_nextTxSequence.
Reset ==
  /\ nextSeq' = nextTx
  /\ ackedBytesEcn' = 0 /\ ackedBytesRtt' = 0 /\ ackedBytesTotal' = 0

PktsAcked ==
  LET bytes    == ack.segs * SegSize
      segCwnd  == GetCwndInSegments(cWnd)
      minR     == IF ack.rtt # 0 THEN Min({minRtt, ack.rtt}) ELSE minRtt
      rttMark  == ack.rtt # 0 /\ Nql(segCwnd, minR, ack.rtt) >= tdcv
      total    == ackedBytesTotal + bytes
      byRtt    == ackedBytesRtt + (IF rttMark THEN bytes ELSE 0)
      byEcn    == ackedBytesEcn + (IF ecnState = "ECN_ECE_RCVD" THEN bytes ELSE 0)
      boundary == IF nextSeqFlag THEN nextSeq ELSE nextTx
      queued   == winQueued \/ (ack.rtt # 0 /\ QueueAtLeast(segCwnd, minR, ack.rtt, tdcv))
  IN
  /\ phase = "acked"
  /\ phase' = "cc"
  /\ minRtt' = minR
  /\ nextSeqFlag' = TRUE
  /\ \/ \* the observation window is still open
        /\ lastAcked < boundary
        /\ ackedBytesTotal' = total /\ ackedBytesRtt' = byRtt
        /\ ackedBytesEcn' = byEcn /\ nextSeq' = boundary
        /\ winQueued' = queued
        /\ UNCHANGED <<alpha, beta, cWnd, ssThresh, cWndInfl>>
     \/ \* rtt expire: update alpha and beta, maybe cut cwnd, then Reset
        LET fEcn == Fraction(byEcn, total)
            fRtt == Fraction(byRtt, total)
            b2   == Ewma(beta, fRtt)
            \* bytesEcn > 0 and bytesRtt > 0 compare the exact ratios
            ecnMarked == total > 0 /\ byEcn > 0
            rttMarked == total > 0 /\ byRtt > 0
        IN
        /\ lastAcked >= boundary
        /\ alpha' = Ewma(alpha, fEcn)
        /\ beta' = b2
        /\ \/ \* no ECN marks but RTT marks: reduce cwnd right now
              LET cw == Max({Reduced(b2, cWnd), 2 * SegSize})
              IN /\ ~ecnMarked /\ rttMarked
                 /\ cWnd' = cw /\ ssThresh' = cw /\ cWndInfl' = cw
           \/ \* ECN marks (GetSsThresh does it on CWR) or no marks at all
              /\ ecnMarked \/ ~rttMarked
              /\ UNCHANGED <<cWnd, ssThresh, cWndInfl>>
        /\ Reset
        /\ winQueued' = FALSE
  /\ UNCHANGED <<tdcv, initialized, useEcn, ecnMode, ectCodePoint, nextTx,
                 lastAcked, ecnState, ack, recover, dupAcks>>

-----------------------------------------------------------------------------
(* The transport (environment).  Only the behaviour the estimator sees is  *)
(* kept: what is in flight, which ACKs arrive, when PktsAcked is called    *)
(* and when CWR is entered and left.                                       *)

\* Send one segment if cwnd allows it (with nothing in flight one segment
\* always goes out, so a cwnd below one segment cannot stall the flow).
SendSegment ==
  /\ phase = "idle"
  /\ nextTx < MaxSeq
  /\ nextTx = lastAcked \/ (nextTx - lastAcked + 1) * SegSize <= cWnd
  /\ nextTx' = nextTx + 1
  /\ UNCHANGED <<estimator, cWnd, ssThresh, cWndInfl, useEcn, ecnMode,
                 ectCodePoint, lastAcked, ecnState, phase, ack, recover,
                 winQueued, dupAcks>>

\* An ACK acknowledging k new segments (k = 0: a duplicate ACK, for which the
\* transport calls PktsAcked with one segment), carrying RTT sample rtt and
\* possibly ECN-Echo.  An ECE outside CWR sets ECN_ECE_RCVD before PktsAcked.
\* Each duplicate ACK answers one segment received beyond the first missing
\* one, so there are fewer than nextTx - lastAcked of them.
ReceiveAck(k, rtt, ece) ==
  /\ phase = "idle"
  /\ nextTx > lastAcked
  /\ k \in 0..(nextTx - lastAcked)
  /\ k = 0 => dupAcks + 1 < nextTx - lastAcked
  /\ dupAcks' = IF k = 0 THEN dupAcks + 1 ELSE 0
  /\ ece => useEcn = "On"
  /\ lastAcked' = lastAcked + k
  /\ ecnState' = IF ece /\ ecnState = "ECN_IDLE" THEN "ECN_ECE_RCVD" ELSE ecnState
  /\ ack' = [segs |-> IF k = 0 THEN 1 ELSE k, rtt |-> rtt]
  /\ phase' = "acked"
  /\ UNCHANGED <<estimator, cWnd, ssThresh, cWndInfl, useEcn, ecnMode,
                 ectCodePoint, nextTx, recover, winQueued>>

\* After PktsAcked: an ECE enters CWR, ssthresh = GetSsThresh ().
EnterCwr ==
  /\ phase = "cc" /\ ecnState = "ECN_ECE_RCVD"
  /\ ssThresh' = GetSsThresh
  /\ ecnState' = "ECN_CWR_SENT" /\ recover' = nextTx
  /\ phase' = "idle" /\ ack' = NoAck
  /\ UNCHANGED <<estimator, cWnd, cWndInfl, useEcn, ecnMode, ectCodePoint,
                 nextTx, lastAcked, winQueued, dupAcks>>

\* After PktsAcked: CWR ends once everything sent at its entry is acked, and
\* cwnd is set to ssthresh.
ExitCwr ==
  /\ phase = "cc" /\ ecnState = "ECN_CWR_SENT" /\ lastAcked >= recover
  /\ cWnd' = ssThresh /\ cWndInfl' = ssThresh
  /\ ecnState' = "ECN_IDLE" /\ recover' = 0
  /\ phase' = "idle" /\ ack' = NoAck
  /\ UNCHANGED <<estimator, ssThresh, useEcn, ecnMode, ectCodePoint, nextTx,
                 lastAcked, winQueued, dupAcks>>

\* After PktsAcked otherwise: the window may grow (slow start / congestion
\* avoidance of the base class, abstracted to "one segment or nothing").
IncreaseWindow ==
  /\ phase = "cc"
  /\ ecnState # "ECN_ECE_RCVD"
  /\ ~(ecnState = "ECN_CWR_SENT" /\ lastAcked >= recover)
  /\ \/ cWnd' = cWnd
     \/ ecnState = "ECN_IDLE" /\ cWnd + SegSize <= MaxCwnd /\ cWnd' = cWnd + SegSize
  /\ cWndInfl' = cWnd'
  /\ phase' = "idle" /\ ack' = NoAck
  /\ UNCHANGED <<estimator, ssThresh, useEcn, ecnMode, ectCodePoint, nextTx,
                 lastAcked, ecnState, recover, winQueued, dupAcks>>

\* The flow is over: everything sent and acknowledged.
FlowDone ==
  /\ phase = "idle" /\ nextTx = MaxSeq /\ lastAcked = MaxSeq
  /\ UNCHANGED vars

Next ==
  \/ \E a \in AlphaValues : InitializeDstcpAlpha(a)
  \/ \E b \in BetaValues : InitializeDstcpBeta(b)
  \/ \E t \in TdcvValues : InitializeDstcpTdcv(t)
  \/ DstcpInit
  \/ SendSegment
  \/ \E k \in 0..MaxSeq, rtt \in RttSamples, ece \in BOOLEAN : ReceiveAck(k, rtt, ece)
  \/ PktsAcked
  \/ EnterCwr
  \/ ExitCwr
  \/ IncreaseWindow
  \/ FlowDone

\* The estimator and the transport's ACK processing run to completion once
\* started (single-threaded event processing); an ACK that advances the
\* cumulative ACK eventually arrives while data is outstanding, even if
\* duplicate ACKs keep arriving (retransmission timeout), hence SF.
AfterAck == EnterCwr \/ ExitCwr \/ IncreaseWindow
NewAck == \E k \in 1..MaxSeq, rtt \in RttSamples, ece \in BOOLEAN : ReceiveAck(k, rtt, ece)
Fairness ==
  /\ WF_vars(DstcpInit) /\ WF_vars(PktsAcked) /\ WF_vars(AfterAck)
  /\ SF_vars(NewAck)

Spec == Init /\ [][Next]_vars
FairSpec == Spec /\ Fairness

-----------------------------------------------------------------------------
(* Properties.                                                             *)

TypeOK ==
  /\ alpha \in Nat /\ beta \in Nat /\ tdcv \in Nat /\ minRtt \in Nat \ {0}
  /\ initialized \in BOOLEAN /\ nextSeqFlag \in BOOLEAN
  /\ {ackedBytesEcn, ackedBytesRtt, ackedBytesTotal} \subseteq Nat
  /\ nextSeq \in Nat
  /\ {cWnd, ssThresh, cWndInfl} \subseteq 0..MaxCwnd
  /\ useEcn \in {"On", "Off"} /\ ectCodePoint \in {"Ect0", "Ect1"}
  /\ 0 <= lastAcked /\ lastAcked <= nextTx /\ nextTx <= MaxSeq
  /\ ecnState \in EcnStates
  /\ phase \in {"config", "idle", "acked", "cc"}
  /\ ack \in [segs : 0..MaxSeq, rtt : RttSamples]
  /\ dupAcks \in 0..MaxSeq /\ winQueued \in BOOLEAN

\* PktsAcked adds an ACK's bytes to the ECN- and RTT-marked counts only when
\* it adds them to the total, and Reset clears all three together: the
\* marked byte counts of a window never exceed its total.
MarkedBytesWithinTotal ==
  ackedBytesEcn <= ackedBytesTotal /\ ackedBytesRtt <= ackedBytesTotal

\* The EWMA at each window close keeps alpha and beta in [0, 1] (spec 8,
\* "fraction bounds"); needs the marked fraction of every window <= 1.
FractionsBounded == alpha \in 0..Scale /\ beta \in 0..Scale

\* The immediate cwnd cut of PktsAcked happens only at the close of a window
\* in which some ACK carried an RTT sample showing a queue of at least tdcv
\* segments: stale marks from an earlier window never cut cwnd.
AckShowsQueue ==
  ack.rtt # 0 /\ QueueAtLeast(GetCwndInSegments(cWnd), Min({minRtt, ack.rtt}),
                              ack.rtt, tdcv)
RttCutJustified ==
  [][phase = "acked" /\ cWnd' < cWnd => winQueued \/ AckShowsQueue]_vars

\* An observation window that has started with data outstanding is
\* eventually closed by PktsAcked (alpha and beta keep being updated).
WindowEventuallyCloses ==
  (phase = "idle" /\ nextSeqFlag /\ lastAcked < nextSeq)
    ~> (phase = "cc" /\ ackedBytesTotal = 0)

\* Spec 3: "window never closes twice without an intervening acknowledgement
\* past the boundary".  PktsAcked closes a window only for an ACK that
\* acknowledged new data, never for a duplicate ACK (the transport calls
\* PktsAcked with one segment for those).
WindowClosesOnNewAck ==
  [][phase = "acked" /\ phase' = "cc" /\ ackedBytesTotal' = 0 => dupAcks = 0]_vars

\* Spec (shrink decision): a window is never penalised twice, and an
\* explicit-mark reduction takes precedence over the RTT fallback.  Once an
\* ECE has put the transport in CWR with ssthresh = GetSsThresh (), the
\* cwnd it restores when CWR ends is that value: no PktsAcked call during
\* CWR replaces it by an RTT cut (ECE ACKs during CWR leave m_ecnState at
\* ECN_CWR_SENT, so line 194 counts them as unmarked).
EcnReductionKept ==
  [][phase = "acked" /\ ecnState = "ECN_CWR_SENT" => ssThresh' = ssThresh]_vars

\* Spec 3 and 8: cwnd is never below two segments after a reduction.  The
\* RTT cut of PktsAcked takes max (val, 2 * segmentSize); the ECN reduction
\* goes through GetSsThresh, which has no floor.
CwndAtLeastTwoSegments == phase = "config" \/ cWnd >= 2 * SegSize

\* Refinement: DSTCP implements the abstract CongestionEstimator with ECN
\* accounting.  Its window counters, its boundary (m_nextSeq once
\* m_nextSeqFlag is set) and m_initialized are the abstract window,
\* boundary and lock; every PktsAcked call is one Observe or Close step,
\* the transport's steps (and the tdcv setter) are the abstract
\* Transport steps or stutter.
Abs == INSTANCE CongestionEstimator
         WITH UsesEcn <- TRUE, MaxAckSegs <- MaxSeq, locked <- initialized,
              win <- [total |-> ackedBytesTotal, ecn |-> ackedBytesEcn,
                      rtt |-> ackedBytesRtt],
              boundary <- IF nextSeqFlag THEN nextSeq ELSE -1

\* PktsAcked, GetSsThresh's use by the transport, Reset and the setters
\* together keep the promises of spec 4.1 over every interleaving: alpha
\* and beta move only at a window close by one EWMA step, a close cuts
\* cwnd at most once and never below half or below two segments, the
\* counters are emptied and the next window ends at m_nextTxSequence.
ImplementsCongestionEstimator == Abs!Spec

=============================================================================
