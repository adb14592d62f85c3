------------------------- MODULE CongestionEstimator -------------------------
(***************************************************************************)
(* The abstract CongestionEstimator of spec sections 2, 3 and 4.1: what   *)
(* both estimators promise the transport, whatever their arithmetic.      *)
(*                                                                         *)
(*  - Configuration (alpha, beta) may change only before the estimator is *)
(*    locked by Init.                                                      *)
(*  - Each acknowledgement either adds its bytes to the open observation  *)
(*    window (total, and possibly the ECN- and RTT-marked counts) or      *)
(*    closes the window once lastAcked has reached its boundary.          *)
(*  - At a close, alpha and beta take one EWMA step: the new value lies   *)
(*    between the old one and the window's raw marked fraction.           *)
(*  - The close shrinks cwnd at most once, and only when the window had   *)
(*    RTT marks and, if ECN is used, no ECN marks; the new window lies    *)
(*    between half the old one and the old one, floored at two segments, *)
(*    and is written to cwnd, ssthresh and the inflated cwnd.            *)
(*  - A close empties the counters and the next window ends at the        *)
(*    current nextTxSequence.  minRtt never increases and stays positive. *)
(*  - Everything else (sending, ACK arrival, cwnd growth, CWR) is the     *)
(*    transport's, which leaves the estimator's state alone and never     *)
(*    moves a sequence counter backwards.                                 *)
(*                                                                         *)
(* UsesEcn is the capability flag of spec section 9: TRUE for DSTCP,      *)
(* FALSE for DcVegas, whose alpha and ECN count stay constant.            *)
(***************************************************************************)
EXTENDS Integers, FiniteSetsExt

CONSTANTS
  UsesEcn,      \* the estimator accounts ECN-marked bytes (alpha)
  SegSize,      \* segment size, bytes
  Scale,        \* alpha and beta are in units of 1/Scale
  MaxAckSegs    \* most segments one acknowledgement covers

VARIABLES
  alpha, beta, minRtt, locked,
  win,          \* the open window's byte counts [total, ecn, rtt]
  boundary,     \* sequence number ending the window, NoBoundary before use
  cWnd, ssThresh, cWndInfl, nextTx, lastAcked

vars == <<alpha, beta, minRtt, locked, win, boundary, cWnd, ssThresh,
          cWndInfl, nextTx, lastAcked>>
estimatorVars == <<alpha, beta, minRtt, locked, win, boundary>>

NoBoundary == -1
EmptyWindow == [total |-> 0, ecn |-> 0, rtt |-> 0]
AckBytes == {k * SegSize : k \in 1..MaxAckSegs}

\* The marked fraction of a window, in 1/Scale (0 for an empty window).
RawFraction(marked, total) == IF total > 0 THEN (marked * Scale) \div total ELSE 0

\* One EWMA step with gain in [0, 1]: a convex combination of old and f.
EwmaStep(old, new, f) == new \in Min({old, f})..Max({old, f})

\* The shrunk window: (1 - beta/2) of cw for beta in [0, 1], floored.
Shrunk(cw) == {Max({c, 2 * SegSize}) : c \in (cw \div 2)..cw}

\* The boundary the current acknowledgement is tested against.
Boundary == IF boundary = NoBoundary THEN nextTx ELSE boundary

Init ==
  /\ alpha \in 0..Scale /\ beta \in 0..Scale /\ minRtt > 0
  /\ locked = FALSE /\ win = EmptyWindow /\ boundary = NoBoundary
  /\ 0 <= lastAcked /\ lastAcked <= nextTx
  /\ {cWnd, ssThresh, cWndInfl} \subseteq Nat

\* Configuration before Init; setters after it are programming errors.
Configure ==
  /\ ~locked
  /\ alpha' \in 0..Scale /\ beta' \in 0..Scale
  /\ UNCHANGED <<minRtt, locked, win, boundary, cWnd, ssThresh, cWndInfl,
                 nextTx, lastAcked>>

Lock ==
  /\ ~locked /\ locked' = TRUE
  /\ UNCHANGED <<alpha, beta, minRtt, win, boundary, cWnd, ssThresh,
                 cWndInfl, nextTx, lastAcked>>

\* The counts after an acknowledgement of b bytes, e of them counted as
\* ECN-marked and r as RTT-marked (each 0 or b).
Counted(b, e, r) == [total |-> win.total + b, ecn |-> win.ecn + e, rtt |-> win.rtt + r]
Marks(b) == IF UsesEcn THEN {0, b} ELSE {0}

\* An acknowledgement inside the window.
Observe ==
  /\ locked /\ lastAcked < Boundary
  /\ \E b \in AckBytes : \E e \in Marks(b), r \in {0, b} : win' = Counted(b, e, r)
  /\ boundary' = Boundary
  /\ minRtt' \in 1..minRtt
  /\ UNCHANGED <<alpha, beta, locked, cWnd, ssThresh, cWndInfl, nextTx, lastAcked>>

\* The acknowledgement that closes the window.
Close ==
  /\ locked /\ lastAcked >= Boundary
  /\ \E b \in AckBytes : \E e \in Marks(b), r \in {0, b} :
       LET w == Counted(b, e, r)
       IN /\ EwmaStep(alpha, alpha', RawFraction(w.ecn, w.total))
          /\ EwmaStep(beta, beta', RawFraction(w.rtt, w.total))
          /\ IF w.rtt > 0 /\ w.ecn = 0
               THEN /\ cWnd' \in Shrunk(cWnd)
                    /\ ssThresh' = cWnd' /\ cWndInfl' = cWnd'
               ELSE UNCHANGED <<cWnd, ssThresh, cWndInfl>>
  /\ ~UsesEcn => alpha' = alpha
  /\ win' = EmptyWindow /\ boundary' = nextTx
  /\ minRtt' \in 1..minRtt
  /\ UNCHANGED <<locked, nextTx, lastAcked>>

\* The transport's own steps.
Transport ==
  /\ UNCHANGED estimatorVars
  /\ {cWnd', ssThresh', cWndInfl'} \subseteq Nat
  /\ nextTx' >= nextTx /\ lastAcked' >= lastAcked /\ lastAcked' <= nextTx'

Next == Configure \/ Lock \/ Observe \/ Close \/ Transport

Spec == Init /\ [][Next]_vars

=============================================================================
