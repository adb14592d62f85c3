------------------------------- MODULE EcnEcho ------------------------------
(***************************************************************************)
(* Receiver side of TcpDstcp (src/src/internet/model/tcp-dstcp.cc):        *)
(* CwndEvent with CeState0to1, CeState1to0 and UpdateAckReserved.  When    *)
(* the CE mark of arriving segments flips while a delayed ACK is pending,  *)
(* the estimator rewinds the receive buffer's NextRxSequence to the point  *)
(* saved at the previous CE event, has the transport send an ACK for it    *)
(* with the old ECE value, and restores NextRxSequence.                    *)
(*                                                                         *)
(* The transport's receive path (ns-3 TcpSocketBase, not in this           *)
(* repository) is an environment: segments arrive in order, each with or   *)
(* without CE; the transport reports the CE event, advances NextRxSequence *)
(* and either sends an ACK or delays it (DelAckMax segments per ACK, a     *)
(* timer for the rest).  Two points of that contract are constants:        *)
(* whether the CE event is reported after NextRxSequence has advanced,     *)
(* and which event the transport reports when the delayed-ACK timer sends  *)
(* the pending ACK.                                                        *)
(*                                                                         *)
(* One receiver state record r is transformed step by step, so that an     *)
(* action is the sequential composition of the calls the handler makes.   *)
(***************************************************************************)
EXTENDS Integers, Sequences, FiniteSetsExt

CONSTANTS
  MaxSeg,               \* segments the receiver gets (model bound)
  DelAckMax,            \* TcpSocket DelAckCount: segments per ACK
  CeEventAfterAdvance,  \* CE event reported after NextRxSequence advances
  TimeoutEvent          \* CA event the delayed-ACK timer reports

ASSUME MaxSeg \in Nat \ {0} /\ DelAckMax \in Nat \ {0}
ASSUME CeEventAfterAdvance \in BOOLEAN
ASSUME TimeoutEvent \in {"CA_EVENT_DELAYED_ACK", "CA_EVENT_NON_DELAYED_ACK"}

VARIABLES
  r,        \* receiver state: estimator members, tcb fields, transport
  marks     \* history: CE mark of every segment received, in order

vars == <<r, marks>>

RxEcnStates == {"ECN_IDLE", "ECN_CE_RCVD", "ECN_SENDING_ECE"}

\* An ACK sent: acknowledged up to, ECE flag, regenerated by the estimator,
\* and whether the transport had a delayed ACK pending when it was sent.
Acks == [to : 0..MaxSeg, ece : BOOLEAN, regen : BOOLEAN, pending : BOOLEAN]

-----------------------------------------------------------------------------
(* Transport operations the estimator calls or is called from.            *)

\* TcpSocketBase::SendEmptyPacket (ACK [| ECE]): ECE is also set while the
\* receiver is in a CE state, and sending an ACK cancels the delayed ACK.
SendEmptyPacket(s, ece, regen) ==
  LET e == ece \/ s.ecnState \in {"ECN_CE_RCVD", "ECN_SENDING_ECE"}
  IN [s EXCEPT !.acks = Append(@, [to |-> s.rcvNxt, ece |-> e, regen |-> regen,
                                    pending |-> s.delAckPending]),
               !.ecnState = IF e /\ @ = "ECN_CE_RCVD" THEN "ECN_SENDING_ECE" ELSE @,
               !.delAckCount = 0, !.delAckPending = FALSE]

-----------------------------------------------------------------------------
(* The estimator: TcpDstcp::CeState0to1, CeState1to0, UpdateAckReserved   *)
(* and CwndEvent, as functions of the receiver state.                      *)

\* Fault injection: NextRxSequence left at m_priorRcvNxt after the ACK.
RegenerateNoRestore(s, ece) ==
  SendEmptyPacket([s EXCEPT !.rcvNxt = s.priorRcvNxt], ece, TRUE)

\* Save NextRxSequence, set it to m_priorRcvNxt, send the ACK, restore it.
Regenerate(s, ece) ==
  LET tmpRcvNxt == s.rcvNxt
  IN [SendEmptyPacket([s EXCEPT !.rcvNxt = s.priorRcvNxt], ece, TRUE)
        EXCEPT !.rcvNxt = tmpRcvNxt]

\* Fault injection: the receiver state written as ECN_ECE_RCVD, the
\* sender-side constant of the same enumeration.
CeState0to1WrongState(s) ==
  LET s1 == IF ~s.ceState /\ s.delayedAckReserved /\ s.priorRcvNxtFlag
              THEN Regenerate(s, FALSE) ELSE s
  IN [s1 EXCEPT !.priorRcvNxtFlag = TRUE, !.priorRcvNxt = s1.rcvNxt,
                !.ceState = TRUE, !.ecnState = "ECN_ECE_RCVD"]

\* A CE segment after non-CE ones: the pending ACK goes out without ECE.
CeState0to1(s) ==
  LET s1 == IF ~s.ceState /\ s.delayedAckReserved /\ s.priorRcvNxtFlag
              THEN Regenerate(s, FALSE) ELSE s
  IN [s1 EXCEPT !.priorRcvNxtFlag = TRUE, !.priorRcvNxt = s1.rcvNxt,
                !.ceState = TRUE, !.ecnState = "ECN_CE_RCVD"]

\* Fault injection: m_priorRcvNxt saved only inside the regeneration
\* branch, so it is stale whenever no ACK was regenerated.
CeState1to0SnapshotInBranch(s) ==
  LET s1 == IF s.ceState /\ s.delayedAckReserved /\ s.priorRcvNxtFlag
              THEN [Regenerate(s, TRUE) EXCEPT !.priorRcvNxt = s.rcvNxt] ELSE s
  IN [s1 EXCEPT !.priorRcvNxtFlag = TRUE, !.ceState = FALSE,
                !.ecnState = IF @ \in {"ECN_CE_RCVD", "ECN_SENDING_ECE"}
                               THEN "ECN_IDLE" ELSE @]

\* A non-CE segment after CE ones: the pending ACK goes out with ECE, and a
\* receiver CE state returns to ECN_IDLE.
CeState1to0(s) ==
  LET s1 == IF s.ceState /\ s.delayedAckReserved /\ s.priorRcvNxtFlag
              THEN Regenerate(s, TRUE) ELSE s
  IN [s1 EXCEPT !.priorRcvNxtFlag = TRUE, !.priorRcvNxt = s1.rcvNxt,
                !.ceState = FALSE,
                !.ecnState = IF @ \in {"ECN_CE_RCVD", "ECN_SENDING_ECE"}
                               THEN "ECN_IDLE" ELSE @]

\* Fault injection: CA_EVENT_NON_DELAYED_ACK ignored, the flag never clears.
UpdateAckReservedNoClear(s, event) ==
  IF event = "CA_EVENT_DELAYED_ACK"
    THEN [s EXCEPT !.delayedAckReserved = TRUE] ELSE s

\* m_delayedAckReserved follows the delayed / non-delayed ACK events.
UpdateAckReserved(s, event) ==
  CASE event = "CA_EVENT_DELAYED_ACK"     -> [s EXCEPT !.delayedAckReserved = TRUE]
    [] event = "CA_EVENT_NON_DELAYED_ACK" -> [s EXCEPT !.delayedAckReserved = FALSE]
    [] OTHER                              -> s

CwndEvent(s, event) ==
  CASE event = "CA_EVENT_ECN_IS_CE" -> CeState0to1(s)
    [] event = "CA_EVENT_ECN_NO_CE" -> CeState1to0(s)
    [] event \in {"CA_EVENT_DELAYED_ACK", "CA_EVENT_NON_DELAYED_ACK"}
                                    -> UpdateAckReserved(s, event)
    [] OTHER                        -> s

-----------------------------------------------------------------------------
(* The transport's receive path (environment).                             *)

AdvanceRcvNxt(s) == [s EXCEPT !.rcvNxt = @ + 1]

\* An in-order segment: ACK now once DelAckMax segments are unacknowledged,
\* otherwise report a delayed ACK and (re)arm the timer.
AckOrDelay(s) ==
  IF s.delAckCount + 1 >= DelAckMax
    THEN SendEmptyPacket(CwndEvent(s, "CA_EVENT_NON_DELAYED_ACK"), FALSE, FALSE)
    ELSE [CwndEvent(s, "CA_EVENT_DELAYED_ACK")
            EXCEPT !.delAckCount = @ + 1, !.delAckPending = TRUE]

Init ==
  /\ r = [ceState |-> FALSE, delayedAckReserved |-> FALSE,
          priorRcvNxt |-> 0, priorRcvNxtFlag |-> FALSE,
          ecnState |-> "ECN_IDLE", rcvNxt |-> 0,
          delAckCount |-> 0, delAckPending |-> FALSE, acks |-> <<>>]
  /\ marks = <<>>

\* A data segment arrives, with or without CE.
ReceiveSegment(ce) ==
  LET event == IF ce THEN "CA_EVENT_ECN_IS_CE" ELSE "CA_EVENT_ECN_NO_CE"
      s1 == IF CeEventAfterAdvance THEN CwndEvent(AdvanceRcvNxt(r), event)
                                   ELSE AdvanceRcvNxt(CwndEvent(r, event))
  IN /\ Len(marks) < MaxSeg
     /\ r' = AckOrDelay(s1)
     /\ marks' = Append(marks, ce)

\* The delayed-ACK timer fires and sends the pending ACK.
DelAckTimeout ==
  /\ r.delAckPending
  /\ r' = SendEmptyPacket(CwndEvent([r EXCEPT !.delAckCount = 0], TimeoutEvent),
                          FALSE, FALSE)
  /\ UNCHANGED marks

\* Everything received has been acknowledged and no timer is pending.
Done ==
  /\ Len(marks) = MaxSeg /\ ~r.delAckPending
  /\ UNCHANGED vars

Next == (\E ce \in BOOLEAN : ReceiveSegment(ce)) \/ DelAckTimeout \/ Done

\* The simulator eventually runs a scheduled timer event.
Spec == Init /\ [][Next]_vars /\ WF_vars(DelAckTimeout)

-----------------------------------------------------------------------------
(* Properties.                                                             *)

TypeOK ==
  /\ r.ceState \in BOOLEAN /\ r.delayedAckReserved \in BOOLEAN
  /\ r.priorRcvNxtFlag \in BOOLEAN /\ r.delAckPending \in BOOLEAN
  /\ r.priorRcvNxt \in 0..MaxSeg /\ r.rcvNxt \in 0..MaxSeg
  /\ r.ecnState \in RxEcnStates
  /\ r.delAckCount \in 0..DelAckMax
  /\ r.acks \in Seq(Acks) /\ marks \in Seq(BOOLEAN)

\* The highest point acknowledged before the i-th ACK.
AckedBefore(i) == Max({0} \cup {r.acks[j].to : j \in 1..(i - 1)})

\* DCTCP echo accuracy, the purpose of CeState0to1 / CeState1to0: every ACK
\* the receiver sends, the regenerated ones included, carries ECE exactly
\* when the segments it newly acknowledges were CE-marked, so the sender
\* counts marked bytes correctly across CE flips and delayed ACKs.
EchoAccurate ==
  \A i \in 1..Len(r.acks) :
    \A k \in (AckedBefore(i) + 1)..r.acks[i].to :
      k <= Len(marks) /\ marks[k] = r.acks[i].ece

\* Spec 2: "echo regeneration only fires when a delayed ACK is actually
\* outstanding".  The estimator's m_delayedAckReserved must mirror the
\* transport's delayed-ACK state whenever CeState0to1 / CeState1to0 read it.
RegenOnlyWhenPending ==
  \A i \in 1..Len(r.acks) : r.acks[i].regen => r.acks[i].pending


\* The highest point acknowledged so far.
HighestAck == Max({0} \cup {r.acks[j].to : j \in DOMAIN r.acks})

\* Every segment the receiver gets is eventually acknowledged, even when no
\* further segment arrives: the ACK regenerated by CeState0to1 / CeState1to0
\* rewinds NextRxSequence around m_sendEmptyPacketCallback and, by being
\* sent, cancels the transport's pending delayed ACK, so the segments after
\* m_priorRcvNxt must still be covered by a later ACK.
SegmentsEventuallyAcked ==
  \A k \in 1..MaxSeg : Len(marks) >= k ~> HighestAck >= k

=============================================================================
