# TLA+ models of the DSTCP / DcVegas congestion estimators and their scenarios

This directory holds TLA+ models of the two congestion-control classes of this
repository, `TcpDstcp` (`src/src/internet/model/tcp-dstcp.{h,cc}`) and
`TcpDcVegas` (`src/src/internet/model/tcp-dcvegas.cc`), and the TLC
configurations that check them. Both classes plug into ns-3's `TcpSocketBase`
as `TcpCongestionOps`. The socket is not part of this repository, so the
models treat it as an environment. Two further modules model the example
scenarios under `src/examples/dstcp/` and `src/examples/tcp/incast.cc`: how
they wire the network (`Topology`) and how they install flows (`FlowInstall`).

## 1. Inventory

### Components

| Component | Code | State it keeps | Operations (state changes) |
|---|---|---|---|
| DSTCP byte accounting and window reduction | `tcp-dstcp.cc` 33-283, `tcp-dstcp.h` 132-151 | `m_alpha`, `m_beta`, `m_tdcv`, `m_minRtt`, `m_g`, `m_initialized`, `m_ackedBytesEcn/Rtt/Total`, `m_nextSeq`, `m_nextSeqFlag`; writes `tcb->m_cWnd`, `m_ssThresh`, `m_cWndInfl`, `m_useEcn`, `m_ecnMode`, `m_ectCodePoint` | constructor and attribute defaults, `InitializeDstcpAlpha/Beta/Tdcv` (abort once initialised), `Init`, `PktsAcked` (ending in `Reset`), `GetSsThresh`, `Fork` (copy constructor) |
| DSTCP ECN-echo state machine | `tcp-dstcp.cc` 285-389 | `m_ceState`, `m_delayedAckReserved`, `m_priorRcvNxt`, `m_priorRcvNxtFlag`; writes `tcb->m_ecnState` and, for a moment, the receive buffer's `NextRxSequence` | `CwndEvent` dispatching to `CeState0to1`, `CeState1to0` and `UpdateAckReserved`; the first two may send an empty ACK through `m_sendEmptyPacketCallback` |
| DcVegas estimator | `tcp-dcvegas.cc` 33-236 | like DSTCP without alpha and ECN counts | as DSTCP; `Init` switches ECN **off**; the RTT cut has no ECN precondition; `GetSsThresh` uses beta |
| DcVegas ECN-echo state machine | `tcp-dcvegas.cc` 238-342 | as DSTCP | identical code to DSTCP's; it is reachable only if ECN events arrive despite `m_useEcn = Off` |
| Scenario network construction | `fat-tree.cc`, `leaf-spine.cc`, `single-rack.cc` (`main`), `tcp/incast.cc` | the nodes, the links installed, the `Ipv4AddressHelper` base (network, next host), the queue disc that is monitored | the wiring loops: `Install` of a point-to-point link, `SetBase`, `NewNetwork`, `Assign`, the RED queue disc, the monitored queue |
| Scenario traffic generation | `install_applications` of the three dstcp scenarios, `tcp/incast.cc` (`main`) | `flowCount` (passed by reference across calls), port, destination, the sinks and senders installed | the per-server launch loop, the destination rejection loop, the port choice, `BulkSend` / `PacketSink` install |

### How the components interact

All calls come from the transport, on one simulator thread. Each call runs to
completion before the next event.
- For every ACK that acknowledges new data, the transport calls
  `PktsAcked(tcb, segmentsAcked, rtt)`.
- For a duplicate ACK, it calls `PktsAcked(tcb, 1, lastRtt)`.
- Before that call it has already updated `tcb->m_lastAckedSeq` and, for an ECN-Echo
  ACK, `tcb->m_ecnState = ECN_ECE_RCVD`.
- After an ECE it enters CWR and calls `GetSsThresh`. When CWR ends, it sets
  cwnd to that ssthresh (comment at `tcp-dstcp.cc` 141-143).
- On the receive path, for each segment, it calls `CwndEvent` with
  `CA_EVENT_ECN_IS_CE` / `CA_EVENT_ECN_NO_CE`. It calls
  `CA_EVENT_DELAYED_ACK` / `CA_EVENT_NON_DELAYED_ACK` when it delays an ACK
  or sends one.
- A listening socket's estimator is copied with `Fork` for each accepted
  connection.

The estimator and the socket share the `TcpSocketState` (tcb). The estimator
reads `m_cWnd`, `m_segmentSize`, `m_nextTxSequence`, `m_lastAckedSeq` and
`m_ecnState`. It writes cwnd, ssthresh, `m_ecnState` and the ECN settings.

### What is hard

- **Window boundaries.** An observation window ends when
  `m_lastAckedSeq >= m_nextSeq`, and `m_nextSeq` is taken from
  `m_nextTxSequence` at `Reset`. Duplicate ACKs and idle periods interact with
  this test (finding 3).
- **Two signals, one reduction.** ECN-marked bytes defer the reduction to the
  transport's CWR path (`GetSsThresh`). RTT-marked bytes cut cwnd at once. The
  two paths write the same cwnd and ssthresh at different times.
- **Arithmetic.** There are several conversions:
  - truncation of `minRtt/rtt * segCwnd` to `uint32`;
  - the unsigned `nql`, whose wrap is guarded only by an `NS_ASSERT`;
  - the EWMA on doubles;
  - microsecond truncation of `Time`;
  - `(1 - f/2) * cwnd` truncated, with a two-segment floor on only one of its
    two uses.
- **Object copying.** `Fork` uses a hand-written copy constructor.
- **ECN echo.** The receiver's delayed ACK must be regenerated with the right
  ECE flag. This depends on `m_delayedAckReserved` matching the transport's
  real delayed-ACK state, and on when `m_priorRcvNxt` is sampled relative to
  the receive buffer's advance. The regeneration rewinds `NextRxSequence`
  around the transport's send callback. The ACK it sends cancels the
  pending delayed ACK.
- **Loops that must end.** `install_applications` retries a random
  destination until it leaves the source's pod or leaf. It launches flows
  until a Poisson start time passes the end, which never happens at rate 0.

### Properties that make each component correct

- **Byte accounting:**
  - the marked byte counts never exceed the total;
  - alpha and beta stay in [0, 1];
  - every observation window eventually closes;
  - a window closes only after new data past its boundary is acknowledged;
  - the immediate cut follows only a window that showed a queue of at least
    `tdcv` segments;
  - the child of `Fork` starts counting from zero.
- **Window reduction:**
  - cwnd never drops below two segments after a reduction (DSTCP's ECN
    reduction breaks this, see `dstcp_ecn_floor`);
  - a window is reduced at most once, by ECN or by RTT, never both, and an
    ECN reduction in force is not replaced by an RTT cut (spec line 68).
- **Scenarios:**
  - every index the fat-tree loops compute names an existing switch, and the
    fat-tree has the shape of a k-ary fat-tree;
  - every server is connected to every other through the fabric;
  - every host has one link with an address;
  - the monitored queue disc is the bottleneck's;
  - flows go to a server outside the source's pod or leaf;
  - no two sinks on one server bind the same port;
  - installing the applications ends.
- **ECN echo:**
  - every ACK the receiver sends carries ECE exactly when the segments it
    newly acknowledges were CE-marked;
  - a regenerated ACK is sent only while a delayed ACK is really pending;
  - two `CeState0to1` calls in a row regenerate at most one ACK;
  - every segment received is eventually acknowledged.
- **DcVegas:** the same accounting properties; ECN never influences cwnd.

## 2. Plan

Ordered by importance to the system's behaviour:

1. **`DstcpEstimator`** (done). Sender side of DSTCP plus the transport
   environment.
2. **`DstcpFork`** (done). Extends 1 with `Fork`.
3. **`EcnEcho`** (done). The receiver-side state machine: `CwndEvent`,
   `CeState0to1`, `CeState1to0`, `UpdateAckReserved`. It is composed with a
   receiver environment that delivers segments with or without CE, delays or
   sends ACKs, and records the ACKs sent with their ECE flag, so that
   echo-accuracy can be checked. The transport's order (CE event before or
   after the receive buffer advances) is a constant, so both orders can be
   checked.
4. **`DcVegasEstimator`** and **`DcVegasFork`** (done). The RTT-only variant
   with the same environment minus ECN, and a run on the uninitialised
   `m_tdcv` of its copy constructor.
5. **`CongestionEstimator`** (abstract, done). It holds one window at a
   time. The window's close applies one EWMA step and at most one reduction.
   Both estimators are shown to implement it through `INSTANCE ... WITH`
   (section 3). The duplicate-ACK close of finding 3 is allowed: the
   abstraction tests `lastAcked >= boundary`, as the code does.
6. The CWR boundary (lines 194 and 233) is checked by `EcnReductionKept`
   (done). Sub-microsecond RTT samples (the hazard at line 173) are left
   out, for the reason given in section 5.
7. A composition of `EcnEcho` with the sender side over one connection is
   not built, for the reason given in section 5.
8. Liveness of the receive path and of the flow installation
   (`SegmentsEventuallyAcked`, `InstallationTerminates`) (done).
9. **`Topology`** and **`FlowInstall`** (done). The scenario wiring and flow
   installation.

## 3. Modules

### `DstcpEstimator.tla`

**Variables.** `alpha`, `beta`, `tdcv`, `minRtt`, `initialized`,
`ackedBytesEcn/Rtt/Total`, `nextSeq` and `nextSeqFlag` are the `TcpDstcp`
members. `cWnd`, `ssThresh`, `cWndInfl`, `useEcn`, `ecnMode`, `ectCodePoint`,
`nextTx`, `lastAcked` and `ecnState` are the tcb fields it uses. The other
variables belong to the environment:
- `phase` orders one ACK's processing: `idle`, then `acked` (PktsAcked due),
  then `cc` (the transport's work after PktsAcked).
- `ack` holds the arguments of the pending PktsAcked call.
- `recover` is the CWR recovery point.
- `dupAcks` counts duplicate ACKs.
- `winQueued` is a history variable: some ACK of the current window showed a
  queue of at least `tdcv`.

**Actions from the code.**
- `Init` is the constructor with the attribute defaults.
- `InitializeDstcpAlpha/Beta/Tdcv` are guarded by `~initialized`. The
  `NS_ABORT` path ends the program, so it has no successor state.
- `DstcpInit`.
- `PktsAcked` is the whole method. It has two disjuncts: the window is still
  open, or it closes. A close does the EWMA, then the cut or no cut, then
  `Reset`.
- `Reset`.
- `GetSsThresh` is an operator used by the environment.

**Environment actions (ns-3 `TcpSocketBase`, not in this repository).**
- `SendSegment` sends while in-flight segments fit in cwnd. With nothing in
  flight, one segment always goes out.
- `ReceiveAck(k, rtt, ece)`: `k = 0` is a duplicate ACK. There are fewer
  duplicate ACKs than segments outstanding, because each answers one
  out-of-order segment. ECE sets `ECN_ECE_RCVD` outside CWR.
- `EnterCwr` sets `ssThresh := GetSsThresh`.
- `ExitCwr` sets cwnd to ssthresh once the recovery point is acknowledged.
- `IncreaseWindow` grows cwnd by one segment or leaves it. This abstracts
  Reno's slow start and congestion avoidance.
- `FlowDone` stutters at the end of the finite flow.

**Data abstraction.**
- Sequence numbers count segments. Bytes are `segments * SegSize`.
- RTTs are whole microseconds, as `GetMicroSeconds` returns them.
- alpha and beta are integers in units of `1/Scale`, and `g = G/Scale`.
- Every truncating conversion of the code is an integer division that
  truncates. The double EWMA is rounded down at each step, which is the one
  place the model rounds where the code does not. All properties checked are
  insensitive to it (bounds and zero/non-zero tests).
- The tests `bytesEcn > 0` and `bytesRtt > 0` are made on the exact counts,
  as the doubles are.

**`EcnReductionKept`** is an action property. It says that a `PktsAcked`
step taken while the transport is in `ECN_CWR_SENT` leaves ssthresh alone.
ssthresh is then the value `GetSsThresh` gave on CWR entry, and the
transport restores it when CWR ends.

**Fairness (`FairSpec`).**
- Weak fairness on `DstcpInit`, `PktsAcked` and the after-ACK step: the
  transport runs every call to completion on its single thread.
- Strong fairness on an ACK that advances the cumulative ACK: while data is
  outstanding, retransmission eventually gets it acknowledged, even when
  duplicate ACKs keep interrupting.

### `CongestionEstimator.tla` (abstract)

This module states what both estimators promise the transport. It abstracts
their arithmetic:
- **Variables.** `alpha`, `beta`, `minRtt`, a flag `locked` (Init has run),
  the open window `win` as byte counts `[total, ecn, rtt]`, its `boundary`,
  and the transport's cwnd, ssthresh, inflated cwnd, `nextTx` and `lastAcked`.
- **Actions.**
  - `Configure` changes alpha and beta only while unlocked. `Lock` is `Init`.
  - `Observe` adds an ACK's bytes to the window while `lastAcked` is below
    its boundary. A boundary not yet set counts as `nextTx`.
  - `Close` is the ACK at or past the boundary:
    - alpha and beta each move to a value between the old one and the
      window's raw marked fraction;
    - cwnd shrinks at most once, only for RTT marks without ECN marks, into
      [cwnd/2, cwnd] floored at two segments, and the result goes to ssthresh
      and the inflated cwnd too;
    - the counters empty, and the next boundary is `nextTx`.
  - `Transport` leaves the estimator alone and moves no sequence counter
    backwards.
- **Not constrained.** How much the EWMA moves, and how the queue is measured.
- **Capability flag.** `UsesEcn` is TRUE for DSTCP. It is FALSE for DcVegas,
  whose alpha and ECN count stay fixed.

**Refinement.** `DstcpEstimator` and `DcVegasEstimator` each define
`Abs == INSTANCE CongestionEstimator WITH ...`:
- `locked` is `initialized`;
- `win` is the three counters (ECN 0 for DcVegas);
- `boundary` is `nextSeq` when `nextSeqFlag` is set;
- DcVegas's alpha is the constant `Scale`.

Each core run checks `ImplementsCongestionEstimator == Abs!Spec` as a
`PROPERTY`. TLC then checks every step of the detailed module as a step of
the abstract one.

### `DstcpFork.tla`

`DstcpFork.tla` extends `DstcpEstimator` with `Fork`. A listener that has been
initialised and has sent nothing is copied. Every member comes across except
`m_ackedBytesRtt` and `m_tdcv`, which the copy constructor does not name. These
take any value of `UninitValues`, standing for indeterminate `uint32`s.

### `DcVegasEstimator.tla`

This module follows `DstcpEstimator` for `TcpDcVegas`:
- **Variables.** The same, without alpha, the ECN byte count and CWR.
- **Init.** It switches ECN off. `UseEct0` defaults to false.
- **PktsAcked.** Close and cut follow lines 183-210:
  - the cut happens whenever the window has RTT-marked bytes;
  - it is floored at two segments;
  - it is written to cwnd, ssthresh and the inflated cwnd.
- **Environment.** `SendSegment`, `ReceiveAck` without ECE, `IncreaseWindow`
  and `FlowDone`.
- **Not modelled.** `GetSsThresh` is left out: with ECN off, the transport
  calls it only on loss recovery, which the environment does not model. The
  model also has no ECN-echo copy at lines 238-342. That code is unreachable
  while `m_useEcn` is off.
- **`UpdateMinRtt`** is the `!rtt.IsZero ()` guard and `std::min` at lines
  150-158.

### `DcVegasFork.tla`

`DcVegasFork.tla` adds `Fork`. Its copy constructor copies everything except
`m_tdcv`. The module also keeps the history variable `winDelayed`: some ACK of
the current window had an RTT above the minimum.

### `EcnEcho.tla`

`EcnEcho.tla` models the receiver side of `TcpDstcp`, lines 285-389.

**State.** One record `r` holds:
- the four echo members (`m_ceState`, `m_delayedAckReserved`,
  `m_priorRcvNxt`, `m_priorRcvNxtFlag`);
- the tcb's `m_ecnState` and `NextRxSequence` (`rcvNxt`);
- the transport's delayed-ACK count and timer;
- the ACKs sent so far, with their ECE flag.

`marks` records the CE mark of each segment received.

**Operators.** Each of `CeState0to1`, `CeState1to0`, `UpdateAckReserved` and
`CwndEvent` maps one record to the next. The receive handler is then one
action that composes the calls in the transport's order:
1. report CE or no CE;
2. advance `rcvNxt`;
3. send an ACK or delay it with the matching CA event.

The order of steps 1 and 2 is the constant `CeEventAfterAdvance`.
`DelAckTimeout` sends the pending ACK and reports the CA event `TimeoutEvent`.

**Environment.** `SendEmptyPacket` is an environment operator. It sets ECE
when asked, or while the receiver is in `ECN_CE_RCVD` / `ECN_SENDING_ECE`. It
records the ACK and cancels the pending delayed ACK.

**Assumptions.** These two points of ns-3's receive path are not in this
repository and not stated in the spec. They are constants, and each setting
gets its own run.

**Bounds.** Five segments with any CE pattern, and two segments per ACK
(ns-3's default `DelAckCount`). Every flip direction, with and without a
pending delayed ACK, occurs. The example scenarios set `DelAckCount` to 1;
with that value no ACK is ever delayed and the echo logic is never
exercised.

**Fairness.** Weak fairness on the timer: the simulator runs every
scheduled event. Arrivals are not fair, because the sender may stop at any
point. `SegmentsEventuallyAcked` therefore says that what has arrived is
acknowledged even if nothing more comes.

### `Topology.tla`

This module models the wiring part of each scenario's `main()`.
- **Calls.** Each wiring loop (fat-tree lines 234-299, leaf-spine 220-269,
  single-rack 197-231, incast 93-114) is an operator. It yields the
  sequence of helper calls the loop makes: `Connect` (point-to-point
  `Install`), `Link` (a link whose addresses are assigned), `SetBase`,
  `NewNetwork`, `Assign`, `Red` (a RED queue disc) and `Monitor` (the queue
  disc whose statistics are printed). A loop is written as
  `Loop(n, LAMBDA i : ...)` over its body.
- **Execution.** The variable `scenario` is chosen in `Init`. `Step`
  executes one helper call per state. It updates the address helper's
  `net`/`host` counters the way `Ipv4AddressHelper` does: `SetBase` sets
  host 1, `NewNetwork` moves to the next /24 at host 1, `Assign` hands out
  two hosts. It also appends links and records the monitored queue.
- **Index arithmetic.** The fat-tree index formulas (`FatTreeAggIndex`,
  `FatTreeCoreIndex`) are separate operators, so that they can be checked
  and mutated.
- **Fairness.** Weak fairness on `Step`: `main()` runs to completion.
- **Not modelled.** Link rates, delays and queue sizes are attribute values
  with no control flow. Global routing is computed by ns-3.

### `FlowInstall.tla`

This module models `install_applications` and the loop in `main()` that calls
it, for all three dstcp scenarios, and the flows of `incast.cc`.
- **Variables.** `group`, `i` and `pc` are the loop position. `flowCount`
  is the counter passed by reference. `port` and `dest` belong to the flow
  being set up. `flows` records the flows installed.
- **Actions.**
  - `NextServer`: the for loop over source servers and the next call.
  - `LaunchFlow`: a start time before `FLOW_LAUNCH_END_TIME`; `flowCount++`
    and the port.
  - `EndFlows`: the start time passed the end. This needs a positive
    `RequestRate` (`StartTimeAdvances`), because `poission_gen_interval`
    returns 0 for any other rate.
  - `DrawDest`: one turn of the rejection loop.
  - `Install`: the BulkSend and the PacketSink on the destination, both
    appended to `flows` and `sinks`.
  - For incast (`incast.cc` 124-140): `IncastBulkSend` installs one flow
    per sender to the receiver on port 50000. `IncastSink` installs the one
    PacketSink on the receiver.
- **Fairness (`FairSpec`).** `main()` runs on one thread and never waits,
  which gives weak fairness on `Next`. Strong fairness goes on `DrawOutside`,
  a draw that leaves the rejection loop. Each turn of the loop leaves it
  with positive probability, so it ends with probability 1. Strong fairness
  states this without probabilities, as for a step retried until it
  succeeds.
- **Abstractions.** The Poisson start times become a nondeterministic
  choice between launching and ending, bounded per server and in total. The
  CDF file is not modelled: flow sizes do not affect any property.
  `rand_range` is every integer of `min..max`, the maximum included, because
  truncating `rand () / RAND_MAX` reaches it.

### MC modules

`MCDstcpEstimator.tla`, `MCDstcpFork.tla`, `MCDcVegasEstimator.tla` and
`MCDcVegasFork.tla` give the RTT sample set.

## 4. Runs

The estimator runs use these bounds:
- 2-byte segments;
- cwnd from 4 bytes, growing to 6 (2 to 3 segments);
- a 4-segment flow;
- alpha and beta in eighths, `g = 1/8`;
- `MinRttInit = 4` us;
- RTT samples {none, 3, 4, 6} us, one below the configured minimum;
- `tdcv` 2 by default, with setter value 1;
- setter values 1/2 for alpha and beta.

With these bounds a window can hold one or several ACKs. Queues of 0 to 1
segments are seen against thresholds 1 and 2, so marked and unmarked samples
both occur. CWR can be entered and left, duplicate ACKs occur with two
segments outstanding, and several windows close in one flow, so the EWMA
runs repeatedly. The passing run covers every action and every branch of
`PktsAcked`.

| Run | Expect | What it shows |
|---|---|---|
| `dstcp_core` (`MCDstcpEstimator.cfg`) | pass, 232,675 states | see the list below |
| `dstcp_ecn_floor` (`MCDstcpEcnFloor.cfg`) | violation of `CwndAtLeastTwoSegments` | In TLC's trace, an ECE at cwnd = 2 segments, with the default alpha = 1, gives ssthresh = 1 segment, and CWR exit applies it (alpha = 1/2, settable through the attribute, gives 1.5 segments). `GetSsThresh` (line 149) has no two-segment floor; the spec promises one after every reduction. |
| `dstcp_dupack_close` (`MCDstcpDupAck.cfg`) | violation of `WindowClosesOnNewAck` | The first ACK acknowledges everything sent, so the window closes with boundary = last ACK. After two more sends, a duplicate ACK closes a second window without any new acknowledgement (line 206, `>=`). The repeated EWMA step and RTT cut on duplicate ACKs follow. |
| `dcvegas_core` (`MCDcVegasEstimator.cfg`) | pass, 24,877 states | see the list below |
| `dcvegas_fork` (`MCDcVegasFork.cfg`) | violation of `CutNeedsDelay` | The copy leaves `m_tdcv` indeterminate (line 93). With the value 0, an ACK whose RTT equals `minRtt` counts as queued, and the window close cuts cwnd with no delay in the window (code bug). With a copied threshold of 1 the same property holds. |
| `ecn_echo` (`MCEcnEcho.cfg`) | pass, 881 states | With the CE event after the advance and the timer reporting a non-delayed ACK, every ACK (regenerated ones included) echoes exactly the CE marks of the segments it newly acknowledges (`EchoAccurate`), an ACK is regenerated only while a delayed ACK is pending (`RegenOnlyWhenPending`), and every segment received is eventually acknowledged (`SegmentsEventuallyAcked`). The last holds although a regenerated ACK rewinds `NextRxSequence` around the send callback and cancels the pending delayed ACK. |
| `ecn_echo_order` (`MCEcnEchoOrder.cfg`) | violation of `EchoAccurate` | If the CE event comes before `NextRxSequence` advances, `m_priorRcvNxt` lags one segment. The regenerated ACK then acknowledges nothing new, and a CE segment is later acknowledged without ECE (spec gap: the contract is not stated). |
| `ecn_echo_timer` (`MCEcnEchoTimer.cfg`) | violation of `RegenOnlyWhenPending` | If the delayed-ACK timer reports `CA_EVENT_DELAYED_ACK`, `m_delayedAckReserved` stays set after the ACK is sent, and the next CE flip sends a duplicate ACK (spec gap). |
| `dstcp_cwr_cut` (`MCDstcpCwrCut.cfg`) | violation of `EcnReductionKept` | In TLC's trace, an ECE with the default alpha = 1 and cwnd = 2 segments enters CWR with ssthresh = 1 segment (2 bytes). An ACK inside CWR then closes a window with RTT-marked bytes (its ECE is not counted, because `m_ecnState` is `ECN_CWR_SENT` at line 194), and the cut at line 233 sets ssthresh to 2 segments (4 bytes). CWR exit applies the RTT value: the RTT fallback replaces the explicit-mark reduction, contrary to spec line 68. |
| `wiring` (`MCTopology.cfg`) | pass, 252 states | For the four scenarios at the code's own sizes (fat-tree k = 4 with 4 servers per edge, leaf-spine 4 x 4 with 8 servers per leaf, single-rack 9 servers, incast 20 senders): `IndicesInRange`, `FatTreeShape`, `ServersConnected`, `HostsAddressed` and `MonitorsBottleneck` hold. |
| `flows` (`MCFlowInstall.cfg`) | pass, 399,923 states | The scenarios are single-rack (9 servers), a 3-leaf, 2-server leaf-spine, and incast with 20 senders. Up to 2 flows per server and 4 in total are allowed. Every flow leaves its source's leaf (`DestOutsideSourceGroup`). Sequential ports keep every sink port distinct (`SinkPortsDistinct`). Under `FairSpec`, installation always ends and the simulation starts (`InstallationTerminates`). The run keeps `RequestRate = 1` and three leaves. With `RequestRate = 0` (`--load=0`) the launch loop stops only at the model's bound and the property fails, and with one leaf it would still hold, counting the out-of-range maximum draw as an exit; neither setting is a run. |
| `dstcp_fork` (`MCDstcpFork.cfg`) | violation of `FractionsBounded` | The accepted connection inherits a garbage `m_ackedBytesRtt`, and at its first window close beta > 1 (code bug in the copy constructor, line 99). |

In `dstcp_core`, over all interleavings:
- the marked byte counts never exceed the total;
- alpha and beta stay in [0, 1];
- the immediate RTT cut only happens at the close of a window in which an ACK
  showed a queue of at least `tdcv` (checked against an independent
  statement of the queue);
- every started window eventually closes;
- every behaviour implements `CongestionEstimator` (`ImplementsCongestionEstimator`).

In `dcvegas_core`, over all interleavings:
- beta stays in [0, 1] and the RTT-marked bytes within the total;
- every cut follows a window that showed a queue of at least `tdcv`;
- every window closes;
- every behaviour implements `CongestionEstimator` with `UsesEcn = FALSE`.

The `flows` run scales leaf-spine down from 4 leaves of 8 servers to 3
leaves of 2. Three leaves include a middle leaf, whose rejection test uses
both of its bounds, and three calls that share the by-reference counter.
The state space of the full size is out of reach. The flow bounds allow two
flows from one server, so two flows can reach one destination. With
`Scenarios = {"fat-tree"}` in `MCFlowInstall.cfg`, TLC violates
`SinkPortsDistinct`: fat-tree draws each port at random (line 54), and two
flows to one server can draw the same port. No run is kept for this
example-code defect; it is recorded as a hazard.

Each property of the passing runs has a mutant in `PROJECT.json`:
- the sign of `(1 - f/2)` flipped;
- `Reset` keeping the RTT count;
- the EWMA without its decay term;
- `minRtt/rtt` in integer arithmetic;
- `Reset` ending the next window one segment past `m_nextTxSequence`;
- `Reset` ending the next window at the last ACK instead of
  `m_nextTxSequence` (`ImplementsCongestionEstimator`).

For DcVegas, the mutants are:
- `minRtt` updated without the zero-RTT check;
- the EWMA without decay;
- integer `minRtt/rtt`;
- `Reset` ending the next window one segment past `m_nextTxSequence`;
- `Reset` ending the next window at the last ACK (`ImplementsCongestionEstimator`).

For the echo, the mutants are:
- the regenerated ACK leaving `NextRxSequence` at `m_priorRcvNxt`
  (`SegmentsEventuallyAcked`);
- `CeState0to1` writing the sender-side `ECN_ECE_RCVD`;
- `CeState1to0` saving `m_priorRcvNxt` only when it regenerates;
- `UpdateAckReserved` never clearing the flag.

For the scenarios, the mutants are:
- the aggregation and core index formulas with their roles swapped;
- leaf-spine skipping the last leaf;
- single-rack wiring or addressing one server short;
- the monitor on the server side;
- the pod test written with `>`;
- `flowCount` passed by value;
- `main()`'s leaf loop running to `<= LEAF_COUNT`;
- the rejection loop's pod or leaf test without its upper bound, so that the
  loop never ends (`InstallationTerminates`).

TLC reports each of these as a violation of its property.

## 5. Not modelled, and why

- The ns-3 transport is represented only by the behaviour the estimator
  observes (section 3), not by its code.
- The trace source `m_traceCongestionEstimate`, logging and the
  `std::cout` line are observation only.
- `GetName` and `GetTypeId` registration are not modelled. The attribute
  defaults are modelled in `Init`.
- From the example scenarios, the following are not modelled:
  - the CDF file reading and the Poisson and empirical draws of flow sizes
    and start times (I/O and floating point; only the number of flows
    matters to the properties);
  - the value of the request rate behind the start times. Only its sign is
    modelled (`RequestRate`): with `--load=0` the launch loop never ends,
    which the flows model shows as an `InstallationTerminates` violation
    when `RequestRate` is 0;
  - link attributes;
  - ns-3's global routing.
- The overwrite of a sender-side `m_ecnState` by `CeState0to1` (line 309)
  needs a connection carrying data in both directions on one
  `TcpSocketState`. That needs the same for the sender's ECE handling. The
  moves between `ECN_ECE_RCVD`, `ECN_CWR_SENT` and `ECN_IDLE`, and the
  ECE flag on outgoing segments, are ns-3's `TcpSocketBase`, which is not in
  this repository. A composed model would rest on a guess at that code, so
  the hazard is listed without a property.
- Sub-microsecond RTTs (line 173). The model's RTT samples are whole
  microseconds, so `GetMicroSeconds` is exact on them. The scenarios'
  links have 10 us delays, so every real sample is far above 1 us. The
  truncation shifts `nql` by less than one segment for windows below
  `minRtt` in microseconds (85 segments in leaf-spine). The threshold
  `tdcv` is 11 to 19 segments.
- DcVegas `GetSsThresh` (line 137) and its echo state machine (lines
  238-345):
  - With ECN off, `GetSsThresh` is reached only from the transport's loss
    recovery, which is ns-3 code outside this repository. Its missing
    two-segment floor is the same defect as DSTCP's, shown by the
    `dstcp_ecn_floor` run.
  - The echo state machine is, apart from the class name, the same text as
    DSTCP's lines 285-389. `EcnEcho` models both.
  - DcVegas therefore stays partly modelled.
- Sequence-number wrap-around of `SequenceNumber32` is not modelled. Flows in
  the model are far shorter than 2^31 bytes.
