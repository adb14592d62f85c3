----------------------------- MODULE FlowInstall -----------------------------
(***************************************************************************)
(* Traffic generation of the data-centre scenarios: install_applications   *)
(* of src/examples/dstcp/fat-tree.cc, leaf-spine.cc and single-rack.cc,    *)
(* called by main() once per pod, per leaf, or once.  For every source     *)
(* server it launches flows while a Poisson start time stays before        *)
(* FLOW_LAUNCH_END_TIME; each flow gets a port, a destination server drawn *)
(* with rand_range until it lies outside the source's pod or leaf, a       *)
(* BulkSend on the source and a PacketSink on the destination bound to     *)
(* that port.  incast.cc's main() installs one BulkSend per sender to the *)
(* receiver's port 50000 and then one PacketSink on the receiver.          *)
(*                                                                         *)
(* The Poisson start times are abstracted to a nondeterministic choice     *)
(* between launching another flow and moving on, bounded per server and in *)
(* total; moving on needs a positive request rate, the only case in which  *)
(* poission_gen_interval advances the start time.  Only the sign of the   *)
(* rate matters, so RequestRate is a natural.  rand () is a               *)
(* nondeterministic choice over every value the truncation in rand_range  *)
(* can produce.                                                            *)
(***************************************************************************)
EXTENDS Integers, Sequences

CONSTANTS
  Scenarios,         \* "fat-tree", "leaf-spine", "single-rack", "incast"
  FatTreeK,          \* fat-tree.cc k
  FatTreeServers,    \* fat-tree.cc serverCount
  LeafServers,       \* leaf-spine.cc SERVER_COUNT
  LeafCount,         \* leaf-spine.cc LEAF_COUNT
  RackServers,       \* single-rack.cc SERVER_COUNT
  SendNum,           \* incast.cc sendNum
  IncastPort,        \* incast.cc port
  PortStart,         \* PORT_START
  PortDraws,         \* values rand_range (PORT_START, PORT_END) returns (model)
  RequestRate,       \* requestRate of main(): load * link rate / mean flow size
  MaxFlowsPerServer, \* flows one source launches (model bound)
  MaxFlows           \* flows in total (model bound)

ASSUME Scenarios \subseteq {"fat-tree", "leaf-spine", "single-rack", "incast"}
ASSUME Scenarios # {} /\ SendNum \in Nat \ {0}
ASSUME PortDraws \subseteq PortStart..50000 /\ PortDraws # {}
ASSUME RequestRate \in Nat
ASSUME MaxFlowsPerServer \in Nat \ {0} /\ MaxFlows \in Nat \ {0}
\* The port PORT_START + flowCount stays below 2^16 within the bound.
ASSUME PortStart + MaxFlows < 2^16

VARIABLES
  scenario,   \* the main() being run
  group,      \* fromPodId / fromLeafId of the running call
  i,          \* loop index over the call's source servers
  pc,         \* "server", "flow", "dest" or "done"
  flowCount,  \* flowCount, passed by reference across calls
  port,       \* port of the flow being set up
  dest,       \* destServerIndex
  launched,   \* flows the current source has launched
  flows,      \* BulkSends installed: source, destination, port
  sinks       \* PacketSinks installed: server, port

vars == <<scenario, group, i, pc, flowCount, port, dest, launched, flows, sinks>>

-----------------------------------------------------------------------------
(* rand_range (min, max) == min + ((double)max - min) * rand () / RAND_MAX *)
(* truncated: every integer of min..max, max itself when rand () returns   *)
(* RAND_MAX.                                                               *)
RandRange(lo, hi) == lo..hi

FatTreeEvenK == FatTreeK - (FatTreeK % 2)
FatHalf == FatTreeEvenK \div 2

\* Calls main() makes: one per pod, one per leaf, one.
Groups ==
  CASE scenario = "fat-tree"    -> FatTreeEvenK
    [] scenario = "leaf-spine"  -> LeafCount
    [] scenario \in {"single-rack", "incast"} -> 1

\* Size of the servers container.
ServerTotal ==
  CASE scenario = "fat-tree"    -> FatTreeServers * FatTreeEvenK * FatHalf
    [] scenario = "leaf-spine"  -> LeafServers * LeafCount
    [] scenario = "single-rack" -> RackServers
    [] scenario = "incast"      -> SendNum

\* Source servers one call iterates over; single-rack skips the receiver.
PerGroup ==
  CASE scenario = "fat-tree"    -> FatTreeServers * FatHalf
    [] scenario = "leaf-spine"  -> LeafServers
    [] scenario = "single-rack" -> RackServers - 1
    [] scenario = "incast"      -> SendNum

\* incast.cc's receiver, a node of its own container.
IncastReceiver == SendNum

\* fromServerIndex.
FromIndex(g, k) == IF scenario \in {"single-rack", "incast"} THEN k ELSE g * PerGroup + k

\* Fault injection: the pod test without its upper bound.
InOwnGroupNoUpper(g, d) ==
  scenario # "single-rack" /\ d >= g * PerGroup

\* Fault injection: the lower bound of the pod test written with >.
InOwnGroupStrict(g, d) ==
  scenario # "single-rack" /\ d > g * PerGroup /\ d < (g + 1) * PerGroup

\* The rejection loop's condition: the destination is in the source's own
\* pod or leaf.  single-rack has no loop.
InOwnGroup(g, d) ==
  scenario # "single-rack" /\ d >= g * PerGroup /\ d < (g + 1) * PerGroup

\* The destination before the rejection loop.
FirstDest(from) == IF scenario = "single-rack" THEN RackServers - 1 ELSE from

\* poission_gen_interval (requestRate) can carry startTime past
\* FLOW_LAUNCH_END_TIME: -log (1 - u) / rate is unbounded for a positive
\* rate, and the function returns 0 for any other.
StartTimeAdvances == RequestRate > 0

\* fat-tree draws a random port; the others take PORT_START + flowCount.
Ports(count, k) == IF scenario = "fat-tree" THEN PortDraws ELSE {PortStart + count}

-----------------------------------------------------------------------------

Init ==
  /\ scenario \in Scenarios
  /\ group = 0 /\ i = 0 /\ pc = "server"
  /\ flowCount = 0 /\ port = PortStart /\ dest = 0
  /\ launched = 0 /\ flows = <<>> /\ sinks = <<>>

\* Fault injection: flowCount passed by value, so every call restarts it.
EnterGroupLocalCount(g) == group' = g /\ i' = 0 /\ flowCount' = 0

\* main() calls install_applications for the next pod or leaf.
EnterGroup(g) == group' = g /\ i' = 0 /\ UNCHANGED flowCount

\* Fault injection: main()'s loop runs while fromLeafId <= LEAF_COUNT.
NextServerInclusive ==
  /\ pc = "server" /\ scenario # "incast"
  /\ \/ /\ i < PerGroup
        /\ pc' = "flow" /\ launched' = 0
        /\ UNCHANGED <<group, i, flowCount>>
     \/ /\ i >= PerGroup /\ group + 1 <= Groups
        /\ EnterGroup(group + 1)
        /\ UNCHANGED <<pc, launched>>
     \/ /\ i >= PerGroup /\ group + 1 > Groups
        /\ pc' = "done"
        /\ UNCHANGED <<group, i, flowCount, launched>>
  /\ UNCHANGED <<scenario, port, dest, flows, sinks>>

\* Top of the for loop: the next source server, the next call, or the end.
NextServer ==
  /\ pc = "server" /\ scenario # "incast"
  /\ \/ /\ i < PerGroup
        /\ pc' = "flow" /\ launched' = 0
        /\ UNCHANGED <<group, i, flowCount>>
     \/ /\ i >= PerGroup /\ group + 1 < Groups
        /\ EnterGroup(group + 1)
        /\ UNCHANGED <<pc, launched>>
     \/ /\ i >= PerGroup /\ group + 1 >= Groups
        /\ pc' = "done"
        /\ UNCHANGED <<group, i, flowCount, launched>>
  /\ UNCHANGED <<scenario, port, dest, flows, sinks>>

\* The next Poisson start time is before FLOW_LAUNCH_END_TIME: flowCount++,
\* take a port, start from the first destination.
LaunchFlow ==
  /\ pc = "flow"
  /\ launched < MaxFlowsPerServer /\ Len(flows) < MaxFlows
  /\ flowCount' = flowCount + 1
  /\ port' \in Ports(flowCount + 1, i)
  /\ dest' = FirstDest(FromIndex(group, i))
  /\ pc' = "dest"
  /\ UNCHANGED <<scenario, group, i, launched, flows, sinks>>

\* The start time passed FLOW_LAUNCH_END_TIME: on to the next server.
EndFlows ==
  /\ pc = "flow" /\ StartTimeAdvances
  /\ i' = i + 1 /\ pc' = "server"
  /\ UNCHANGED <<scenario, group, flowCount, port, dest, launched, flows, sinks>>

\* One turn of the rejection loop: draw again from the whole server range.
DrawDest ==
  /\ pc = "dest" /\ InOwnGroup(group, dest)
  /\ dest' \in RandRange(0, ServerTotal)
  /\ UNCHANGED <<scenario, group, i, pc, flowCount, port, launched, flows, sinks>>

\* servers.Get (destServerIndex), BulkSend on the source, PacketSink bound
\* to the port on the destination.
Install ==
  /\ pc = "dest" /\ ~InOwnGroup(group, dest)
  /\ flows' = Append(flows, [src |-> FromIndex(group, i), dst |-> dest, port |-> port])
  /\ sinks' = Append(sinks, [server |-> dest, port |-> port])
  /\ launched' = launched + 1
  /\ pc' = "flow"
  /\ UNCHANGED <<scenario, group, i, flowCount, port, dest>>

\* incast.cc's long-flow loop: a BulkSend from sender i to the receiver.
IncastBulkSend ==
  /\ pc = "server" /\ scenario = "incast" /\ i < SendNum
  /\ flows' = Append(flows, [src |-> i, dst |-> IncastReceiver, port |-> IncastPort])
  /\ i' = i + 1
  /\ UNCHANGED <<scenario, group, pc, flowCount, port, dest, launched, sinks>>

\* After the loop: one PacketSink on the receiver, bound to the port.
IncastSink ==
  /\ pc = "server" /\ scenario = "incast" /\ i >= SendNum
  /\ sinks' = Append(sinks, [server |-> IncastReceiver, port |-> IncastPort])
  /\ pc' = "done"
  /\ UNCHANGED <<scenario, group, i, flowCount, port, dest, launched, flows>>

\* main() goes on to run the simulation.
Done == pc = "done" /\ UNCHANGED vars

Next ==
  \/ NextServer \/ LaunchFlow \/ EndFlows \/ DrawDest \/ Install
  \/ IncastBulkSend \/ IncastSink \/ Done

Spec == Init /\ [][Next]_vars

\* A draw of the rejection loop that leaves it: rand () yields a server
\* outside the source's pod or leaf.
DrawOutside == DrawDest /\ ~InOwnGroup(group, dest')

\* main() runs on one thread without waiting, so it keeps taking steps (weak
\* fairness).  Each turn of the rejection loop draws a server outside the
\* pod or leaf with positive probability, so such a draw comes with
\* probability 1; strong fairness on it states that, as the retry of a
\* failing step is stated, without probabilities.
FairSpec == Spec /\ WF_vars(Next) /\ SF_vars(DrawOutside)

-----------------------------------------------------------------------------
(* Properties.                                                             *)

\* Sources are servers of the container; a drawn destination, and the
\* server of its sink, may be ServerTotal, one past the last server, since
\* rand_range returns its maximum (servers.Get then reads past the end).
TypeOK ==
  /\ scenario \in Scenarios
  /\ pc \in {"server", "flow", "dest", "done"}
  /\ group \in 0..(Groups - 1) /\ i \in 0..PerGroup
  /\ flowCount \in 0..MaxFlows /\ dest \in 0..ServerTotal
  /\ launched \in 0..MaxFlowsPerServer
  /\ \A f \in 1..Len(flows) :
       /\ flows[f].src \in 0..(ServerTotal - 1) /\ flows[f].dst \in 0..ServerTotal
       /\ flows[f].port \in PortDraws \cup (PortStart..(PortStart + MaxFlows)) \cup {IncastPort}
  /\ \A k \in 1..Len(sinks) : sinks[k].server \in 0..ServerTotal

\* Traffic crosses the fabric: no flow is sent to its own source, and in the
\* fat-tree and leaf-spine none to a server of the source's pod or leaf.
DestOutsideSourceGroup ==
  \A f \in 1..Len(flows) :
    /\ flows[f].dst # flows[f].src
    /\ scenario \in {"fat-tree", "leaf-spine"} =>
         flows[f].dst \div PerGroup # flows[f].src \div PerGroup

\* No two PacketSinks on one server bind the same port (PacketSink's Bind
\* of a port already bound fails and the simulation aborts).
SinkPortsDistinct ==
  \A j, k \in 1..Len(sinks) :
    j # k /\ sinks[j].server = sinks[k].server => sinks[j].port # sinks[k].port

\* main() gets past the installation of the applications and runs the
\* simulation: every rejection loop of install_applications finds a
\* destination outside the source's pod or leaf, and the loops over
\* servers and pods or leaves end.
InstallationTerminates == <>(pc = "done")

====
