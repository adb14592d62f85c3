------------------------------ MODULE Topology ------------------------------
(***************************************************************************)
(* Construction of the simulated networks of the example scenarios:        *)
(* src/examples/dstcp/fat-tree.cc, leaf-spine.cc, single-rack.cc and       *)
(* src/examples/tcp/incast.cc.  Each main() wires point-to-point links     *)
(* between its node containers, installs RED queue discs and numbers the   *)
(* interfaces with one Ipv4AddressHelper.  The wiring loops are written    *)
(* here as the sequence of helper calls they make; the ns-3 helpers (not   *)
(* in this repository) are an environment that executes one call per step.*)
(*                                                                         *)
(* A node is <<kind, index>>, the index it has in its NodeContainer.  An   *)
(* address is <<network, host>>: the helper's network counter and the host *)
(* number inside the /24 the scenarios all use.                            *)
(***************************************************************************)
EXTENDS Integers, Sequences, SequencesExt, FiniteSets

CONSTANTS
  Scenarios,      \* scenarios whose construction is checked
  FatTreeK,       \* fat-tree.cc k
  FatTreeServers, \* fat-tree.cc serverCount (servers per edge switch)
  LeafServers,    \* leaf-spine.cc SERVER_COUNT (servers per leaf)
  LeafCount,      \* leaf-spine.cc LEAF_COUNT
  SpineCount,     \* leaf-spine.cc SPINE_COUNT
  LinkCount,      \* leaf-spine.cc LINK_COUNT (parallel leaf-spine links)
  RackServers,    \* single-rack.cc SERVER_COUNT
  SendNum         \* incast.cc sendNum

AllScenarios == {"fat-tree", "leaf-spine", "single-rack", "incast"}
ASSUME Scenarios \subseteq AllScenarios /\ Scenarios # {}
ASSUME \A n \in {FatTreeK, FatTreeServers, LeafServers, LeafCount, SpineCount,
                 LinkCount, RackServers, SendNum} : n \in Nat \ {0}

VARIABLES
  scenario,   \* the main() being run
  pc,         \* index of the next helper call
  helper,     \* Ipv4AddressHelper state: [net, host] of the next address
  links,      \* links created: ends, RED queue discs, addresses
  monitored   \* <<link, end>> of the queue disc the scenario samples

vars == <<scenario, pc, helper, links, monitored>>

HostKinds == {"server", "sender", "receiver"}
NoMonitor == <<0, 0>>

-----------------------------------------------------------------------------
(* Helper calls.  Connect is the body of the fat-tree and leaf-spine       *)
(* wiring loops: p2p.Install (device 0 at a, device 1 at b), RED on both   *)
(* devices, ipv4.Assign of both devices.                                   *)

Call(op, a, b, l, e) == [op |-> op, a |-> a, b |-> b, l |-> l, e |-> e]
None == <<"none", 0>>
SetBase(net)   == Call("base", None, None, net, 0)
NewNetwork     == Call("new", None, None, 0, 0)
Connect(a, b)  == Call("connect", a, b, 0, 0)
Link(a, b)     == Call("link", a, b, 0, 0)
Red(l, e)      == Call("red", None, None, l, e)
Assign(l)      == Call("assign", None, None, l, 0)
Monitor(l, e)  == Call("monitor", None, None, l, e)

\* for (i = 0; i < n; i++) Body(i): the calls of the iterations in order.
Loop(n, Body(_)) == FlattenSeq([i \in 1..n |-> Body(i - 1)])

-----------------------------------------------------------------------------
(* fat-tree.cc main().                                                     *)

\* An odd k is rounded down to an even one.
FatTreeEvenK == FatTreeK - (FatTreeK % 2)
FatHalf == FatTreeEvenK \div 2

\* Fault injection: the edge uplink formula written with i % (k/2), the
\* position inside the pod, as the core uplink formula uses.
FatTreeAggByPosition(i, j) == (i % FatHalf) * FatHalf + j

\* The aggregation switch an edge switch's j-th uplink goes to.
FatTreeAggIndex(i, j) == (i \div FatHalf) * FatHalf + j

\* Fault injection: the core uplink formula copied from the edge uplink one.
FatTreeCoreByPod(i, j) == (i \div FatHalf) * FatHalf + j

\* The core switch an aggregation switch's j-th uplink goes to.
FatTreeCoreIndex(i, j) == (i % FatHalf) * FatHalf + j

FatTreeCount(kind) ==
  CASE kind = "server" -> FatTreeServers * FatTreeEvenK * FatHalf
    [] kind \in {"edge", "agg"} -> FatTreeEvenK * FatHalf
    [] kind = "core" -> FatHalf * FatHalf
    [] OTHER -> 0

\* One new network per edge switch for its servers; the switch-to-switch
\* links take the following addresses of the last one.
FatTreeWiring ==
  <<SetBase(0)>>
  \o Loop(FatTreeCount("edge"), LAMBDA i :
       <<NewNetwork>> \o Loop(FatTreeServers, LAMBDA j :
                            <<Connect(<<"edge", i>>, <<"server", i * FatTreeServers + j>>)>>))
  \o Loop(FatTreeCount("edge"), LAMBDA i : Loop(FatHalf, LAMBDA j :
       <<Connect(<<"edge", i>>, <<"agg", FatTreeAggIndex(i, j)>>)>>))
  \o Loop(FatTreeCount("agg"), LAMBDA i : Loop(FatHalf, LAMBDA j :
       <<Connect(<<"agg", i>>, <<"core", FatTreeCoreIndex(i, j)>>)>>))

-----------------------------------------------------------------------------
(* leaf-spine.cc main().                                                   *)

LeafSpineCount(kind) ==
  CASE kind = "server" -> LeafServers * LeafCount
    [] kind = "leaf" -> LeafCount
    [] kind = "spine" -> SpineCount
    [] OTHER -> 0

\* One network per leaf for its servers.
LeafSpineServerLinks ==
  <<SetBase(0)>>
  \o Loop(LeafCount, LAMBDA i :
       <<NewNetwork>> \o Loop(LeafServers, LAMBDA j :
                            <<Connect(<<"leaf", i>>, <<"server", i * LeafServers + j>>)>>))

\* Fault injection: the leaf loop of the switch wiring stops one early.
LeafSpineSwitchLinksSkipLast ==
  Loop(LeafCount - 1, LAMBDA i : Loop(SpineCount, LAMBDA j : Loop(LinkCount, LAMBDA l :
       <<NewNetwork, Connect(<<"leaf", i>>, <<"spine", j>>)>>)))

\* One network per leaf-spine link.
LeafSpineSwitchLinks ==
  Loop(LeafCount, LAMBDA i : Loop(SpineCount, LAMBDA j : Loop(LinkCount, LAMBDA l :
       <<NewNetwork, Connect(<<"leaf", i>>, <<"spine", j>>)>>)))

-----------------------------------------------------------------------------
(* single-rack.cc main(): servers S[i] on one switch T; S[n-1] receives.   *)

SingleRackCount(kind) ==
  CASE kind = "server" -> RackServers
    [] kind = "tor" -> 1
    [] OTHER -> 0

\* Fault injection: the link loop bounded by SERVER_COUNT-1 like the RED loop.
SingleRackLinksShort == Loop(RackServers - 1, LAMBDA i : <<Link(<<"server", i>>, <<"tor", 0>>)>>)

\* ST[i] = Install (S.Get (i), T): device 0 at the server, 1 at T.
SingleRackLinks == Loop(RackServers, LAMBDA i : <<Link(<<"server", i>>, <<"tor", 0>>)>>)

\* RED on T's side of every sender link, on both sides of the receiver's.
SingleRackQueues ==
  Loop(RackServers - 1, LAMBDA i : <<Red(i + 1, 1)>>)
  \o <<Red(RackServers, 0), Red(RackServers, 1)>>

\* Fault injection: the address loop bounded by SERVER_COUNT-1.
SingleRackAddressesShort ==
  <<SetBase(1)>> \o Loop(RackServers - 1, LAMBDA i : <<Assign(i + 1), NewNetwork>>)

\* Assign, then NewNetwork: one network per link, from 10.1.1.0.
SingleRackAddresses == <<SetBase(1)>> \o Loop(RackServers, LAMBDA i : <<Assign(i + 1), NewNetwork>>)

\* Fault injection: queueDiscs.Get (0), the receiver's own device.
SingleRackMonitorServerSide == <<Monitor(RackServers, 0)>>

\* CheckTQueueSize samples queueDiscs.Get (1) of the receiver's link.
SingleRackMonitor == <<Monitor(RackServers, 1)>>

-----------------------------------------------------------------------------
(* incast.cc main(): SendNum senders, one switch, one receiver.            *)

IncastCount(kind) ==
  CASE kind = "sender" -> SendNum
    [] kind \in {"switch", "receiver"} -> 1
    [] OTHER -> 0

\* Each sender link gets a network; the bottleneck link gets RED on both
\* ends and its own network; CheckQueueSize samples queueDiscs.Get (0).
IncastWiring ==
  <<SetBase(0)>>
  \o Loop(SendNum, LAMBDA i :
       <<Link(<<"sender", i>>, <<"switch", 0>>), NewNetwork, Assign(i + 1)>>)
  \o <<Link(<<"switch", 0>>, <<"receiver", 0>>), Red(SendNum + 1, 0), Red(SendNum + 1, 1),
       NewNetwork, Assign(SendNum + 1)>>

IncastMonitor == <<Monitor(SendNum + 1, 0)>>

-----------------------------------------------------------------------------

Calls(s) ==
  CASE s = "fat-tree"    -> FatTreeWiring
    [] s = "leaf-spine"  -> LeafSpineServerLinks \o LeafSpineSwitchLinks
    [] s = "single-rack" -> SingleRackLinks \o SingleRackQueues
                            \o SingleRackAddresses \o SingleRackMonitor
    [] s = "incast"      -> IncastWiring \o IncastMonitor

Count(s, kind) ==
  CASE s = "fat-tree"    -> FatTreeCount(kind)
    [] s = "leaf-spine"  -> LeafSpineCount(kind)
    [] s = "single-rack" -> SingleRackCount(kind)
    [] s = "incast"      -> IncastCount(kind)

\* The host the scenario's traffic converges on, when it has one.
Receiver(s) ==
  CASE s = "single-rack" -> <<"server", RackServers - 1>>
    [] s = "incast"      -> <<"receiver", 0>>
    [] OTHER             -> None

-----------------------------------------------------------------------------
(* The ns-3 helpers (environment): one call per step.                      *)

Done == pc > Len(Calls(scenario))

NewLink(a, b, red, addr) == [ends |-> <<a, b>>, red |-> red, addr |-> addr]

\* The two addresses Ipv4AddressHelper::Assign hands a link's devices.
NextPair == << <<helper.net, helper.host>>, <<helper.net, helper.host + 1>> >>

Execute(c) ==
  CASE c.op = "base" ->
         /\ helper' = [net |-> c.l, host |-> 1]
         /\ UNCHANGED <<links, monitored>>
    [] c.op = "new" ->
         /\ helper' = [net |-> helper.net + 1, host |-> 1]
         /\ UNCHANGED <<links, monitored>>
    [] c.op = "connect" ->
         /\ links' = Append(links, NewLink(c.a, c.b, {0, 1}, NextPair))
         /\ helper' = [helper EXCEPT !.host = @ + 2]
         /\ UNCHANGED monitored
    [] c.op = "link" ->
         /\ links' = Append(links, NewLink(c.a, c.b, {}, <<>>))
         /\ UNCHANGED <<helper, monitored>>
    [] c.op = "red" ->
         /\ links' = [links EXCEPT ![c.l].red = @ \cup {c.e}]
         /\ UNCHANGED <<helper, monitored>>
    [] c.op = "assign" ->
         /\ links' = [links EXCEPT ![c.l].addr = NextPair]
         /\ helper' = [helper EXCEPT !.host = @ + 2]
         /\ UNCHANGED monitored
    [] c.op = "monitor" ->
         /\ monitored' = <<c.l, c.e>>
         /\ UNCHANGED <<helper, links>>

Init ==
  /\ scenario \in Scenarios
  /\ pc = 1
  /\ helper = [net |-> 0, host |-> 1]
  /\ links = <<>>
  /\ monitored = NoMonitor

Step ==
  /\ ~Done
  /\ Execute(Calls(scenario)[pc])
  /\ pc' = pc + 1
  /\ UNCHANGED scenario

\* main() goes on to run the simulation.
Finished == Done /\ UNCHANGED vars

Next == Step \/ Finished

Spec == Init /\ [][Next]_vars /\ WF_vars(Step)

-----------------------------------------------------------------------------
(* Properties.                                                             *)

NodeKinds == {"server", "sender", "receiver", "edge", "agg", "core", "leaf",
              "spine", "tor", "switch"}

\* Every helper call that names a link names one already created, and the
\* sampled queue disc is on a link's device.
TypeOK ==
  /\ scenario \in Scenarios
  /\ pc \in 1..(Len(Calls(scenario)) + 1)
  /\ helper \in [net : Nat, host : Nat \ {0}]
  /\ \A l \in DOMAIN links :
       /\ links[l].ends \in (NodeKinds \X Nat) \X (NodeKinds \X Nat)
       /\ links[l].red \subseteq {0, 1}
       /\ links[l].addr \in {<<>>} \cup ((Nat \X Nat) \X (Nat \X Nat))
  /\ monitored \in {NoMonitor} \cup ((DOMAIN links) \X {0, 1})

\* NodeContainer::Get is called with an index below the container's size
\* for every device the wiring loops install (the index formulas of the
\* fat-tree and leaf-spine loops stay inside their containers).
IndicesInRange ==
  \A l \in DOMAIN links : \A n \in {links[l].ends[1], links[l].ends[2]} :
    n[2] < Count(scenario, n[1])

Linked(m, n) == \E l \in DOMAIN links : links[l].ends \in {<<m, n>>, <<n, m>>}

Neighbours(S) ==
  UNION {{links[l].ends[3 - k] : k \in {k \in {1, 2} : links[l].ends[k] \in S}} :
           l \in DOMAIN links}

RECURSIVE ReachableFrom(_)
ReachableFrom(S) ==
  IF Neighbours(S) \subseteq S THEN S ELSE ReachableFrom(S \cup Neighbours(S))

Hosts == UNION {{<<k, i>> : i \in 0..(Count(scenario, k) - 1)} : k \in HostKinds}

\* Once main() has wired the network, every host can reach every other host
\* (global routing can only route along links that exist).
ServersConnected ==
  Done => Hosts \subseteq ReachableFrom({CHOOSE h \in Hosts : TRUE})

\* The fat-tree of Al-Fares et al.: inside a pod every edge switch is linked
\* to every aggregation switch and no edge switch to one of another pod;
\* every core switch has exactly one link into each pod.
FatTreeShape ==
  scenario = "fat-tree" /\ Done =>
    /\ \A e \in 0..(FatTreeCount("edge") - 1), a \in 0..(FatTreeCount("agg") - 1) :
         Linked(<<"edge", e>>, <<"agg", a>>) <=> e \div FatHalf = a \div FatHalf
    /\ \A c \in 0..(FatTreeCount("core") - 1), p \in 0..(FatTreeEvenK - 1) :
         Cardinality({a \in (p * FatHalf)..((p + 1) * FatHalf - 1) :
                        Linked(<<"agg", a>>, <<"core", c>>)}) = 1

\* The queue-length trace CheckTQueueSize / CheckQueueSize writes is that of
\* the bottleneck: a RED queue disc on the switch's device of the link to the
\* host all flows go to.
MonitorsBottleneck ==
  Done /\ Receiver(scenario) # None =>
    LET l == monitored[1]
        e == monitored[2]
    IN /\ monitored # NoMonitor
       /\ links[l].ends[2 - e] = Receiver(scenario)
       /\ links[l].ends[e + 1][1] \notin HostKinds
       /\ e \in links[l].red

\* Every host ends with exactly one link, and that link has its addresses:
\* install_applications reads a destination's address as interface 1,
\* address 0 (GetAddress (1, 0)), and global routing needs every host's.
HostsAddressed ==
  Done =>
    \A h \in Hosts :
      /\ Cardinality({l \in DOMAIN links : h \in {links[l].ends[1], links[l].ends[2]}}) = 1
      /\ \A l \in DOMAIN links : h \in {links[l].ends[1], links[l].ends[2]} => links[l].addr # <<>>

====
