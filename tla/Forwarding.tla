----------------------------- MODULE Forwarding -----------------------------
(***************************************************************************)
(* The flow rules of a control domain: how cc_client/layer_2_switch.py     *)
(* installs them along the paths of its graph, hop by hop, and what is in  *)
(* the switches' tables meanwhile and afterwards.                          *)
(*                                                                         *)
(* Two greenlets install: Ryu's event loop for a frame whose destination   *)
(* is in the graph, and the receiver of the central controller's messages  *)
(* for a FLOW_MOD.  The path is found once; the edge and the Datapath of   *)
(* each hop are looked up when its turn comes, and Datapath.send_msg then  *)
(* waits while the bounded queue of that connection is full.  After a rule *)
(* for a frame the packet itself is put, which may wait too.  A switch     *)
(* applies its rules in the order sent.  They have no timeout and are never*)
(* deleted: they survive the hosts, the links, the connection and the      *)
(* controller they came from, but not a restart of their switch.           *)
(*                                                                         *)
(* Every switch hands frames up unbuffered, by its table-miss rule         *)
(* (layer_2_switch.py:112), so that the branches for a buffer_id are never *)
(* taken.  Frames themselves, the packets sent out along a new path and    *)
(* loads are left out; what is announced to the central controller is in   *)
(* Layer2Switch.                                                           *)
(***************************************************************************)
EXTENDS WindowGraph

CONSTANTS
    Dpid,        \* switches
    Mac,         \* hosts
    Match,       \* what rules match: a destination, or a TCP connection
    DstOf,       \* the destination of the frames that match
    EthMatch,    \* those that are a destination
    Flood,       \* the broadcast address, which no rule matches
    Attached,    \* host -> the switches it may be plugged into
    Cable,       \* pairs of switches with a link between them
    LateCable,   \* those that Ryu's topology may find later than the others
    WindowDpid,  \* the switches a flow may leave the domain at
    Leaving,     \* the switches that may lose their connection or restart
    UnknownPort, \* <<d, c>>: d may take its port to c for a host's port
    QueueSize,   \* rules on their way to one switch
    HostPort,    \* next hop: the destination's own port
    WindowPort,  \* next hop: out of the domain
    NoRule       \* no rule, no place

ASSUME ForwardingAssumption ==
    /\ IsFiniteSet(Dpid)
    /\ DstOf \in [Match -> Mac]
    /\ EthMatch \subseteq Match
    /\ Flood \notin Match
    /\ Attached \in [Mac -> SUBSET Dpid]
    /\ Cable \subseteq Dpid \X Dpid
    /\ LateCable \subseteq Cable
    /\ WindowDpid \subseteq Dpid
    /\ Leaving \subseteq Dpid
    /\ UnknownPort \subseteq Dpid \X Dpid
    /\ QueueSize \in Nat \ {0}
    /\ {HostPort, WindowPort, NoRule} \cap Dpid = {}
    /\ HostPort # NoRule /\ WindowPort # NoRule

Installer == {"app", "receiver"}

VARIABLES
    connected,  \* switches with an open OpenFlow connection
    datapaths,  \* keys of datapaths
    current,    \* those whose Datapath is of the open connection
    nodes,      \* switches in the graph net
    links,      \* links between switches in net
    place,      \* host -> its switch and port in net
    receiver,   \* the receiver of the central controller's messages runs
    todo,       \* the hops an installer has still to install
    match,      \* what their rules match
    put,        \* and where it is: before the lookups of the next hop, past
                \* those that raise, or in the put of a connection
    wire,       \* the rules on their way to each switch
    flow,       \* the tables of the switches
    told,       \* what they will be if nothing more is sent
    astray      \* what match -> switches that missed their rule, lost it, or
                \* got one out of a port that was mistaken for a host's

graphVars == <<nodes, links, place>>
switchVars == <<connected, datapaths, current>>
installVars == <<todo, match, put>>
ruleVars == <<wire, flow, told, astray>>
vars == <<switchVars, graphVars, receiver, installVars, ruleVars>>

Nowhere == [dpid |-> NoRule, port |-> NoRule]
EmptyTable == [k \in Match |-> NoRule]

Init ==
    /\ connected = {} /\ datapaths = {} /\ current = {}
    /\ nodes = {} /\ links = {}
    /\ place = [m \in Mac |-> Nowhere]
    /\ receiver = TRUE
    /\ todo = [i \in Installer |-> <<>>]
    /\ match = [i \in Installer |-> NoRule]
    /\ put = [i \in Installer |-> "none"]
    /\ wire = [d \in Dpid |-> <<>>]
    /\ flow = [d \in Dpid |-> EmptyTable]
    /\ told = [d \in Dpid |-> EmptyTable]
    /\ astray = [k \in Match |-> {}]

-----------------------------------------------------------------------------
\* Installing a path.

\* The hops of a path of switches whose last one sends to the port last.
Hops(p, last) ==
    [n \in 1 .. Len(p) |-> [dpid |-> p[n], next |-> IF n = Len(p) THEN last ELSE p[n + 1]]]

\* What is left after the first hop; with a buffer_id nothing would be.
AfterFirstStops(hops) == <<>>
AfterFirst(hops) == Tail(hops)

\* The only hop left is out of a port that leads to a switch, not to the host.
Mistaken(hops) == Len(hops) = 1 /\ Head(hops).next \in Dpid

\* edge[dpid][next] and datapaths[dpid], read again at each hop.
Resolves(hops) ==
    LET h == Head(hops)
    IN  /\ h.dpid \in datapaths
        /\ Len(hops) > 1 => [from |-> h.dpid, to |-> h.next] \in links

\* add_flow over an open connection; it waits while the queue is full.
RuleSent(k, hops) ==
    LET h == Head(hops)
    IN  /\ Len(wire[h.dpid]) < QueueSize
        /\ wire' = [wire EXCEPT ![h.dpid] = Append(@, [match |-> k, next |-> h.next])]
        /\ told' = [told EXCEPT ![h.dpid][k] = h.next]
        /\ astray' = [astray EXCEPT ![k] =
                         IF Mistaken(hops) THEN @ \cup {h.dpid} ELSE @ \ {h.dpid}]
        /\ UNCHANGED flow

\* The Datapath of a connection that is over discards the rule.
RuleDiscarded(k, hops) ==
    /\ astray' = [astray EXCEPT ![k] = @ \cup {Head(hops).dpid}]
    /\ UNCHANGED <<wire, flow, told>>

\* The lookups of the next hop, and with them the put of its rule.
Entered(hops) ==
    IF ~Resolves(hops) THEN "raised"
    ELSE IF Head(hops).dpid \in current THEN "open" ELSE "closed"

\* An installer has found a path with these hops.
Begin(i, k, hops) ==
    /\ todo' = [todo EXCEPT ![i] = hops]
    /\ match' = [match EXCEPT ![i] = k]
    /\ put' = [put EXCEPT ![i] = Entered(hops)]
    /\ UNCHANGED ruleVars

\* A rule, after which a frame's installer may be held up by the packet.
PutRule(i) ==
    LET rest == AfterFirst(todo[i])
    IN  /\ \/ put[i] = "open" /\ RuleSent(match[i], todo[i])
           \/ put[i] = "closed" /\ RuleDiscarded(match[i], todo[i])
        /\ todo' = [todo EXCEPT ![i] = rest]
        /\ match' = [match EXCEPT ![i] = IF rest = <<>> THEN NoRule ELSE @]
        /\ put' = [put EXCEPT ![i] = IF rest # <<>> /\ i = "receiver" THEN Entered(rest) ELSE "none"]
        /\ UNCHANGED <<switchVars, graphVars, receiver>>

Continue(i) ==
    /\ todo[i] # <<>> /\ put[i] = "none"
    /\ put' = [put EXCEPT ![i] = Entered(todo[i])]
    /\ UNCHANGED <<switchVars, graphVars, receiver, todo, match, ruleVars>>

\* Ryu logs what was raised, the receiver ends.
Abort(i) ==
    /\ put[i] = "raised"
    /\ put' = [put EXCEPT ![i] = "none"]
    /\ astray' = [astray EXCEPT ![match[i]] = @ \cup {Head(todo[i]).dpid}]
    /\ todo' = [todo EXCEPT ![i] = <<>>]
    /\ match' = [match EXCEPT ![i] = NoRule]
    /\ receiver' = (receiver /\ i # "receiver")
    /\ UNCHANGED <<switchVars, graphVars, wire, flow, told>>

\* The paths between two switches in a graph with the nodes N.
PathsIn(N, c, d) == ShortestPaths(links, N, c, d)

-----------------------------------------------------------------------------
\* Handlers.

Idle == todo["app"] = <<>>

Neighbour(d) == {c \in Dpid : <<c, d>> \in Cable \/ <<d, c>> \in Cable}

\* The hosts that may make way for a new one at a port of d, which has one
\* port to each switch and any number to hosts.
Displaced(d, port) ==
    LET there == {m \in Mac : place[m] = [dpid |-> d, port |-> port]}
    IN  {{m} : m \in there} \cup (IF port = HostPort \/ there = {} THEN {{}} ELSE {})

\* mac_to_port[dpid][src] = in_port, with the indices swapped and as it is.
PlaceSwapped(d, port) == [dpid |-> port, port |-> d]
PlaceAt(d, port) == [dpid |-> d, port |-> port]

\* A frame that matches k (or would, had the rule been there) comes up from d.
\* Its source is learnt if it is no node yet; then the path to its destination
\* is installed, if the destination is a node and can be reached.
PacketIn(d, port, src, k) ==
    LET learns == place[src] = Nowhere /\ (port = HostPort \/ <<d, port>> \in UnknownPort)
    IN  /\ Idle
        /\ d \in datapaths
        /\ port = HostPort => d \in Attached[src]
        /\ k # Flood => src # DstOf[k]
        /\ \E gone \in IF learns THEN Displaced(d, port) ELSE {{}} :
              LET after == [m \in Mac |-> IF m \in gone THEN Nowhere
                                          ELSE IF learns /\ m = src THEN PlaceAt(d, port)
                                          ELSE place[m]]
                  N     == IF learns THEN nodes \cup {d} ELSE nodes
                  to    == IF k = Flood THEN Nowhere ELSE after[DstOf[k]]
                  paths == IF to = Nowhere THEN {} ELSE PathsIn(N, d, to.dpid)
              IN  /\ place' = after
                  /\ nodes' = N
                  /\ IF paths = {} THEN UNCHANGED <<installVars, ruleVars>>
                     ELSE \E p \in paths : Begin("app", k, Hops(p, to.port))
        /\ UNCHANGED <<switchVars, links, receiver>>

\* A FLOW_MOD: frames for one destination leave the domain at out.  A switch
\* that is not there, or no node, ends the receiver.
FlowMod(in, out, k) ==
    LET raises == in \notin datapaths \/ ~({in, out} \subseteq nodes)
    IN  /\ receiver
        /\ todo["receiver"] = <<>>
        /\ receiver' = ~raises
        /\ IF raises \/ PathsIn(nodes, in, out) = {} THEN UNCHANGED <<installVars, ruleVars>>
           ELSE \E p \in PathsIn(nodes, in, out) : Begin("receiver", k, Hops(p, WindowPort))
        /\ UNCHANGED <<switchVars, graphVars>>

SwitchFeatures(d) ==
    /\ Idle
    /\ d \in connected
    /\ datapaths' = datapaths \cup {d}
    /\ current' = current \cup {d}
    /\ UNCHANGED <<connected, graphVars, receiver, installVars, ruleVars>>

\* get_topology_data: Ryu's topology lists switches whose features have not
\* been handled here yet, and the links found so far.  Links are never taken
\* out but with a switch.
TopologyData ==
    /\ Idle
    /\ \E late \in SUBSET LateCable :
          LET found == {c \in Cable \ late : {c[1], c[2]} \subseteq connected}
          IN  links' = links \cup {[from |-> c[1], to |-> c[2]] : c \in found}
                             \cup {[from |-> c[2], to |-> c[1]] : c \in found}
    /\ nodes' = nodes \cup connected
    /\ UNCHANGED <<switchVars, place, receiver, installVars, ruleVars>>

\* switch_leave_handler.  It raises at once for a switch that is no node, whose
\* Datapath then stays until the features of the next connection.
SwitchLeave(d) ==
    /\ Idle
    /\ d \in nodes \ connected
    /\ nodes' = nodes \ {d}
    /\ links' = {e \in links : d \notin {e.from, e.to}}
    /\ datapaths' = datapaths \ {d}
    /\ place' = [m \in Mac |-> IF place[m].dpid = d THEN Nowhere ELSE place[m]]
    /\ UNCHANGED <<connected, current, receiver, installVars, ruleVars>>

-----------------------------------------------------------------------------
\* The switches, and the controller's process.

\* A switch connects, or connects again once its leave has been handled.
Connects(d) ==
    /\ d \notin connected \cup nodes
    /\ connected' = connected \cup {d}
    /\ UNCHANGED <<datapaths, current, graphVars, receiver, installVars, ruleVars>>

Applies(d) ==
    /\ wire[d] # <<>>
    /\ flow' = [flow EXCEPT ![d][Head(wire[d]).match] = Head(wire[d]).next]
    /\ wire' = [wire EXCEPT ![d] = Tail(@)]
    /\ UNCHANGED <<switchVars, graphVars, receiver, installVars, told, astray>>

\* The matches of the rules on their way to d.
Coming(d) == {wire[d][n].match : n \in 1 .. Len(wire[d])}

ConnectionLost(d) ==
    /\ d \in connected \cap Leaving
    /\ connected' = connected \ {d}
    /\ current' = current \ {d}
    /\ put' = [i \in Installer |-> IF put[i] = "open" /\ Head(todo[i]).dpid = d
                                  THEN "closed" ELSE put[i]]
    /\ wire' = [wire EXCEPT ![d] = <<>>]
    /\ astray' = [k \in Match |-> astray[k] \cup (IF k \in Coming(d) THEN {d} ELSE {})]
    /\ told' = [told EXCEPT ![d] = flow[d]]
    /\ UNCHANGED <<datapaths, graphVars, receiver, todo, match, flow>>

\* A switch that restarts comes back with an empty table.
SwitchRestarts(d) ==
    /\ d \in Leaving \ connected
    /\ flow' = [flow EXCEPT ![d] = EmptyTable]
    /\ told' = [told EXCEPT ![d] = EmptyTable]
    /\ astray' = [k \in Match |-> astray[k] \cup (IF flow[d][k] # NoRule THEN {d} ELSE {})]
    /\ UNCHANGED <<switchVars, graphVars, receiver, installVars, wire>>

\* The switches that installers are about to tell a rule for k.
Heads(k) == {Head(todo[i]).dpid : i \in {j \in Installer : todo[j] # <<>> /\ match[j] = k}}

\* The controller's process is restarted: it knows nothing, while the switches
\* keep their tables.
ControllerRestarts ==
    /\ connected' = {} /\ datapaths' = {} /\ current' = {}
    /\ nodes' = {} /\ links' = {}
    /\ place' = [m \in Mac |-> Nowhere]
    /\ receiver' = TRUE
    /\ todo' = [i \in Installer |-> <<>>]
    /\ wire' = [d \in Dpid |-> <<>>]
    /\ astray' = [k \in Match |-> astray[k] \cup Heads(k) \cup {d \in Dpid : k \in Coming(d)}]
    /\ match' = [i \in Installer |-> NoRule]
    /\ put' = [i \in Installer |-> "none"]
    /\ told' = flow
    /\ UNCHANGED flow

-----------------------------------------------------------------------------

Handler ==
    \/ \E d \in Dpid : SwitchFeatures(d) \/ SwitchLeave(d)
    \/ \E d \in Dpid, src \in Mac, k \in Match \cup {Flood} :
          \E port \in {HostPort} \cup Neighbour(d) : PacketIn(d, port, src, k)
    \/ \E in \in Dpid, out \in WindowDpid, k \in EthMatch : FlowMod(in, out, k)
    \/ TopologyData

Environment ==
    \/ \E d \in Dpid : Connects(d) \/ ConnectionLost(d) \/ SwitchRestarts(d)
    \/ ControllerRestarts

\* What was raised ends its handler before any other greenlet runs.
Raising == \E i \in Installer : put[i] = "raised"

Next ==
    \/ \E i \in Installer : Abort(i)
    \/ /\ ~Raising
       /\ \/ Handler
          \/ Environment
          \/ \E i \in Installer : PutRule(i) \/ Continue(i)
          \/ \E d \in Dpid : Applies(d)

Spec == Init /\ [][Next]_vars

-----------------------------------------------------------------------------

NextHop == Dpid \cup {HostPort, WindowPort}
Rule == [match : Match, next : NextHop]
Hop == [dpid : Dpid, next : NextHop]
Place == [dpid : Dpid, port : Dpid \cup {HostPort}]

TypeOK ==
    /\ connected \subseteq Dpid /\ datapaths \subseteq Dpid /\ current \subseteq Dpid
    /\ nodes \subseteq Dpid
    /\ links \subseteq [from : Dpid, to : Dpid]
    /\ place \in [Mac -> Place \cup {Nowhere}]
    /\ receiver \in BOOLEAN
    /\ todo \in [Installer -> Seq(Hop)]
    /\ match \in [Installer -> Match \cup {NoRule}]
    /\ put \in [Installer -> {"none", "raised", "open", "closed"}]
    /\ wire \in [Dpid -> Seq(Rule)]
    /\ flow \in [Dpid -> [Match -> NextHop \cup {NoRule}]]
    /\ told \in [Dpid -> [Match -> NextHop \cup {NoRule}]]
    /\ astray \in [Match -> SUBSET Dpid]

\* Frames that match k go round in S for ever: every rule there leads to S.
Loop(k, S) == S # {} /\ \A d \in S : flow[d][k] \in S

\* Rules of the past and rules under way never add up to a loop by themselves:
\* every loop in the switches' tables has a switch on it that is about to get
\* its rule, that missed it (the connection was lost or the handler raised), or
\* whose rule ends at a port mistaken for the host's.  Hosts may have moved,
\* links come and switches left between the installs, and two installs of the
\* same match may interleave hop by hop (add_flow, layer_2_switch.py:241, 376).
NoForwardingLoop ==
    \A k \in Match, S \in SUBSET Dpid : Loop(k, S) =>
        \E d \in S : d \in astray[k] \cup Heads(k) \/ k \in Coming(d)

\* A rule leads to the edge of the domain or to a switch that has a rule too
\* (layer_2_switch.py:222-244): on the way no frame comes up to the controller
\* again, unless one of the two switches is about to get its rule, missed it, or
\* has lost it in a restart and not got it again.
RulesLeadOn ==
    \A k \in Match, d \in Dpid : flow[d][k] \in Dpid =>
        LET v == flow[d][k]
        IN  \/ flow[v][k] # NoRule
            \/ d \in astray[k] \/ v \in astray[k] \cup Heads(k)
            \/ k \in Coming(d) \cup Coming(v)
=============================================================================
