---------------------------- MODULE Layer2Switch ----------------------------
(***************************************************************************)
(* A local controller: the Ryu application cc_client/layer_2_switch.py     *)
(* with the connection of cc_client/cc_agent.py.                           *)
(*                                                                         *)
(* Four greenlets of one process share its tables: Ryu's event loop (the   *)
(* handlers of OpenFlow and topology events, one at a time, an exception   *)
(* of which is logged), the receiver of the connection (an exception of    *)
(* which ends the connection for good), _load_report and _graph_info.      *)
(* Each may be held up in every send_msg, as the queue of cc_agent may be  *)
(* full; "out" holds what the event loop has still to put.  The order of   *)
(* the puts is that of the messages on the wire.                           *)
(*                                                                         *)
(* A window link is named by the switch of this domain at its end, the     *)
(* networkx graph by its nodes: its edges are only read for flows.  Flows, *)
(* loads and the packets that wait for an answer are left out.             *)
(***************************************************************************)
EXTENDS Integers, FiniteSets, Sequences

CONSTANTS
    Dpid,           \* switches of the domain
    Mac,            \* hosts
    Port,           \* ports of a switch
    Flood,          \* a destination that is never asked for
    WindowDpid,     \* the switches that may have a window link
    Leaving,        \* the switches that may leave
    NoEntry         \* the host is not in the table

ASSUME Layer2SwitchAssumption ==
    /\ WindowDpid \subseteq Dpid
    /\ Leaving \subseteq Dpid
    /\ Flood \notin Mac
    /\ Mac \cap Dpid = {}
    /\ NoEntry \notin Port \cup Dpid

VARIABLES
    status,        \* of the connection; cc_agent.is_live is "live"
    hello,         \* HELLO_UP is still to be put
    connected,     \* the switches whose events the event loop has entered
    windows,       \* the window links that Ryu's topology knows
    datapaths,     \* keys of datapaths, mac_to_port, dpid_to_inter_...
    mac_to_port,   \* switch -> host -> port
    inter_port,    \* dpid_to_inter_connection_port
    net,           \* nodes of the graph
    is_win,        \* keys of dpid_to_is_win; of its values none is acted on
    hash,          \* window_info_hash, as the links it was taken of
    out,           \* what the event loop has still to do: messages to put mostly
    topo,          \* where get_topology_data is
    topo_nodes,    \* the switches it has listed
    load_todo,     \* switches _load_report has still to report
    graph,         \* where _graph_info_thread is
    graph_windows, \* the links it has read
    sent,          \* the message put by the last step
    reported,      \* the window links reported since their switch last left
    lc_datapaths,  \* switches announced and not left
    lc_hosts       \* host -> switch, as announced

tableVars == <<datapaths, mac_to_port, inter_port, net>>
topoVars == <<topo, topo_nodes>>
graphVars == <<graph, graph_windows>>
envVars == <<connected, windows>>
tellVars == <<reported, lc_datapaths, lc_hosts>>
vars == <<status, hello, envVars, tableVars, is_win, hash, out, topoVars, load_todo,
          graphVars, sent, tellVars>>

Quiet == [type |-> "none"]
Live == status = "live"

\* window_info_hash of a list of links, and the value it is reset to.
HashOf(W) == <<W>>
NoHash == <<>>

Init ==
    /\ status = "starting" /\ hello = FALSE
    /\ connected = {} /\ windows = {}
    /\ datapaths = {}
    /\ mac_to_port = [d \in Dpid |-> [m \in Mac |-> NoEntry]]
    /\ inter_port = [d \in Dpid |-> {}]
    /\ net = {}
    /\ is_win = {}
    /\ hash = NoHash
    /\ out = <<>>
    /\ topo = "idle" /\ topo_nodes = {}
    /\ load_todo = {}
    /\ graph = "idle" /\ graph_windows = {}
    /\ sent = Quiet
    /\ reported = {}
    /\ lc_datapaths = {}
    /\ lc_hosts = [m \in Mac |-> NoEntry]

\* A step that puts no message.
Silent ==
    /\ sent' = Quiet
    /\ UNCHANGED tellVars

-----------------------------------------------------------------------------
\* Handlers of the event loop: one begins when the one before is over.

Idle == out = <<>> /\ topo = "idle"

\* A switch, new or after it has lost its connection.
SwitchFeatures(d) ==
    /\ Idle
    /\ connected' = connected \cup {d}
    /\ datapaths' = datapaths \cup {d}
    /\ out' = <<[type |-> "DATAPATH_CONNECTED", dpid |-> d]>>
    /\ Silent
    /\ UNCHANGED <<status, hello, windows, mac_to_port, inter_port, net, is_win, hash,
                   topoVars, load_todo, graphVars>>

\* An LLDP frame: the port leads to another switch.
Lldp(d, p) ==
    /\ Idle
    /\ d \in connected
    /\ p \notin inter_port[d]
    /\ inter_port' = [inter_port EXCEPT ![d] = @ \cup {p}]
    /\ Silent
    /\ UNCHANGED <<status, hello, envVars, datapaths, mac_to_port, net, is_win, hash, out,
                   topoVars, load_todo, graphVars>>

HostsOf(d) == {m \in Mac : mac_to_port[d][m] # NoEntry}

Learns(d, p, src) == src \notin net /\ p \notin inter_port[d]

\* The hosts that make way for a new one on their port.
Displaced(d, p) == {m \in Mac : mac_to_port[d][m] = p}

NoHostLeave(d, gone) == <<>>
HostLeaves(d, gone) == <<[type |-> "HOST_LEAVE", dpid |-> d, mac |-> gone]>>

AsksTwice(d, dst, nodes) ==
    IF dst = Flood \/ dst \in nodes THEN <<>>
    ELSE [n \in 1 .. 2 |-> [type |-> "PACKET_IN", dpid |-> d, mac |-> dst]]

\* A frame for a host that is no node is asked for at the central controller.
Asks(d, dst, nodes) ==
    IF dst = Flood \/ dst \in nodes THEN <<>>
    ELSE <<[type |-> "PACKET_IN", dpid |-> d, mac |-> dst]>>

\* A frame from a host that is known, or behind another switch.
PacketIn(d, p, src, dst) ==
    /\ Idle
    /\ d \in connected
    /\ ~Learns(d, p, src)
    /\ out' = Asks(d, dst, net)
    /\ Silent
    /\ UNCHANGED <<status, hello, envVars, tableVars, is_win, hash, topoVars, load_todo,
                   graphVars>>

\* The host is entered at its port, and then announced.
Enters(d, p, src, dst) ==
    /\ mac_to_port' = [mac_to_port EXCEPT ![d][src] = p]
    /\ net' = net \cup {d, src}
    /\ out' = <<[type |-> "HOST_CONNECTED", dpid |-> d, mac |-> src]>> \o Asks(d, dst, net')

\* The first frame from src, at a port of no other host.  The code that looks for
\* src under other switches is left out: as src is no node it is in no table
\* (HostsPlaced).
PacketInLearns(d, p, src, dst) ==
    /\ Idle
    /\ d \in connected
    /\ Learns(d, p, src) /\ Displaced(d, p) = {}
    /\ Enters(d, p, src, dst)
    /\ Silent
    /\ UNCHANGED <<status, hello, envVars, datapaths, inter_port, is_win, hash,
                   topoVars, load_todo, graphVars>>

\* What is still to do with a frame when the host before has been put to leave.
Learn(d, p, src, dst) == [type |-> "learn", dpid |-> d, port |-> p, mac |-> src, dst |-> dst]

\* Another host was at the port: it is taken out, and src is in no table until
\* the HOST_LEAVE has been put.
PacketInReplaces(d, p, src, dst) ==
    /\ Idle
    /\ d \in connected
    /\ Learns(d, p, src)
    /\ \E gone \in Displaced(d, p) :
          /\ mac_to_port' = [mac_to_port EXCEPT ![d][gone] = NoEntry]
          /\ net' = net \ {gone}
          /\ out' = HostLeaves(d, gone) \o <<Learn(d, p, src, dst)>>
    /\ Silent
    /\ UNCHANGED <<status, hello, envVars, datapaths, inter_port, is_win, hash,
                   topoVars, load_todo, graphVars>>

KeepHosts(d) == net \ {d}
DropHosts(d) == net \ ({d} \cup HostsOf(d))

\* What switch_leave_handler does when its message is put.
Reset == [type |-> "reset"]

\* The switch leaves.  The first statement raises if the graph has no such
\* node, and then nothing is taken back nor announced.
SwitchLeave(d) ==
    /\ Idle
    /\ d \in connected \cap Leaving
    /\ connected' = connected \ {d}
    /\ IF d \in net
       THEN /\ net' = DropHosts(d)
            /\ datapaths' = datapaths \ {d}
            /\ inter_port' = [inter_port EXCEPT ![d] = {}]
            /\ mac_to_port' = [mac_to_port EXCEPT ![d] = [m \in Mac |-> NoEntry]]
            /\ out' = <<[type |-> "DATAPATH_LEAVE", dpid |-> d], Reset>>
       ELSE UNCHANGED <<tableVars, out>>
    /\ Silent
    /\ UNCHANGED <<status, hello, windows, is_win, hash, topoVars, load_todo, graphVars>>

\* get_topology_data, for a new switch or link.  It waits for Ryu's topology
\* three times, which has listed switches, window links and links by then.
TopologySwitches ==
    /\ Idle
    /\ connected # {}
    /\ \E S \in SUBSET connected :
          /\ topo_nodes' = S
          /\ is_win' = is_win \cup S
    /\ topo' = "switches"
    /\ Silent
    /\ UNCHANGED <<status, hello, envVars, tableVars, hash, out, load_todo, graphVars>>

\* ",".join(window_switches) raises, as the links are no strings.
TopologyRaises ==
    /\ topo = "switches"
    /\ windows # {}
    /\ topo' = "idle" /\ topo_nodes' = {}
    /\ Silent
    /\ UNCHANGED <<status, hello, envVars, tableVars, is_win, hash, out,
                   load_todo, graphVars>>

TopologyWindows ==
    /\ topo = "switches"
    /\ windows = {}
    /\ topo' = "windows"
    /\ Silent
    /\ UNCHANGED <<status, hello, envVars, tableVars, is_win, hash, out, topo_nodes,
                   load_todo, graphVars>>

\* The ends of the links become nodes too.
TopologyLinks ==
    /\ topo = "windows"
    /\ topo' = "idle" /\ topo_nodes' = {}
    /\ \E ends \in SUBSET connected : net' = net \cup topo_nodes \cup ends
    /\ out' = <<[type |-> "GRAPH_INFO", windows |-> {}]>>
    /\ Silent
    /\ UNCHANGED <<status, hello, envVars, datapaths, mac_to_port, inter_port, is_win, hash,
                   load_todo, graphVars>>

\* Links to other domains come and go, at switches that are connected; that of
\* a switch which leaves may go before or after it.
WindowChanges(d) ==
    /\ d \in connected \cup windows
    /\ windows' = IF d \in windows THEN windows \ {d} ELSE windows \cup {d}
    /\ Silent
    /\ UNCHANGED <<status, hello, connected, tableVars, is_win, hash, out, topoVars,
                   load_todo, graphVars>>

-----------------------------------------------------------------------------
\* Messages put, by the event loop and by two greenlets of their own.

Told(msg) ==
    /\ sent' = msg
    /\ lc_datapaths' = CASE msg.type = "DATAPATH_CONNECTED" -> lc_datapaths \cup {msg.dpid}
                         [] msg.type = "DATAPATH_LEAVE" -> lc_datapaths \ {msg.dpid}
                         [] OTHER -> lc_datapaths
    /\ lc_hosts' = CASE msg.type = "DATAPATH_LEAVE" ->
                            [m \in Mac |-> IF lc_hosts[m] = msg.dpid THEN NoEntry ELSE lc_hosts[m]]
                     [] msg.type = "HOST_CONNECTED" -> [lc_hosts EXCEPT ![msg.mac] = msg.dpid]
                     [] msg.type = "HOST_LEAVE" -> [lc_hosts EXCEPT ![msg.mac] = NoEntry]
                     [] OTHER -> lc_hosts
    /\ reported' = CASE msg.type = "DATAPATH_LEAVE" -> reported \ {msg.dpid}
                     [] msg.type = "GRAPH_INFO" -> reported \cup msg.windows
                     [] OTHER -> reported

\* send: once the connection is over send_q is None and nothing happens.
Puts(msg) == IF status = "over" THEN Silent ELSE Told(msg)

AppPut ==
    /\ out # <<>> /\ Head(out).type \notin {"reset", "learn"}
    /\ Puts(Head(out))
    /\ out' = Tail(out)
    /\ UNCHANGED <<status, hello, envVars, tableVars, is_win, hash, topoVars, load_todo,
                   graphVars>>

AppEnters ==
    /\ out # <<>> /\ Head(out).type = "learn"
    /\ LET f == Head(out) IN Enters(f.dpid, f.port, f.mac, f.dst)
    /\ Silent
    /\ UNCHANGED <<status, hello, envVars, datapaths, inter_port, is_win, hash,
                   topoVars, load_todo, graphVars>>

AppReset ==
    /\ out # <<>> /\ Head(out) = Reset
    /\ hash' = NoHash
    /\ out' = Tail(out)
    /\ Silent
    /\ UNCHANGED <<status, hello, envVars, tableVars, is_win, topoVars, load_todo, graphVars>>

\* One round of _load_report, over a copy of the switches.
LoadWake ==
    /\ Live
    /\ load_todo = {}
    /\ load_todo' = datapaths
    /\ Silent
    /\ UNCHANGED <<status, hello, envVars, tableVars, is_win, hash, out, topoVars, graphVars>>

LoadPut(d) ==
    /\ d \in load_todo
    /\ load_todo' = load_todo \ {d}
    /\ Puts([type |-> "LOAD_REPORT", dpid |-> d])
    /\ UNCHANGED <<status, hello, envVars, tableVars, is_win, hash, out, topoVars, graphVars>>

\* One round of _graph_info_thread, which waits for the answer of Ryu's
\* topology and in its put.
GraphRead ==
    /\ Live
    /\ graph = "idle"
    /\ graph' = "read"
    /\ graph_windows' = windows
    /\ Silent
    /\ UNCHANGED <<status, hello, envVars, tableVars, is_win, hash, out, topoVars, load_todo>>

OnceOnly == hash # NoHash
SameHash == hash = HashOf(graph_windows)
GraphCompare ==
    /\ graph = "read"
    /\ is_win' = is_win \cup graph_windows
    /\ graph' = IF SameHash THEN "idle" ELSE "put"
    /\ graph_windows' = IF SameHash THEN {} ELSE graph_windows
    /\ Silent
    /\ UNCHANGED <<status, hello, envVars, tableVars, hash, out, topoVars, load_todo>>

GraphPut ==
    /\ graph = "put"
    /\ graph' = "told"
    /\ Puts([type |-> "GRAPH_INFO", windows |-> graph_windows])
    /\ UNCHANGED <<status, hello, envVars, tableVars, is_win, hash, out, topoVars, load_todo,
                   graph_windows>>

GraphDone ==
    /\ graph = "told"
    /\ graph' = "idle" /\ graph_windows' = {}
    /\ hash' = HashOf(graph_windows)
    /\ Silent
    /\ UNCHANGED <<status, hello, envVars, tableVars, is_win, out, topoVars, load_todo>>

-----------------------------------------------------------------------------
\* The connection.

\* serve: connected, then HELLO_UP behind whatever was put before.
Connect ==
    /\ status = "starting"
    /\ status' = "live"
    /\ hello' = TRUE
    /\ Silent
    /\ UNCHANGED <<envVars, tableVars, is_win, hash, out, topoVars, load_todo, graphVars>>

HelloPut ==
    /\ hello
    /\ hello' = FALSE
    /\ Puts([type |-> "HELLO_UP"])
    /\ UNCHANGED <<status, envVars, tableVars, is_win, hash, out, topoVars, load_todo, graphVars>>

Ends ==
    /\ Live
    /\ status' = "over"
    /\ Silent
    /\ UNCHANGED <<hello, envVars, tableVars, is_win, hash, out, topoVars, load_todo, graphVars>>

\* The receiver handles a message; an exception ends the connection, and
\* serve does not connect again.
Receives(raises) ==
    /\ Live /\ ~hello
    /\ status' = IF raises THEN "over" ELSE status
    /\ Silent
    /\ UNCHANGED <<hello, envVars, tableVars, is_win, hash, out, topoVars, load_todo, graphVars>>

\* For a switch that was announced and may have left.
RoleAssign(d) ==
    /\ d \in lc_datapaths \cup Leaving
    /\ Receives(d \notin datapaths)

\* The key is looked up, not its value.
WindowKnown(d) == d \in is_win

\* From a switch to one that has a window link or had one, as the central
\* controller knows it from either end.  It is ignored if the key is missing, and
\* installs nothing if no path is found.
FlowMod(in, o) ==
    Receives(WindowKnown(o) /\ (in \notin datapaths \/ ~({in, o} \subseteq net)))

-----------------------------------------------------------------------------

TopologyStep == TopologyRaises \/ TopologyWindows \/ TopologyLinks

GraphStep == GraphRead \/ GraphCompare \/ GraphPut \/ GraphDone

SwitchStep(d) ==
    \/ SwitchFeatures(d)
    \/ SwitchLeave(d)
    \/ \E p \in Port : Lldp(d, p)
    \/ \E p \in Port, src \in Mac : \E dst \in (Mac \cup {Flood}) \ {src} :
          PacketIn(d, p, src, dst) \/ PacketInLearns(d, p, src, dst)
              \/ PacketInReplaces(d, p, src, dst)

Next ==
    \/ \E d \in Dpid : SwitchStep(d)
    \/ TopologySwitches \/ TopologyStep \/ AppPut \/ AppEnters \/ AppReset
    \/ \E d \in WindowDpid : WindowChanges(d)
    \/ LoadWake \/ \E d \in Dpid : LoadPut(d)
    \/ GraphStep
    \/ Connect \/ HelloPut \/ Ends
    \/ \E d \in Dpid : RoleAssign(d)
    \/ \E in \in Dpid, o \in WindowDpid : FlowMod(in, o)

Spec == Init /\ [][Next]_vars

\* The event loop goes on with what it has begun, and _graph_info_thread wakes
\* up again and again.
FairSpec == Spec /\ WF_vars(AppPut \/ AppEnters \/ AppReset \/ TopologyStep) /\ WF_vars(GraphStep)

-----------------------------------------------------------------------------

Message ==
    [type : {"DATAPATH_CONNECTED", "DATAPATH_LEAVE", "LOAD_REPORT"}, dpid : Dpid]
        \cup [type : {"HOST_CONNECTED", "HOST_LEAVE", "PACKET_IN"}, dpid : Dpid, mac : Mac]
        \cup [type : {"GRAPH_INFO"}, windows : SUBSET Dpid]
        \cup [type : {"HELLO_UP", "none"}]

\* A frame whose host is still to be entered.
Frame == [type : {"learn"}, dpid : Dpid, port : Port, mac : Mac, dst : Mac \cup {Flood}]

\* The tables hold values of their kinds, and no handler leaves more than two
\* messages to put between its changes.
TypeOK ==
    /\ status \in {"starting", "live", "over"} /\ hello \in BOOLEAN
    /\ connected \subseteq Dpid /\ windows \subseteq Dpid
    /\ datapaths \subseteq Dpid
    /\ mac_to_port \in [Dpid -> [Mac -> Port \cup {NoEntry}]]
    /\ inter_port \in [Dpid -> SUBSET Port]
    /\ net \subseteq Dpid \cup Mac
    /\ is_win \subseteq Dpid
    /\ hash \in {NoHash} \cup {HashOf(W) : W \in SUBSET Dpid}
    /\ out \in Seq(Message \cup {Reset} \cup Frame) /\ Len(out) =< 2
    /\ topo \in {"idle", "switches", "windows"} /\ topo_nodes \subseteq Dpid
    /\ load_todo \subseteq Dpid
    /\ graph \in {"idle", "read", "put", "told"} /\ graph_windows \subseteq Dpid
    /\ sent \in Message
    /\ reported \subseteq Dpid /\ lc_datapaths \subseteq Dpid
    /\ lc_hosts \in [Mac -> Dpid \cup {NoEntry}]

\* A host is a node of the graph exactly while it is in the table of a switch,
\* of one switch only, and no two are on the same port.  So the branch of
\* ofp_packet_in_handler for a host that "has been in net" (layer_2_switch.py:
\* 197), whose remove_node would raise, is never taken.
HostsPlaced ==
    /\ \A m \in Mac : m \in net <=> \E d \in datapaths : m \in HostsOf(d)
    /\ \A m \in Mac, c, d \in Dpid : m \in HostsOf(c) \cap HostsOf(d) => c = d
    /\ \A d \in Dpid : \A m, n \in HostsOf(d) : mac_to_port[d][m] = mac_to_port[d][n] => m = n

Sender == INSTANCE LcSender

\* Whatever order the switches' events come in and wherever a greenlet is held
\* up, the messages keep the order that the central controller's handlers take
\* for granted.
SendsInOrder == Sender!Spec

\* A window link that stays, at a switch that does not leave, is reported,
\* whatever the hash was reset or overwritten by while links came and went and
\* other switches left.
WindowsTold ==
    \A d \in WindowDpid \ Leaving :
        <>[](d \in windows) => []<>(d \in reported \/ ~Live)
=============================================================================
