----------------------------- MODULE AppManager -----------------------------
(***************************************************************************)
(* The central controller's application: the handlers of                   *)
(* tflc/app_manager.py over the objects of tflc/controller.py.  It keeps   *)
(* the ids of the local controllers, the switches they master, the hosts   *)
(* seen behind those switches and the graph of window links between        *)
(* control domains, and answers PACKET_INs with FLOW_MODs along a path of  *)
(* that graph.                                                             *)
(*                                                                         *)
(* A session is one TCP connection of a local controller (one              *)
(* LocalController object).  Each session's greenlet handles its messages  *)
(* in the order sent; the messages of different sessions interleave freely.*)
(* A handler gives way to other greenlets only where it sends, in the put  *)
(* of a full queue.  For all handlers but PACKET_IN that is their last     *)
(* statement; PACKET_IN may wait after each FLOW_MOD, and looks up the next*)
(* hop in the tables that it then finds.                                   *)
(*                                                                         *)
(* The two lc_ variables hold what the sender of a session has announced up*)
(* to the message being handled: they fix which message may come next, as  *)
(* the handlers of cc_client/layer_2_switch.py emit them, and no handler   *)
(* here reads them.                                                        *)
(***************************************************************************)
EXTENDS WindowGraph

CONSTANTS
    Session,        \* connections of local controllers to the central one
    Dpid,           \* switches
    Mac,            \* hosts
    Address,        \* source (ip, port) pairs of connections
    AddressOf,      \* the address of each session
    Domain,         \* control domains; one local controller process each
    DomainOf,       \* the domain of each session's process
    SwitchDomains,  \* the domains whose controller a switch may be pointed at
    HostDomains,    \* the domains in which a host may be learnt
    EarlySessions,  \* sessions of processes whose switches came before the CC
    LateReports,    \* sessions whose LOAD_REPORTs may come late, or too early
    Link,           \* physical links, told apart by their ports
    WindowLists,    \* the window lists a GRAPH_INFO may carry
    MaxLcId,        \* cfg.MAX_LC_ID
    NoEntry         \* the key is absent from the dictionary

ASSUME ConstantsAssumption ==
    /\ AddressOf \in [Session -> Address]
    /\ DomainOf \in [Session -> Domain]
    /\ SwitchDomains \in [Dpid -> SUBSET Domain]
    /\ HostDomains \in [Mac -> SUBSET Domain]
    /\ EarlySessions \subseteq Session
    /\ LateReports \subseteq Session
    /\ WindowLists \subseteq Seq([src : Dpid, dst : Dpid, link : Link])
    /\ MaxLcId \in Nat \ {0}

ASSUME NoEntryAssumption == NoEntry \notin Int \cup Session \cup Dpid

VARIABLES
    status,           \* the connection: is_active, or how it ended
    id,               \* LocalController.id; 0 is None
    dpid_to_role,     \* keys of LocalController.dpid_to_role
    dpid_to_load,     \* keys of LocalController.dpid_to_load
    glcid,            \* the next controller id
    lcip_to_lcid,     \* address -> controller id; 0 is no entry
    local_ctrl_list,  \* controller id -> session
    datapath_list,    \* the registered switches: keys of datapath_list
    mac,              \* Datapath.mac
    lc_connected,     \* Datapath.lc_connected
    lc_home,          \* Datapath.lc_home
    host_to_lcid,     \* host -> controller id
    edges,            \* the edges of LC_LEVEL_TOPO
    sent,             \* the messages of the last step
    route,            \* per session, the path its PACKET_IN handler is at
    lc_datapaths,     \* switches the sender has announced and not left
    lc_hosts          \* host -> switch, as the sender has announced it

sessionVars == <<status, id, dpid_to_role, dpid_to_load>>
idVars == <<glcid, lcip_to_lcid, local_ctrl_list>>
dpVars == <<datapath_list, mac, lc_connected, lc_home>>
senderVars == <<lc_datapaths, lc_hosts>>
vars == <<sessionVars, idVars, dpVars, host_to_lcid, edges, sent, route, senderVars>>

None == 0
LcId == 1 .. MaxLcId

Active(s) == status[s] = "active"

\* The handler of s waits in a put, with hops to go.
Held(s) == route[s] # NoEntry

\* The receiver of s takes its next message.
Receives(s) == Active(s) /\ ~Held(s)

\* The keys of host_to_lcid.
KnownHosts == {m \in Mac : host_to_lcid[m] # NoEntry}

\* The nodes of LC_LEVEL_TOPO: every id ever handed out.
Nodes == {i \in LcId : local_ctrl_list[i] # NoEntry}

\* An exception of the handler leaves _recv_loop and ends the session.
RaiseIf(raised, s) ==
    status' = IF raised THEN [status EXCEPT ![s] = "crashed"] ELSE status

-----------------------------------------------------------------------------

Init ==
    /\ status = [s \in Session |-> "idle"]
    /\ id = [s \in Session |-> None]
    /\ dpid_to_role = [s \in Session |-> {}]
    /\ dpid_to_load = [s \in Session |-> {}]
    /\ glcid = 1
    /\ lcip_to_lcid = [a \in Address |-> None]
    /\ local_ctrl_list = [i \in LcId |-> NoEntry]
    /\ datapath_list = {}
    /\ mac = [d \in Dpid |-> {}]
    /\ lc_connected = [d \in Dpid |-> {}]
    /\ lc_home = [d \in Dpid |-> NoEntry]
    /\ host_to_lcid = [m \in Mac |-> NoEntry]
    /\ edges = {}
    /\ sent = <<>>
    /\ route = [s \in Session |-> NoEntry]
    /\ lc_datapaths = [s \in Session |-> {}]
    /\ lc_hosts = [s \in Session |-> [m \in Mac |-> NoEntry]]

-----------------------------------------------------------------------------
\* Connections.

\* A local controller process connects.  A domain runs one process at a time
\* and no two open connections share an address.
Connect(s) ==
    /\ status[s] = "idle"
    /\ \A t \in Session : Active(t) => DomainOf[t] # DomainOf[s] /\ AddressOf[t] # AddressOf[s]
    /\ status' = [status EXCEPT ![s] = "active"]
    /\ sent' = <<>>
    /\ UNCHANGED <<id, dpid_to_role, dpid_to_load, idVars, dpVars, host_to_lcid, edges, route, senderVars>>

\* recv returns nothing, or sendall raises: the session stops, and its switches
\* and hosts stay.  A handler that waits goes on to its end.
Drop(s) ==
    /\ Active(s)
    /\ status' = [status EXCEPT ![s] = "dropped"]
    /\ sent' = <<>>
    /\ UNCHANGED <<id, dpid_to_role, dpid_to_load, idVars, dpVars, host_to_lcid, edges, route, senderVars>>

\* glcid += 1, and back to 1 above MAX_LC_ID.
NextLcIdEarlyWrap(i) == IF i + 1 >= MaxLcId THEN 1 ELSE i + 1
NextLcIdNoWrap(i) == i + 1
NextLcId(i) == IF i = MaxLcId THEN 1 ELSE i + 1

\* The first HELLO_UP from an address takes the next id, which wraps; a later
\* one from the same address takes the id over from the older session.
HelloUp(s) ==
    LET a     == AddressOf[s]
        fresh == lcip_to_lcid[a] = None
        i     == IF fresh THEN glcid ELSE lcip_to_lcid[a]
    IN  /\ Receives(s)
        /\ id[s] = None
        /\ id' = [id EXCEPT ![s] = i]
        /\ lcip_to_lcid' = [lcip_to_lcid EXCEPT ![a] = i]
        /\ glcid' = IF fresh THEN NextLcId(glcid) ELSE glcid
        /\ local_ctrl_list' = [local_ctrl_list EXCEPT ![i] = s]
        /\ sent' = <<[to |-> s, type |-> "HELLO_DOWN", lcid |-> i]>>
        /\ UNCHANGED <<status, dpid_to_role, dpid_to_load, dpVars, host_to_lcid, edges, route, senderVars>>

-----------------------------------------------------------------------------
\* Switches and hosts.

\* The loop "for mac_t in datapath.mac" removes entries of the list it walks,
\* so it skips every other one: it forgets the hosts in the odd positions,
\* half of them rounded up.  The order of the list is that of arrival, so any
\* such half can be the one.
Half(d) == (Cardinality(mac[d]) + 1) \div 2

Sweeps(d) == {R \in SUBSET (mac[d] \cap KnownHosts) : Cardinality(R) = Half(d)}

\* The loop meets a host that host_to_lcid lacks: a KeyError part way.
BrokenSweeps(d) ==
    IF mac[d] \subseteq KnownHosts THEN {}
    ELSE {R \in SUBSET (mac[d] \cap KnownHosts) : Cardinality(R) < Half(d)}

Forget(R, d) ==
    /\ host_to_lcid' = [m \in Mac |-> IF m \in R THEN NoEntry ELSE host_to_lcid[m]]
    /\ mac' = [mac EXCEPT ![d] = @ \ R]

\* The sender's switch features handler announces d: a new switch, or a known
\* one that reconnects (its hosts stay learnt at the sender).
AnnounceDatapath(s, d) ==
    /\ Receives(s)
    /\ DomainOf[s] \in SwitchDomains[d]
    /\ id[s] # None \/ s \in EarlySessions
    /\ lc_datapaths' = [lc_datapaths EXCEPT ![s] = @ \cup {d}]
    /\ UNCHANGED lc_hosts

\* struct.pack refuses None for the lcid of ROLE_ASSIGN.
NeedsNoId(s) == FALSE
LacksId(s) == id[s] = None

\* A session without an id dies when its ROLE_ASSIGN is packed.  (For a switch
\* not yet registered mac[d] is empty and so is the sweep.)
DatapathConnected(s, d) ==
    /\ AnnounceDatapath(s, d)
    /\ \E R \in Sweeps(d) : Forget(R, d)
    /\ datapath_list' = datapath_list \cup {d}
    /\ lc_connected' = [lc_connected EXCEPT ![d] = @ \cup {s}]
    /\ lc_home' = [lc_home EXCEPT ![d] = s]
    /\ dpid_to_role' = [dpid_to_role EXCEPT ![s] = @ \cup {d}]
    /\ dpid_to_load' = [dpid_to_load EXCEPT ![s] = @ \cup {d}]
    /\ RaiseIf(LacksId(s), s)
    /\ sent' = IF LacksId(s) THEN <<>>
               ELSE <<[to |-> s, type |-> "ROLE_ASSIGN", dpid |-> d, lcid |-> id[s]]>>
    /\ UNCHANGED <<id, idVars, edges, route>>

DatapathConnectedRaises(s, d) ==
    /\ AnnounceDatapath(s, d)
    /\ \E R \in BrokenSweeps(d) : Forget(R, d)
    /\ RaiseIf(TRUE, s)
    /\ sent' = <<>>
    /\ UNCHANGED <<id, dpid_to_role, dpid_to_load, idVars, datapath_list,
                   lc_connected, lc_home, edges, route>>

\* The sender's switch_leave_handler: its switch and the hosts behind it go.
AnnounceLeave(s, d) ==
    /\ Receives(s)
    /\ d \in lc_datapaths[s]
    /\ lc_datapaths' = [lc_datapaths EXCEPT ![s] = @ \ {d}]
    /\ lc_hosts' = [lc_hosts EXCEPT ![s] =
                        [m \in Mac |-> IF @[m] = d THEN NoEntry ELSE @[m]]]

\* Links go while other handlers are at a path.
NoteCut ==
    route' = [t \in Session |-> IF Held(t) /\ edges' # edges
                                THEN [route[t] EXCEPT !.cut = TRUE] ELSE route[t]]

\* len(datapath.lc_connected) == 1.
AnyController(d) == lc_connected[d] # {}
LastController(d) == Cardinality(lc_connected[d]) = 1

\* Every statement after the sweep is here in order: the registration goes
\* with its only controller, then the session's own entries (a KeyError when
\* they are missing), then del_lc (a ValueError), then the window links.
DatapathLeave(s, d) ==
    LET last  == LastController(d)
        owner == d \in dpid_to_role[s] /\ d \in dpid_to_load[s]
        fine  == owner /\ s \in lc_connected[d]
    IN  /\ AnnounceLeave(s, d)
        /\ d \in datapath_list
        /\ \E R \in Sweeps(d) :
              /\ host_to_lcid' = [m \in Mac |-> IF m \in R THEN NoEntry ELSE host_to_lcid[m]]
              /\ mac' = [mac EXCEPT ![d] = IF last THEN {} ELSE @ \ R]
        /\ datapath_list' = IF last THEN datapath_list \ {d} ELSE datapath_list
        /\ lc_home' = IF last THEN [lc_home EXCEPT ![d] = NoEntry] ELSE lc_home
        /\ lc_connected' = [lc_connected EXCEPT ![d] =
                                IF last THEN {} ELSE IF owner THEN @ \ {s} ELSE @]
        /\ dpid_to_role' = [dpid_to_role EXCEPT ![s] = @ \ {d}]
        /\ dpid_to_load' = [dpid_to_load EXCEPT ![s] = IF d \in dpid_to_role[s] THEN @ \ {d} ELSE @]
        /\ edges' \in IF fine THEN RemoveDatapath(edges, d) ELSE {edges}
        /\ NoteCut
        /\ RaiseIf(~fine, s)
        /\ sent' = <<>>
        /\ UNCHANGED <<id, idVars>>

\* The KeyErrors before or in the sweep: an unregistered switch, or a host of
\* its list that host_to_lcid lacks.
DatapathLeaveRaises(s, d) ==
    /\ AnnounceLeave(s, d)
    /\ \E R \in IF d \in datapath_list THEN BrokenSweeps(d) ELSE {{}} : Forget(R, d)
    /\ RaiseIf(TRUE, s)
    /\ sent' = <<>>
    /\ UNCHANGED <<id, dpid_to_role, dpid_to_load, idVars, datapath_list,
                   lc_connected, lc_home, edges, route>>

\* The sender learns a host it does not know, behind one of its switches.
AnnounceHost(s, d, m) ==
    /\ Receives(s)
    /\ d \in lc_datapaths[s]
    /\ lc_hosts[s][m] = NoEntry
    /\ DomainOf[s] \in HostDomains[m]
    /\ lc_hosts' = [lc_hosts EXCEPT ![s][m] = d]
    /\ UNCHANGED lc_datapaths

\* The switches whose lists hold m.
BehindNone(m) == {}
Behind(m) == {o \in datapath_list : m \in mac[o]}

\* Only a host that host_to_lcid knows is taken off the switch it was behind,
\* the first one found; host_to_lcid is written before datapath_list is read.
HostConnected(s, d, m) ==
    LET old == IF m \in KnownHosts THEN Behind(m) ELSE {}
    IN  /\ AnnounceHost(s, d, m)
        /\ host_to_lcid' = [host_to_lcid EXCEPT ![m] = id[s]]
        /\ \E o \in IF old = {} THEN {d} ELSE old :
              LET cleared == IF old = {} THEN mac ELSE [mac EXCEPT ![o] = @ \ {m}]
              IN  mac' = IF d \in datapath_list
                         THEN [cleared EXCEPT ![d] = @ \cup {m}] ELSE cleared
        /\ RaiseIf(d \notin datapath_list, s)
        /\ sent' = <<>>
        /\ UNCHANGED <<id, dpid_to_role, dpid_to_load, idVars, datapath_list,
                       lc_connected, lc_home, edges, route>>

\* The sender found another host on the port of m.
AnnounceHostLeave(s, d, m) ==
    /\ Receives(s)
    /\ lc_hosts[s][m] = d
    /\ lc_hosts' = [lc_hosts EXCEPT ![s][m] = NoEntry]
    /\ UNCHANGED lc_datapaths

\* mac after HOST_LEAVE.
Listed(d, m) == mac
Unlisted(d, m) == IF d \in datapath_list THEN [mac EXCEPT ![d] = @ \ {m}] ELSE mac

\* The host is forgotten whichever controller it belongs to by now; only the
\* named switch loses it.
HostLeave(s, d, m) ==
    /\ AnnounceHostLeave(s, d, m)
    /\ host_to_lcid' = [host_to_lcid EXCEPT ![m] = NoEntry]
    /\ mac' = Unlisted(d, m)
    /\ RaiseIf(d \notin datapath_list, s)
    /\ sent' = <<>>
    /\ UNCHANGED <<id, dpid_to_role, dpid_to_load, idVars, datapath_list,
                   lc_connected, lc_home, edges, route>>

LoadReport(s, d) ==
    /\ Receives(s)
    /\ d \in lc_datapaths[s] \/ (s \in LateReports /\ DomainOf[s] \in SwitchDomains[d])
    /\ dpid_to_load' = IF d \in datapath_list
                       THEN [dpid_to_load EXCEPT ![s] = @ \cup {d}] ELSE dpid_to_load
    /\ RaiseIf(d \notin datapath_list, s)
    /\ sent' = <<>>
    /\ UNCHANGED <<id, dpid_to_role, idVars, dpVars, host_to_lcid, edges, route, senderVars>>

-----------------------------------------------------------------------------
\* Window links and flows between domains.

\* The id of the controller a registered switch is homed at.
HomeId(d) == id[lc_home[d]]

Usable(w) ==
    /\ {w.src, w.dst} \subseteq datapath_list
    /\ HomeId(w.src) # HomeId(w.dst)

\* One window: a home without an id is no node of the graph, a KeyError that
\* ends the loop.
NextWindow(r, w) ==
    IF r.raised \/ ~Usable(w) THEN r
    ELSE IF None \in {HomeId(w.src), HomeId(w.dst)} THEN [r EXCEPT !.raised = TRUE]
    ELSE [r EXCEPT !.edges = AddWindow(@, w, HomeId(w.src), HomeId(w.dst))]

\* The edges after the windows of the list, and whether one raised.
AfterWindows(ws) ==
    LET f[n \in 0 .. Len(ws)] ==
            IF n = 0 THEN [edges |-> edges, raised |-> FALSE] ELSE NextWindow(f[n - 1], ws[n])
    IN  f[Len(ws)]

\* The sender reports links that end at switches of its domain, which it may
\* have announced or not, as they were when a greenlet of its own read them.
GraphInfo(s, ws) ==
    /\ Receives(s)
    /\ \A n \in 1 .. Len(ws) : DomainOf[s] \in SwitchDomains[ws[n].dst]
    /\ edges' = AfterWindows(ws).edges
    /\ RaiseIf(AfterWindows(ws).raised, s)
    /\ sent' = <<>>
    /\ UNCHANGED <<id, dpid_to_role, dpid_to_load, idVars, dpVars, host_to_lcid, route, senderVars>>

\* A hop is lost: its link is gone by now (None.keys), or the one by which the
\* flow comes in has another key than 0.
HopRaises(r) ==
    \/ Parallel(edges, r.path[r.node_index], r.path[r.node_index + 1]) = {}
    \/ r.path[r.node_index] # r.src_lcid /\ ~HasInEdge(edges, r.path, r.node_index)

InDpidNearEnd(r) ==
    IF r.path[r.node_index] = r.src_lcid THEN r.in_dpid
    ELSE InEdge(edges, r.path, r.node_index).left

\* in_dpid is kept from hop to hop (at the first from the PACKET_IN) where the
\* source host lives, else it is the far end of the edge that enters the hop.
InDpid(r) ==
    IF r.path[r.node_index] = r.src_lcid THEN r.in_dpid
    ELSE InEdge(edges, r.path, r.node_index).right

\* The edge by which the flow leaves the domain of a hop.
NextEdge(r) == OutEdge(edges, r.path[r.node_index], r.path[r.node_index + 1])

\* The FLOW_MOD of a hop, to the session now holding the id of the hop.
FlowMod(r) ==
    LET i == r.path[r.node_index]
    IN  [to |-> local_ctrl_list[i], type |-> "FLOW_MOD", dst |-> r.dst_mac,
         in_dpid |-> InDpid(r), out_dpid |-> NextEdge(r).left, link |-> NextEdge(r).link,
         wildcards |-> IF i = r.src_lcid THEN 1 ELSE 0]

\* The loop goes on, unless only the last node of the path is left.
NextRoute(r) ==
    IF r.node_index + 1 = Len(r.path) THEN NoEntry
    ELSE [r EXCEPT !.node_index = @ + 1, !.in_dpid = InDpid(r), !.out = NextEdge(r)]

\* One hop of the handler of s: an exception ends the session, else send_msg,
\* which may wait.
Hop(s, r) ==
    /\ sent' = IF HopRaises(r) THEN <<>> ELSE <<FlowMod(r)>>
    /\ route' = [route EXCEPT ![s] = IF HopRaises(r) THEN NoEntry ELSE NextRoute(r)]
    /\ RaiseIf(HopRaises(r), s)
    /\ UNCHANGED <<id, dpid_to_role, dpid_to_load, idVars, dpVars,
                   host_to_lcid, edges, senderVars>>

\* out and cut, which no action reads, keep the edge that the last hop left by
\* and whether the graph has lost an edge since the path was computed.
NewRoute(p, d, src, dst) ==
    [path |-> p, node_index |-> 1, src_lcid |-> host_to_lcid[src], in_dpid |-> d,
     dst_mac |-> dst, out |-> NoEntry, cut |-> FALSE]

\* The sender has a frame for dst, which it has not learnt: the path, and its
\* first hop.  The early returns and NetworkXNoPath change nothing and are not
\* steps; neither is the counter of requests, which only the REST API reads.
PacketIn(s, d, src, dst) ==
    LET routable == {src, dst} \subseteq KnownHosts /\ id[s] # host_to_lcid[dst]
        paths    == IF routable
                    THEN ShortestPaths(edges, Nodes, id[s], host_to_lcid[dst]) ELSE {}
    IN  /\ Receives(s)
        /\ d \in lc_datapaths[s]
        /\ lc_hosts[s][dst] = NoEntry
        /\ src # dst
        /\ \E p \in paths : Hop(s, NewRoute(p, d, src, dst))

\* The put is over, also one into the queue of a session that has ended; the
\* own session may have ended meanwhile.
NextHop(s) ==
    /\ Held(s)
    /\ Hop(s, route[s])

-----------------------------------------------------------------------------

SessionStep(s) == Connect(s) \/ Drop(s) \/ HelloUp(s)

DatapathStep(s, d) ==
    \/ DatapathConnected(s, d)
    \/ DatapathConnectedRaises(s, d)
    \/ DatapathLeave(s, d)
    \/ DatapathLeaveRaises(s, d)
    \/ LoadReport(s, d)

HostStep(s, d, m) == HostConnected(s, d, m) \/ HostLeave(s, d, m)

Next ==
    \E s \in Session :
       \/ SessionStep(s)
       \/ \E d \in Dpid : DatapathStep(s, d)
       \/ \E d \in Dpid, m \in Mac : HostStep(s, d, m)
       \/ \E ws \in WindowLists : GraphInfo(s, ws)
       \/ \E d \in Dpid, src, dst \in Mac : PacketIn(s, d, src, dst)
       \/ NextHop(s)

Spec == Init /\ [][Next]_vars

-----------------------------------------------------------------------------

Status == {"idle", "active", "dropped", "crashed"}

SessionsTypeOK ==
    /\ status \in [Session -> Status]
    /\ id \in [Session -> 0 .. MaxLcId]
    /\ dpid_to_role \in [Session -> SUBSET Dpid]
    /\ dpid_to_load \in [Session -> SUBSET Dpid]

IdsTypeOK ==
    /\ glcid \in LcId
    /\ lcip_to_lcid \in [Address -> 0 .. MaxLcId]
    /\ local_ctrl_list \in [LcId -> Session \cup {NoEntry}]

DatapathsTypeOK ==
    /\ datapath_list \subseteq Dpid
    /\ mac \in [Dpid -> SUBSET Mac]
    /\ lc_connected \in [Dpid -> SUBSET Session]
    /\ lc_home \in [Dpid -> Session \cup {NoEntry}]

HostsTypeOK == host_to_lcid \in [Mac -> 0 .. MaxLcId \cup {NoEntry}]

SendersTypeOK ==
    /\ lc_datapaths \in [Session -> SUBSET Dpid]
    /\ lc_hosts \in [Session -> [Mac -> Dpid \cup {NoEntry}]]

EdgeType == [from : LcId, to : LcId, key : Nat, left : Dpid, right : Dpid, link : Link]

\* Paths that a handler is at: at least one hop is done and one is left.
RouteType ==
    [path : Seq(LcId), node_index : Nat \ {0, 1}, src_lcid : 0 .. MaxLcId, in_dpid : Dpid,
     dst_mac : Mac, out : EdgeType, cut : BOOLEAN]

RoutesTypeOK ==
    /\ route \in [Session -> RouteType \cup {NoEntry}]
    /\ \A s \in Session : Held(s) => route[s].node_index < Len(route[s].path)

\* The tables that the handlers share.
TablesTypeOK ==
    /\ SessionsTypeOK
    /\ IdsTypeOK
    /\ DatapathsTypeOK
    /\ HostsTypeOK
    /\ SendersTypeOK

\* Every table of the central controller holds values of its kind: the ids
\* stay in 1 .. MaxLcId through the wrap of glcid, 0 standing for None; and a
\* handler that waits has a hop to go.
TypeOK == TablesTypeOK /\ RoutesTypeOK

\* The two records of who controls a switch agree, and a switch is registered
\* exactly while one of them is left: datapath_leave deletes it by counting
\* lc_connected (app_manager.py:279) before it touches dpid_to_role (281).
MembershipOK ==
    /\ \A s \in Session, d \in Dpid : s \in lc_connected[d] <=> d \in dpid_to_role[s]
    /\ \A d \in Dpid : d \in datapath_list <=> lc_connected[d] # {}

\* A live session's switches are those its controller has announced and not
\* left, however other sessions connect, leave or die meanwhile; so no lookup
\* datapath_list[dpid] of a live controller's own switch can raise.
AnnouncedRegistered ==
    \A s \in Session : Active(s) =>
        lc_datapaths[s] = dpid_to_role[s] /\ lc_datapaths[s] \subseteq datapath_list

\* A message for the id of a live controller goes to that controller's own
\* connection, also when the id came with the address of an older session.
ActiveIdsResolve ==
    \A s \in Session : Active(s) /\ id[s] # None => local_ctrl_list[id[s]] = s

\* Every known host is mapped to an id that was handed out, never to None,
\* although a session may announce switches before its HELLO_UP is handled.
HostIdsAllocated == \A m \in KnownHosts : host_to_lcid[m] \in Nodes

\* A host is behind one switch: host_connected takes it off the old one.
HostOnOneDatapath ==
    \A m \in Mac, c, d \in Dpid : m \in mac[c] \cap mac[d] => c = d

\* The hosts listed behind switches are in host_to_lcid: the loops of
\* datapath_connected and datapath_leave delete them there unchecked.
ListedHostsKnown == \A d \in Dpid : mac[d] \subseteq KnownHosts

\* The strengthening of MembershipOK, AnnouncedRegistered and HostIdsAllocated.
\* A session that is not over has told exactly the switches recorded for it,
\* each with a load entry (or the del of datapath_leave would raise half way).
SessionsAgree ==
    \A s \in Session : status[s] \in {"idle", "active"} =>
        lc_datapaths[s] = dpid_to_role[s] /\ dpid_to_role[s] \subseteq dpid_to_load[s]

\* Finitely many controllers hold a switch, so that len(lc_connected) counts.
MembersFinite == \A d \in Dpid : IsFiniteSet(lc_connected[d])

\* An id is one that was handed out, and whoever has announced a switch and
\* survived it (the ROLE_ASSIGN of app_manager.py:131) has one.
IdsAllocated ==
    \A s \in Session :
        /\ id[s] # None => id[s] \in Nodes
        /\ status[s] = "idle" => lc_datapaths[s] = {}
        /\ Active(s) /\ lc_datapaths[s] # {} => id[s] # None

\* The inductive invariant of the registry.
RegistryInv ==
    /\ TablesTypeOK
    /\ MembershipOK
    /\ SessionsAgree
    /\ MembersFinite
    /\ IdsAllocated
    /\ HostIdsAllocated

-----------------------------------------------------------------------------
\* The graph of window links.

\* The two directions of a window link come and go together, under the same
\* key, also when remove_edge pops another one of parallel links.
EdgesPaired ==
    \A e \in edges : \E f \in edges :
        /\ f.from = e.to /\ f.to = e.from /\ f.key = e.key
        /\ f.left = e.right /\ f.right = e.left /\ f.link = e.link

Windows == UNION {{ws[n] : n \in 1 .. Len(ws)} : ws \in WindowLists}

Overlap(c, d) == SwitchDomains[c] \cap SwitchDomains[d] # {}

\* No other link ever joins two controllers that l and r join, so remove_edge
\* has no choice.
SoleLink(l, r) ==
    \A w \in Windows :
        \/ Overlap(w.src, l) /\ Overlap(w.dst, r)
        \/ Overlap(w.src, r) /\ Overlap(w.dst, l)
        => {w.src, w.dst} = {l, r}

\* No edge outlives the registration of a switch it ends at, also next to
\* parallel links, of which remove_edge may take the wrong one.
LinkEndsRegistered ==
    \A e \in edges : SoleLink(e.left, e.right) => {e.left, e.right} \subseteq datapath_list

\* A FLOW_MOD that reaches a live controller sends the flow out of a switch
\* that may be pointed at it, however long the handler waited before this hop,
\* and is registered as its own: unless the link is one of several there, or the
\* switch is held by a controller that is gone or, if it roams, of another domain.
FlowModsOwned ==
    \A k \in 1 .. Len(sent) :
        /\ sent[k].type = "FLOW_MOD" /\ Active(sent[k].to)
        /\ \A e \in edges : e.left = sent[k].out_dpid /\ e.link = sent[k].link
                                => SoleLink(e.left, e.right)
        => /\ DomainOf[sent[k].to] \in SwitchDomains[sent[k].out_dpid]
           /\ \/ sent[k].out_dpid \in dpid_to_role[sent[k].to]
              \/ \E s \in lc_connected[sent[k].out_dpid] :
                    ~Active(s) \/ DomainOf[s] # DomainOf[sent[k].to]

\* Successive FLOW_MODs of one PACKET_IN meet: the flow enters a domain at the
\* far end of the link by which the hop before left.  A sole link is the only
\* one there when the handler comes to the next hop, whatever happened while it
\* waited; of parallel links another one may be, once one of them has gone.
SureLink(e) == SoleLink(e.left, e.right) /\ ~Overlap(e.left, e.right)

Meets(r, m) == m.wildcards = 0 => m.in_dpid = r.out.right

FlowModsMeet ==
    [][\A s \in Session :
          Held(s) /\ NextHop(s) /\ (~route[s].cut \/ SureLink(route[s].out)) =>
              \A k \in 1 .. Len(sent') : Meets(route[s], sent'[k])]_vars

\* A session that is ended by an exception has itself to blame, or its own path:
\*   - its switches were announced before its HELLO_UP;
\*   - its LOAD_REPORT was late or early;
\*   - it reported a link to a switch that such an early session died with;
\*   - it asked for a path of a host that is not its own (path[-1]);
\*   - links went, or parallel ones had, before its handler was done.
OwnFault(s) ==
    \/ s \in EarlySessions /\ id[s] = None
    \/ s \in LateReports /\ \E d \in Dpid \ datapath_list : LoadReport(s, d)
    \/ \E d \in datapath_list : lc_home[d] \in EarlySessions /\ HomeId(d) = None
           /\ \E ws \in WindowLists : GraphInfo(s, ws)
    \/ \E d \in Dpid, src, dst \in Mac : PacketIn(s, d, src, dst) /\ host_to_lcid[src] # id[s]
    \/ Held(s) /\ (route[s].cut \/ ~SoleLink(route[s].out.left, route[s].out.right))

NoHandlerRaises ==
    [][\A s \in Session : Active(s) /\ status'[s] = "crashed" => OwnFault(s)]_vars
=============================================================================
