------------------------- MODULE Layer2SwitchProofs -------------------------
(***************************************************************************)
(* Every host of a local controller has one place: proofs for any sets of  *)
(* switches, hosts and ports.                                              *)
(***************************************************************************)
EXTENDS Layer2Switch, TLAPS

-----------------------------------------------------------------------------
\* Types.

\* What a message of each type names.
LEMMA MessageFields ==
    ASSUME NEW msg \in Message
    PROVE  /\ msg.type \in {"DATAPATH_CONNECTED", "DATAPATH_LEAVE", "HOST_CONNECTED", "HOST_LEAVE"}
                => msg.dpid \in Dpid
           /\ msg.type \in {"HOST_CONNECTED", "HOST_LEAVE"} => msg.mac \in Mac
           /\ msg.type = "GRAPH_INFO" => msg.windows \subseteq Dpid
BY DEF Message

\* The records that the senders keep of what has been announced.
ToldTypeOK ==
    /\ sent \in Message
    /\ reported \subseteq Dpid /\ lc_datapaths \subseteq Dpid
    /\ lc_hosts \in [Mac -> Dpid \cup {NoEntry}]

\* A step that puts nothing keeps their types.
LEMMA SilentTypeOK ==
    ASSUME ToldTypeOK, Silent
    PROVE  ToldTypeOK'
BY DEF ToldTypeOK, Silent, tellVars, Quiet, Message

\* And so does a put.
LEMMA PutsTypeOK ==
    ASSUME ToldTypeOK, NEW msg \in Message, Puts(msg)
    PROVE  ToldTypeOK'
<1>1. CASE status = "over"
  BY <1>1, SilentTypeOK DEF Puts
<1>2. CASE Told(msg)
  <2>1. sent' \in Message
    BY <1>2 DEF Told
  <2>2. reported' \subseteq Dpid
    BY <1>2, MessageFields DEF Told, ToldTypeOK
  <2>3. lc_datapaths' \subseteq Dpid
    BY <1>2, MessageFields DEF Told, ToldTypeOK
  <2>4. lc_hosts' \in [Mac -> Dpid \cup {NoEntry}]
    <3>1. CASE msg.type = "DATAPATH_LEAVE"
      BY <1>2, <3>1 DEF Told, ToldTypeOK
    <3>2. CASE msg.type = "HOST_CONNECTED"
      BY <1>2, <3>2, MessageFields DEF Told, ToldTypeOK
    <3>3. CASE msg.type = "HOST_LEAVE"
      BY <1>2, <3>3, MessageFields DEF Told, ToldTypeOK
    <3>4. CASE msg.type \notin {"DATAPATH_LEAVE", "HOST_CONNECTED", "HOST_LEAVE"}
      BY <1>2, <3>4 DEF Told, ToldTypeOK
    <3> QED
      BY <3>1, <3>2, <3>3, <3>4
  <2> QED
    BY <2>1, <2>2, <2>3, <2>4 DEF ToldTypeOK
<1> QED
  BY <1>1, <1>2 DEF Puts

\* What a handler may leave to put.
OutTypeOK == out \in Seq(Message \cup {Reset} \cup Frame) /\ Len(out) =< 2

\* The first message is taken.
LEMMA TailTypeOK ==
    ASSUME OutTypeOK, out # <<>>, out' = Tail(out)
    PROVE  /\ OutTypeOK'
           /\ Head(out) = out[1] /\ Head(out) \in Message \cup {Reset} \cup Frame
           /\ Len(out') = Len(out) - 1 /\ \A k \in 1 .. Len(out') : out'[k] = out[k + 1]
BY DEF OutTypeOK

\* The messages of a frame: at most one is asked for, and one host leaves.
LEMMA AsksTypeOK ==
    ASSUME NEW d \in Dpid, NEW dst \in Mac \cup {Flood}, NEW nodes
    PROVE  /\ Asks(d, dst, nodes) \in Seq(Message) /\ Len(Asks(d, dst, nodes)) =< 1
           /\ \/ Asks(d, dst, nodes) = <<>>
              \/ /\ Asks(d, dst, nodes) = <<[type |-> "PACKET_IN", dpid |-> d, mac |-> dst]>>
                 /\ dst \in Mac \ nodes
<1>1. CASE dst = Flood \/ dst \in nodes
  BY <1>1 DEF Asks
<1>2. CASE ~(dst = Flood \/ dst \in nodes)
  <2>1. [type |-> "PACKET_IN", dpid |-> d, mac |-> dst] \in Message
    BY <1>2 DEF Message
  <2> QED
    BY <1>2, <2>1 DEF Asks
<1> QED
  BY <1>1, <1>2

\* A host is entered: what it leaves to put, and the tables.
LEMMA EntersTypeOK ==
    ASSUME TypeOK, NEW d \in Dpid, NEW p \in Port, NEW src \in Mac, NEW dst \in Mac \cup {Flood},
           Enters(d, p, src, dst)
    PROVE  OutTypeOK' /\ net' \subseteq Dpid \cup Mac
           /\ mac_to_port' \in [Dpid -> [Mac -> Port \cup {NoEntry}]]
<1> DEFINE connects == [type |-> "HOST_CONNECTED", dpid |-> d, mac |-> src]
<1>1. out' = <<connects>> \o Asks(d, dst, net')
  BY DEF Enters
<1>2. connects \in Message
  BY DEF Message
<1>3. Asks(d, dst, net') \in Seq(Message) /\ Len(Asks(d, dst, net')) =< 1
  BY AsksTypeOK
<1> HIDE DEF connects
<1>4. OutTypeOK'
  <2>1. out' \in Seq(Message) /\ Len(out') =< 2
    BY <1>1, <1>2, <1>3
  <2> QED
    BY <2>1 DEF OutTypeOK
<1>5. /\ net' \subseteq Dpid \cup Mac
      /\ mac_to_port' \in [Dpid -> [Mac -> Port \cup {NoEntry}]]
  BY DEF Enters, TypeOK
<1> QED
  BY <1>4, <1>5

\* What the handlers of switches' events leave to put.
LEMMA SwitchStepOut ==
    ASSUME TypeOK, NEW d \in Dpid, SwitchStep(d)
    PROVE  OutTypeOK'
<1> USE DEF OutTypeOK
<1>1. CASE SwitchFeatures(d)
  <2>1. [type |-> "DATAPATH_CONNECTED", dpid |-> d] \in Message
    BY DEF Message
  <2> QED
    BY <1>1, <2>1 DEF SwitchFeatures
<1>2. CASE SwitchLeave(d)
  <2>1. [type |-> "DATAPATH_LEAVE", dpid |-> d] \in Message
    BY DEF Message
  <2> DEFINE leave == [type |-> "DATAPATH_LEAVE", dpid |-> d]
  <2>2. \A x, y \in Message \cup {Reset} \cup Frame :
           <<x, y>> \in Seq(Message \cup {Reset} \cup Frame) /\ Len(<<x, y>>) =< 2
    OBVIOUS
  <2>3. CASE d \in net
    <3>1. out' = <<leave, Reset>>
      BY <1>2, <2>3 DEF SwitchLeave
    <3>2. leave \in Message \cup {Reset} \cup Frame /\ Reset \in Message \cup {Reset} \cup Frame
      BY <2>1
    <3> HIDE DEF leave
    <3> QED
      BY <3>1, <3>2, <2>2
  <2>4. CASE d \notin net
    BY <1>2, <2>4 DEF SwitchLeave, TypeOK
  <2> QED
    BY <2>3, <2>4
<1>3. CASE \E p \in Port : Lldp(d, p)
  BY <1>3 DEF Lldp, TypeOK
<1>4. ASSUME NEW p \in Port, NEW src \in Mac, NEW dst \in (Mac \cup {Flood}) \ {src},
             PacketIn(d, p, src, dst)
      PROVE  OutTypeOK'
  <2>1. out' = Asks(d, dst, net)
    BY <1>4 DEF PacketIn
  <2>2. Asks(d, dst, net) \in Seq(Message) /\ Len(Asks(d, dst, net)) =< 1
    BY AsksTypeOK
  <2> QED
    BY <2>1, <2>2
<1>5. ASSUME NEW p \in Port, NEW src \in Mac, NEW dst \in (Mac \cup {Flood}) \ {src},
             PacketInLearns(d, p, src, dst)
      PROVE  OutTypeOK'
  BY <1>5, EntersTypeOK DEF PacketInLearns
<1>6. ASSUME NEW p \in Port, NEW src \in Mac, NEW dst \in (Mac \cup {Flood}) \ {src},
             PacketInReplaces(d, p, src, dst)
      PROVE  OutTypeOK'
  <2>1. PICK gone \in Mac : out' = HostLeaves(d, gone) \o <<Learn(d, p, src, dst)>>
    BY <1>6 DEF PacketInReplaces, Displaced
  <2> DEFINE leaves == [type |-> "HOST_LEAVE", dpid |-> d, mac |-> gone]
             frame == Learn(d, p, src, dst)
  <2>2. leaves \in Message /\ frame \in Frame
    BY DEF Message, Frame, Learn
  <2>3. out' = <<leaves>> \o <<frame>>
    BY <2>1 DEF HostLeaves
  <2> HIDE DEF leaves, frame
  <2>4. <<leaves>> \in Seq(Message \cup {Reset} \cup Frame)
        /\ <<frame>> \in Seq(Message \cup {Reset} \cup Frame)
        /\ Len(<<leaves>>) = 1 /\ Len(<<frame>>) = 1
    BY <2>2
  <2> QED
    BY <2>3, <2>4
<1> QED
  BY <1>1, <1>2, <1>3, <1>4, <1>5, <1>6 DEF SwitchStep

\* The tables of switches and hosts.
TablesTypeOK ==
    /\ connected \subseteq Dpid /\ datapaths \subseteq Dpid
    /\ mac_to_port \in [Dpid -> [Mac -> Port \cup {NoEntry}]]
    /\ inter_port \in [Dpid -> SUBSET Port]
    /\ net \subseteq Dpid \cup Mac

LEMMA SwitchStepTables ==
    ASSUME TypeOK, NEW d \in Dpid, SwitchStep(d)
    PROVE  TablesTypeOK'
<1> USE DEF TypeOK, TablesTypeOK
<1>1. CASE SwitchFeatures(d)
  BY <1>1 DEF SwitchFeatures
<1>2. CASE SwitchLeave(d)
  <2>1. connected' = connected \ {d}
    BY <1>2 DEF SwitchLeave
  <2>2. CASE d \in net
    <3>1. /\ net' = DropHosts(d)
          /\ datapaths' = datapaths \ {d}
          /\ inter_port' = [inter_port EXCEPT ![d] = {}]
          /\ mac_to_port' = [mac_to_port EXCEPT ![d] = [m \in Mac |-> NoEntry]]
      BY <1>2, <2>2 DEF SwitchLeave
    <3>2. net' \subseteq Dpid \cup Mac
      BY <3>1 DEF DropHosts
    <3>3. [m \in Mac |-> NoEntry] \in [Mac -> Port \cup {NoEntry}]
      OBVIOUS
    <3>4. mac_to_port' \in [Dpid -> [Mac -> Port \cup {NoEntry}]]
      BY <3>1, <3>3
    <3> QED
      BY <2>1, <3>1, <3>2, <3>4
  <2>3. CASE d \notin net
    BY <1>2, <2>1, <2>3 DEF SwitchLeave, tableVars
  <2> QED
    BY <2>2, <2>3
<1>3. CASE \E p \in Port : Lldp(d, p)
  BY <1>3 DEF Lldp, envVars
<1>4. CASE \E p \in Port, src \in Mac : \E dst \in (Mac \cup {Flood}) \ {src} : PacketIn(d, p, src, dst)
  BY <1>4 DEF PacketIn, envVars, tableVars
<1>5. ASSUME NEW p \in Port, NEW src \in Mac, NEW dst \in (Mac \cup {Flood}) \ {src},
             PacketInLearns(d, p, src, dst)
      PROVE  TablesTypeOK'
  BY <1>5, EntersTypeOK DEF PacketInLearns, envVars
<1>6. ASSUME NEW p \in Port, NEW src \in Mac, NEW dst \in (Mac \cup {Flood}) \ {src},
             PacketInReplaces(d, p, src, dst)
      PROVE  TablesTypeOK'
  <2>1. PICK gone \in Mac : /\ mac_to_port' = [mac_to_port EXCEPT ![d][gone] = NoEntry]
                            /\ net' = net \ {gone}
    BY <1>6 DEF PacketInReplaces, Displaced
  <2>2. mac_to_port' \in [Dpid -> [Mac -> Port \cup {NoEntry}]] /\ net' \subseteq Dpid \cup Mac
    BY <2>1
  <2> QED
    BY <1>6, <2>2 DEF PacketInReplaces, envVars
<1> QED
  BY <1>1, <1>2, <1>3, <1>4, <1>5, <1>6 DEF SwitchStep

\* The handlers of switches' events.
LEMMA SwitchStepTypeOK ==
    ASSUME TypeOK, NEW d \in Dpid, SwitchStep(d)
    PROVE  TypeOK'
<1>1. /\ Silent
      /\ UNCHANGED <<status, hello, windows, is_win, hash, topo, topo_nodes, load_todo, graph,
                     graph_windows>>
  BY DEF SwitchStep, SwitchFeatures, SwitchLeave, Lldp, PacketIn, PacketInLearns,
         PacketInReplaces, envVars, topoVars, graphVars
<1>2. ToldTypeOK'
  BY <1>1, SilentTypeOK DEF ToldTypeOK, TypeOK
<1>3. OutTypeOK' /\ TablesTypeOK'
  BY SwitchStepOut, SwitchStepTables
<1> QED
  BY <1>1, <1>2, <1>3 DEF TypeOK, ToldTypeOK, OutTypeOK, TablesTypeOK

\* get_topology_data.
LEMMA TopologyTypeOK ==
    ASSUME TypeOK, TopologySwitches \/ TopologyStep
    PROVE  TypeOK'
<1>1. /\ Silent
      /\ UNCHANGED <<status, hello, connected, windows, datapaths, mac_to_port, inter_port, hash,
                     load_todo, graph, graph_windows>>
  BY DEF TopologySwitches, TopologyStep, TopologyRaises, TopologyWindows, TopologyLinks,
         envVars, tableVars, graphVars
<1>2. ToldTypeOK'
  BY <1>1, SilentTypeOK DEF ToldTypeOK, TypeOK
<1>3. /\ is_win' \subseteq Dpid /\ topo_nodes' \subseteq Dpid
      /\ topo' \in {"idle", "switches", "windows"}
      /\ net' \subseteq Dpid \cup Mac
  BY DEF TopologySwitches, TopologyStep, TopologyRaises, TopologyWindows, TopologyLinks,
         tableVars, TypeOK
<1>4. OutTypeOK'
  <2>1. [type |-> "GRAPH_INFO", windows |-> {}] \in Message
    BY DEF Message
  <2>2. CASE TopologyLinks
    <3>1. out' = <<[type |-> "GRAPH_INFO", windows |-> {}]>>
      BY <2>2 DEF TopologyLinks
    <3> QED
      BY <2>1, <3>1 DEF OutTypeOK
  <2>3. CASE TopologySwitches \/ TopologyRaises \/ TopologyWindows
    BY <2>3 DEF TopologySwitches, TopologyRaises, TopologyWindows, OutTypeOK, TypeOK
  <2> QED
    BY <2>2, <2>3 DEF TopologyStep
<1> QED
  BY <1>1, <1>2, <1>3, <1>4 DEF TypeOK, ToldTypeOK, OutTypeOK

\* A host is entered once the one before has been put to leave.
LEMMA AppEntersTypeOK ==
    ASSUME TypeOK, AppEnters
    PROVE  TypeOK'
<1> DEFINE f == Head(out)
<1>1. f \in Frame
  BY DEF AppEnters, TypeOK, Message, Reset
<1>2. f.dpid \in Dpid /\ f.port \in Port /\ f.mac \in Mac /\ f.dst \in Mac \cup {Flood}
  BY <1>1 DEF Frame
<1>3. Enters(f.dpid, f.port, f.mac, f.dst) /\ Silent
      /\ UNCHANGED <<status, hello, connected, windows, datapaths, inter_port, is_win, hash, topo,
                     topo_nodes, load_todo, graph, graph_windows>>
  BY DEF AppEnters, envVars, topoVars, graphVars
<1>4. ToldTypeOK'
  BY <1>3, SilentTypeOK DEF ToldTypeOK, TypeOK
<1>5. OutTypeOK' /\ net' \subseteq Dpid \cup Mac
      /\ mac_to_port' \in [Dpid -> [Mac -> Port \cup {NoEntry}]]
  BY <1>2, <1>3, EntersTypeOK
<1> QED
  BY <1>3, <1>4, <1>5 DEF TypeOK, ToldTypeOK, OutTypeOK

\* The two greenlets that report, and the end of a handler.
LEMMA ReportTypeOK ==
    ASSUME TypeOK,
           \/ AppPut \/ AppReset \/ \E d \in WindowDpid : WindowChanges(d)
           \/ LoadWake \/ (\E d \in Dpid : LoadPut(d)) \/ GraphStep
    PROVE  TypeOK'
<1>1. UNCHANGED <<status, hello, connected, tableVars, topoVars>>
  BY DEF AppPut, AppReset, WindowChanges, LoadWake, LoadPut, GraphStep, GraphRead, GraphCompare,
         GraphPut, GraphDone, envVars
<1>2. ToldTypeOK /\ OutTypeOK
  BY DEF TypeOK, ToldTypeOK, OutTypeOK
<1>3. ToldTypeOK'
  <2>1. CASE AppPut
    <3>1. Head(out) \in Message /\ Puts(Head(out))
      BY <1>2, <2>1, TailTypeOK DEF AppPut, Frame, Reset
    <3> QED
      BY <1>2, <3>1, PutsTypeOK
  <2>2. ASSUME NEW d \in Dpid, LoadPut(d)
        PROVE  ToldTypeOK'
    <3>1. [type |-> "LOAD_REPORT", dpid |-> d] \in Message
      BY DEF Message
    <3> QED
      BY <1>2, <2>2, <3>1, PutsTypeOK DEF LoadPut
  <2>3. CASE GraphPut
    <3>1. [type |-> "GRAPH_INFO", windows |-> graph_windows] \in Message
      BY DEF Message, TypeOK
    <3> QED
      BY <1>2, <2>3, <3>1, PutsTypeOK DEF GraphPut
  <2>4. CASE \/ AppReset \/ \E d \in WindowDpid : WindowChanges(d)
             \/ LoadWake \/ GraphRead \/ GraphCompare \/ GraphDone
    BY <1>2, <2>4, SilentTypeOK DEF AppReset, WindowChanges, LoadWake, GraphRead, GraphCompare, GraphDone
  <2> QED
    BY <2>1, <2>2, <2>3, <2>4 DEF GraphStep
<1>4. OutTypeOK'
  BY <1>2, TailTypeOK
     DEF AppPut, AppReset, WindowChanges, LoadWake, LoadPut, GraphStep, GraphRead, GraphCompare,
         GraphPut, GraphDone, OutTypeOK
<1>5. /\ windows' \subseteq Dpid /\ is_win' \subseteq Dpid /\ load_todo' \subseteq Dpid
      /\ graph' \in {"idle", "read", "put", "told"} /\ graph_windows' \subseteq Dpid
  BY Layer2SwitchAssumption
     DEF TypeOK, AppPut, AppReset, WindowChanges, LoadWake, LoadPut, GraphStep, GraphRead,
         GraphCompare, GraphPut, GraphDone, envVars, graphVars
<1>6. hash' \in {NoHash} \cup {HashOf(W) : W \in SUBSET Dpid}
  BY DEF TypeOK, AppPut, AppReset, WindowChanges, LoadWake, LoadPut, GraphStep, GraphRead,
         GraphCompare, GraphPut, GraphDone
<1> QED
  BY <1>1, <1>3, <1>4, <1>5, <1>6 DEF TypeOK, ToldTypeOK, OutTypeOK, tableVars, topoVars

\* The connection.
LEMMA ConnectionTypeOK ==
    ASSUME TypeOK,
           \/ Connect \/ HelloPut \/ Ends
           \/ \E d \in Dpid : RoleAssign(d)
           \/ \E in \in Dpid, o \in WindowDpid : FlowMod(in, o)
    PROVE  TypeOK'
<1>1. UNCHANGED <<envVars, tableVars, is_win, hash, out, topoVars, load_todo, graphVars>>
  BY DEF Connect, HelloPut, Ends, RoleAssign, FlowMod, Receives
<1>2. status' \in {"starting", "live", "over"} /\ hello' \in BOOLEAN
  BY DEF TypeOK, Connect, HelloPut, Ends, RoleAssign, FlowMod, Receives, Live
<1>3. ToldTypeOK'
  <2>1. ToldTypeOK
    BY DEF TypeOK, ToldTypeOK
  <2>2. CASE HelloPut
    <3>1. [type |-> "HELLO_UP"] \in Message
      BY DEF Message
    <3> QED
      BY <2>1, <2>2, <3>1, PutsTypeOK DEF HelloPut
  <2>3. CASE ~HelloPut
    BY <2>1, <2>3, SilentTypeOK DEF Connect, Ends, RoleAssign, FlowMod, Receives
  <2> QED
    BY <2>2, <2>3
<1> QED
  BY <1>1, <1>2, <1>3 DEF TypeOK, ToldTypeOK, envVars, tableVars, topoVars, graphVars

\* The tables hold values of their kinds, and no handler of the event loop
\* leaves more than two messages to put at a time.
THEOREM TypeCorrect == Spec => []TypeOK
<1>1. Init => TypeOK
  <2> SUFFICES ASSUME Init
               PROVE  TypeOK
    OBVIOUS
  <2>1. sent \in Message
    BY DEF Init, Message, Quiet
  <2>2. OutTypeOK
    BY DEF Init, OutTypeOK
  <2>3. /\ mac_to_port \in [Dpid -> [Mac -> Port \cup {NoEntry}]]
        /\ inter_port \in [Dpid -> SUBSET Port]
        /\ lc_hosts \in [Mac -> Dpid \cup {NoEntry}]
    BY DEF Init
  <2> QED
    BY <2>1, <2>2, <2>3 DEF Init, TypeOK, OutTypeOK
<1>2. TypeOK /\ [Next]_vars => TypeOK'
  <2> SUFFICES ASSUME TypeOK, [Next]_vars
               PROVE  TypeOK'
    OBVIOUS
  <2>1. CASE UNCHANGED vars
    BY <2>1 DEF TypeOK, vars, envVars, tableVars, topoVars, graphVars, tellVars
  <2> QED
    BY <2>1, SwitchStepTypeOK, AppEntersTypeOK, TopologyTypeOK, ReportTypeOK, ConnectionTypeOK DEF Next
<1> QED
  BY <1>1, <1>2, PTL DEF Spec

-----------------------------------------------------------------------------
\* Places.

\* The part of TypeOK that the places of hosts turn on, and that the event loop
\* only handles events of switches it has the tables of.
PlacesTypeOK ==
    /\ datapaths \subseteq Dpid
    /\ connected \subseteq datapaths
    /\ topo_nodes \subseteq Dpid
    /\ net \subseteq Dpid \cup Mac
    /\ mac_to_port \in [Dpid -> [Mac -> Port \cup {NoEntry}]]

\* A switch that is not there has no hosts left in its table.
NoHostsLeft == \A d \in Dpid \ datapaths : HostsOf(d) = {}

\* The host of a frame that waits for the host before to be put to leave is in no
\* table, and its port is free.
FramesWait == \A n \in 1 .. Len(out) : out[n].type = "learn" =>
    /\ out[n].dpid \in datapaths /\ out[n].mac \notin net
    /\ \A m \in Mac : mac_to_port[out[n].dpid][m] # out[n].port

\* HostsPlaced is not inductive: a host left in the table of a switch that is
\* gone would be back with the switch, and not be a node; and a host must still
\* be nowhere when its frame goes on.
PlacesInv == PlacesTypeOK /\ NoHostsLeft /\ HostsPlaced /\ FramesWait

placeVars == <<datapaths, connected, topo_nodes, net, mac_to_port>>

-----------------------------------------------------------------------------

\* At the start there are no switches and no hosts.
LEMMA PlacesInit == Init => PlacesInv
<1> SUFFICES ASSUME Init  PROVE PlacesInv
  OBVIOUS
<1>1. FramesWait
  BY DEF Init, FramesWait
<1> QED
  BY <1>1, Layer2SwitchAssumption
     DEF Init, PlacesInv, PlacesTypeOK, NoHostsLeft, HostsPlaced, HostsOf

\* No frame waits among messages.
LEMMA NoFrameWaits ==
    ASSUME out' = <<>> \/ (out' \in Seq(Message \cup {Reset}))
    PROVE  FramesWait'
<1>1. \A msg \in Message \cup {Reset} : msg.type # "learn"
  BY DEF Message, Reset
<1>2. out' = <<>> => Len(out') = 0
  OBVIOUS
<1>3. out' \in Seq(Message \cup {Reset}) => \A n \in 1 .. Len(out') : out'[n] \in Message \cup {Reset}
  OBVIOUS
<1> QED
  BY <1>1, <1>2, <1>3 DEF FramesWait

\* A step that leaves these variables alone, and at most takes the first of what
\* the event loop has to do, leaves the invariant alone.
LEMMA PlacesFrame ==
    ASSUME TypeOK, PlacesInv, UNCHANGED placeVars,
           out' = out \/ (out # <<>> /\ out' = Tail(out))
    PROVE  PlacesInv'
<1>1. \A n \in 1 .. Len(out') : \E m \in 1 .. Len(out) : out'[n] = out[m]
  <2>1. CASE out' = out
    BY <2>1
  <2>2. CASE out # <<>> /\ out' = Tail(out)
    <3>1. Len(out') = Len(out) - 1 /\ \A n \in 1 .. Len(out') : out'[n] = out[n + 1]
      BY <2>2, TailTypeOK DEF TypeOK, OutTypeOK
    <3>2. Len(out) \in Nat
      BY DEF TypeOK
    <3>3. \A n \in 1 .. Len(out') : n + 1 \in 1 .. Len(out)
      BY <3>1, <3>2
    <3> QED
      BY <3>1, <3>3
  <2> QED
    BY <2>1, <2>2
<1>2. FramesWait'
  BY <1>1 DEF PlacesInv, FramesWait, placeVars
<1> QED
  BY <1>2 DEF PlacesInv, PlacesTypeOK, NoHostsLeft, HostsPlaced, HostsOf, placeVars

\* A switch comes: its table is kept, and was empty if the switch is new.
LEMMA PlacesSwitchFeatures ==
    ASSUME TypeOK, PlacesInv, NEW d \in Dpid, SwitchFeatures(d)
    PROVE  PlacesInv'
<1>1. /\ datapaths' = datapaths \cup {d}
      /\ connected' = connected \cup {d}
      /\ UNCHANGED <<topo_nodes, net, mac_to_port>>
  BY DEF SwitchFeatures, topoVars
<1>2. PlacesTypeOK' /\ NoHostsLeft'
  BY <1>1 DEF PlacesInv, PlacesTypeOK, NoHostsLeft, HostsOf
<1>3. \A m \in Mac : m \in net' <=> \E c \in datapaths' : m \in HostsOf(c)'
  <2> SUFFICES ASSUME NEW m \in Mac
               PROVE  m \in net' <=> \E c \in datapaths' : m \in HostsOf(c)'
    OBVIOUS
  <2>1. \A c \in Dpid : HostsOf(c)' = HostsOf(c)
    BY <1>1 DEF HostsOf
  <2> QED
    BY <1>1, <2>1 DEF PlacesInv, PlacesTypeOK, NoHostsLeft, HostsPlaced
<1>4. FramesWait'
  <2>1. [type |-> "DATAPATH_CONNECTED", dpid |-> d] \in Message
    BY DEF Message
  <2>2. out' \in Seq(Message \cup {Reset})
    BY <2>1 DEF SwitchFeatures
  <2> QED
    BY <2>2, NoFrameWaits
<1> QED
  BY <1>1, <1>2, <1>3, <1>4 DEF PlacesInv, HostsPlaced, HostsOf

\* A host is entered: it was nowhere, and its port is free.
LEMMA PlacesEnters ==
    ASSUME PlacesInv, NEW d \in datapaths, NEW p \in Port, NEW src \in Mac, NEW dst \in Mac \cup {Flood},
           src \notin net, \A m \in Mac : mac_to_port[d][m] # p,
           Enters(d, p, src, dst), UNCHANGED <<datapaths, connected, topo_nodes>>
    PROVE  PlacesInv'
<1>1. mac_to_port' = [mac_to_port EXCEPT ![d][src] = p] /\ net' = net \cup {d, src}
  BY DEF Enters
<1>2. d \in Dpid
  BY DEF PlacesInv, PlacesTypeOK
<1>3. HostsOf(d)' = HostsOf(d) \cup {src}
  BY <1>1, <1>2, Layer2SwitchAssumption DEF HostsOf, PlacesInv, PlacesTypeOK
<1>4. \A c \in Dpid \ {d} : HostsOf(c)' = HostsOf(c) /\ mac_to_port'[c] = mac_to_port[c]
  BY <1>1, <1>2 DEF HostsOf, PlacesInv, PlacesTypeOK
<1>5. \A c \in Dpid : src \notin HostsOf(c)
  BY DEF PlacesInv, HostsPlaced, NoHostsLeft
<1>6. PlacesTypeOK'
  BY <1>1, <1>2 DEF PlacesInv, PlacesTypeOK
<1>7. NoHostsLeft'
  BY <1>4 DEF PlacesInv, NoHostsLeft
<1>8. \A m \in Mac : m \in net' <=> \E c \in datapaths' : m \in HostsOf(c)'
  <2> SUFFICES ASSUME NEW m \in Mac
               PROVE  m \in net' <=> \E c \in datapaths' : m \in HostsOf(c)'
    OBVIOUS
  <2>1. CASE m = src
    BY <1>1, <1>3, <2>1
  <2>2. CASE m # src
    <3>1. m \in net' <=> m \in net
      BY <1>1, <1>2, <2>2, Layer2SwitchAssumption
    <3>2. \A c \in datapaths : m \in HostsOf(c)' <=> m \in HostsOf(c)
      BY <1>3, <1>4, <2>2 DEF PlacesInv, PlacesTypeOK
    <3> QED
      BY <3>1, <3>2 DEF PlacesInv, HostsPlaced
  <2> QED
    BY <2>1, <2>2
<1>9. \A m \in Mac, b, c \in Dpid : m \in HostsOf(b)' \cap HostsOf(c)' => b = c
  BY <1>3, <1>4, <1>5 DEF PlacesInv, HostsPlaced
<1>10. \A c \in Dpid : \A m, n \in HostsOf(c)' : mac_to_port'[c][m] = mac_to_port'[c][n] => m = n
  <2> SUFFICES ASSUME NEW c \in Dpid, NEW m \in HostsOf(c)', NEW n \in HostsOf(c)',
                      mac_to_port'[c][m] = mac_to_port'[c][n]
               PROVE  m = n
    OBVIOUS
  <2>1. CASE c # d
    BY <1>4, <2>1 DEF PlacesInv, HostsPlaced
  <2>2. CASE c = d
    <3>1. m \in Mac /\ n \in Mac
      BY DEF HostsOf
    <3>2. \A x \in Mac : mac_to_port'[d][x] = IF x = src THEN p ELSE mac_to_port[d][x]
      BY <1>1, <1>2 DEF PlacesInv, PlacesTypeOK
    <3> QED
      BY <1>3, <2>2, <3>1, <3>2 DEF PlacesInv, HostsPlaced
  <2> QED
    BY <2>1, <2>2
<1>11. FramesWait'
  <2> DEFINE connects == [type |-> "HOST_CONNECTED", dpid |-> d, mac |-> src]
  <2>1. connects \in Message
    BY <1>2 DEF Message
  <2>2. Asks(d, dst, net') \in Seq(Message) /\ out' = <<connects>> \o Asks(d, dst, net')
    BY <1>2, AsksTypeOK DEF Enters
  <2> HIDE DEF connects
  <2>3. out' \in Seq(Message \cup {Reset})
    BY <2>1, <2>2
  <2> QED
    BY <2>3, NoFrameWaits
<1> QED
  BY <1>6, <1>7, <1>8, <1>9, <1>10, <1>11 DEF PlacesInv, HostsPlaced

\* A host makes way: it is in no table any more, and the frame waits.
LEMMA PlacesPacketInReplaces ==
    ASSUME TypeOK, PlacesInv, NEW d \in Dpid, NEW p \in Port, NEW src \in Mac, NEW dst \in Mac \cup {Flood},
           PacketInReplaces(d, p, src, dst)
    PROVE  PlacesInv'
<1>1. PICK gone \in Mac :
          /\ mac_to_port[d][gone] = p
          /\ mac_to_port' = [mac_to_port EXCEPT ![d][gone] = NoEntry]
          /\ net' = net \ {gone}
          /\ out' = HostLeaves(d, gone) \o <<Learn(d, p, src, dst)>>
  BY DEF PacketInReplaces, Displaced
<1>2. /\ d \in datapaths
      /\ src \notin net
      /\ UNCHANGED <<datapaths, connected, topo_nodes>>
  BY DEF PacketInReplaces, Learns, envVars, topoVars, PlacesInv, PlacesTypeOK
<1>3. gone \in HostsOf(d) /\ HostsOf(d)' = HostsOf(d) \ {gone}
  BY <1>1, Layer2SwitchAssumption DEF HostsOf, PlacesInv, PlacesTypeOK
<1>4. \A c \in Dpid \ {d} : HostsOf(c)' = HostsOf(c) /\ mac_to_port'[c] = mac_to_port[c]
  BY <1>1 DEF HostsOf, PlacesInv, PlacesTypeOK
<1>5. \A x \in Mac : mac_to_port'[d][x] = IF x = gone THEN NoEntry ELSE mac_to_port[d][x]
  BY <1>1 DEF PlacesInv, PlacesTypeOK
<1>6. PlacesTypeOK'
  BY <1>1, <1>2 DEF PlacesInv, PlacesTypeOK
<1>7. NoHostsLeft'
  BY <1>2, <1>4 DEF PlacesInv, NoHostsLeft
<1>8. \A m \in Mac : m \in net' <=> \E c \in datapaths' : m \in HostsOf(c)'
  <2> SUFFICES ASSUME NEW m \in Mac
               PROVE  m \in net' <=> \E c \in datapaths' : m \in HostsOf(c)'
    OBVIOUS
  <2>1. CASE m = gone
    BY <1>1, <1>2, <1>3, <1>4, <2>1 DEF PlacesInv, PlacesTypeOK, HostsPlaced
  <2>2. CASE m # gone
    <3>1. \A c \in datapaths : m \in HostsOf(c)' <=> m \in HostsOf(c)
      BY <1>3, <1>4, <2>2 DEF PlacesInv, PlacesTypeOK
    <3> QED
      BY <1>1, <1>2, <2>2, <3>1 DEF PlacesInv, HostsPlaced
  <2> QED
    BY <2>1, <2>2
<1>9. \A m \in Mac, b, c \in Dpid : m \in HostsOf(b)' \cap HostsOf(c)' => b = c
  BY <1>3, <1>4 DEF PlacesInv, HostsPlaced
<1>10. \A c \in Dpid : \A m, n \in HostsOf(c)' : mac_to_port'[c][m] = mac_to_port'[c][n] => m = n
  <2>1. \A m, n \in HostsOf(d)' : mac_to_port'[d][m] = mac_to_port'[d][n] => m = n
    BY <1>3, <1>5 DEF PlacesInv, HostsPlaced, HostsOf
  <2> QED
    BY <1>4, <2>1 DEF PlacesInv, HostsPlaced
<1>11. \A x \in Mac : mac_to_port'[d][x] # p
  <2>1. \A x \in Mac : mac_to_port[d][x] = p => x = gone
    BY <1>1, Layer2SwitchAssumption DEF PlacesInv, HostsPlaced, HostsOf
  <2> QED
    BY <1>5, <2>1, Layer2SwitchAssumption
<1>12. FramesWait'
  <2> DEFINE leaves == [type |-> "HOST_LEAVE", dpid |-> d, mac |-> gone]
             f == Learn(d, p, src, dst)
  <2>1. out' = <<leaves>> \o <<f>>
    BY <1>1 DEF HostLeaves
  <2>2. leaves.type # "learn" /\ f.dpid = d /\ f.port = p /\ f.mac = src
    BY DEF Learn
  <2> HIDE DEF leaves, f
  <2>3. Len(out') = 2 /\ out'[1] = leaves /\ out'[2] = f
    BY <2>1
  <2>4. \A n \in 1 .. Len(out') : n = 1 \/ n = 2
    BY <2>3
  <2>5. src \notin net'
    BY <1>1, <1>2
  <2> QED
    BY <1>2, <1>11, <2>2, <2>3, <2>4, <2>5 DEF FramesWait
<1> QED
  BY <1>6, <1>7, <1>8, <1>9, <1>10, <1>12 DEF PlacesInv, HostsPlaced

\* The frame that waited goes on.
LEMMA PlacesAppEnters ==
    ASSUME TypeOK, PlacesInv, AppEnters
    PROVE  PlacesInv'
<1> DEFINE f == Head(out)
<1>1. f \in Frame
  BY DEF AppEnters, TypeOK, Message, Reset
<1>2. f.port \in Port /\ f.mac \in Mac /\ f.dst \in Mac \cup {Flood} /\ f.type = "learn"
  BY <1>1 DEF Frame
<1>3. 1 \in 1 .. Len(out) /\ f = out[1]
  BY DEF AppEnters, TypeOK
<1>4. /\ f.dpid \in datapaths /\ f.mac \notin net
      /\ \A m \in Mac : mac_to_port[f.dpid][m] # f.port
  BY <1>2, <1>3 DEF PlacesInv, FramesWait
<1>5. /\ Enters(f.dpid, f.port, f.mac, f.dst)
      /\ UNCHANGED <<datapaths, connected, topo_nodes>>
  BY DEF AppEnters, envVars, topoVars
<1> HIDE DEF f
<1> QED
  BY <1>2, <1>4, <1>5, PlacesEnters

\* A switch leaves, and its hosts with it, or nothing is done.
LEMMA PlacesSwitchLeave ==
    ASSUME TypeOK, PlacesInv, NEW d \in Dpid, SwitchLeave(d)
    PROVE  PlacesInv'
<1>1. connected' = connected \ {d} /\ UNCHANGED topo_nodes
  BY DEF SwitchLeave, topoVars
<1>2. CASE d \notin net
  <2>1. UNCHANGED <<datapaths, net, mac_to_port, out>>
    BY <1>2 DEF SwitchLeave, tableVars
  <2>2. FramesWait'
    BY <2>1 DEF FramesWait, PlacesInv
  <2> QED
    BY <1>1, <2>1, <2>2 DEF PlacesInv, PlacesTypeOK, NoHostsLeft, HostsPlaced, HostsOf
<1>3. CASE d \in net
  <2>1. /\ net' = net \ ({d} \cup HostsOf(d))
        /\ datapaths' = datapaths \ {d}
        /\ mac_to_port' = [mac_to_port EXCEPT ![d] = [m \in Mac |-> NoEntry]]
    BY <1>3 DEF SwitchLeave, DropHosts
  <2>2. HostsOf(d)' = {}
    BY <2>1 DEF HostsOf, PlacesInv, PlacesTypeOK
  <2>3. \A c \in Dpid \ {d} : HostsOf(c)' = HostsOf(c) /\ mac_to_port'[c] = mac_to_port[c]
    BY <2>1 DEF HostsOf, PlacesInv, PlacesTypeOK
  <2>4. PlacesTypeOK'
    BY <1>1, <2>1 DEF PlacesInv, PlacesTypeOK
  <2>5. NoHostsLeft'
    BY <2>1, <2>2, <2>3 DEF PlacesInv, NoHostsLeft
  <2>6. \A m \in Mac : m \in net' <=> \E c \in datapaths' : m \in HostsOf(c)'
    <3> SUFFICES ASSUME NEW m \in Mac
                 PROVE  m \in net' <=> \E c \in datapaths' : m \in HostsOf(c)'
      OBVIOUS
    <3>1. m \in net' <=> m \in net /\ m \notin HostsOf(d)
      BY <2>1, Layer2SwitchAssumption
    <3>2. (\E c \in datapaths' : m \in HostsOf(c)') <=> (\E c \in datapaths \ {d} : m \in HostsOf(c))
      BY <2>1, <2>3 DEF PlacesInv, PlacesTypeOK
    <3> QED
      BY <3>1, <3>2 DEF PlacesInv, PlacesTypeOK, HostsPlaced
  <2>7. \A m \in Mac, b, c \in Dpid : m \in HostsOf(b)' \cap HostsOf(c)' => b = c
    BY <2>2, <2>3 DEF PlacesInv, HostsPlaced
  <2>8. \A c \in Dpid : \A m, n \in HostsOf(c)' : mac_to_port'[c][m] = mac_to_port'[c][n] => m = n
    BY <2>2, <2>3 DEF PlacesInv, HostsPlaced
  <2>9. FramesWait'
    <3> DEFINE leave == [type |-> "DATAPATH_LEAVE", dpid |-> d]
    <3>1. leave \in Message \cup {Reset} /\ Reset \in Message \cup {Reset}
      BY DEF Message
    <3>2. out' = <<leave, Reset>>
      BY <1>3 DEF SwitchLeave
    <3> HIDE DEF leave
    <3>3. out' \in Seq(Message \cup {Reset})
      BY <3>1, <3>2
    <3> QED
      BY <3>3, NoFrameWaits
  <2> QED
    BY <2>4, <2>5, <2>6, <2>7, <2>8, <2>9 DEF PlacesInv, HostsPlaced
<1> QED
  BY <1>2, <1>3

\* get_topology_data adds switches to the graph, and no host.
LEMMA PlacesTopology ==
    ASSUME TypeOK, PlacesInv, TopologySwitches \/ TopologyStep
    PROVE  PlacesInv'
<1>1. UNCHANGED <<datapaths, connected, mac_to_port>>
  BY DEF TopologySwitches, TopologyStep, TopologyRaises, TopologyWindows, TopologyLinks,
         envVars, tableVars
<1>2. topo_nodes' \subseteq Dpid
  BY DEF TopologySwitches, TopologyStep, TopologyRaises, TopologyWindows, TopologyLinks,
         PlacesInv, PlacesTypeOK
<1>3. net' \subseteq Dpid \cup Mac /\ \A m \in Mac : m \in net' <=> m \in net
  <2>1. CASE TopologyLinks
    <3>1. PICK ends \in SUBSET connected : net' = net \cup topo_nodes \cup ends
      BY <2>1 DEF TopologyLinks
    <3>2. topo_nodes \cup ends \subseteq Dpid
      BY DEF PlacesInv, PlacesTypeOK
    <3> QED
      BY <3>1, <3>2, Layer2SwitchAssumption DEF PlacesInv, PlacesTypeOK
  <2>2. CASE TopologySwitches \/ TopologyRaises \/ TopologyWindows
    <3>1. net' = net
      BY <2>2 DEF TopologySwitches, TopologyRaises, TopologyWindows, tableVars
    <3> QED
      BY <3>1 DEF PlacesInv, PlacesTypeOK
  <2> QED
    BY <2>1, <2>2 DEF TopologyStep
<1>4. FramesWait'
  <2>1. CASE TopologyLinks
    <3>1. [type |-> "GRAPH_INFO", windows |-> {}] \in Message
      BY DEF Message
    <3>2. out' \in Seq(Message \cup {Reset})
      BY <2>1, <3>1 DEF TopologyLinks
    <3> QED
      BY <3>2, NoFrameWaits
  <2>2. CASE TopologySwitches \/ TopologyRaises \/ TopologyWindows
    <3>1. UNCHANGED <<net, out>>
      BY <2>2 DEF TopologySwitches, TopologyRaises, TopologyWindows, tableVars
    <3> QED
      BY <1>1, <3>1 DEF PlacesInv, FramesWait
  <2> QED
    BY <2>1, <2>2 DEF TopologyStep
<1> QED
  BY <1>1, <1>2, <1>3, <1>4 DEF PlacesInv, PlacesTypeOK, NoHostsLeft, HostsPlaced, HostsOf

\* One step of any greenlet.
LEMMA PlacesNext ==
    ASSUME TypeOK, PlacesInv, [Next]_vars
    PROVE  PlacesInv'
<1>1. ASSUME NEW d \in Dpid, SwitchStep(d)
      PROVE  PlacesInv'
  <2>1. CASE \E p \in Port : Lldp(d, p)
    BY <2>1, PlacesFrame DEF Lldp, placeVars, envVars, topoVars
  <2>2. ASSUME NEW p \in Port, NEW src \in Mac, NEW dst \in (Mac \cup {Flood}) \ {src},
               PacketIn(d, p, src, dst)
        PROVE  PlacesInv'
    <3>1. Asks(d, dst, net) \in Seq(Message) /\ out' = Asks(d, dst, net)
      BY <2>2, AsksTypeOK DEF PacketIn
    <3>2. FramesWait'
      BY <3>1, NoFrameWaits
    <3>3. UNCHANGED placeVars
      BY <2>2 DEF PacketIn, placeVars, envVars, topoVars, tableVars
    <3> QED
      BY <3>2, <3>3
         DEF PlacesInv, PlacesTypeOK, NoHostsLeft, HostsPlaced, HostsOf, placeVars
  <2>3. ASSUME NEW p \in Port, NEW src \in Mac, NEW dst \in (Mac \cup {Flood}) \ {src},
               PacketInLearns(d, p, src, dst)
        PROVE  PlacesInv'
    <3>1. /\ d \in datapaths /\ src \notin net
          /\ \A m \in Mac : mac_to_port[d][m] # p
          /\ Enters(d, p, src, dst) /\ UNCHANGED <<datapaths, connected, topo_nodes>>
      BY <2>3 DEF PacketInLearns, Learns, Displaced, envVars, topoVars, PlacesInv, PlacesTypeOK
    <3> QED
      BY <3>1, PlacesEnters
  <2>4. ASSUME NEW p \in Port, NEW src \in Mac, NEW dst \in (Mac \cup {Flood}) \ {src},
               PacketInReplaces(d, p, src, dst)
        PROVE  PlacesInv'
    BY <2>4, PlacesPacketInReplaces
  <2> QED
    BY <1>1, <2>1, <2>2, <2>3, <2>4, PlacesSwitchFeatures, PlacesSwitchLeave DEF SwitchStep
<1>2. CASE AppPut \/ AppReset \/ (\E d \in WindowDpid : WindowChanges(d))
  BY <1>2, PlacesFrame
     DEF AppPut, AppReset, WindowChanges, placeVars, envVars, topoVars, tableVars
<1>3. CASE LoadWake \/ (\E d \in Dpid : LoadPut(d)) \/ GraphStep
  BY <1>3, PlacesFrame
     DEF LoadWake, LoadPut, GraphStep, GraphRead, GraphCompare, GraphPut, GraphDone,
         placeVars, envVars, topoVars, tableVars
<1>4. CASE \/ Connect \/ HelloPut \/ Ends
           \/ \E d \in Dpid : RoleAssign(d)
           \/ \E in \in Dpid, o \in WindowDpid : FlowMod(in, o)
  BY <1>4, PlacesFrame
     DEF Connect, HelloPut, Ends, RoleAssign, FlowMod, Receives,
         placeVars, envVars, topoVars, tableVars
<1>5. CASE UNCHANGED vars
  BY <1>5, PlacesFrame DEF vars, placeVars, envVars, topoVars, tableVars
<1> QED
  BY <1>1, <1>2, <1>3, <1>4, <1>5, PlacesTopology, PlacesAppEnters DEF Next

\* Whatever events come in whatever order, a host is a node of the graph exactly
\* while it is in the table of a switch, of one switch and one port.
THEOREM HostsPlacedCorrect == Spec => []HostsPlaced
<1>1. PlacesInv => HostsPlaced
  BY DEF PlacesInv
<1> QED
  BY PlacesInit, PlacesNext, TypeCorrect, <1>1, PTL DEF Spec
=============================================================================
