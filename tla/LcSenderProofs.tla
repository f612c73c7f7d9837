--------------------------- MODULE LcSenderProofs ---------------------------
(***************************************************************************)
(* A local controller keeps the order of messages that the central         *)
(* controller's handlers take for granted: Layer2Switch implements         *)
(* LcSender, for any sets of switches, hosts, ports and window links.      *)
(***************************************************************************)
EXTENDS Layer2SwitchProofs, SequenceTheorems

\* The messages that the event loop leaves to put.
Connected(d) == [type |-> "DATAPATH_CONNECTED", dpid |-> d]
Left(d) == [type |-> "DATAPATH_LEAVE", dpid |-> d]
HostCame(d, m) == [type |-> "HOST_CONNECTED", dpid |-> d, mac |-> m]
HostWent(d, m) == [type |-> "HOST_LEAVE", dpid |-> d, mac |-> m]
Asked(d, m) == [type |-> "PACKET_IN", dpid |-> d, mac |-> m]
NoWindows == [type |-> "GRAPH_INFO", windows |-> {}]

\* A host is announced where it is.
Agrees(m) == \A c \in Dpid : lc_hosts[m] = c <=> m \in HostsOf(c)
AgreeAll == \A m \in Mac : Agrees(m)

\* What is announced is what the tables hold, and at most a message is left that
\* does not change it, or a frame whose host is still to be entered.
Settled ==
    /\ datapaths = lc_datapaths
    /\ AgreeAll
    /\ \/ out = <<>> \/ out = <<Reset>> \/ out = <<NoWindows>>
       \/ \E f \in Frame : out = <<f>>
       \/ \E d \in lc_datapaths, m \in Mac : lc_hosts[m] = NoEntry /\ out = <<Asked(d, m)>>

\* A switch is still to be announced.
Connecting == \E d \in Dpid :
    /\ out = <<Connected(d)>>
    /\ datapaths = lc_datapaths \cup {d}
    /\ AgreeAll

\* The host src is learnt at the switch d and still to be announced.
Learnt(d, src) ==
    /\ datapaths = lc_datapaths
    /\ d \in lc_datapaths
    /\ lc_hosts[src] = NoEntry
    /\ src \in HostsOf(d)

\* After its announcement at most a frame's destination is asked for.
Learning == \E d \in Dpid, src \in Mac :
    /\ Learnt(d, src)
    /\ \A m \in Mac \ {src} : Agrees(m)
    /\ \/ out = <<HostCame(d, src)>>
       \/ \E m \in Mac \ {src} :
             lc_hosts[m] = NoEntry /\ out = <<HostCame(d, src), Asked(d, m)>>

\* The host that was at its port is to leave before that.
Displacing == \E gone \in Mac, f \in Frame :
    /\ datapaths = lc_datapaths
    /\ lc_hosts[gone] \in lc_datapaths
    /\ \A c \in Dpid : gone \notin HostsOf(c)
    /\ \A m \in Mac \ {gone} : Agrees(m)
    /\ out = <<HostWent(lc_hosts[gone], gone), f>>

\* A switch is gone with its hosts, and that is still to be announced.
Going == \E d \in lc_datapaths :
    /\ out = <<Left(d), Reset>>
    /\ datapaths = lc_datapaths \ {d}
    /\ \A m \in Mac : IF lc_hosts[m] = d THEN \A c \in Dpid : m \notin HostsOf(c) ELSE Agrees(m)

\* Once the connection is over nothing is announced any more.
OrderInv ==
    /\ topo # "idle" => out = <<>>
    /\ status = "over" \/ Settled \/ Connecting \/ Learning \/ Displacing \/ Going

ToldSwitches == lc_datapaths \subseteq Dpid /\ lc_hosts \in [Mac -> Dpid \cup {NoEntry}]

SenderInv == TypeOK /\ PlacesInv /\ ToldSwitches /\ OrderInv

orderVars == <<datapaths, mac_to_port, lc_datapaths, lc_hosts, out>>

-----------------------------------------------------------------------------

\* What Head and Tail make of the messages left.
LEMMA Sequences ==
    /\ \A x : <<x>> # <<>> /\ Head(<<x>>) = x /\ Tail(<<x>>) = <<>>
    /\ \A x, y : <<x, y>> # <<>> /\ Head(<<x, y>>) = x /\ Tail(<<x, y>>) = <<y>>
    /\ \A x, y, z : <<x, y, z>> # <<>> /\ Head(<<x, y, z>>) = x /\ Tail(<<x, y, z>>) = <<y, z>>
OBVIOUS

\* And what \o makes of one and at most another.
LEMMA Concatenations ==
    ASSUME NEW x, NEW y
    PROVE  /\ <<x>> \o <<>> = <<x>>
           /\ <<x>> \o <<y>> = <<x, y>>
<1> DEFINE S == {x, y}
<1>1. <<x>> \in Seq(S) /\ <<y>> \in Seq(S) /\ <<x, y>> \in Seq(S)
  OBVIOUS
<1>2. \A s \in Seq(S) : s \o <<>> = s
  OBVIOUS
<1>3. <<x>> \o <<y>> = <<x, y>>
  <2> DEFINE s == <<x>> \o <<y>>
  <2>1. s \in Seq(S) /\ Len(s) = 2 /\ s[1] = x /\ s[2] = y
    BY <1>1
  <2> HIDE DEF s
  <2>2. Len(<<x, y>>) = 2 /\ \A i \in 1 .. 2 : s[i] = <<x, y>>[i]
    BY <2>1
  <2> QED
    BY <1>1, <2>1, <2>2, SeqEqual DEF s
<1> QED
  BY <1>1, <1>2, <1>3

\* The types of the messages tell them apart from what AppReset takes.
LEMMA NoneIsReset ==
    \A d, m : /\ Connected(d) # Reset /\ Left(d) # Reset /\ HostCame(d, m) # Reset
              /\ HostWent(d, m) # Reset /\ Asked(d, m) # Reset /\ NoWindows # Reset
BY DEF Connected, Left, HostCame, HostWent, Asked, NoWindows, Reset

\* And from a frame that waits.
LEMMA NoneIsLearn ==
    /\ \A d, m : /\ Connected(d).type \notin {"reset", "learn"} /\ Left(d).type \notin {"reset", "learn"}
                 /\ HostCame(d, m).type \notin {"reset", "learn"}
                 /\ HostWent(d, m).type \notin {"reset", "learn"}
                 /\ Asked(d, m).type \notin {"reset", "learn"}
    /\ NoWindows.type \notin {"reset", "learn"} /\ Reset.type = "reset"
    /\ \A f \in Frame : f.type = "learn" /\ f # Reset
BY DEF Connected, Left, HostCame, HostWent, Asked, NoWindows, Reset, Frame

\* With nothing left to put all is announced.
LEMMA IdleIsSettled ==
    ASSUME OrderInv, out = <<>>, status # "over"
    PROVE  datapaths = lc_datapaths /\ AgreeAll
BY Sequences DEF OrderInv, Settled, Connecting, Learning, Displacing, Going

\* A host that is no node is in no table, and not announced.
LEMMA NotAnnounced ==
    ASSUME PlacesInv, ToldSwitches, AgreeAll, NEW m \in Mac, m \notin net
    PROVE  lc_hosts[m] = NoEntry /\ \A c \in Dpid : m \notin HostsOf(c)
<1>1. \A c \in Dpid : m \notin HostsOf(c)
  BY DEF PlacesInv, HostsPlaced, NoHostsLeft
<1> QED
  BY <1>1 DEF AgreeAll, Agrees, ToldSwitches

\* Steps that leave these variables alone.
LEMMA OrderFrame ==
    ASSUME OrderInv, UNCHANGED orderVars,
           status = "over" => status' = "over",
           topo' # "idle" => out = <<>>
    PROVE  OrderInv'
<1>1. /\ Settled' <=> Settled
      /\ Connecting' <=> Connecting
      /\ Learning' <=> Learning
      /\ Displacing' <=> Displacing
      /\ Going' <=> Going
  BY DEF orderVars, Settled, Connecting, Learning, Learnt, Displacing, Going, AgreeAll, Agrees, HostsOf
<1> QED
  BY <1>1 DEF OrderInv, orderVars

-----------------------------------------------------------------------------
\* The handlers of the event loop, which begin with nothing left to put.

\* A switch comes.
LEMMA OrderSwitchFeatures ==
    ASSUME SenderInv, NEW d \in Dpid, SwitchFeatures(d)
    PROVE  OrderInv'
<1>1. /\ out' = <<Connected(d)>> /\ topo' = "idle"
      /\ datapaths' = datapaths \cup {d}
      /\ UNCHANGED <<status, mac_to_port, lc_datapaths, lc_hosts>>
  BY DEF SwitchFeatures, Idle, Silent, tellVars, topoVars, Connected
<1>2. CASE status # "over"
  <2>1. datapaths = lc_datapaths /\ AgreeAll
    BY <1>2, IdleIsSettled DEF SenderInv, SwitchFeatures, Idle
  <2>2. AgreeAll'
    BY <1>1, <2>1 DEF AgreeAll, Agrees, HostsOf
  <2>3. Connecting'
    BY <1>1, <2>1, <2>2 DEF Connecting, Connected
  <2> QED
    BY <1>1, <2>3 DEF OrderInv
<1> QED
  BY <1>1, <1>2 DEF OrderInv

\* A frame of a host that is not learnt.
LEMMA OrderPacketIn ==
    ASSUME SenderInv, NEW d \in Dpid, NEW p \in Port, NEW src \in Mac, NEW dst \in Mac \cup {Flood},
           PacketIn(d, p, src, dst)
    PROVE  OrderInv'
<1>1. /\ out' = Asks(d, dst, net) /\ topo' = "idle" /\ d \in connected
      /\ UNCHANGED <<status, datapaths, mac_to_port, lc_datapaths, lc_hosts>>
  BY DEF PacketIn, Idle, Silent, tellVars, topoVars, tableVars
<1>2. CASE status # "over"
  <2>1. datapaths = lc_datapaths /\ AgreeAll
    BY <1>2, IdleIsSettled DEF SenderInv, PacketIn, Idle
  <2>2. datapaths' = lc_datapaths' /\ AgreeAll' /\ d \in lc_datapaths'
    BY <1>1, <2>1 DEF AgreeAll, Agrees, HostsOf, SenderInv, PlacesInv, PlacesTypeOK
  <2>3. \/ out' = <<>>
        \/ dst \in Mac /\ lc_hosts'[dst] = NoEntry /\ out' = <<Asked(d, dst)>>
    <3>1. CASE out' = <<>>
      BY <3>1
    <3>2. CASE out' # <<>>
      <4>1. out' = <<Asked(d, dst)>> /\ dst \in Mac \ net
        BY <1>1, <3>2, AsksTypeOK DEF Asked
      <4>2. lc_hosts[dst] = NoEntry
        BY <2>1, <4>1, NotAnnounced DEF SenderInv
      <4> QED
        BY <1>1, <4>1, <4>2
    <3> QED
      BY <3>1, <3>2
  <2>4. Settled'
    BY <2>2, <2>3 DEF Settled, Asked
  <2> QED
    BY <1>1, <2>4 DEF OrderInv
<1> QED
  BY <1>1, <1>2 DEF OrderInv

\* A host is entered: it is still to be announced.
LEMMA OrderEnters ==
    ASSUME SenderInv, datapaths = lc_datapaths, AgreeAll,
           NEW d \in datapaths, NEW p \in Port, NEW src \in Mac, NEW dst \in Mac \cup {Flood},
           src \notin net, Enters(d, p, src, dst),
           UNCHANGED <<datapaths, lc_datapaths, lc_hosts>>
    PROVE  Learning'
<1>1. /\ mac_to_port' = [mac_to_port EXCEPT ![d][src] = p]
      /\ net' = net \cup {d, src}
      /\ out' = <<HostCame(d, src)>> \o Asks(d, dst, net')
  BY DEF Enters, HostCame
<1>2. d \in Dpid
  BY DEF SenderInv, PlacesInv, PlacesTypeOK
<1>3. lc_hosts[src] = NoEntry
  BY NotAnnounced DEF SenderInv
<1>4. src \in HostsOf(d)'
  BY <1>1, <1>2, Layer2SwitchAssumption DEF HostsOf, SenderInv, PlacesInv, PlacesTypeOK
<1>5. Learnt(d, src)'
  BY <1>3, <1>4 DEF Learnt
<1>6. \A m \in Mac \ {src}, c \in Dpid : m \in HostsOf(c)' <=> m \in HostsOf(c)
  BY <1>1, <1>2 DEF HostsOf, SenderInv, PlacesInv, PlacesTypeOK
<1>7. \A m \in Mac \ {src} : Agrees(m)'
  BY <1>6 DEF AgreeAll, Agrees
<1>8. \/ Asks(d, dst, net') = <<>>
      \/ Asks(d, dst, net') = <<Asked(d, dst)>> /\ dst \in Mac \ net'
  BY <1>2, AsksTypeOK DEF Asked
<1>9. \/ out' = <<HostCame(d, src)>>
      \/ out' = <<HostCame(d, src), Asked(d, dst)>> /\ dst \in Mac \ net'
  BY <1>1, <1>8, Concatenations
<1>10. dst \in Mac \ net' => dst \in Mac \ {src} /\ lc_hosts'[dst] = NoEntry
  <2> SUFFICES ASSUME dst \in Mac \ net'
               PROVE  dst \in Mac \ {src} /\ lc_hosts'[dst] = NoEntry
    OBVIOUS
  <2>1. dst \notin net /\ dst # src
    BY <1>1
  <2> QED
    BY <2>1, NotAnnounced DEF SenderInv
<1> QED
  BY <1>2, <1>5, <1>7, <1>9, <1>10 DEF Learning, HostCame, Asked

\* A host is learnt at a port of its own.
LEMMA OrderPacketInLearns ==
    ASSUME SenderInv, NEW d \in Dpid, NEW p \in Port, NEW src \in Mac, NEW dst \in (Mac \cup {Flood}) \ {src},
           PacketInLearns(d, p, src, dst), status # "over"
    PROVE  Learning'
<1>1. /\ out = <<>> /\ d \in connected /\ src \notin net
      /\ Enters(d, p, src, dst)
      /\ UNCHANGED <<datapaths, lc_datapaths, lc_hosts>>
  BY DEF PacketInLearns, Idle, Learns, Silent, tellVars
<1>2. datapaths = lc_datapaths /\ AgreeAll
  BY <1>1, IdleIsSettled DEF SenderInv
<1>3. d \in datapaths
  BY <1>1 DEF SenderInv, PlacesInv, PlacesTypeOK
<1> QED
  BY <1>1, <1>2, <1>3, OrderEnters

\* Another host makes way.
LEMMA OrderPacketInReplaces ==
    ASSUME SenderInv, NEW d \in Dpid, NEW p \in Port, NEW src \in Mac, NEW dst \in (Mac \cup {Flood}) \ {src},
           PacketInReplaces(d, p, src, dst), status # "over"
    PROVE  Displacing'
<1>1. /\ out = <<>> /\ d \in connected
      /\ UNCHANGED <<datapaths, lc_datapaths, lc_hosts>>
  BY DEF PacketInReplaces, Idle, Silent, tellVars
<1>2. datapaths = lc_datapaths /\ AgreeAll
  BY <1>1, IdleIsSettled DEF SenderInv
<1>3. PICK g \in Mac :
          /\ mac_to_port[d][g] = p
          /\ mac_to_port' = [mac_to_port EXCEPT ![d][g] = NoEntry]
          /\ out' = <<HostWent(d, g)>> \o <<Learn(d, p, src, dst)>>
  BY DEF PacketInReplaces, Displaced, HostLeaves, HostWent
<1>4. d \in lc_datapaths
  BY <1>1, <1>2 DEF SenderInv, PlacesInv, PlacesTypeOK
<1>5. g \in HostsOf(d)
  BY <1>3, Layer2SwitchAssumption DEF HostsOf
<1>6. lc_hosts'[g] = d
  BY <1>1, <1>2, <1>5 DEF AgreeAll, Agrees
<1>7. \A c \in Dpid : g \notin HostsOf(c)'
  <2>1. \A c \in Dpid \ {d} : g \notin HostsOf(c)
    BY <1>5 DEF SenderInv, PlacesInv, HostsPlaced
  <2>2. \A c \in Dpid \ {d} : HostsOf(c)' = HostsOf(c)
    BY <1>3 DEF HostsOf, SenderInv, PlacesInv, PlacesTypeOK
  <2>3. g \notin HostsOf(d)'
    BY <1>3 DEF HostsOf, SenderInv, PlacesInv, PlacesTypeOK
  <2> QED
    BY <2>1, <2>2, <2>3
<1>8. \A m \in Mac \ {g}, c \in Dpid : m \in HostsOf(c)' <=> m \in HostsOf(c)
  BY <1>3 DEF HostsOf, SenderInv, PlacesInv, PlacesTypeOK
<1>9. \A m \in Mac \ {g} : Agrees(m)'
  BY <1>1, <1>2, <1>8 DEF AgreeAll, Agrees
<1>10. Learn(d, p, src, dst) \in Frame
  BY DEF Learn, Frame
<1>11. out' = <<HostWent(d, g), Learn(d, p, src, dst)>>
  BY <1>3, Concatenations
<1> HIDE DEF Learn
<1> QED
  BY <1>1, <1>2, <1>4, <1>6, <1>7, <1>9, <1>10, <1>11 DEF Displacing, HostWent

\* A switch leaves.
LEMMA OrderSwitchLeave ==
    ASSUME SenderInv, NEW d \in Dpid, SwitchLeave(d)
    PROVE  OrderInv'
<1>1. /\ out = <<>> /\ topo = "idle" /\ d \in connected
      /\ UNCHANGED <<status, topo, lc_datapaths, lc_hosts>>
  BY DEF SwitchLeave, Idle, Silent, tellVars, topoVars
<1>2. CASE d \notin net
  BY <1>1, <1>2, OrderFrame DEF SenderInv, SwitchLeave, tableVars, orderVars
<1>3. CASE d \in net /\ status # "over"
  <2>1. /\ datapaths' = datapaths \ {d}
        /\ mac_to_port' = [mac_to_port EXCEPT ![d] = [m \in Mac |-> NoEntry]]
        /\ out' = <<Left(d), Reset>>
    BY <1>3 DEF SwitchLeave, Left
  <2>2. datapaths = lc_datapaths /\ AgreeAll
    BY <1>1, <1>3, IdleIsSettled DEF SenderInv
  <2>3. d \in lc_datapaths'
    BY <1>1, <2>2 DEF SenderInv, PlacesInv, PlacesTypeOK
  <2>4. HostsOf(d)' = {} /\ \A c \in Dpid \ {d} : HostsOf(c)' = HostsOf(c)
    BY <2>1 DEF HostsOf, SenderInv, PlacesInv, PlacesTypeOK
  <2>5. ASSUME NEW m \in Mac
        PROVE  IF lc_hosts'[m] = d THEN \A c \in Dpid : m \notin HostsOf(c)' ELSE Agrees(m)'
    BY <1>1, <2>2, <2>4 DEF AgreeAll, Agrees
  <2>6. Going'
    BY <1>1, <2>1, <2>2, <2>3, <2>5 DEF Going, Left
  <2> QED
    BY <1>1, <2>6 DEF OrderInv
<1> QED
  BY <1>1, <1>2, <1>3 DEF OrderInv

\* get_topology_data.
LEMMA OrderTopology ==
    ASSUME SenderInv, TopologySwitches \/ TopologyStep
    PROVE  OrderInv'
<1>1. out = <<>>
  BY DEF SenderInv, OrderInv, TopologySwitches, TopologyStep, TopologyRaises, TopologyWindows,
         TopologyLinks, Idle
<1>2. UNCHANGED <<status, datapaths, mac_to_port, lc_datapaths, lc_hosts>>
  BY DEF TopologySwitches, TopologyStep, TopologyRaises, TopologyWindows, TopologyLinks, tableVars,
         Silent, tellVars
<1>3. CASE TopologyLinks /\ status # "over"
  <2>1. out' = <<NoWindows>> /\ topo' = "idle"
    BY <1>3 DEF TopologyLinks, NoWindows
  <2>2. datapaths = lc_datapaths /\ AgreeAll
    BY <1>1, <1>3, IdleIsSettled DEF SenderInv
  <2>3. datapaths' = lc_datapaths' /\ AgreeAll'
    BY <1>2, <2>2 DEF AgreeAll, Agrees, HostsOf
  <2> QED
    BY <2>1, <2>3 DEF OrderInv, Settled, NoWindows
<1>4. CASE TopologyLinks /\ status = "over"
  BY <1>2, <1>4 DEF OrderInv, TopologyLinks
<1>5. CASE TopologySwitches \/ TopologyRaises \/ TopologyWindows
  <2>1. out' = out
    BY <1>5 DEF TopologySwitches, TopologyRaises, TopologyWindows
  <2> QED
    BY <1>1, <1>2, <2>1, OrderFrame DEF SenderInv, orderVars
<1> QED
  BY <1>3, <1>4, <1>5 DEF TopologyStep

-----------------------------------------------------------------------------
\* The puts of the event loop.

\* What is left after Reset is nothing.
LEMMA OrderAppReset ==
    ASSUME SenderInv, AppReset
    PROVE  OrderInv'
<1>1. /\ out # <<>> /\ Head(out) = Reset /\ out' = Tail(out)
      /\ UNCHANGED <<status, topo, datapaths, mac_to_port, lc_datapaths, lc_hosts>>
  BY DEF AppReset, Silent, tellVars, tableVars, topoVars
<1>2. topo = "idle"
  BY <1>1 DEF SenderInv, OrderInv
<1>3. CASE status # "over"
  <2>1. ~Connecting /\ ~Learning /\ ~Displacing /\ ~Going
    <3>1. ~Connecting
      BY <1>1, Sequences, NoneIsReset DEF Connecting
    <3>2. ~Learning
      BY <1>1, Sequences, NoneIsReset DEF Learning
    <3>3. ~Displacing
      BY <1>1, Sequences, NoneIsReset DEF Displacing
    <3>4. ~Going
      BY <1>1, Sequences, NoneIsReset DEF Going
    <3> QED
      BY <3>1, <3>2, <3>3, <3>4
  <2>2. Settled
    BY <1>3, <2>1 DEF SenderInv, OrderInv
  <2>3. out = <<Reset>>
    BY <1>1, <2>2, Sequences, NoneIsReset, NoneIsLearn DEF Settled
  <2>4. out' = <<>>
    BY <1>1, <2>3, Sequences
  <2>5. Settled'
    BY <1>1, <2>2, <2>4 DEF Settled, AgreeAll, Agrees, HostsOf
  <2> QED
    BY <1>1, <1>2, <2>5 DEF OrderInv
<1> QED
  BY <1>1, <1>2, <1>3 DEF OrderInv

\* A put of each kind of message keeps the order and is a step of LcSender.
LEMMA SettledPut ==
    ASSUME SenderInv, AppPut, status # "over", Settled
    PROVE  Settled' /\ Sender!Next
<1>1. /\ out # <<>> /\ Head(out).type \notin {"reset", "learn"}
      /\ Told(Head(out)) /\ out' = Tail(out)
      /\ UNCHANGED <<datapaths, mac_to_port>>
  BY DEF AppPut, Puts, tableVars
<1>2. out # <<Reset>> /\ \A f \in Frame : out # <<f>>
  BY <1>1, Sequences, NoneIsLearn
<1>3. CASE out = <<NoWindows>>
  <2>1. Head(out) = NoWindows /\ out' = <<>>
    BY <1>1, <1>3, Sequences
  <2>2. sent' = NoWindows /\ UNCHANGED <<lc_datapaths, lc_hosts>>
    BY <1>1, <2>1 DEF Told, NoWindows
  <2>3. Sender!Report
    BY <2>2 DEF Sender!Report, NoWindows
  <2>4. Settled'
    BY <1>1, <2>1, <2>2 DEF Settled, AgreeAll, Agrees, HostsOf
  <2> QED
    BY <2>3, <2>4 DEF Sender!Next
<1>4. ASSUME NEW d \in lc_datapaths, NEW m \in Mac, lc_hosts[m] = NoEntry, out = <<Asked(d, m)>>
      PROVE  Settled' /\ Sender!Next
  <2>1. Head(out) = Asked(d, m) /\ out' = <<>>
    BY <1>1, <1>4, Sequences
  <2>2. sent' = Asked(d, m) /\ UNCHANGED <<lc_datapaths, lc_hosts>>
    BY <1>1, <2>1 DEF Told, Asked
  <2>3. d \in Dpid
    BY DEF SenderInv, ToldSwitches
  <2>4. Sender!PacketIn(d, m)
    BY <1>4, <2>2 DEF Sender!PacketIn, Asked
  <2>5. Settled'
    BY <1>1, <2>1, <2>2 DEF Settled, AgreeAll, Agrees, HostsOf
  <2> QED
    BY <2>3, <2>4, <2>5 DEF Sender!Next
<1> QED
  BY <1>1, <1>2, <1>3, <1>4 DEF Settled

LEMMA ConnectingPut ==
    ASSUME SenderInv, AppPut, status # "over", Connecting
    PROVE  Settled' /\ Sender!Next
<1>1. Told(Head(out)) /\ out' = Tail(out) /\ UNCHANGED <<datapaths, mac_to_port>>
  BY DEF AppPut, Puts, tableVars
<1>2. PICK d \in Dpid : out = <<Connected(d)>> /\ datapaths = lc_datapaths \cup {d} /\ AgreeAll
  BY DEF Connecting
<1>3. Head(out) = Connected(d) /\ out' = <<>>
  BY <1>1, <1>2, Sequences
<1>4. sent' = Connected(d) /\ lc_datapaths' = lc_datapaths \cup {d} /\ UNCHANGED lc_hosts
  BY <1>1, <1>3 DEF Told, Connected
<1>5. Settled'
  BY <1>1, <1>2, <1>3, <1>4 DEF Settled, AgreeAll, Agrees, HostsOf
<1>6. Sender!DatapathConnected(d)
  BY <1>4 DEF Sender!DatapathConnected, Connected
<1> QED
  BY <1>5, <1>6 DEF Sender!Next

LEMMA LearningPut ==
    ASSUME SenderInv, AppPut, status # "over", Learning
    PROVE  Settled' /\ Sender!Next
<1>1. Told(Head(out)) /\ out' = Tail(out) /\ UNCHANGED <<datapaths, mac_to_port>>
  BY DEF AppPut, Puts, tableVars
<1>2. PICK d \in Dpid, src \in Mac :
          /\ Learnt(d, src)
          /\ \A m \in Mac \ {src} : Agrees(m)
          /\ \/ out = <<HostCame(d, src)>>
             \/ \E m \in Mac \ {src} :
                   lc_hosts[m] = NoEntry /\ out = <<HostCame(d, src), Asked(d, m)>>
  BY DEF Learning
<1>3. Head(out) = HostCame(d, src)
  BY <1>2, Sequences
<1>4. /\ sent' = HostCame(d, src)
      /\ lc_hosts' = [lc_hosts EXCEPT ![src] = d]
      /\ UNCHANGED lc_datapaths
  <2>1. HostCame(d, src).type = "HOST_CONNECTED" /\ HostCame(d, src).dpid = d /\ HostCame(d, src).mac = src
    BY DEF HostCame
  <2>2. Told(HostCame(d, src))
    BY <1>1, <1>3
  <2> QED
    BY <2>1, <2>2 DEF Told
<1>5. \A c \in Dpid : d = c <=> src \in HostsOf(c)
  BY <1>2 DEF Learnt, SenderInv, PlacesInv, HostsPlaced
<1>6. \A m \in Mac : lc_hosts'[m] = IF m = src THEN d ELSE lc_hosts[m]
  BY <1>4 DEF SenderInv, ToldSwitches
<1>7. AgreeAll'
  BY <1>1, <1>2, <1>5, <1>6 DEF AgreeAll, Agrees, HostsOf
<1>8. \/ out' = <<>>
      \/ \E m \in Mac : lc_hosts'[m] = NoEntry /\ out' = <<Asked(d, m)>>
  <2>1. CASE out = <<HostCame(d, src)>>
    BY <1>1, <2>1, Sequences
  <2>2. ASSUME NEW m \in Mac \ {src}, lc_hosts[m] = NoEntry, out = <<HostCame(d, src), Asked(d, m)>>
        PROVE  lc_hosts'[m] = NoEntry /\ out' = <<Asked(d, m)>>
    BY <1>1, <1>6, <2>2, Sequences
  <2> QED
    BY <1>2, <2>1, <2>2
<1>9. Settled'
  BY <1>1, <1>2, <1>4, <1>7, <1>8 DEF Settled, Learnt, Asked
<1>10. Sender!HostConnected(d, src)
  BY <1>2, <1>4 DEF Sender!HostConnected, HostCame, Learnt
<1> QED
  BY <1>9, <1>10 DEF Sender!Next

LEMMA DisplacingPut ==
    ASSUME SenderInv, AppPut, status # "over", Displacing
    PROVE  Settled' /\ Sender!Next
<1>1. Told(Head(out)) /\ out' = Tail(out) /\ UNCHANGED <<datapaths, mac_to_port>>
  BY DEF AppPut, Puts, tableVars
<1>2. PICK gone \in Mac, f \in Frame :
          /\ datapaths = lc_datapaths
          /\ lc_hosts[gone] \in lc_datapaths
          /\ \A c \in Dpid : gone \notin HostsOf(c)
          /\ \A m \in Mac \ {gone} : Agrees(m)
          /\ out = <<HostWent(lc_hosts[gone], gone), f>>
  BY DEF Displacing
<1>3. Head(out) = HostWent(lc_hosts[gone], gone) /\ out' = <<f>>
  BY <1>1, <1>2, Sequences
<1>4. /\ sent' = HostWent(lc_hosts[gone], gone)
      /\ lc_hosts' = [lc_hosts EXCEPT ![gone] = NoEntry]
      /\ UNCHANGED lc_datapaths
  <2>1. /\ HostWent(lc_hosts[gone], gone).type = "HOST_LEAVE"
        /\ HostWent(lc_hosts[gone], gone).mac = gone
    BY DEF HostWent
  <2>2. Told(HostWent(lc_hosts[gone], gone))
    BY <1>1, <1>3
  <2> QED
    BY <2>1, <2>2 DEF Told
<1>5. \A m \in Mac : lc_hosts'[m] = IF m = gone THEN NoEntry ELSE lc_hosts[m]
  BY <1>4 DEF SenderInv, ToldSwitches
<1>6. Agrees(gone)'
  BY <1>1, <1>2, <1>5, Layer2SwitchAssumption DEF Agrees, HostsOf
<1>7. AgreeAll'
  BY <1>1, <1>2, <1>5, <1>6 DEF AgreeAll, Agrees, HostsOf
<1>8. Settled'
  BY <1>1, <1>2, <1>3, <1>4, <1>7 DEF Settled
<1>9. Sender!HostLeave(lc_hosts[gone], gone)
  BY <1>4 DEF Sender!HostLeave, HostWent
<1>10. lc_hosts[gone] \in Dpid
  BY <1>2 DEF SenderInv, ToldSwitches
<1> QED
  BY <1>8, <1>9, <1>10 DEF Sender!Next

LEMMA GoingPut ==
    ASSUME SenderInv, AppPut, status # "over", Going
    PROVE  Settled' /\ Sender!Next
<1>1. Told(Head(out)) /\ out' = Tail(out) /\ UNCHANGED <<datapaths, mac_to_port>>
  BY DEF AppPut, Puts, tableVars
<1>2. PICK d \in lc_datapaths :
          /\ out = <<Left(d), Reset>>
          /\ datapaths = lc_datapaths \ {d}
          /\ \A m \in Mac : IF lc_hosts[m] = d THEN \A c \in Dpid : m \notin HostsOf(c) ELSE Agrees(m)
  BY DEF Going
<1>3. Head(out) = Left(d) /\ out' = <<Reset>>
  BY <1>1, <1>2, Sequences
<1>4. /\ sent' = Left(d)
      /\ lc_datapaths' = lc_datapaths \ {d}
      /\ lc_hosts' = [m \in Mac |-> IF lc_hosts[m] = d THEN NoEntry ELSE lc_hosts[m]]
  BY <1>1, <1>3 DEF Told, Left
<1>5. d \in Dpid
  BY DEF SenderInv, ToldSwitches
<1>6. ASSUME NEW m \in Mac
      PROVE  Agrees(m)'
  BY <1>1, <1>2, <1>4, Layer2SwitchAssumption DEF Agrees, HostsOf
<1>7. Settled'
  BY <1>1, <1>2, <1>3, <1>4, <1>6 DEF Settled, AgreeAll
<1>8. Sender!DatapathLeave(d)
  BY <1>4 DEF Sender!DatapathLeave, Left
<1> QED
  BY <1>5, <1>7, <1>8 DEF Sender!Next

LEMMA OrderAppPut ==
    ASSUME SenderInv, AppPut
    PROVE  OrderInv' /\ Sender!Next
<1>1. /\ out # <<>> /\ UNCHANGED <<status, topo>>
  BY DEF AppPut, topoVars
<1>2. topo' = "idle"
  BY <1>1 DEF SenderInv, OrderInv
<1>3. CASE status = "over"
  <2>1. Sender!Report
    BY <1>3 DEF AppPut, Puts, Silent, tellVars, Quiet, Sender!Report
  <2> QED
    BY <1>1, <1>2, <1>3, <2>1 DEF OrderInv, Sender!Next
<1>4. CASE status # "over"
  <2>1. Settled'
    BY <1>4, SettledPut, ConnectingPut, LearningPut, DisplacingPut, GoingPut DEF SenderInv, OrderInv
  <2>2. Sender!Next
    BY <1>4, SettledPut, ConnectingPut, LearningPut, DisplacingPut, GoingPut DEF SenderInv, OrderInv
  <2> QED
    BY <1>2, <2>1, <2>2 DEF OrderInv
<1> QED
  BY <1>3, <1>4

\* The frame that waited goes on.
LEMMA OrderAppEnters ==
    ASSUME SenderInv, AppEnters
    PROVE  OrderInv'
<1> DEFINE f == Head(out)
<1>1. /\ out # <<>> /\ f.type = "learn"
      /\ Enters(f.dpid, f.port, f.mac, f.dst)
      /\ UNCHANGED <<status, topo, datapaths, lc_datapaths, lc_hosts>>
  BY DEF AppEnters, Silent, tellVars, topoVars
<1>2. topo' = "idle"
  BY <1>1 DEF SenderInv, OrderInv
<1>3. CASE status # "over"
  <2>1. ~Connecting /\ ~Learning /\ ~Displacing /\ ~Going
    <3>1. ~Connecting
      BY <1>1, Sequences, NoneIsLearn DEF Connecting
    <3>2. ~Learning
      BY <1>1, Sequences, NoneIsLearn DEF Learning
    <3>3. ~Displacing
      BY <1>1, Sequences, NoneIsLearn DEF Displacing
    <3>4. ~Going
      BY <1>1, Sequences, NoneIsLearn DEF Going
    <3> QED
      BY <3>1, <3>2, <3>3, <3>4
  <2>2. datapaths = lc_datapaths /\ AgreeAll
    BY <1>3, <2>1 DEF SenderInv, OrderInv, Settled
  <2>3. f \in Frame
    BY <1>1 DEF SenderInv, TypeOK, Message, Reset
  <2>4. f.port \in Port /\ f.mac \in Mac /\ f.dst \in Mac \cup {Flood}
    BY <2>3 DEF Frame
  <2>5. 1 \in 1 .. Len(out) /\ f = out[1]
    BY <1>1 DEF SenderInv, TypeOK
  <2>6. f.dpid \in datapaths /\ f.mac \notin net
    BY <1>1, <2>5 DEF SenderInv, PlacesInv, FramesWait
  <2> HIDE DEF f
  <2>7. Learning'
    BY <1>1, <2>2, <2>4, <2>6, OrderEnters
  <2> QED
    BY <1>2, <2>7 DEF OrderInv
<1> QED
  BY <1>1, <1>2, <1>3 DEF OrderInv

-----------------------------------------------------------------------------
\* All steps.

\* The other greenlets put messages that LcSender always allows.
LEMMA ReportPut ==
    ASSUME NEW msg, msg.type \in {"HELLO_UP", "LOAD_REPORT", "GRAPH_INFO"}, Puts(msg)
    PROVE  Sender!Report /\ UNCHANGED <<lc_datapaths, lc_hosts>>
BY DEF Puts, Silent, Told, tellVars, Quiet, Sender!Report

\* And a step without a message is none of LcSender's.
LEMMA SilentReport ==
    ASSUME Silent
    PROVE  Sender!Report /\ UNCHANGED <<lc_datapaths, lc_hosts>>
BY DEF Silent, tellVars, Quiet, Sender!Report

\* Handlers of switches' events.
LEMMA SwitchStepOrder ==
    ASSUME SenderInv, NEW d \in Dpid, SwitchStep(d)
    PROVE  OrderInv' /\ Sender!Report
<1>1. Sender!Report
  BY SilentReport
     DEF SwitchStep, SwitchFeatures, SwitchLeave, Lldp, PacketIn, PacketInLearns, PacketInReplaces
<1>2. CASE \E p \in Port : Lldp(d, p)
  <2>1. UNCHANGED <<orderVars, status, topo>>
    BY <1>2 DEF Lldp, orderVars, Silent, tellVars, topoVars
  <2> QED
    BY <1>1, <2>1, OrderFrame DEF SenderInv, OrderInv
<1>3. ASSUME NEW p \in Port, NEW src \in Mac, NEW dst \in (Mac \cup {Flood}) \ {src},
             \/ PacketIn(d, p, src, dst) \/ PacketInLearns(d, p, src, dst)
             \/ PacketInReplaces(d, p, src, dst)
      PROVE  OrderInv'
  <2>1. CASE PacketIn(d, p, src, dst)
    BY <2>1, OrderPacketIn
  <2>2. CASE PacketInLearns(d, p, src, dst)
    <3>1. topo' = "idle" /\ status' = status
      BY <2>2 DEF PacketInLearns, Idle, topoVars
    <3> QED
      BY <2>2, <3>1, OrderPacketInLearns DEF OrderInv
  <2>3. CASE PacketInReplaces(d, p, src, dst)
    <3>1. topo' = "idle" /\ status' = status
      BY <2>3 DEF PacketInReplaces, Idle, topoVars
    <3> QED
      BY <2>3, <3>1, OrderPacketInReplaces DEF OrderInv
  <2> QED
    BY <1>3, <2>1, <2>2, <2>3
<1> QED
  BY <1>1, <1>2, <1>3, OrderSwitchFeatures, OrderSwitchLeave DEF SwitchStep

\* The other greenlets and the connection.
LEMMA OtherStepOrder ==
    ASSUME SenderInv,
           \/ \E d \in WindowDpid : WindowChanges(d)
           \/ LoadWake \/ (\E d \in Dpid : LoadPut(d)) \/ GraphStep
           \/ Connect \/ HelloPut \/ Ends
           \/ \E d \in Dpid : RoleAssign(d)
           \/ \E in \in Dpid, o \in WindowDpid : FlowMod(in, o)
    PROVE  OrderInv' /\ Sender!Report
<1>1. Sender!Report /\ UNCHANGED <<lc_datapaths, lc_hosts>>
  <2>1. CASE HelloPut
    BY <2>1, ReportPut DEF HelloPut
  <2>2. ASSUME NEW d \in Dpid, LoadPut(d)
        PROVE  Sender!Report /\ UNCHANGED <<lc_datapaths, lc_hosts>>
    BY <2>2, ReportPut DEF LoadPut
  <2>3. CASE GraphPut
    BY <2>3, ReportPut DEF GraphPut
  <2>4. CASE \/ \E d \in WindowDpid : WindowChanges(d)
             \/ LoadWake \/ GraphRead \/ GraphCompare \/ GraphDone
             \/ Connect \/ Ends
             \/ \E d \in Dpid : RoleAssign(d)
             \/ \E in \in Dpid, o \in WindowDpid : FlowMod(in, o)
    BY <2>4, SilentReport
       DEF WindowChanges, LoadWake, GraphRead, GraphCompare, GraphDone, Connect, Ends, RoleAssign,
           FlowMod, Receives
  <2> QED
    BY <2>1, <2>2, <2>3, <2>4 DEF GraphStep
<1>2. /\ UNCHANGED <<datapaths, mac_to_port, out, topo>>
      /\ status = "over" => status' = "over"
  BY DEF WindowChanges, LoadWake, LoadPut, GraphStep, GraphRead, GraphCompare, GraphPut, GraphDone,
         Connect, HelloPut, Ends, RoleAssign, FlowMod, Receives, Live, tableVars, topoVars
<1> QED
  BY <1>1, <1>2, OrderFrame DEF SenderInv, OrderInv, orderVars

\* One step keeps the order, and is one of LcSender or stutters.
LEMMA NextOrder ==
    ASSUME SenderInv, [Next]_vars
    PROVE  OrderInv' /\ [Sender!Next]_<<lc_datapaths, lc_hosts, sent>>
<1>1. ASSUME NEW d \in Dpid, SwitchStep(d)
      PROVE  OrderInv' /\ Sender!Next
  BY <1>1, SwitchStepOrder DEF Sender!Next
<1>2. CASE TopologySwitches \/ TopologyStep
  <2>1. Sender!Report
    BY <1>2, SilentReport
       DEF TopologySwitches, TopologyStep, TopologyRaises, TopologyWindows, TopologyLinks
  <2> QED
    BY <1>2, <2>1, OrderTopology DEF Sender!Next
<1>3. CASE AppPut
  BY <1>3, OrderAppPut
<1>4. CASE AppReset
  <2>1. Sender!Report
    BY <1>4, SilentReport DEF AppReset
  <2> QED
    BY <1>4, <2>1, OrderAppReset DEF Sender!Next
<1>7. CASE AppEnters
  <2>1. Sender!Report
    BY <1>7, SilentReport DEF AppEnters
  <2> QED
    BY <1>7, <2>1, OrderAppEnters DEF Sender!Next
<1>5. CASE \/ \E d \in WindowDpid : WindowChanges(d)
           \/ LoadWake \/ (\E d \in Dpid : LoadPut(d)) \/ GraphStep
           \/ Connect \/ HelloPut \/ Ends
           \/ \E d \in Dpid : RoleAssign(d)
           \/ \E in \in Dpid, o \in WindowDpid : FlowMod(in, o)
  BY <1>5, OtherStepOrder DEF Sender!Next
<1>6. CASE UNCHANGED vars
  <2>1. UNCHANGED <<orderVars, status, topo, sent>>
    BY <1>6 DEF vars, orderVars, tableVars, topoVars, tellVars
  <2> QED
    BY <2>1, OrderFrame DEF SenderInv, OrderInv, orderVars
<1> QED
  BY <1>1, <1>2, <1>3, <1>4, <1>5, <1>6, <1>7 DEF Next

\* At the start nothing is there and nothing announced.
LEMMA OrderInit == Init => OrderInv /\ Sender!Init
<1> SUFFICES ASSUME Init
             PROVE  OrderInv /\ Sender!Init
  OBVIOUS
<1>1. \A d \in Dpid : HostsOf(d) = {}
  BY DEF Init, HostsOf
<1>2. AgreeAll
  BY <1>1, Layer2SwitchAssumption DEF Init, AgreeAll, Agrees
<1>3. Settled
  BY <1>2 DEF Init, Settled
<1>4. Sender!Init
  BY DEF Init, Sender!Init, Quiet, Sender!Quiet
<1> QED
  BY <1>3, <1>4 DEF Init, OrderInv

\* Wherever greenlets are held up and whatever switches and hosts do, a local
\* controller announces a switch before its hosts, a host only while it is not
\* announced elsewhere, and asks only for hosts it has not announced.
THEOREM SendsInOrderCorrect == Spec => SendsInOrder
<1>1. TypeOK => ToldSwitches
  BY DEF TypeOK, ToldSwitches
<1>2. Init => PlacesInv /\ OrderInv /\ Sender!Init
  BY PlacesInit, OrderInit
<1>3. TypeOK /\ PlacesInv /\ ToldSwitches /\ OrderInv /\ [Next]_vars
        => PlacesInv' /\ OrderInv' /\ [Sender!Next]_<<lc_datapaths, lc_hosts, sent>>
  BY PlacesNext, NextOrder DEF SenderInv
<1> QED
  BY <1>1, <1>2, <1>3, TypeCorrect, PTL DEF Spec, SendsInOrder, Sender!Spec
=============================================================================
