-------------------------- MODULE AppManagerProofs --------------------------
(***************************************************************************)
(* Proofs about AppManager, for every number of sessions, switches, hosts, *)
(* addresses and ids.                                                      *)
(***************************************************************************)
EXTENDS AppManager, FiniteSetTheorems, TLAPS

\* The id NextLcId hands out next stays in 1 .. MaxLcId: the wrap at
\* MAX_LC_ID (app_manager.py:99) is not one too late.
LEMMA NextLcIdInRange == \A i \in LcId : NextLcId(i) \in LcId
BY ConstantsAssumption DEF LcId, NextLcId

\* A handler that may raise leaves every session with a status.
LEMMA RaiseIfType ==
    ASSUME status \in [Session -> Status], NEW s \in Session, NEW raised, RaiseIf(raised, s)
    PROVE  status' \in [Session -> Status]
BY DEF RaiseIf, Status

\* The handler of a PACKET_IN, at whichever hop, changes nothing but its route,
\* what is sent and its own session.
HopOf(s) == \E r : Hop(s, r)

LEMMA HopSteps ==
    ASSUME NEW s \in Session,
           NextHop(s) \/ \E d \in Dpid, src, dst \in Mac : PacketIn(s, d, src, dst)
    PROVE  HopOf(s)
BY DEF NextHop, PacketIn, HopOf

\* AppManager.__init__ sets up typed, empty tables.
LEMMA InitTypeOK == Init => TablesTypeOK
BY ConstantsAssumption
   DEF Init, TablesTypeOK, SessionsTypeOK, IdsTypeOK, DatapathsTypeOK, HostsTypeOK, SendersTypeOK,
       Status, LcId, None

\* Opening, losing and greeting a session keep every table typed.
LEMMA SessionStepTypeOK ==
    ASSUME TablesTypeOK, NEW s \in Session, SessionStep(s)
    PROVE  TablesTypeOK'
<1> USE DEF TablesTypeOK, SessionsTypeOK, IdsTypeOK, DatapathsTypeOK, HostsTypeOK, SendersTypeOK,
            idVars, dpVars, senderVars
<1>1. CASE Connect(s)
  BY <1>1 DEF Connect, Status
<1>2. CASE Drop(s)
  BY <1>2 DEF Drop, Status
<1>3. CASE HelloUp(s)
  <2>1. AddressOf[s] \in Address
    BY ConstantsAssumption
  <2> DEFINE i == IF lcip_to_lcid[AddressOf[s]] = None THEN glcid ELSE lcip_to_lcid[AddressOf[s]]
  <2>2. i \in LcId
    BY <2>1 DEF LcId, None
  <2>3. glcid' \in LcId
    BY <1>3, NextLcIdInRange DEF HelloUp
  <2>4. IdsTypeOK'
    BY <1>3, <2>1, <2>2, <2>3 DEF HelloUp, LcId
  <2>5. SessionsTypeOK'
    BY <1>3, <2>2 DEF HelloUp, LcId
  <2> QED
    BY <1>3, <2>4, <2>5 DEF HelloUp
<1> QED
  BY <1>1, <1>2, <1>3 DEF SessionStep

\* The handlers for switches keep every table typed, raised or not.
LEMMA DatapathStepTypeOK ==
    ASSUME TablesTypeOK, NEW s \in Session, NEW d \in Dpid, DatapathStep(s, d)
    PROVE  TablesTypeOK'
<1> USE DEF TablesTypeOK, SessionsTypeOK, IdsTypeOK, DatapathsTypeOK, HostsTypeOK, SendersTypeOK,
            idVars, dpVars, senderVars
<1>1. CASE DatapathConnected(s, d)
  <2>1. status' \in [Session -> Status]
    BY <1>1, RaiseIfType DEF DatapathConnected
  <2>2. DatapathsTypeOK' /\ HostsTypeOK'
    BY <1>1 DEF DatapathConnected, Forget, Sweeps
  <2>3. SessionsTypeOK' /\ IdsTypeOK'
    BY <1>1, <2>1 DEF DatapathConnected
  <2>4. SendersTypeOK'
    BY <1>1 DEF DatapathConnected, AnnounceDatapath
  <2> QED
    BY <2>2, <2>3, <2>4
<1>2. CASE DatapathConnectedRaises(s, d)
  <2>1. status' \in [Session -> Status]
    BY <1>2, RaiseIfType DEF DatapathConnectedRaises
  <2>2. DatapathsTypeOK' /\ HostsTypeOK'
    BY <1>2 DEF DatapathConnectedRaises, Forget, BrokenSweeps
  <2>3. SendersTypeOK'
    BY <1>2 DEF DatapathConnectedRaises, AnnounceDatapath
  <2> QED
    BY <1>2, <2>1, <2>2, <2>3 DEF DatapathConnectedRaises
<1>3. CASE DatapathLeave(s, d)
  <2>1. status' \in [Session -> Status]
    BY <1>3, RaiseIfType DEF DatapathLeave
  <2>2. PICK R \in Sweeps(d) :
           /\ host_to_lcid' = [m \in Mac |-> IF m \in R THEN NoEntry ELSE host_to_lcid[m]]
           /\ mac' = [mac EXCEPT ![d] = IF LastController(d) THEN {} ELSE @ \ R]
    BY <1>3 DEF DatapathLeave
  <2>3. HostsTypeOK' /\ mac' \in [Dpid -> SUBSET Mac]
    BY <2>2
  <2>4. DatapathsTypeOK'
    BY <1>3, <2>3 DEF DatapathLeave
  <2>5. SessionsTypeOK' /\ IdsTypeOK'
    BY <1>3, <2>1 DEF DatapathLeave
  <2>6. SendersTypeOK'
    BY <1>3 DEF DatapathLeave, AnnounceLeave
  <2> QED
    BY <2>3, <2>4, <2>5, <2>6
<1>4. CASE DatapathLeaveRaises(s, d)
  <2>1. status' \in [Session -> Status]
    BY <1>4, RaiseIfType DEF DatapathLeaveRaises
  <2>2. DatapathsTypeOK' /\ HostsTypeOK'
    BY <1>4 DEF DatapathLeaveRaises, Forget, BrokenSweeps
  <2>3. SendersTypeOK'
    BY <1>4 DEF DatapathLeaveRaises, AnnounceLeave
  <2> QED
    BY <1>4, <2>1, <2>2, <2>3 DEF DatapathLeaveRaises
<1>5. CASE LoadReport(s, d)
  <2>1. status' \in [Session -> Status]
    BY <1>5, RaiseIfType DEF LoadReport
  <2> QED
    BY <1>5, <2>1 DEF LoadReport
<1> QED
  BY <1>1, <1>2, <1>3, <1>4, <1>5 DEF DatapathStep

\* So do the handlers for hosts.
LEMMA HostStepTypeOK ==
    ASSUME TablesTypeOK, NEW s \in Session, NEW d \in Dpid, NEW m \in Mac, HostStep(s, d, m)
    PROVE  TablesTypeOK'
<1> USE DEF TablesTypeOK, SessionsTypeOK, IdsTypeOK, DatapathsTypeOK, HostsTypeOK, SendersTypeOK,
            idVars, dpVars, senderVars
<1>1. CASE HostConnected(s, d, m)
  <2>1. status' \in [Session -> Status]
    BY <1>1, RaiseIfType DEF HostConnected
  <2> DEFINE old == IF m \in KnownHosts THEN Behind(m) ELSE {}
             cleared(o) == IF old = {} THEN mac ELSE [mac EXCEPT ![o] = @ \ {m}]
  <2>2. PICK o : mac' = IF d \in datapath_list
                        THEN [cleared(o) EXCEPT ![d] = @ \cup {m}] ELSE cleared(o)
    BY <1>1 DEF HostConnected
  <2>3. cleared(o) \in [Dpid -> SUBSET Mac]
    OBVIOUS
  <2>4. mac' \in [Dpid -> SUBSET Mac]
    <3> HIDE DEF cleared
    <3> QED BY <2>2, <2>3
  <2>5. SendersTypeOK'
    BY <1>1 DEF HostConnected, AnnounceHost
  <2> QED
    BY <1>1, <2>1, <2>4, <2>5 DEF HostConnected
<1>2. CASE HostLeave(s, d, m)
  <2>1. status' \in [Session -> Status]
    BY <1>2, RaiseIfType DEF HostLeave
  <2>2. mac' \in [Dpid -> SUBSET Mac]
    BY <1>2 DEF HostLeave, Unlisted
  <2>3. SendersTypeOK'
    BY <1>2 DEF HostLeave, AnnounceHostLeave
  <2> QED
    BY <1>2, <2>1, <2>2, <2>3 DEF HostLeave
<1> QED
  BY <1>1, <1>2 DEF HostStep

\* GRAPH_INFO and PACKET_IN change only the graph and the status.
LEMMA GraphStepTypeOK ==
    ASSUME TablesTypeOK, NEW s \in Session,
           (\E ws \in WindowLists : GraphInfo(s, ws)) \/ HopOf(s)
    PROVE  TablesTypeOK'
<1>1. status' \in [Session -> Status]
  BY RaiseIfType DEF GraphInfo, HopOf, Hop, TablesTypeOK, SessionsTypeOK
<1> QED
  BY <1>1 DEF GraphInfo, HopOf, Hop, TablesTypeOK, SessionsTypeOK, IdsTypeOK, DatapathsTypeOK,
      HostsTypeOK, SendersTypeOK, idVars, dpVars, senderVars

\* No message and no end of a connection breaks the types.
LEMMA NextTypeOK == TablesTypeOK /\ [Next]_vars => TablesTypeOK'
<1> SUFFICES ASSUME TablesTypeOK, [Next]_vars
             PROVE  TablesTypeOK'
  OBVIOUS
<1>1. CASE Next
  BY <1>1, SessionStepTypeOK, DatapathStepTypeOK, HostStepTypeOK, GraphStepTypeOK, HopSteps DEF Next
<1>2. CASE UNCHANGED vars
  BY <1>2 DEF vars, sessionVars, TablesTypeOK, SessionsTypeOK, IdsTypeOK, DatapathsTypeOK,
      HostsTypeOK, SendersTypeOK, idVars, dpVars, senderVars
<1> QED
  BY <1>1, <1>2

\* The tables are typed whatever the local controllers send.
LEMMA TablesCorrect == Spec => []TablesTypeOK
BY InitTypeOK, NextTypeOK, PTL DEF Spec

-----------------------------------------------------------------------------
\* The registry: who controls which switch.

\* A step that keeps the switches' registration, the recorded roles and what
\* the senders announced keeps the membership part of RegistryInv.
LEMMA MembershipFrame ==
    ASSUME MembershipOK, SessionsAgree, MembersFinite,
           UNCHANGED <<datapath_list, lc_connected, dpid_to_role, lc_datapaths>>,
           \A t \in Session : dpid_to_load[t] \subseteq dpid_to_load'[t],
           \A t \in Session : status'[t] \in {"idle", "active"} => status[t] \in {"idle", "active"}
    PROVE  MembershipOK' /\ SessionsAgree' /\ MembersFinite'
BY DEF MembershipOK, SessionsAgree, MembersFinite

\* Ids are never taken back.
LEMMA NodesGrow ==
    ASSUME \A i \in LcId : local_ctrl_list[i] # NoEntry => local_ctrl_list'[i] # NoEntry
    PROVE  Nodes \subseteq Nodes'
BY DEF Nodes

\* A step that hands out no id and announces no switch keeps IdsAllocated.
LEMMA IdsFrame ==
    ASSUME IdsAllocated, UNCHANGED <<id, local_ctrl_list>>,
           \A t \in Session : lc_datapaths'[t] \subseteq lc_datapaths[t],
           \A t \in Session : status'[t] = "idle" => status[t] = "idle",
           \A t \in Session : status'[t] = "active" /\ lc_datapaths'[t] # {} =>
               status[t] = "active" \/ status[t] = "idle"
    PROVE  IdsAllocated'
BY DEF IdsAllocated, Active, Nodes

\* A step that only forgets hosts keeps HostIdsAllocated.
LEMMA HostIdsFrame ==
    ASSUME HostIdsAllocated, UNCHANGED local_ctrl_list,
           \A m \in Mac : host_to_lcid'[m] \in {host_to_lcid[m], NoEntry}
    PROVE  HostIdsAllocated'
BY DEF HostIdsAllocated, KnownHosts, Nodes

\* A raise ends the session; no session begins by it.
LEMMA RaiseIfEnds ==
    ASSUME status \in [Session -> Status], NEW s \in Session, NEW raised \in BOOLEAN,
           RaiseIf(raised, s)
    PROVE  /\ \A t \in Session : status'[t] \in {"idle", "active"} => status'[t] = status[t]
           /\ raised => status'[s] = "crashed"
BY DEF RaiseIf

\* The empty registry is consistent.
LEMMA InitRegistryInv == Init => RegistryInv
<1> SUFFICES ASSUME Init
             PROVE  RegistryInv
  OBVIOUS
<1>1. TablesTypeOK
  BY InitTypeOK
<1>2. MembersFinite
  BY FS_EmptySet DEF Init, MembersFinite
<1>3. HostIdsAllocated
  BY DEF Init, HostIdsAllocated, KnownHosts
<1> QED
  BY <1>1, <1>2, <1>3
     DEF Init, RegistryInv, MembershipOK, SessionsAgree, IdsAllocated, Active, None

\* A connection that opens, ends or is greeted leaves the switches as they are;
\* a greeting gives the session an id that is a node of the graph.
LEMMA SessionStepRegistryInv ==
    ASSUME RegistryInv, NEW s \in Session, SessionStep(s)
    PROVE  RegistryInv'
<1> USE DEF RegistryInv
<1>1. TablesTypeOK'
  BY SessionStepTypeOK
<1>2. CASE Connect(s) \/ Drop(s)
  <2>1. UNCHANGED <<datapath_list, lc_connected, dpid_to_role, dpid_to_load, lc_datapaths,
                    id, local_ctrl_list, host_to_lcid>>
    BY <1>2 DEF Connect, Drop, idVars, dpVars, senderVars
  <2>2. \A t \in Session : status'[t] \in {"idle", "active"} => status[t] \in {"idle", "active"}
    BY <1>2 DEF Connect, Drop, Active, TablesTypeOK, SessionsTypeOK
  <2>3. \A t \in Session : status'[t] = "idle" => status[t] = "idle"
    BY <1>2 DEF Connect, Drop, Active, TablesTypeOK, SessionsTypeOK
  <2>4. MembershipOK' /\ SessionsAgree' /\ MembersFinite'
    BY <2>1, <2>2, MembershipFrame
  <2>5. IdsAllocated'
    BY <2>1, <2>2, <2>3, IdsFrame
  <2>6. HostIdsAllocated'
    BY <2>1, HostIdsFrame
  <2> QED
    BY <1>1, <2>4, <2>5, <2>6
<1>3. CASE HelloUp(s)
  <2> DEFINE i == IF lcip_to_lcid[AddressOf[s]] = None THEN glcid ELSE lcip_to_lcid[AddressOf[s]]
  <2>1. AddressOf[s] \in Address
    BY ConstantsAssumption
  <2>2. i \in LcId
    BY <2>1 DEF LcId, None, TablesTypeOK, IdsTypeOK
  <2>3. /\ id' = [id EXCEPT ![s] = i]
        /\ local_ctrl_list' = [local_ctrl_list EXCEPT ![i] = s]
        /\ UNCHANGED <<status, dpid_to_role, dpid_to_load, datapath_list, lc_connected,
                       host_to_lcid, lc_datapaths>>
    BY <1>3 DEF HelloUp, dpVars, senderVars
  <2> HIDE DEF i
  <2>4. local_ctrl_list'[i] = s /\ s # NoEntry
    BY <2>2, <2>3, NoEntryAssumption DEF TablesTypeOK, IdsTypeOK
  <2>5. Nodes \subseteq Nodes' /\ i \in Nodes'
    <3>1. i \in Nodes'
      BY <2>2, <2>4 DEF Nodes
    <3>2. \A j \in LcId : local_ctrl_list[j] # NoEntry => local_ctrl_list'[j] # NoEntry
      BY <2>3, <2>4 DEF TablesTypeOK, IdsTypeOK
    <3> QED
      BY <3>1, <3>2, NodesGrow
  <2>6. MembershipOK' /\ SessionsAgree' /\ MembersFinite'
    BY <2>3, MembershipFrame
  <2>7. IdsAllocated'
    BY <2>2, <2>3, <2>5 DEF IdsAllocated, Active, None, LcId, TablesTypeOK, SessionsTypeOK
  <2>8. HostIdsAllocated'
    BY <2>3, <2>5 DEF HostIdsAllocated, KnownHosts
  <2> QED
    BY <1>1, <2>6, <2>7, <2>8
<1> QED
  BY <1>2, <1>3 DEF SessionStep

\* DATAPATH_CONNECTED writes all the records of a switch, also when the session
\* dies of it for want of an id.
LEMMA DatapathConnectedRegistryInv ==
    ASSUME RegistryInv, NEW s \in Session, NEW d \in Dpid, DatapathConnected(s, d)
    PROVE  RegistryInv'
<1> USE DEF RegistryInv
<1>1. TablesTypeOK'
  BY DatapathStepTypeOK DEF DatapathStep
<1>2. /\ Active(s)
      /\ datapath_list' = datapath_list \cup {d}
      /\ lc_connected' = [lc_connected EXCEPT ![d] = @ \cup {s}]
      /\ dpid_to_role' = [dpid_to_role EXCEPT ![s] = @ \cup {d}]
      /\ dpid_to_load' = [dpid_to_load EXCEPT ![s] = @ \cup {d}]
      /\ lc_datapaths' = [lc_datapaths EXCEPT ![s] = @ \cup {d}]
      /\ UNCHANGED <<id, local_ctrl_list>>
      /\ RaiseIf(LacksId(s), s)
  BY DEF DatapathConnected, AnnounceDatapath, Receives, idVars
<1>3. /\ \A t \in Session : status'[t] \in {"idle", "active"} => status'[t] = status[t]
      /\ id[s] = None => status'[s] = "crashed"
  BY <1>2, RaiseIfEnds DEF LacksId, TablesTypeOK, SessionsTypeOK
<1>4. MembershipOK'
  BY <1>2 DEF MembershipOK, TablesTypeOK, SessionsTypeOK, DatapathsTypeOK
<1>5. SessionsAgree'
  BY <1>2, <1>3 DEF SessionsAgree, TablesTypeOK, SessionsTypeOK, SendersTypeOK
<1>6. MembersFinite'
  BY <1>2, FS_AddElement DEF MembersFinite, TablesTypeOK, DatapathsTypeOK
<1>7. IdsAllocated'
  <2>1. Nodes' = Nodes
    BY <1>2 DEF Nodes
  <2>2. status'[s] # "idle"
    BY <1>2, <1>3 DEF Active
  <2> QED
    BY <1>2, <1>3, <2>1, <2>2
       DEF IdsAllocated, Active, TablesTypeOK, SessionsTypeOK, SendersTypeOK
<1>8. HostIdsAllocated'
  <2>1. \A m \in Mac : host_to_lcid'[m] \in {host_to_lcid[m], NoEntry}
    BY DEF DatapathConnected, Forget
  <2> QED
    BY <1>2, <2>1, HostIdsFrame
<1> QED
  BY <1>1, <1>4, <1>5, <1>6, <1>7, <1>8

\* A raise leaves the sender behind what it announced, but ends it with that.
LEMMA RaisesRegistryInv ==
    ASSUME RegistryInv, NEW s \in Session, NEW d \in Dpid,
           DatapathConnectedRaises(s, d) \/ DatapathLeaveRaises(s, d)
    PROVE  RegistryInv'
<1> USE DEF RegistryInv
<1>1. TablesTypeOK'
  BY DatapathStepTypeOK DEF DatapathStep
<1>2. /\ Active(s)
      /\ UNCHANGED <<datapath_list, lc_connected, dpid_to_role, dpid_to_load, id, local_ctrl_list>>
      /\ RaiseIf(TRUE, s)
      /\ \A t \in Session : t # s => lc_datapaths'[t] = lc_datapaths[t]
  BY DEF DatapathConnectedRaises, DatapathLeaveRaises, AnnounceDatapath, AnnounceLeave,
         Receives, idVars, TablesTypeOK, SendersTypeOK
<1>3. /\ \A t \in Session : status'[t] \in {"idle", "active"} => status'[t] = status[t]
      /\ status'[s] = "crashed"
  BY <1>2, RaiseIfEnds DEF TablesTypeOK, SessionsTypeOK
<1>4. MembershipOK' /\ SessionsAgree' /\ MembersFinite'
  BY <1>2, <1>3 DEF MembershipOK, SessionsAgree, MembersFinite
<1>5. IdsAllocated'
  <2>1. Nodes' = Nodes
    BY <1>2 DEF Nodes
  <2> QED
    BY <1>2, <1>3, <2>1 DEF IdsAllocated, Active
<1>6. HostIdsAllocated'
  <2>1. \A m \in Mac : host_to_lcid'[m] \in {host_to_lcid[m], NoEntry}
    BY DEF DatapathConnectedRaises, DatapathLeaveRaises, Forget
  <2> QED
    BY <1>2, <2>1, HostIdsFrame
<1> QED
  BY <1>1, <1>4, <1>5, <1>6

\* The heart of it: counting lc_connected tells the last controller, because
\* the one that leaves is counted; and no entry it deletes is missing.
LEMMA DatapathLeaveRegistryInv ==
    ASSUME RegistryInv, NEW s \in Session, NEW d \in Dpid, DatapathLeave(s, d)
    PROVE  RegistryInv'
<1> USE DEF RegistryInv
<1>1. TablesTypeOK'
  BY DatapathStepTypeOK DEF DatapathStep
<1>2. Active(s) /\ d \in lc_datapaths[s]
  BY DEF DatapathLeave, AnnounceLeave, Receives
<1>3. /\ d \in dpid_to_role[s] /\ d \in dpid_to_load[s]
      /\ s \in lc_connected[d]
  BY <1>2 DEF SessionsAgree, MembershipOK, Active
<1>4. LastController(d) <=> lc_connected[d] = {s}
  <2>1. IsFiniteSet(lc_connected[d])
    BY DEF MembersFinite
  <2>2. ASSUME LastController(d) PROVE lc_connected[d] = {s}
    BY <1>3, <2>1, <2>2, FS_Singleton DEF LastController
  <2>3. ASSUME lc_connected[d] = {s} PROVE LastController(d)
    BY <2>3, FS_Singleton DEF LastController
  <2> QED
    BY <2>2, <2>3
<1>5. /\ lc_connected' = [lc_connected EXCEPT ![d] = @ \ {s}]
      /\ datapath_list' = IF lc_connected[d] = {s} THEN datapath_list \ {d} ELSE datapath_list
      /\ dpid_to_role' = [dpid_to_role EXCEPT ![s] = @ \ {d}]
      /\ dpid_to_load' = [dpid_to_load EXCEPT ![s] = @ \ {d}]
      /\ lc_datapaths' = [lc_datapaths EXCEPT ![s] = @ \ {d}]
      /\ UNCHANGED <<status, id, local_ctrl_list>>
  BY <1>3, <1>4 DEF DatapathLeave, AnnounceLeave, RaiseIf, idVars, TablesTypeOK, DatapathsTypeOK
<1>6. MembershipOK'
  <2>1. \A t \in Session, e \in Dpid : (t \in lc_connected[e] <=> e \in dpid_to_role[t])'
    BY <1>5 DEF MembershipOK, TablesTypeOK, SessionsTypeOK, DatapathsTypeOK
  <2>2. \A e \in Dpid : (e \in datapath_list <=> lc_connected[e] # {})'
    <3> SUFFICES ASSUME NEW e \in Dpid
                 PROVE  (e \in datapath_list <=> lc_connected[e] # {})'
      OBVIOUS
    <3>1. CASE e = d
      BY <1>3, <1>5, <3>1 DEF MembershipOK, TablesTypeOK, DatapathsTypeOK
    <3>2. CASE e # d
      BY <1>5, <3>2 DEF MembershipOK, TablesTypeOK, DatapathsTypeOK
    <3> QED
      BY <3>1, <3>2
  <2> QED
    BY <2>1, <2>2 DEF MembershipOK
<1>7. SessionsAgree'
  BY <1>5 DEF SessionsAgree, TablesTypeOK, SessionsTypeOK, SendersTypeOK
<1>8. MembersFinite'
  BY <1>5, FS_RemoveElement DEF MembersFinite, TablesTypeOK, DatapathsTypeOK
<1>9. IdsAllocated'
  <2>1. \A t \in Session : lc_datapaths'[t] \subseteq lc_datapaths[t]
    BY <1>5 DEF TablesTypeOK, SendersTypeOK
  <2> QED
    BY <1>5, <2>1, IdsFrame
<1>10. HostIdsAllocated'
  <2>1. \A m \in Mac : host_to_lcid'[m] \in {host_to_lcid[m], NoEntry}
    BY DEF DatapathLeave
  <2> QED
    BY <1>5, <2>1, HostIdsFrame
<1> QED
  BY <1>1, <1>6, <1>7, <1>8, <1>9, <1>10

\* LOAD_REPORT only adds a load entry.
LEMMA LoadReportRegistryInv ==
    ASSUME RegistryInv, NEW s \in Session, NEW d \in Dpid, LoadReport(s, d)
    PROVE  RegistryInv'
<1> USE DEF RegistryInv
<1>1. TablesTypeOK'
  BY DatapathStepTypeOK DEF DatapathStep
<1>2. /\ Active(s)
      /\ UNCHANGED <<datapath_list, lc_connected, dpid_to_role, lc_datapaths, id,
                     local_ctrl_list, host_to_lcid>>
      /\ RaiseIf(d \notin datapath_list, s)
      /\ \A t \in Session : dpid_to_load[t] \subseteq dpid_to_load'[t]
  BY DEF LoadReport, Receives, idVars, dpVars, senderVars, TablesTypeOK, SessionsTypeOK
<1>3. \A t \in Session : status'[t] \in {"idle", "active"} => status'[t] = status[t]
  BY <1>2, RaiseIfEnds DEF TablesTypeOK, SessionsTypeOK
<1>4. MembershipOK' /\ SessionsAgree' /\ MembersFinite'
  BY <1>2, <1>3, MembershipFrame
<1>5. IdsAllocated'
  BY <1>2, <1>3, IdsFrame
<1>6. HostIdsAllocated'
  BY <1>2, HostIdsFrame
<1> QED
  BY <1>1, <1>4, <1>5, <1>6

\* HOST_CONNECTED maps the host to an id handed out: its sender has announced
\* the switch the host is behind, and survived that.
LEMMA HostStepRegistryInv ==
    ASSUME RegistryInv, NEW s \in Session, NEW d \in Dpid, NEW m \in Mac, HostStep(s, d, m)
    PROVE  RegistryInv'
<1> USE DEF RegistryInv
<1>1. TablesTypeOK'
  BY HostStepTypeOK
<1>2. /\ Active(s)
      /\ UNCHANGED <<datapath_list, lc_connected, dpid_to_role, dpid_to_load, lc_datapaths, id,
                     local_ctrl_list>>
      /\ RaiseIf(d \notin datapath_list, s)
  BY DEF HostStep, HostConnected, HostLeave, AnnounceHost, AnnounceHostLeave, Receives,
         idVars
<1>3. \A t \in Session : status'[t] \in {"idle", "active"} => status'[t] = status[t]
  BY <1>2, RaiseIfEnds DEF TablesTypeOK, SessionsTypeOK
<1>4. MembershipOK' /\ SessionsAgree' /\ MembersFinite'
  BY <1>2, <1>3, MembershipFrame
<1>5. IdsAllocated'
  BY <1>2, <1>3, IdsFrame
<1>6. HostIdsAllocated'
  <2>1. CASE HostConnected(s, d, m)
    <3>1. id[s] # None
      BY <2>1, <1>2 DEF HostConnected, AnnounceHost, IdsAllocated
    <3>2. id[s] \in Nodes
      BY <3>1 DEF IdsAllocated
    <3>3. host_to_lcid' = [host_to_lcid EXCEPT ![m] = id[s]]
      BY <2>1 DEF HostConnected
    <3> QED
      BY <1>2, <3>2, <3>3 DEF HostIdsAllocated, KnownHosts, Nodes, TablesTypeOK, HostsTypeOK
  <2>2. CASE HostLeave(s, d, m)
    <3>1. host_to_lcid' = [host_to_lcid EXCEPT ![m] = NoEntry]
      BY <2>2 DEF HostLeave
    <3> QED
      BY <1>2, <3>1, HostIdsFrame DEF TablesTypeOK, HostsTypeOK
  <2> QED
    BY <2>1, <2>2 DEF HostStep
<1> QED
  BY <1>1, <1>4, <1>5, <1>6

\* GRAPH_INFO and PACKET_IN can only end their own session.
LEMMA GraphStepRegistryInv ==
    ASSUME RegistryInv, NEW s \in Session,
           (\E ws \in WindowLists : GraphInfo(s, ws)) \/ HopOf(s)
    PROVE  RegistryInv'
<1> USE DEF RegistryInv
<1>1. TablesTypeOK'
  BY GraphStepTypeOK
<1>2. UNCHANGED <<datapath_list, lc_connected, dpid_to_role, dpid_to_load, lc_datapaths, id,
                  local_ctrl_list, host_to_lcid>>
  BY DEF GraphInfo, HopOf, Hop, idVars, dpVars, senderVars
<1>3. \A t \in Session : status'[t] \in {"idle", "active"} => status'[t] = status[t]
  BY DEF GraphInfo, HopOf, Hop, RaiseIf, Active, TablesTypeOK, SessionsTypeOK
<1>4. MembershipOK' /\ SessionsAgree' /\ MembersFinite'
  BY <1>2, <1>3, MembershipFrame
<1>5. IdsAllocated'
  BY <1>2, <1>3, IdsFrame
<1>6. HostIdsAllocated'
  BY <1>2, HostIdsFrame
<1> QED
  BY <1>1, <1>4, <1>5, <1>6

\* Every step of the central controller keeps the registry consistent.
LEMMA NextRegistryInv == RegistryInv /\ [Next]_vars => RegistryInv'
<1> SUFFICES ASSUME RegistryInv, [Next]_vars
             PROVE  RegistryInv'
  OBVIOUS
<1>1. ASSUME NEW s \in Session, NEW d \in Dpid, DatapathStep(s, d)
      PROVE  RegistryInv'
  BY <1>1, DatapathConnectedRegistryInv, RaisesRegistryInv, DatapathLeaveRegistryInv,
     LoadReportRegistryInv DEF DatapathStep
<1>2. CASE Next
  BY <1>1, <1>2, SessionStepRegistryInv, HostStepRegistryInv, GraphStepRegistryInv, HopSteps DEF Next
<1>3. CASE UNCHANGED vars
  <2>1. TablesTypeOK'
    BY <1>3, NextTypeOK DEF RegistryInv
  <2>2. MembershipOK' /\ SessionsAgree' /\ MembersFinite'
    BY <1>3 DEF vars, sessionVars, dpVars, senderVars, RegistryInv,
                MembershipOK, SessionsAgree, MembersFinite
  <2>3. IdsAllocated' /\ HostIdsAllocated'
    BY <1>3 DEF vars, sessionVars, idVars, senderVars, RegistryInv,
                IdsAllocated, HostIdsAllocated, Active, Nodes, KnownHosts
  <2> QED
    BY <2>1, <2>2, <2>3 DEF RegistryInv
<1> QED
  BY <1>2, <1>3

\* The registry is consistent whatever order local controllers connect,
\* announce, leave and die in.
THEOREM RegistryCorrect == Spec => []RegistryInv
BY InitRegistryInv, NextRegistryInv, PTL DEF Spec

\* The two records of who controls a switch agree, and decide its registration
\* (datapath_connected and datapath_leave).
THEOREM MembershipCorrect == Spec => []MembershipOK
<1>1. RegistryInv => MembershipOK
  BY DEF RegistryInv
<1> QED
  BY <1>1, RegistryCorrect, PTL

\* The lookup datapath_list[dpid] of a live controller's own switch never
\* raises, also after the switch has been under other controllers.
THEOREM AnnouncedCorrect == Spec => []AnnouncedRegistered
<1>1. RegistryInv => AnnouncedRegistered
  BY DEF RegistryInv, TablesTypeOK, SessionsTypeOK, MembershipOK, SessionsAgree,
         AnnouncedRegistered, Active
<1> QED
  BY <1>1, RegistryCorrect, PTL

\* No host is mapped to None or to an id never handed out, although the
\* switches of a session may be announced before its HELLO_UP.
THEOREM HostIdsCorrect == Spec => []HostIdsAllocated
<1>1. RegistryInv => HostIdsAllocated
  BY DEF RegistryInv
<1> QED
  BY <1>1, RegistryCorrect, PTL

-----------------------------------------------------------------------------
\* Hosts that stay in their domain.

\* Every host is learnt in one domain only, whatever the switches do.
HostsAtHome == \A m \in Mac : \A X, Y \in HostDomains[m] : X = Y

\* Two live sessions are of different domains and addresses.
ActiveApart ==
    \A s, t \in Session : Active(s) /\ Active(t) /\ s # t =>
        DomainOf[s] # DomainOf[t] /\ AddressOf[s] # AddressOf[t]

\* A host is told by a session of its domain that has begun, behind a switch
\* the session has announced.
ToldAtHome ==
    \A s \in Session, m \in Mac : lc_hosts[s][m] # NoEntry =>
        /\ DomainOf[s] \in HostDomains[m]
        /\ status[s] # "idle"
        /\ Active(s) => lc_hosts[s][m] \in lc_datapaths[s]

\* No unregistered switch has hosts, so a search of datapath_list finds them.
HostsRegistered == \A d \in Dpid : mac[d] # {} => d \in datapath_list

\* A host that a live session has told is listed at the switch it told, if
\* anywhere: so HOST_LEAVE (app_manager.py:262) leaves no listing behind.
ListedWhereTold ==
    \A s \in Session, m \in Mac, d \in Dpid :
        Active(s) /\ lc_hosts[s][m] # NoEntry /\ m \in mac[d] => d = lc_hosts[s][m]

\* With RegistryInv, the strengthening of HostOnOneDatapath and
\* ListedHostsKnown for hosts that stay at home.
HostsInv ==
    /\ HostOnOneDatapath
    /\ ListedHostsKnown
    /\ HostsRegistered
    /\ ActiveApart
    /\ ToldAtHome
    /\ ListedWhereTold

\* A step that keeps the hosts' tables and ends sessions at most.
LEMMA HostsFrame ==
    ASSUME HostsInv, UNCHANGED <<mac, host_to_lcid, lc_hosts>>,
           datapath_list \subseteq datapath_list',
           \A t \in Session : lc_datapaths[t] \subseteq lc_datapaths'[t],
           \A t \in Session : status'[t] \in {"idle", "active"} => status'[t] = status[t]
    PROVE  HostsInv'
BY DEF HostsInv, HostOnOneDatapath, ListedHostsKnown, HostsRegistered, ActiveApart, ToldAtHome,
       ListedWhereTold, KnownHosts, Active

\* The empty tables are consistent.
LEMMA InitHostsInv == Init => HostsInv
BY DEF Init, HostsInv, HostOnOneDatapath, ListedHostsKnown, HostsRegistered, ActiveApart,
       ToldAtHome, ListedWhereTold, Active

\* Sessions of one domain, or at one address, follow one another.
LEMMA SessionStepHostsInv ==
    ASSUME RegistryInv, HostsInv, NEW s \in Session, SessionStep(s)
    PROVE  HostsInv'
<1> USE DEF RegistryInv, TablesTypeOK, SessionsTypeOK
<1>1. UNCHANGED <<mac, host_to_lcid, lc_hosts, lc_datapaths, datapath_list>>
  BY DEF SessionStep, Connect, Drop, HelloUp, dpVars, senderVars
<1>2. CASE Connect(s)
  <2>1. status' = [status EXCEPT ![s] = "active"] /\ status[s] = "idle"
    BY <1>2 DEF Connect
  <2>2. ActiveApart'
    BY <1>2, <2>1 DEF Connect, HostsInv, ActiveApart, Active
  <2>3. ToldAtHome' /\ ListedWhereTold'
    BY <1>1, <2>1 DEF HostsInv, ToldAtHome, ListedWhereTold, Active
  <2>4. HostOnOneDatapath' /\ ListedHostsKnown' /\ HostsRegistered'
    BY <1>1 DEF HostsInv, HostOnOneDatapath, ListedHostsKnown, HostsRegistered, KnownHosts
  <2> QED
    BY <2>2, <2>3, <2>4 DEF HostsInv
<1>3. CASE Drop(s) \/ HelloUp(s)
  <2>1. \A t \in Session : status'[t] \in {"idle", "active"} => status'[t] = status[t]
    BY <1>3 DEF Drop, HelloUp
  <2> QED
    BY <1>1, <2>1, HostsFrame
<1> QED
  BY <1>2, <1>3 DEF SessionStep

\* A sweep takes the hosts it forgets off the only switch that lists them.
LEMMA SweepHostsInv ==
    ASSUME RegistryInv, HostsInv, NEW s \in Session, NEW d \in Dpid, Active(s),
           NEW R \in SUBSET mac[d],
           host_to_lcid' = [m \in Mac |-> IF m \in R THEN NoEntry ELSE host_to_lcid[m]],
           \/ mac' = [mac EXCEPT ![d] = @ \ R] /\ d \in datapath_list'
           \/ mac' = [mac EXCEPT ![d] = {}],
           \A e \in Dpid : e \in datapath_list /\ e # d => e \in datapath_list',
           \/ lc_hosts' = lc_hosts /\ \A t \in Session : lc_datapaths[t] \subseteq lc_datapaths'[t]
           \/ AnnounceLeave(s, d),
           \A t \in Session : status'[t] \in {"idle", "active"} => status'[t] = status[t]
    PROVE  HostsInv'
<1> USE DEF RegistryInv, TablesTypeOK, DatapathsTypeOK, SendersTypeOK
<1>1. \A e \in Dpid : mac'[e] \subseteq mac[e]
  OBVIOUS
<1>2. HostOnOneDatapath'
  BY <1>1 DEF HostsInv, HostOnOneDatapath
<1>3. ListedHostsKnown'
  <2> SUFFICES ASSUME NEW e \in Dpid, NEW m \in mac'[e]
               PROVE  m \in Mac /\ host_to_lcid'[m] # NoEntry
    BY DEF ListedHostsKnown, KnownHosts
  <2>1. m \in mac[e] /\ m \in Mac
    BY <1>1
  <2>2. m \notin R
    BY <2>1 DEF HostsInv, HostOnOneDatapath
  <2>3. host_to_lcid[m] # NoEntry
    BY <2>1 DEF HostsInv, ListedHostsKnown, KnownHosts
  <2> QED
    BY <2>1, <2>2, <2>3
<1>4. HostsRegistered'
  BY <1>1 DEF HostsInv, HostsRegistered
<1>5. ActiveApart'
  BY DEF HostsInv, ActiveApart, Active
<1>6. \A t \in Session, m \in Mac : lc_hosts'[t][m] \in {lc_hosts[t][m], NoEntry}
  BY DEF AnnounceLeave
<1>7. ToldAtHome'
  <2> SUFFICES ASSUME NEW t \in Session, NEW m \in Mac, lc_hosts'[t][m] # NoEntry
               PROVE  /\ DomainOf[t] \in HostDomains[m]
                      /\ status'[t] # "idle"
                      /\ status'[t] = "active" => lc_hosts'[t][m] \in lc_datapaths'[t]
    BY DEF ToldAtHome, Active
  <2>1. lc_hosts'[t][m] = lc_hosts[t][m] /\ lc_hosts[t][m] # NoEntry
    BY <1>6
  <2>2. /\ DomainOf[t] \in HostDomains[m]
        /\ status[t] # "idle"
        /\ status[t] = "active" => lc_hosts[t][m] \in lc_datapaths[t]
    BY <2>1 DEF HostsInv, ToldAtHome, Active
  <2>3. lc_hosts[t][m] \in lc_datapaths[t] => lc_hosts'[t][m] \in lc_datapaths'[t]
    BY <2>1 DEF AnnounceLeave
  <2> QED
    BY <2>1, <2>2, <2>3
<1>8. ListedWhereTold'
  BY <1>1, <1>6 DEF HostsInv, ListedWhereTold, Active
<1> QED
  BY <1>2, <1>3, <1>4, <1>5, <1>7, <1>8 DEF HostsInv

\* The handlers for switches only forget hosts that are listed where they
\* leave; the sweep never meets a host that host_to_lcid lacks.
LEMMA DatapathStepHostsInv ==
    ASSUME RegistryInv, HostsInv, NEW s \in Session, NEW d \in Dpid, DatapathStep(s, d)
    PROVE  HostsInv'
<1> USE DEF RegistryInv
<1>1. BrokenSweeps(d) = {}
  BY DEF HostsInv, ListedHostsKnown, BrokenSweeps
<1>2. CASE DatapathConnected(s, d)
  <2>1. PICK R \in Sweeps(d) : Forget(R, d)
    BY <1>2 DEF DatapathConnected
  <2>2. R \in SUBSET mac[d]
    BY DEF Sweeps
  <2>3. /\ Active(s)
        /\ lc_hosts' = lc_hosts
        /\ lc_datapaths' = [lc_datapaths EXCEPT ![s] = @ \cup {d}]
        /\ datapath_list' = datapath_list \cup {d}
        /\ RaiseIf(LacksId(s), s)
    BY <1>2 DEF DatapathConnected, AnnounceDatapath, Receives
  <2>4. \A t \in Session : status'[t] \in {"idle", "active"} => status'[t] = status[t]
    BY <2>3, RaiseIfEnds DEF LacksId, TablesTypeOK, SessionsTypeOK
  <2>5. \A t \in Session : lc_datapaths[t] \subseteq lc_datapaths'[t]
    BY <2>3 DEF TablesTypeOK, SendersTypeOK
  <2> QED
    BY <2>1, <2>2, <2>3, <2>4, <2>5, SweepHostsInv DEF Forget
<1>3. CASE DatapathConnectedRaises(s, d)
  BY <1>1, <1>3 DEF DatapathConnectedRaises
<1>4. CASE DatapathLeave(s, d)
  <2>1. PICK R \in Sweeps(d) :
           /\ host_to_lcid' = [m \in Mac |-> IF m \in R THEN NoEntry ELSE host_to_lcid[m]]
           /\ mac' = [mac EXCEPT ![d] = IF LastController(d) THEN {} ELSE @ \ R]
    BY <1>4 DEF DatapathLeave
  <2>2. R \in SUBSET mac[d]
    BY DEF Sweeps
  <2>3. /\ Active(s)
        /\ AnnounceLeave(s, d)
        /\ d \in datapath_list
        /\ datapath_list' = IF LastController(d) THEN datapath_list \ {d} ELSE datapath_list
        /\ \A t \in Session : status'[t] \in {"idle", "active"} => status'[t] = status[t]
    BY <1>4 DEF DatapathLeave, AnnounceLeave, Receives, RaiseIf, TablesTypeOK, SessionsTypeOK
  <2> QED
    BY <2>1, <2>2, <2>3, SweepHostsInv
<1>5. CASE DatapathLeaveRaises(s, d)
  <2>1. d \in datapath_list
    BY <1>5 DEF DatapathLeaveRaises, AnnounceLeave, Receives, SessionsAgree, MembershipOK, Active
  <2> QED
    BY <1>1, <1>5, <2>1 DEF DatapathLeaveRaises
<1>6. CASE LoadReport(s, d)
  <2>1. /\ UNCHANGED <<mac, host_to_lcid, lc_hosts, lc_datapaths, datapath_list>>
        /\ Active(s)
        /\ RaiseIf(d \notin datapath_list, s)
    BY <1>6 DEF LoadReport, Receives, dpVars, senderVars
  <2>2. \A t \in Session : status'[t] \in {"idle", "active"} => status'[t] = status[t]
    BY <2>1, RaiseIfEnds DEF TablesTypeOK, SessionsTypeOK
  <2> QED
    BY <2>1, <2>2, HostsFrame
<1> QED
  BY <1>2, <1>3, <1>4, <1>5, <1>6 DEF DatapathStep

\* A host has one live session that may tell it, so HOST_CONNECTED finds the
\* old listing and HOST_LEAVE deletes the right one.
LEMMA HostStepHostsInv ==
    ASSUME HostsAtHome, RegistryInv, HostsInv,
           NEW s \in Session, NEW d \in Dpid, NEW m \in Mac, HostStep(s, d, m)
    PROVE  HostsInv'
<1> USE DEF RegistryInv, TablesTypeOK, DatapathsTypeOK, HostsTypeOK, SendersTypeOK
<1>1. Active(s) /\ lc_datapaths[s] \subseteq datapath_list
  BY DEF HostStep, HostConnected, HostLeave, AnnounceHost, AnnounceHostLeave,
         Receives, SessionsAgree, MembershipOK, Active, SessionsTypeOK
<1>2. /\ UNCHANGED <<lc_datapaths, datapath_list>>
      /\ RaiseIf(d \notin datapath_list, s)
  BY DEF HostStep, HostConnected, HostLeave, AnnounceHost, AnnounceHostLeave
<1>3. d \in lc_datapaths[s] /\ d \in datapath_list
  <2>1. d \in lc_datapaths[s]
    BY <1>1, NoEntryAssumption
       DEF HostStep, HostConnected, HostLeave, AnnounceHost, AnnounceHostLeave, HostsInv, ToldAtHome
  <2> QED
    BY <1>1, <2>1
<1>4. status' = status
  BY <1>2, <1>3 DEF RaiseIf
<1>5. \A t \in Session : Active(t) /\ DomainOf[t] \in HostDomains[m] /\ t # s
                            => DomainOf[s] \notin HostDomains[m]
  BY <1>1 DEF HostsInv, ActiveApart, HostsAtHome
<1>6. \A n \in Mac, e \in Dpid : n # m => (n \in mac'[e] <=> n \in mac[e])
  <2>1. CASE HostConnected(s, d, m)
    BY <2>1 DEF HostConnected
  <2>2. CASE HostLeave(s, d, m)
    BY <2>2 DEF HostLeave, Unlisted
  <2> QED
    BY <2>1, <2>2 DEF HostStep
<1>7. \A e \in Dpid : m \in mac'[e] => e = d /\ host_to_lcid'[m] # NoEntry
  <2>1. CASE HostConnected(s, d, m)
    <3> DEFINE old == IF m \in KnownHosts THEN Behind(m) ELSE {}
               cleared(o) == IF old = {} THEN mac ELSE [mac EXCEPT ![o] = @ \ {m}]
    <3>1. PICK o \in IF old = {} THEN {d} ELSE old : mac' = [cleared(o) EXCEPT ![d] = @ \cup {m}]
      BY <1>3, <2>1 DEF HostConnected
    <3>2. \A e \in Dpid : m \in mac[e] => e \in old
      BY DEF HostsInv, ListedHostsKnown, HostsRegistered, KnownHosts, Behind
    <3>3. \A e \in Dpid : m \notin cleared(o)[e]
      <4>1. CASE old = {}
        BY <3>2, <4>1
      <4>2. CASE old # {}
        <5>1. o \in Dpid /\ m \in mac[o]
          BY <3>1, <4>2 DEF Behind
        <5>2. \A e \in Dpid : m \in mac[e] => e = o
          BY <5>1 DEF HostsInv, HostOnOneDatapath
        <5> QED
          BY <4>2, <5>1, <5>2
      <4> QED
        BY <4>1, <4>2
    <3>4. \A e \in Dpid : m \in mac'[e] => e = d
      <4>1. cleared(o) \in [Dpid -> SUBSET Mac]
        OBVIOUS
      <4> HIDE DEF cleared
      <4> QED
        BY <3>1, <3>3, <4>1
    <3>5. host_to_lcid'[m] = id[s] /\ id[s] \in Int
      BY <2>1 DEF HostConnected, SessionsTypeOK
    <3> QED
      BY <3>4, <3>5, NoEntryAssumption
  <2>2. CASE HostLeave(s, d, m)
    <3>1. lc_hosts[s][m] = d /\ mac' = [mac EXCEPT ![d] = @ \ {m}]
      BY <1>3, <2>2 DEF HostLeave, AnnounceHostLeave, Unlisted
    <3>2. d # NoEntry
      BY NoEntryAssumption
    <3>3. \A e \in Dpid : m \in mac[e] => e = d
      BY <1>1, <3>1, <3>2 DEF HostsInv, ListedWhereTold
    <3> QED
      BY <3>1, <3>3
  <2> QED
    BY <2>1, <2>2 DEF HostStep
<1>8. \A n \in Mac : n # m => host_to_lcid'[n] = host_to_lcid[n]
  BY DEF HostStep, HostConnected, HostLeave
<1>9. /\ \A t \in Session : t # s => lc_hosts'[t] = lc_hosts[t]
      /\ \A n \in Mac : n # m => lc_hosts'[s][n] = lc_hosts[s][n]
      /\ lc_hosts'[s][m] # NoEntry => lc_hosts'[s][m] = d /\ DomainOf[s] \in HostDomains[m]
  BY DEF HostStep, HostConnected, HostLeave, AnnounceHost, AnnounceHostLeave
<1>10. DomainOf[s] \in HostDomains[m]
  <2>1. CASE HostConnected(s, d, m)
    BY <2>1 DEF HostConnected, AnnounceHost
  <2>2. CASE HostLeave(s, d, m)
    BY <2>2, NoEntryAssumption DEF HostLeave, AnnounceHostLeave, HostsInv, ToldAtHome
  <2> QED
    BY <2>1, <2>2 DEF HostStep
<1>11. HostOnOneDatapath'
  BY <1>6, <1>7 DEF HostsInv, HostOnOneDatapath
<1>12. ListedHostsKnown'
  <2> SUFFICES ASSUME NEW e \in Dpid, NEW n \in mac'[e]
               PROVE  n \in Mac /\ host_to_lcid'[n] # NoEntry
    BY DEF ListedHostsKnown, KnownHosts
  <2>1. n \in Mac
    BY HostStepTypeOK
  <2> QED
    BY <1>6, <1>7, <1>8, <2>1 DEF HostsInv, ListedHostsKnown, KnownHosts
<1>13. HostsRegistered'
  <2> SUFFICES ASSUME NEW e \in Dpid, NEW n \in mac'[e]
               PROVE  e \in datapath_list
    BY <1>2 DEF HostsRegistered
  <2>1. n \in Mac
    BY HostStepTypeOK
  <2> QED
    BY <1>3, <1>6, <1>7, <2>1 DEF HostsInv, HostsRegistered
<1>14. ActiveApart'
  BY <1>4 DEF HostsInv, ActiveApart, Active
<1>15. ToldAtHome'
  BY <1>1, <1>2, <1>3, <1>4, <1>9 DEF HostsInv, ToldAtHome, Active
<1>16. ListedWhereTold'
  <2> SUFFICES ASSUME NEW t \in Session, NEW n \in Mac, NEW e \in Dpid,
                      Active(t), lc_hosts'[t][n] # NoEntry, n \in mac'[e]
               PROVE  e = lc_hosts'[t][n]
    BY <1>4 DEF ListedWhereTold, Active
  <2>1. CASE n # m
    BY <1>6, <1>9, <2>1 DEF HostsInv, ListedWhereTold
  <2>2. CASE n = m /\ t = s
    BY <1>7, <1>9, <2>2
  <2>3. CASE n = m /\ t # s
    BY <1>5, <1>9, <1>10, <2>3 DEF HostsInv, ToldAtHome
  <2> QED
    BY <2>1, <2>2, <2>3
<1> QED
  BY <1>11, <1>12, <1>13, <1>14, <1>15, <1>16 DEF HostsInv

\* GRAPH_INFO and PACKET_IN do not touch the hosts.
LEMMA GraphStepHostsInv ==
    ASSUME RegistryInv, HostsInv, NEW s \in Session,
           (\E ws \in WindowLists : GraphInfo(s, ws)) \/ HopOf(s)
    PROVE  HostsInv'
<1>1. UNCHANGED <<mac, host_to_lcid, lc_hosts, lc_datapaths, datapath_list>>
  BY DEF GraphInfo, HopOf, Hop, dpVars, senderVars
<1>2. \A t \in Session : status'[t] \in {"idle", "active"} => status'[t] = status[t]
  BY DEF GraphInfo, HopOf, Hop, RaiseIf, Active, RegistryInv, TablesTypeOK, SessionsTypeOK
<1> QED
  BY <1>1, <1>2, HostsFrame

\* Every step keeps the hosts' tables consistent, when hosts stay at home.
LEMMA NextHostsInv == HostsAtHome /\ RegistryInv /\ HostsInv /\ [Next]_vars => HostsInv'
<1> SUFFICES ASSUME HostsAtHome, RegistryInv, HostsInv, [Next]_vars
             PROVE  HostsInv'
  OBVIOUS
<1>1. CASE Next
  BY <1>1, SessionStepHostsInv, DatapathStepHostsInv, HostStepHostsInv, GraphStepHostsInv, HopSteps DEF Next
<1>2. CASE UNCHANGED vars
  BY <1>2, HostsFrame DEF vars, sessionVars, dpVars, senderVars
<1> QED
  BY <1>1, <1>2

\* The hosts' tables are consistent whatever switches and sessions do, as long
\* as no host turns up in two domains.
THEOREM HostsCorrect == ASSUME HostsAtHome PROVE Spec => []HostsInv
<1>1. HostsAtHome
  OBVIOUS
<1>2. RegistryInv /\ HostsInv /\ [Next]_vars => HostsInv'
  BY <1>1, NextHostsInv
<1> QED
  BY <1>2, InitHostsInv, RegistryCorrect, PTL DEF Spec

\* A host that stays in its domain is listed behind one switch, although the
\* sweep of a switch forgets only half of its hosts and switches change domain.
THEOREM HostOnOneDatapathCorrect == ASSUME HostsAtHome PROVE Spec => []HostOnOneDatapath
<1>1. HostsInv => HostOnOneDatapath
  BY DEF HostsInv
<1> QED
  BY <1>1, HostsCorrect, PTL

\* The sweeps delete no host from host_to_lcid that is not there, as long as
\* hosts stay in their domain.
THEOREM ListedHostsKnownCorrect == ASSUME HostsAtHome PROVE Spec => []ListedHostsKnown
<1>1. HostsInv => ListedHostsKnown
  BY DEF HostsInv
<1> QED
  BY <1>1, HostsCorrect, PTL

-----------------------------------------------------------------------------
\* Ids, while there are enough of them.

\* The addresses that have an id.
Greeted == {a \in Address : lcip_to_lcid[a] # None}

\* No two addresses have the same id, ...
IdsDistinct == \A a, b \in Greeted : lcip_to_lcid[a] = lcip_to_lcid[b] => a = b

\* ... as glcid is above all ids until every address has one.
GlcidFresh ==
    \/ Greeted = Address
    \/ /\ \A a \in Greeted : lcip_to_lcid[a] < glcid
       /\ Cardinality(Greeted) = glcid - 1

\* The id of a session is that of its address, from its HELLO_UP on.
IdOfAddress ==
    \A s \in Session : id[s] # None =>
        lcip_to_lcid[AddressOf[s]] = id[s] /\ status[s] # "idle"

\* The strengthening of ActiveIdsResolve for as many ids as addresses.
IdsInv ==
    /\ ActiveIdsResolve
    /\ ActiveApart
    /\ IdOfAddress
    /\ IdsDistinct
    /\ GlcidFresh

\* The empty tables hold no id.
LEMMA InitIdsInv == Init => IdsInv
<1> SUFFICES ASSUME Init
             PROVE  IdsInv
  OBVIOUS
<1>1. Greeted = {}
  BY DEF Init, Greeted, None
<1>2. Cardinality(Greeted) = 0 /\ glcid = 1
  BY <1>1, FS_EmptySet DEF Init
<1> QED
  BY <1>1, <1>2
     DEF Init, IdsInv, IdsDistinct, IdOfAddress, GlcidFresh, ActiveIdsResolve, ActiveApart, Active, None

\* A fresh id is above all those in use, until glcid has wrapped; and by then
\* every address has one.
LEMMA HelloUpIdsInv ==
    ASSUME IsFiniteSet(Address), Cardinality(Address) =< MaxLcId,
           TablesTypeOK, IdsInv, NEW s \in Session, HelloUp(s)
    PROVE  IdsInv'
<1> DEFINE a == AddressOf[s]
           fresh == lcip_to_lcid[a] = None
           i == IF fresh THEN glcid ELSE lcip_to_lcid[a]
<1> USE DEF TablesTypeOK, SessionsTypeOK, IdsTypeOK, IdsInv, None
<1>1. a \in Address
  BY ConstantsAssumption
<1>2. /\ Active(s) /\ id[s] = 0 /\ UNCHANGED status
      /\ id' = [id EXCEPT ![s] = i]
      /\ lcip_to_lcid' = [lcip_to_lcid EXCEPT ![a] = i]
      /\ glcid' = IF fresh THEN NextLcId(glcid) ELSE glcid
      /\ local_ctrl_list' = [local_ctrl_list EXCEPT ![i] = s]
  BY DEF HelloUp, Receives
<1>3. i \in LcId /\ i # 0 /\ i \in Nat
  BY <1>1 DEF LcId
<1>4. Greeted' = Greeted \cup {a}
  BY <1>1, <1>2, <1>3 DEF Greeted
<1>5. IsFiniteSet(Greeted) /\ Cardinality(Greeted) \in Nat
  BY FS_Subset, FS_CardinalityType DEF Greeted
<1>6. ASSUME fresh
      PROVE  /\ a \notin Greeted
             /\ \A b \in Greeted : lcip_to_lcid[b] < glcid
             /\ Cardinality(Greeted) = glcid - 1
  BY <1>1, <1>6 DEF Greeted, GlcidFresh
<1>7. \A b \in Address : b # a => lcip_to_lcid[b] # i
  <2>1. CASE fresh
    BY <1>3, <1>6, <2>1 DEF Greeted, LcId
  <2>2. CASE ~fresh
    BY <1>1, <2>2 DEF IdsDistinct, Greeted
  <2> QED
    BY <2>1, <2>2
<1> HIDE DEF i
<1>8. IdsDistinct'
  BY <1>1, <1>2, <1>4, <1>7 DEF IdsDistinct, Greeted
<1>9. IdOfAddress'
  <2> SUFFICES ASSUME NEW t \in Session, id'[t] # 0
               PROVE  lcip_to_lcid'[AddressOf[t]] = id'[t] /\ status'[t] # "idle"
    BY DEF IdOfAddress
  <2>1. AddressOf[t] \in Address
    BY ConstantsAssumption
  <2>2. CASE t = s
    BY <1>1, <1>2, <2>2 DEF Active
  <2>3. CASE t # s
    <3>1. /\ id'[t] = id[t] /\ lcip_to_lcid[AddressOf[t]] = id[t] /\ id[t] # 0
          /\ status'[t] # "idle"
      BY <1>2, <2>3 DEF IdOfAddress
    <3>2. AddressOf[t] = a => lcip_to_lcid'[a] = id[t]
      BY <1>1, <1>2, <3>1 DEF i
    <3> QED
      BY <1>2, <2>1, <3>1, <3>2
  <2> QED
    BY <2>2, <2>3
<1>10. GlcidFresh'
  <2>1. CASE ~fresh
    <3>1. Greeted' = Greeted /\ glcid' = glcid
      BY <1>1, <1>2, <1>4, <2>1 DEF Greeted
    <3>2. lcip_to_lcid' = lcip_to_lcid
      BY <1>1, <1>2, <2>1 DEF i
    <3> QED
      BY <3>1, <3>2 DEF GlcidFresh
  <2>2. CASE fresh /\ Greeted' # Address
    <3>1. Cardinality(Greeted') = glcid
      <4>1. Cardinality(Greeted \cup {a}) = Cardinality(Greeted) + 1
        BY <1>5, <1>6, <2>2, FS_AddElement
      <4> QED
        BY <1>4, <1>6, <2>2, <4>1 DEF LcId
    <3>2. Cardinality(Greeted') < Cardinality(Address)
      <4>1. Greeted' \subseteq Address
        BY DEF Greeted
      <4> QED
        BY <2>2, <4>1, FS_Subset, FS_CardinalityType
    <3>3. glcid < MaxLcId /\ glcid' = glcid + 1
      BY <1>2, <2>2, <3>1, <3>2, FS_CardinalityType, ConstantsAssumption DEF NextLcId, LcId
    <3>4. \A b \in Greeted' : lcip_to_lcid'[b] < glcid'
      BY <1>1, <1>2, <1>4, <1>6, <2>2, <3>3 DEF i, LcId, Greeted
    <3> QED
      BY <3>1, <3>3, <3>4 DEF GlcidFresh, LcId
  <2>3. CASE Greeted' = Address
    BY <2>3 DEF GlcidFresh
  <2> QED
    BY <2>1, <2>2, <2>3
<1>11. ActiveIdsResolve'
  <2> SUFFICES ASSUME NEW t \in Session, Active(t), id'[t] # 0
               PROVE  local_ctrl_list'[id'[t]] = t
    BY <1>2 DEF ActiveIdsResolve, Active
  <2>1. CASE t = s
    BY <1>2, <1>3, <2>1
  <2>2. CASE t # s
    <3>1. id'[t] = id[t] /\ local_ctrl_list[id[t]] = t /\ lcip_to_lcid[AddressOf[t]] = id[t]
      BY <1>2, <2>2 DEF ActiveIdsResolve, IdOfAddress
    <3>2. AddressOf[t] # a /\ AddressOf[t] \in Address
      BY <1>2, <2>2, ConstantsAssumption DEF ActiveApart
    <3>3. id[t] # i
      BY <1>7, <3>1, <3>2
    <3> QED
      BY <1>2, <1>3, <3>1, <3>3
  <2> QED
    BY <2>1, <2>2
<1>12. ActiveApart'
  BY <1>2 DEF ActiveApart, Active
<1> QED
  BY <1>8, <1>9, <1>10, <1>11, <1>12

\* A step that hands out no id and begins no session.
LEMMA IdsInvFrame ==
    ASSUME IdsInv, UNCHANGED <<id, glcid, lcip_to_lcid, local_ctrl_list>>,
           \A t \in Session : status'[t] \in {"idle", "active"} => status'[t] = status[t]
    PROVE  IdsInv'
BY DEF IdsInv, IdsDistinct, IdOfAddress, GlcidFresh, Greeted, ActiveIdsResolve, ActiveApart, Active

\* Connect begins a session that has no id yet; no other handler hands out one.
LEMMA NextIdsInv ==
    ASSUME IsFiniteSet(Address), Cardinality(Address) =< MaxLcId, TablesTypeOK, IdsInv, [Next]_vars
    PROVE  IdsInv'
<1> USE DEF TablesTypeOK, SessionsTypeOK
<1>1. ASSUME NEW s \in Session, Connect(s)
      PROVE  IdsInv'
  <2>1. /\ UNCHANGED <<id, glcid, lcip_to_lcid, local_ctrl_list>>
        /\ status' = [status EXCEPT ![s] = "active"]
        /\ status[s] = "idle"
    BY <1>1 DEF Connect, idVars
  <2>2. ActiveApart'
    BY <1>1, <2>1 DEF Connect, IdsInv, ActiveApart, Active
  <2>3. id[s] = None
    BY <2>1 DEF IdsInv, IdOfAddress
  <2> QED
    BY <2>1, <2>2, <2>3
       DEF IdsInv, IdsDistinct, IdOfAddress, GlcidFresh, Greeted, ActiveIdsResolve, Active
<1>2. ASSUME NEW s \in Session, Drop(s)
      PROVE  IdsInv'
  BY <1>2, IdsInvFrame DEF Drop, idVars
<1>3. ASSUME NEW s \in Session, NEW d \in Dpid, DatapathStep(s, d)
      PROVE  IdsInv'
  <2>1. /\ UNCHANGED <<id, glcid, lcip_to_lcid, local_ctrl_list>>
        /\ Active(s)
        /\ \E raised \in BOOLEAN : RaiseIf(raised, s)
    BY <1>3 DEF DatapathStep, DatapathConnected, DatapathConnectedRaises, DatapathLeave,
                DatapathLeaveRaises, LoadReport, AnnounceDatapath, AnnounceLeave, Receives, LacksId, idVars
  <2>2. \A t \in Session : status'[t] \in {"idle", "active"} => status'[t] = status[t]
    BY <2>1, RaiseIfEnds
  <2> QED
    BY <2>1, <2>2, IdsInvFrame
<1>4. ASSUME NEW s \in Session, NEW d \in Dpid, NEW m \in Mac, HostStep(s, d, m)
      PROVE  IdsInv'
  <2>1. /\ UNCHANGED <<id, glcid, lcip_to_lcid, local_ctrl_list>>
        /\ Active(s)
        /\ RaiseIf(d \notin datapath_list, s)
    BY <1>4 DEF HostStep, HostConnected, HostLeave, AnnounceHost, AnnounceHostLeave, Receives, idVars
  <2>2. \A t \in Session : status'[t] \in {"idle", "active"} => status'[t] = status[t]
    BY <2>1, RaiseIfEnds
  <2> QED
    BY <2>1, <2>2, IdsInvFrame
<1>5. ASSUME NEW s \in Session,
             (\E ws \in WindowLists : GraphInfo(s, ws)) \/ HopOf(s)
      PROVE  IdsInv'
  <2>1. UNCHANGED <<id, glcid, lcip_to_lcid, local_ctrl_list>>
    BY <1>5 DEF GraphInfo, HopOf, Hop, idVars
  <2>2. \A t \in Session : status'[t] \in {"idle", "active"} => status'[t] = status[t]
    BY <1>5 DEF GraphInfo, HopOf, Hop, RaiseIf, Active
  <2> QED
    BY <2>1, <2>2, IdsInvFrame
<1>6. CASE Next
  BY <1>1, <1>2, <1>3, <1>4, <1>5, <1>6, HelloUpIdsInv, HopSteps DEF Next, SessionStep
<1>7. CASE UNCHANGED vars
  BY <1>7, IdsInvFrame DEF vars, sessionVars, idVars
<1> QED
  BY <1>6, <1>7

\* A message for the id of a live controller goes to its own connection, also
\* when older sessions had the id, as long as there is an id for every address.
THEOREM ActiveIdsResolveCorrect ==
    ASSUME IsFiniteSet(Address), Cardinality(Address) =< MaxLcId
    PROVE  Spec => []ActiveIdsResolve
<1>1. TablesTypeOK /\ IdsInv /\ [Next]_vars => IdsInv'
  BY NextIdsInv
<1>2. IdsInv => ActiveIdsResolve
  BY DEF IdsInv
<1> QED
  BY <1>1, <1>2, InitIdsInv, TablesCorrect, PTL DEF Spec

-----------------------------------------------------------------------------
\* Induction over data by the least counterexample: a set of naturals that is
\* not empty has a least element, ...
LEMMA NatLeast ==
    ASSUME NEW T \in SUBSET Nat, T # {}
    PROVE  \E n \in T : \A k \in T : n =< k
<1> DEFINE Below(n) == 0 .. n - 1
           F == {Below(n) : n \in T}
<1>1. F \subseteq FiniteSubsetsOf(Nat) /\ F # {}
  <2>1. \A n \in T : Below(n) \in SUBSET Nat /\ IsFiniteSet(Below(n))
    BY FS_Interval
  <2> QED
    BY <2>1 DEF FiniteSubsetsOf
<1>2. IsWellFoundedOn(StrictSubsetOrdering(Nat), FiniteSubsetsOf(Nat))
  BY FS_StrictSubsetOrderingWellFounded
<1>3. \E x \in F : \A y \in F : <<y, x>> \notin StrictSubsetOrdering(Nat)
  <2> HIDE DEF F
  <2> QED
    BY <1>1, <1>2, WFMin
<1>4. PICK n \in T : \A k \in T : <<Below(k), Below(n)>> \notin StrictSubsetOrdering(Nat)
  BY <1>3
<1>5. \A k \in T : k < n => <<Below(k), Below(n)>> \in StrictSubsetOrdering(Nat)
  <2> SUFFICES ASSUME NEW k \in T, k < n
               PROVE  <<Below(k), Below(n)>> \in StrictSubsetOrdering(Nat)
    OBVIOUS
  <2>1. k \in Below(n) /\ k \notin Below(k) /\ Below(k) \subseteq Below(n) /\ Below(n) \subseteq Nat
    OBVIOUS
  <2> QED
    BY <2>1 DEF StrictSubsetOrdering
<1>6. \A k \in T : ~ (k < n)
  <2> HIDE DEF Below
  <2> QED
    BY <1>4, <1>5
<1> QED
  BY <1>6

\* ... so a set that holds 0, and with each number the next one up to N, holds
\* them all.
LEMMA UpToInduction ==
    ASSUME NEW T, 0 \in T, NEW N \in Nat, \A n \in 0 .. N - 1 : n \in T => n + 1 \in T
    PROVE  0 .. N \subseteq T
<1> SUFFICES ASSUME NEW m \in 0 .. N, m \notin T
             PROVE  FALSE
  OBVIOUS
<1> DEFINE Bad == {n \in 0 .. N : n \notin T}
<1>1. Bad \in SUBSET Nat /\ Bad # {}
  OBVIOUS
<1>2. PICK n \in Bad : \A k \in Bad : n =< k
  BY <1>1, NatLeast
<1>3. n # 0 /\ n - 1 \in 0 .. N - 1 /\ n - 1 \notin Bad
  BY <1>2
<1> QED
  BY <1>3

\* The result of one round of the loop of AfterWindows from that of the round
\* before, and the function of the results of the first k rounds.
Round(ws, f, n) ==
    IF n = 0 THEN [edges |-> edges, raised |-> FALSE] ELSE NextWindow(f[n - 1], ws[n])
Loop(ws, k, f) == f = [n \in 0 .. k |-> Round(ws, f, n)]

\* The loop has a result for every list of windows.
LEMMA LoopExists ==
    ASSUME NEW ws, NEW N \in Nat
    PROVE  \E f : Loop(ws, N, f)
<1> DEFINE T == {k \in Nat : \E f : Loop(ws, k, f)}
<1>1. 0 \in T
  <2>1. Loop(ws, 0, [n \in 0 .. 0 |-> [edges |-> edges, raised |-> FALSE]])
    BY DEF Loop, Round
  <2> QED
    BY <2>1
<1>2. ASSUME NEW k \in Nat, k \in T
      PROVE  k + 1 \in T
  <2>1. PICK f : Loop(ws, k, f)
    BY <1>2
  <2> DEFINE g == [n \in 0 .. k + 1 |-> IF n = k + 1 THEN NextWindow(f[k], ws[k + 1]) ELSE f[n]]
  <2>2. /\ g[k + 1] = NextWindow(f[k], ws[k + 1])
        /\ \A n \in 0 .. k : g[n] = f[n]
        /\ g = [n \in 0 .. k + 1 |-> g[n]]
    OBVIOUS
  <2> HIDE DEF g
  <2>3. \A n \in 0 .. k : f[n] = Round(ws, f, n)
    BY <2>1 DEF Loop
  <2>4. ASSUME NEW n \in 0 .. k + 1
        PROVE  g[n] = Round(ws, g, n)
    <3>1. CASE n = k + 1
      <4>1. n - 1 = k /\ n # 0 /\ k \in 0 .. k
        BY <3>1
      <4>2. g[n] = NextWindow(g[n - 1], ws[n])
        BY <2>2, <3>1, <4>1
      <4> QED
        BY <4>1, <4>2, Zenon DEF Round
    <3>2. CASE n # k + 1
      <4>1. n \in 0 .. k /\ g[n] = f[n]
        <5>1. n \in 0 .. k
          BY <3>2
        <5> QED
          BY <2>2, <5>1, Zenon
      <4>2. n # 0 => g[n - 1] = f[n - 1]
        <5>1. n # 0 => n - 1 \in 0 .. k
          BY <4>1
        <5> QED
          BY <2>2, <5>1, Zenon
      <4>3. Round(ws, g, n) = Round(ws, f, n)
        BY <4>2, Zenon DEF Round
      <4> QED
        BY <2>3, <4>1, <4>3, Zenon
    <3> QED
      BY <3>1, <3>2
  <2>5. Loop(ws, k + 1, g)
    BY <2>2, <2>4 DEF Loop
  <2> QED
    BY <2>5
<1>3. 0 .. N \subseteq T
  <2> HIDE DEF T
  <2> QED
    BY <1>1, <1>2, UpToInduction
<1> QED
  BY <1>3

\* AfterWindows is the result of the last round.
LEMMA AfterWindowsLoop ==
    ASSUME NEW ws, Len(ws) \in Nat
    PROVE  \E f : Loop(ws, Len(ws), f) /\ AfterWindows(ws) = f[Len(ws)]
<1> DEFINE f == CHOOSE f : Loop(ws, Len(ws), f)
<1>1. Loop(ws, Len(ws), f)
  BY LoopExists
<1>2. AfterWindows(ws) = f[Len(ws)]
  BY DEF AfterWindows, Loop, Round
<1> QED
  BY <1>1, <1>2

\* What holds of the graph before GRAPH_INFO and is kept by every window of
\* the list holds after it: Graphs is the set of graphs it holds of.  It raises
\* at a window whose switch is homed at a session without id.
LEMMA AfterWindowsInduction ==
    ASSUME NEW ws, Len(ws) \in Nat, NEW Graphs, edges \in Graphs,
           ASSUME NEW n \in 1 .. Len(ws), NEW E \in Graphs, Usable(ws[n]),
                  None \notin {HomeId(ws[n].src), HomeId(ws[n].dst)}
           PROVE  AddWindow(E, ws[n], HomeId(ws[n].src), HomeId(ws[n].dst)) \in Graphs
    PROVE  /\ AfterWindows(ws).edges \in Graphs
           /\ \/ AfterWindows(ws).raised = FALSE
              \/ \E n \in 1 .. Len(ws) :
                    Usable(ws[n]) /\ None \in {HomeId(ws[n].src), HomeId(ws[n].dst)}
<1>1. PICK f : Loop(ws, Len(ws), f) /\ AfterWindows(ws) = f[Len(ws)]
  BY AfterWindowsLoop
<1>2. /\ f[0] = [edges |-> edges, raised |-> FALSE]
      /\ \A n \in 1 .. Len(ws) : f[n] = NextWindow(f[n - 1], ws[n])
  <2>1. \A n \in 0 .. Len(ws) : f[n] = Round(ws, f, n)
    BY <1>1 DEF Loop
  <2>2. \A n \in 1 .. Len(ws) : n \in 0 .. Len(ws) /\ n # 0
    OBVIOUS
  <2>3. 0 \in 0 .. Len(ws)
    OBVIOUS
  <2> QED
    BY <2>1, <2>2, <2>3, Zenon DEF Round
<1> DEFINE Lost == \E n \in 1 .. Len(ws) :
                       Usable(ws[n]) /\ None \in {HomeId(ws[n].src), HomeId(ws[n].dst)}
           T == {n \in 0 .. Len(ws) : /\ f[n] \in [edges : Graphs, raised : BOOLEAN]
                                      /\ f[n].raised = FALSE \/ Lost}
<1>3. 0 \in T
  <2>1. f[0] \in [edges : Graphs, raised : BOOLEAN] /\ f[0].raised = FALSE
    BY <1>2
  <2> QED
    BY <2>1
<1>4. ASSUME NEW n \in 0 .. Len(ws) - 1, n \in T
      PROVE  n + 1 \in T
  <2>1. n + 1 \in 1 .. Len(ws) /\ f[n + 1] = NextWindow(f[n], ws[n + 1])
    BY <1>2
  <2>2. f[n] \in [edges : Graphs, raised : BOOLEAN]
    BY <1>4
  <2>3. NextWindow(f[n], ws[n + 1]) \in [edges : Graphs, raised : BOOLEAN]
    BY <2>1, <2>2 DEF NextWindow
  <2>4. ASSUME ~Lost
        PROVE  NextWindow(f[n], ws[n + 1]).raised = FALSE
    <3>1. f[n].raised = FALSE
      BY <1>4, <2>4
    <3>2. Usable(ws[n + 1]) => None \notin {HomeId(ws[n + 1].src), HomeId(ws[n + 1].dst)}
      BY <2>1, <2>4
    <3> QED
      BY <2>2, <3>1, <3>2 DEF NextWindow
  <2> HIDE DEF Lost
  <2>5. f[n + 1] \in [edges : Graphs, raised : BOOLEAN] /\ (f[n + 1].raised = FALSE \/ Lost)
    BY <2>1, <2>3, <2>4, Zenon
  <2>6. n + 1 \in 0 .. Len(ws)
    BY <2>1
  <2> QED
    BY <2>5, <2>6, Zenon
<1>5. 0 .. Len(ws) \subseteq T
  <2> HIDE DEF T
  <2> QED
    BY <1>3, <1>4, UpToInduction
<1> QED
  BY <1>1, <1>5

-----------------------------------------------------------------------------
\* The graph of window links.

\* Parallel edges differ in their keys.
KeysDistinct(E) ==
    \A e, f \in E : e.from = f.from /\ e.to = f.to /\ e.key = f.key => e = f

\* EdgesPaired, of any graph.
PairedEdges(E) ==
    \A e \in E : \E f \in E :
        /\ f.from = e.to /\ f.to = e.from /\ f.key = e.key
        /\ f.left = e.right /\ f.right = e.left /\ f.link = e.link

\* The graphs that AddWindow and RemoveDatapath make of the empty one.
SoundGraphs ==
    {E \in SUBSET EdgeType :
        /\ IsFiniteSet(E)
        /\ \A e \in E : e.from # e.to
        /\ KeysDistinct(E)
        /\ PairedEdges(E)}

\* Parallel edges have finitely many keys, all of them numbers.
LEMMA KeysFinite ==
    ASSUME NEW E \in SUBSET EdgeType, IsFiniteSet(E), NEW u, NEW v
    PROVE  IsFiniteSet(Keys(E, u, v)) /\ Keys(E, u, v) \subseteq Nat
<1> DEFINE P == Parallel(E, u, v)
           f == [e \in P |-> e.key]
<1>1. IsFiniteSet(P)
  BY FS_Subset DEF Parallel
<1>2. f \in Surjection(P, Keys(E, u, v))
  BY DEF Surjection, Keys
<1>3. Keys(E, u, v) \subseteq Nat
  BY DEF Keys, Parallel, EdgeType
<1> QED
  BY <1>1, <1>2, <1>3, FS_Surjection

\* networkx finds a key for a new edge that no parallel edge has: of one more
\* number than there are keys, one is free.
LEMMA NewKeyFree ==
    ASSUME NEW E \in SUBSET EdgeType, IsFiniteSet(E), NEW u, NEW v
    PROVE  /\ NewKey(E, u, v) \in Nat /\ NewKey(E, u, v) \notin Keys(E, u, v)
           /\ NewKey(E, u, v) >= Cardinality(Keys(E, u, v))
<1> DEFINE used == Keys(E, u, v)
           c == Cardinality(used)
           free == {k \in c .. 2 * c : k \notin used}
<1>1. IsFiniteSet(used) /\ c \in Nat
  BY KeysFinite, FS_CardinalityType
<1> HIDE DEF used
<1>2. Cardinality(c .. 2 * c) = c + 1
  BY <1>1, FS_Interval
<1>3. free # {}
  <2> SUFFICES ASSUME c .. 2 * c \subseteq used
               PROVE  FALSE
    OBVIOUS
  <2>1. Cardinality(c .. 2 * c) =< Cardinality(used)
    BY <1>1, FS_Subset
  <2> QED
    BY <1>1, <1>2, <2>1
<1>4. free \in SUBSET Nat
  BY <1>1
<1>5. \E n \in free : \A k \in free : n =< k
  <2> HIDE DEF free
  <2> QED
    BY <1>3, <1>4, NatLeast
<1>6. Least(free) \in free
  <2> HIDE DEF free
  <2> QED
    BY <1>5 DEF Least
<1>7. NewKey(E, u, v) = Least(free)
  BY DEF NewKey, used
<1> QED
  BY <1>1, <1>6, <1>7 DEF used

\* The two directions have the same keys, so their new edges get the same.
LEMMA KeysBothWays ==
    ASSUME NEW E, PairedEdges(E), NEW u, NEW v
    PROVE  Keys(E, u, v) = Keys(E, v, u)
BY DEF PairedEdges, Keys, Parallel

\* Two more elements leave a set finite.
LEMMA AddTwo ==
    ASSUME NEW S, IsFiniteSet(S), NEW x, NEW y
    PROVE  IsFiniteSet(S \cup {x, y})
<1>1. IsFiniteSet((S \cup {x}) \cup {y})
  BY FS_AddElement
<1>2. S \cup {x, y} = (S \cup {x}) \cup {y}
  OBVIOUS
<1> QED
  BY <1>1, <1>2

\* A window between two controllers adds its two edges, or none.
LEMMA AddWindowSound ==
    ASSUME NEW E \in SoundGraphs, NEW w \in [src : Dpid, dst : Dpid, link : Link],
           NEW u \in LcId, NEW v \in LcId, u # v
    PROVE  AddWindow(E, w, u, v) \in SoundGraphs
<1> SUFFICES ASSUME ~Known(E, w, u, v)
             PROVE  AddWindow(E, w, u, v) \in SoundGraphs
  BY DEF AddWindow
<1> DEFINE k == NewKey(E, u, v)
           e == [from |-> u, to |-> v, key |-> k, left |-> w.src, right |-> w.dst, link |-> w.link]
           f == [from |-> v, to |-> u, key |-> k, left |-> w.dst, right |-> w.src, link |-> w.link]
           G == E \cup {e, f}
<1>1. E \in SUBSET EdgeType /\ IsFiniteSet(E) /\ KeysDistinct(E) /\ PairedEdges(E)
      /\ \A x \in E : x.from # x.to
  BY DEF SoundGraphs
<1>2. k \in Nat /\ k \notin Keys(E, u, v) /\ k \notin Keys(E, v, u)
  BY <1>1, NewKeyFree, KeysBothWays
<1>3. AddWindow(E, w, u, v) = G
  <2>1. NewKey(E, v, u) = k
    BY <1>1, KeysBothWays DEF NewKey
  <2> QED
    BY <2>1 DEF AddWindow, Edge
<1> HIDE DEF k
<1>4. G \in SUBSET EdgeType
  BY <1>1, <1>2 DEF EdgeType
<1>5. IsFiniteSet(G)
  <2> HIDE DEF e, f
  <2> QED
    BY <1>1, AddTwo
<1>6. \A x \in G : x.from # x.to
  BY <1>1
<1>7. KeysDistinct(G)
  <2>1. \A x \in E : ~(x.from = u /\ x.to = v /\ x.key = k) /\ ~(x.from = v /\ x.to = u /\ x.key = k)
    BY <1>2 DEF Keys, Parallel
  <2> QED
    BY <1>1, <2>1 DEF KeysDistinct
<1>8. PairedEdges(G)
  <2> SUFFICES ASSUME NEW x \in G
               PROVE  \E y \in G : /\ y.from = x.to /\ y.to = x.from /\ y.key = x.key
                                   /\ y.left = x.right /\ y.right = x.left /\ y.link = x.link
    BY DEF PairedEdges
  <2>1. CASE x \in E
    <3> HIDE DEF e, f
    <3> QED
      BY <1>1, <2>1 DEF PairedEdges
  <2>2. CASE x = e
    <3>1. f \in G /\ f.from = e.to /\ f.to = e.from /\ f.key = e.key
          /\ f.left = e.right /\ f.right = e.left /\ f.link = e.link
      OBVIOUS
    <3> HIDE DEF e, f, G
    <3> QED
      BY <2>2, <3>1
  <2>3. CASE x = f
    <3>1. e \in G /\ e.from = f.to /\ e.to = f.from /\ e.key = f.key
          /\ e.left = f.right /\ e.right = f.left /\ e.link = f.link
      OBVIOUS
    <3> HIDE DEF e, f, G
    <3> QED
      BY <2>3, <3>1
  <2> QED
    BY <2>1, <2>2, <2>3
<1> QED
  BY <1>3, <1>4, <1>5, <1>6, <1>7, <1>8 DEF SoundGraphs

\* When a switch goes, the two directions lose the same links.
LEMMA RemoveDatapathSound ==
    ASSUME NEW E \in SoundGraphs, NEW d, NEW G \in RemoveDatapath(E, d)
    PROVE  G \in SoundGraphs
<1>1. E \in SUBSET EdgeType /\ IsFiniteSet(E) /\ KeysDistinct(E) /\ PairedEdges(E)
      /\ \A x \in E : x.from # x.to
  BY DEF SoundGraphs
<1>2. PICK P \in Popped(E, d) : G = E \ P
  BY DEF RemoveDatapath
<1>3. IsFiniteSet(G)
  BY <1>1, <1>2, FS_Subset
<1>4. KeysDistinct(G)
  BY <1>1, <1>2 DEF KeysDistinct
<1>5. PairedEdges(G)
  <2> SUFFICES ASSUME NEW e \in E, e \notin P, NEW f \in E, f \in P,
                      f.from = e.to, f.to = e.from, f.key = e.key
               PROVE  FALSE
    BY <1>1, <1>2 DEF PairedEdges
  <2>1. P \subseteq E /\ f.key \in Keys(P, f.to, f.from)
    BY DEF Popped
  <2>2. PICK g \in P : g.from = f.to /\ g.to = f.from /\ g.key = f.key
    BY <2>1 DEF Keys, Parallel
  <2>3. g = e
    BY <1>1, <2>1, <2>2 DEF KeysDistinct
  <2> QED
    BY <2>2, <2>3
<1> QED
  BY <1>1, <1>2, <1>3, <1>4, <1>5 DEF SoundGraphs

\* The graph is sound, and a registered switch has a home.
GraphInv ==
    /\ edges \in SoundGraphs
    /\ \A d \in datapath_list : lc_home[d] \in Session

\* The empty graph is sound.
LEMMA InitGraphInv == Init => GraphInv
<1> SUFFICES ASSUME Init
             PROVE  edges = {} /\ datapath_list = {}
  BY FS_EmptySet DEF GraphInv, SoundGraphs, KeysDistinct, PairedEdges
<1> QED
  BY DEF Init

\* An element of a sequence.
LEMMA SeqElement ==
    ASSUME NEW S, NEW q \in Seq(S), NEW n \in 1 .. Len(q)
    PROVE  q[n] \in S
OBVIOUS

\* GRAPH_INFO adds windows between different controllers only, and raises at a
\* home without id.
LEMMA AfterWindowsSound ==
    ASSUME TablesTypeOK, GraphInv, NEW ws \in WindowLists
    PROVE  /\ AfterWindows(ws).edges \in SoundGraphs
           /\ \/ AfterWindows(ws).raised = FALSE
              \/ \E n \in 1 .. Len(ws) :
                    Usable(ws[n]) /\ None \in {HomeId(ws[n].src), HomeId(ws[n].dst)}
<1>1. ws \in Seq([src : Dpid, dst : Dpid, link : Link])
  BY ConstantsAssumption
<1>2. ASSUME NEW n \in 1 .. Len(ws), NEW E \in SoundGraphs, Usable(ws[n]),
             None \notin {HomeId(ws[n].src), HomeId(ws[n].dst)}
      PROVE  AddWindow(E, ws[n], HomeId(ws[n].src), HomeId(ws[n].dst)) \in SoundGraphs
  <2>1. ws[n] \in [src : Dpid, dst : Dpid, link : Link]
    BY <1>1, SeqElement, Zenon
  <2>2. HomeId(ws[n].src) \in LcId /\ HomeId(ws[n].dst) \in LcId
    BY <1>2 DEF Usable, HomeId, GraphInv, TablesTypeOK, SessionsTypeOK, None, LcId
  <2> QED
    BY <1>2, <2>1, <2>2, AddWindowSound DEF Usable
<1>3. Len(ws) \in Nat /\ edges \in SoundGraphs
  BY <1>1 DEF GraphInv
<1> QED
  BY <1>2, <1>3, AfterWindowsInduction

\* Only GRAPH_INFO and DATAPATH_LEAVE change the graph.
LEMMA NextGraphInv == TablesTypeOK /\ GraphInv /\ [Next]_vars => GraphInv'
<1> SUFFICES ASSUME TablesTypeOK, GraphInv, [Next]_vars
             PROVE  GraphInv'
  OBVIOUS
<1>1. ASSUME NEW s \in Session, NEW d \in Dpid, DatapathConnected(s, d)
      PROVE  GraphInv'
  BY <1>1 DEF DatapathConnected, GraphInv, TablesTypeOK, DatapathsTypeOK
<1>2. ASSUME NEW s \in Session, NEW d \in Dpid, DatapathLeave(s, d)
      PROVE  GraphInv'
  <2>1. edges' \in SoundGraphs
    BY <1>2, RemoveDatapathSound DEF DatapathLeave, GraphInv
  <2>2. \A c \in datapath_list' : lc_home'[c] \in Session
    BY <1>2 DEF DatapathLeave, GraphInv, TablesTypeOK, DatapathsTypeOK
  <2> QED
    BY <2>1, <2>2 DEF GraphInv
<1>3. ASSUME NEW s \in Session, NEW ws \in WindowLists, GraphInfo(s, ws)
      PROVE  GraphInv'
  BY <1>3, AfterWindowsSound DEF GraphInfo, GraphInv, dpVars
<1>4. ASSUME UNCHANGED <<edges, datapath_list, lc_home>>
      PROVE  GraphInv'
  BY <1>4 DEF GraphInv
<1>5. ASSUME NEW s \in Session, SessionStep(s)
      PROVE  UNCHANGED <<edges, datapath_list, lc_home>>
  BY <1>5 DEF SessionStep, Connect, Drop, HelloUp, dpVars
<1>6. ASSUME NEW s \in Session, NEW d \in Dpid,
             DatapathConnectedRaises(s, d) \/ DatapathLeaveRaises(s, d) \/ LoadReport(s, d)
      PROVE  UNCHANGED <<edges, datapath_list, lc_home>>
  BY <1>6 DEF DatapathConnectedRaises, DatapathLeaveRaises, LoadReport, dpVars
<1>7. ASSUME NEW s \in Session, NEW d \in Dpid, NEW m \in Mac, HostStep(s, d, m)
      PROVE  UNCHANGED <<edges, datapath_list, lc_home>>
  BY <1>7 DEF HostStep, HostConnected, HostLeave
<1>8. ASSUME NEW s \in Session, HopOf(s)
      PROVE  UNCHANGED <<edges, datapath_list, lc_home>>
  BY <1>8 DEF HopOf, Hop, dpVars
<1>9. CASE Next
  BY <1>1, <1>2, <1>3, <1>4, <1>5, <1>6, <1>7, <1>8, <1>9, HopSteps DEF Next, DatapathStep
<1>10. CASE UNCHANGED vars
  BY <1>4, <1>10 DEF vars, dpVars
<1> QED
  BY <1>9, <1>10

\* The graph is sound whatever is sent and whoever comes and goes.
LEMMA GraphCorrect == Spec => []GraphInv
BY InitGraphInv, NextGraphInv, TablesCorrect, PTL DEF Spec

\* The two directions of a window link come and go together, under one key, for
\* any number of parallel links and whichever of them remove_edge pops.
THEOREM EdgesPairedCorrect == Spec => []EdgesPaired
<1>1. GraphInv => EdgesPaired
  BY DEF GraphInv, SoundGraphs, PairedEdges, EdgesPaired
<1> QED
  BY <1>1, GraphCorrect, PTL

-----------------------------------------------------------------------------
\* The paths of the PACKET_IN handlers.

\* A path goes from node to node along edges, from the one end to the other.
LEMMA PathIsPath ==
    ASSUME NEW E, NEW N, IsFiniteSet(N), NEW a, NEW b, NEW p \in ShortestPaths(E, N, a, b)
    PROVE  /\ p \in Seq(N) /\ Len(p) \in Nat \ {0}
           /\ p[1] = a /\ p[Len(p)] = b
           /\ IsPath(E, p)
<1>1. PICK n \in 1 .. Cardinality(N) : p \in PathsOfLength(E, N, a, b, n)
  BY DEF ShortestPaths
<1>2. n \in Nat \ {0} /\ p \in [1 .. n -> N] /\ p[1] = a /\ p[n] = b /\ IsPath(E, p)
  BY <1>1, FS_CardinalityType DEF PathsOfLength
<1>3. p \in Seq(N) /\ Len(p) = n
  BY <1>2
<1> QED
  BY <1>2, <1>3

\* The edge out of a hop is one of those to the next, and the one with key 0
\* if there is one.
LEMMA OutEdgeIsEdge ==
    ASSUME NEW E \in SUBSET EdgeType, NEW u, NEW v, Parallel(E, u, v) # {}
    PROVE  /\ OutEdge(E, u, v) \in Parallel(E, u, v)
           /\ 0 \in Keys(E, u, v) => OutEdge(E, u, v).key = 0
<1> DEFINE K == Keys(E, u, v)
<1>1. K \in SUBSET Nat /\ K # {}
  BY DEF Keys, Parallel, EdgeType
<1>2. Least(K) \in K /\ \A k \in K : Least(K) =< k
  <2> HIDE DEF K
  <2> QED
    BY <1>1, NatLeast DEF Least
<1>3. \E e \in Parallel(E, u, v) : e.key = Least(K)
  BY <1>2 DEF Keys
<1>4. OutEdge(E, u, v) \in Parallel(E, u, v) /\ OutEdge(E, u, v).key = Least(K)
  BY <1>3 DEF OutEdge
<1>5. 0 \in K => Least(K) = 0
  <2> HIDE DEF K
  <2>1. Least(K) \in Nat
    BY <1>1, <1>2
  <2>2. 0 \in K => Least(K) =< 0
    BY <1>2
  <2> QED
    BY <2>1, <2>2
<1> QED
  BY <1>4, <1>5

\* The edge into a hop is the one with key 0.
LEMMA InEdgeIsEdge ==
    ASSUME NEW E, NEW p, NEW i, HasInEdge(E, p, i)
    PROVE  InEdge(E, p, i) \in Parallel(E, Before(p, i), p[i]) /\ InEdge(E, p, i).key = 0
<1>1. \E e \in Parallel(E, Before(p, i), p[i]) : e.key = 0
  BY DEF HasInEdge, Keys
<1> QED
  BY <1>1 DEF InEdge

\* Where the handler of a PACKET_IN may be: a hop is left, and as long as no
\* edge has gone the path is one of the graph.
HopType ==
    [path : Seq(LcId), node_index : Nat \ {0}, src_lcid : 0 .. MaxLcId, in_dpid : Dpid,
     dst_mac : Mac, out : EdgeType \cup {NoEntry}, cut : BOOLEAN]

AtHop(r) == r \in HopType /\ r.node_index < Len(r.path)

\* The first hop of a PACKET_IN is that of its sender.
LEMMA PacketInHop ==
    ASSUME TablesTypeOK, NEW s \in Session, NEW d \in Dpid, NEW src \in Mac, NEW dst \in Mac,
           PacketIn(s, d, src, dst)
    PROVE  \E r : /\ Hop(s, r) /\ Receives(s)
                  /\ AtHop(r) /\ IsPath(edges, r.path)
                  /\ r.node_index = 1 /\ r.path[1] = id[s] /\ r.src_lcid = host_to_lcid[src]
                  /\ ~r.cut
<1>1. PICK p \in ShortestPaths(edges, Nodes, id[s], host_to_lcid[dst]) :
         Hop(s, NewRoute(p, d, src, dst))
  BY DEF PacketIn
<1>2. /\ Receives(s)
      /\ src \in KnownHosts /\ dst \in KnownHosts /\ id[s] # host_to_lcid[dst]
  BY DEF PacketIn
<1>3. IsFiniteSet(Nodes) /\ Nodes \in SUBSET LcId
  <2>1. IsFiniteSet(LcId) /\ Nodes \in SUBSET LcId
    BY ConstantsAssumption, FS_Interval DEF LcId, Nodes
  <2> QED
    BY <2>1, FS_Subset
<1>4. /\ p \in Seq(Nodes) /\ Len(p) \in Nat \ {0} /\ p[1] = id[s] /\ p[Len(p)] = host_to_lcid[dst]
      /\ IsPath(edges, p)
  BY <1>3, PathIsPath
<1>5. p \in Seq(LcId) /\ 1 < Len(p)
  BY <1>2, <1>3, <1>4
<1>6. host_to_lcid[src] \in 0 .. MaxLcId
  BY <1>2 DEF TablesTypeOK, HostsTypeOK, KnownHosts
<1> DEFINE r == NewRoute(p, d, src, dst)
<1>7. /\ r.path = p /\ r.node_index = 1 /\ r.src_lcid = host_to_lcid[src] /\ ~r.cut
      /\ r \in HopType
  BY <1>5, <1>6 DEF NewRoute, HopType
<1>8. Hop(s, r)
  BY <1>1
<1> HIDE DEF r
<1> QED
  BY <1>2, <1>4, <1>5, <1>7, <1>8 DEF AtHop

\* A hop that does not raise leaves by an edge of the graph, and enters at a
\* switch.
LEMMA HopEdge ==
    ASSUME edges \in SUBSET EdgeType, NEW r, ~HopRaises(r)
    PROVE  /\ NextEdge(r) \in edges /\ NextEdge(r) \in EdgeType
           /\ NextEdge(r).from = r.path[r.node_index]
           /\ NextEdge(r).to = r.path[r.node_index + 1]
           /\ 0 \in Keys(edges, NextEdge(r).from, NextEdge(r).to) => NextEdge(r).key = 0
           /\ r.in_dpid \in Dpid => InDpid(r) \in Dpid
<1> DEFINE u == r.path[r.node_index]
           v == r.path[r.node_index + 1]
<1>1. Parallel(edges, u, v) # {}
  BY DEF HopRaises
<1>2. /\ NextEdge(r) \in Parallel(edges, u, v)
      /\ 0 \in Keys(edges, u, v) => NextEdge(r).key = 0
  BY <1>1, OutEdgeIsEdge DEF NextEdge
<1>3. /\ NextEdge(r) \in edges /\ NextEdge(r) \in EdgeType
      /\ NextEdge(r).from = u /\ NextEdge(r).to = v
  BY <1>2 DEF Parallel
<1>4. ASSUME r.in_dpid \in Dpid, u # r.src_lcid
      PROVE  InDpid(r) \in Dpid
  <2>1. HasInEdge(edges, r.path, r.node_index)
    BY <1>4 DEF HopRaises
  <2>2. InEdge(edges, r.path, r.node_index) \in EdgeType
    BY <2>1, InEdgeIsEdge DEF Parallel
  <2>3. InEdge(edges, r.path, r.node_index).right \in Dpid
    BY <2>2 DEF EdgeType
  <2> QED
    BY <1>4, <2>3 DEF InDpid
<1>5. r.in_dpid \in Dpid => InDpid(r) \in Dpid
  BY <1>4 DEF InDpid
<1> QED
  BY <1>2, <1>3, <1>5

\* The route after a hop, unless the path is done.
LEMMA HopRoute ==
    ASSUME TablesTypeOK, edges \in SUBSET EdgeType, NEW s \in Session, NEW r, AtHop(r), Hop(s, r),
           RoutesTypeOK, route'[s] # NoEntry
    PROVE  /\ ~HopRaises(r)
           /\ route'[s] = [r EXCEPT !.node_index = @ + 1, !.in_dpid = InDpid(r), !.out = NextEdge(r)]
           /\ route'[s] \in RouteType
           /\ route'[s].node_index < Len(route'[s].path)
<1>1. route'[s] = IF HopRaises(r) THEN NoEntry ELSE NextRoute(r)
  BY DEF Hop, RoutesTypeOK
<1>2. ~HopRaises(r) /\ r.node_index + 1 # Len(r.path)
  BY <1>1 DEF NextRoute
<1>3. route'[s] = [r EXCEPT !.node_index = @ + 1, !.in_dpid = InDpid(r), !.out = NextEdge(r)]
  BY <1>1, <1>2 DEF NextRoute
<1>4. NextEdge(r) \in EdgeType /\ InDpid(r) \in Dpid
  BY <1>2, HopEdge DEF AtHop, HopType
<1>5. r.node_index \in Nat \ {0} /\ r.node_index < Len(r.path) /\ Len(r.path) \in Nat
  BY DEF AtHop, HopType
<1>6. r.node_index + 1 \in Nat \ {0, 1} /\ r.node_index + 1 < Len(r.path)
  BY <1>2, <1>5
<1>7. route'[s] \in RouteType
  BY <1>3, <1>4, <1>6 DEF RouteType, AtHop, HopType
<1>8. route'[s].node_index = r.node_index + 1 /\ route'[s].path = r.path
  BY <1>3 DEF AtHop, HopType
<1> QED
  BY <1>2, <1>3, <1>6, <1>7, <1>8

\* A handler that waits is at a hop.
LEMMA HeldAtHop ==
    ASSUME RoutesTypeOK, NEW s \in Session, Held(s)
    PROVE  route[s] \in RouteType /\ AtHop(route[s])
BY DEF RoutesTypeOK, Held, AtHop, RouteType, HopType

\* Every hop is that of a PACKET_IN just received or of a handler that waited.
LEMMA HopIsAtHop ==
    ASSUME TablesTypeOK, RoutesTypeOK, NEW s \in Session,
           NextHop(s) \/ \E d \in Dpid, src, dst \in Mac : PacketIn(s, d, src, dst)
    PROVE  \E r : Hop(s, r) /\ AtHop(r)
BY PacketInHop, HeldAtHop DEF NextHop

\* The routes of the other handlers.
LEMMA RoutesFrame ==
    ASSUME [Next]_vars
    PROVE  \/ route' = route
           \/ NoteCut
           \/ \E s \in Session :
                 NextHop(s) \/ \E d \in Dpid, src, dst \in Mac : PacketIn(s, d, src, dst)
<1>1. ASSUME NEW s \in Session, SessionStep(s)
      PROVE  route' = route
  BY <1>1 DEF SessionStep, Connect, Drop, HelloUp
<1>2. ASSUME NEW s \in Session, NEW d \in Dpid, DatapathStep(s, d)
      PROVE  route' = route \/ NoteCut
  BY <1>2 DEF DatapathStep, DatapathConnected, DatapathConnectedRaises, DatapathLeave,
              DatapathLeaveRaises, LoadReport
<1>3. ASSUME NEW s \in Session, NEW d \in Dpid, NEW m \in Mac, HostStep(s, d, m)
      PROVE  route' = route
  BY <1>3 DEF HostStep, HostConnected, HostLeave
<1>4. ASSUME NEW s \in Session, NEW ws \in WindowLists, GraphInfo(s, ws)
      PROVE  route' = route
  BY <1>4 DEF GraphInfo
<1>5. CASE Next
  BY <1>1, <1>2, <1>3, <1>4, <1>5, Zenon DEF Next
<1>6. CASE UNCHANGED vars
  BY <1>6 DEF vars
<1> QED
  BY <1>5, <1>6

\* A handler that waits has a hop to go, wherever it was held up.
LEMMA NextRoutesTypeOK ==
    ASSUME TablesTypeOK, GraphInv, RoutesTypeOK, [Next]_vars
    PROVE  RoutesTypeOK'
<1>1. CASE route' = route
  BY <1>1 DEF RoutesTypeOK, Held
<1>2. CASE NoteCut
  <2>1. ASSUME NEW s \in Session, route[s] # NoEntry
        PROVE  /\ [route[s] EXCEPT !.cut = TRUE] \in RouteType
               /\ [route[s] EXCEPT !.cut = TRUE].node_index = route[s].node_index
               /\ [route[s] EXCEPT !.cut = TRUE].path = route[s].path
    BY <2>1 DEF RoutesTypeOK, RouteType
  <2> QED
    BY <1>2, <2>1 DEF RoutesTypeOK, NoteCut, Held
<1>3. ASSUME NEW s \in Session,
             NextHop(s) \/ \E d \in Dpid, src, dst \in Mac : PacketIn(s, d, src, dst)
      PROVE  RoutesTypeOK'
  <2>1. PICK r : Hop(s, r) /\ AtHop(r)
    BY <1>3, HopIsAtHop
  <2>2. edges \in SUBSET EdgeType
    BY DEF GraphInv, SoundGraphs
  <2>3. route'[s] # NoEntry => route'[s] \in RouteType /\ route'[s].node_index < Len(route'[s].path)
    BY <2>1, <2>2, HopRoute
  <2>4. /\ \A t \in Session : t # s => route'[t] = route[t]
        /\ \E x : route' = [route EXCEPT ![s] = x]
    BY <2>1 DEF Hop, RoutesTypeOK
  <2> QED
    BY <2>3, <2>4 DEF RoutesTypeOK, Held
<1> QED
  BY <1>1, <1>2, <1>3, RoutesFrame

\* Every table of the central controller holds values of its kind, ids stay in
\* 1 .. MaxLcId, and a handler that waits has a hop of its path to go, whatever
\* the local controllers send.
THEOREM TypeCorrect == Spec => []TypeOK
<1>1. Init => RoutesTypeOK
  BY DEF Init, RoutesTypeOK, Held
<1>2. TypeOK <=> TablesTypeOK /\ RoutesTypeOK
  BY DEF TypeOK
<1>3. TablesTypeOK /\ GraphInv /\ RoutesTypeOK /\ [Next]_vars => RoutesTypeOK'
  BY NextRoutesTypeOK
<1> QED
  BY <1>1, <1>2, <1>3, TablesCorrect, GraphCorrect, PTL DEF Spec

-----------------------------------------------------------------------------
\* Where the links end.

\* An address is that of the controllers of one domain only.
AddressesAtHome ==
    \A s, t \in Session : AddressOf[s] = AddressOf[t] => DomainOf[s] = DomainOf[t]

\* An edge comes from a window, and joins the ids of sessions that its two
\* switches may be pointed at.
HomeEdge(e) ==
    /\ \E w \in Windows : {w.src, w.dst} = {e.left, e.right}
    /\ \E s \in Session : id[s] = e.from /\ DomainOf[s] \in SwitchDomains[e.left]
    /\ \E t \in Session : id[t] = e.to /\ DomainOf[t] \in SwitchDomains[e.right]

\* An edge of the graph goes with its switches, if no other link is beside it.
EdgeAtHome(e) ==
    /\ HomeEdge(e)
    /\ SoleLink(e.left, e.right) => {e.left, e.right} \subseteq datapath_list

\* A link with no other beside it has the key 0, or another edge has.
SoleKeyed(E) == \A e \in E : SoleLink(e.left, e.right) => 0 \in Keys(E, e.from, e.to)

\* The strengthening of LinkEndsRegistered: the home of a switch is a session
\* that it may be pointed at, with an id unless it announced the switch early,
\* and an id leads to a session that has it.
LinkInv ==
    /\ \A d \in datapath_list : /\ DomainOf[lc_home[d]] \in SwitchDomains[d]
                                /\ HomeId(d) = None => lc_home[d] \in EarlySessions
    /\ \A e \in edges : EdgeAtHome(e)
    /\ SoleKeyed(edges)
    /\ \A i \in Nodes : local_ctrl_list[i] \in Session /\ id[local_ctrl_list[i]] = i

\* Sessions with the same id are of the same domain.
LEMMA IdOfDomain ==
    ASSUME AddressesAtHome, IdsInv, NEW s \in Session, NEW t \in Session,
           id[s] # None, id[s] = id[t]
    PROVE  DomainOf[s] = DomainOf[t]
<1>1. AddressOf[s] \in Address /\ AddressOf[t] \in Address
  BY ConstantsAssumption
<1>2. /\ lcip_to_lcid[AddressOf[s]] = id[s]
      /\ lcip_to_lcid[AddressOf[t]] = id[s]
  BY DEF IdsInv, IdOfAddress
<1>3. AddressOf[s] = AddressOf[t]
  BY <1>1, <1>2 DEF IdsInv, IdsDistinct, Greeted
<1> QED
  BY <1>3 DEF AddressesAtHome

\* Whatever edge lies beside that of a link with no other beside it is of the
\* same two switches, and if these are never of one domain, the same way round.
LEMMA SameLink ==
    ASSUME AddressesAtHome, IdsInv, NEW e \in EdgeType, NEW x \in EdgeType,
           HomeEdge(e), HomeEdge(x), x.from = e.from, x.to = e.to, SoleLink(e.left, e.right)
    PROVE  /\ {x.left, x.right} = {e.left, e.right}
           /\ ~Overlap(e.left, e.right) => x.right = e.right
<1>1. e.from # None /\ e.to # None
  BY DEF EdgeType, LcId, None
<1>2. Overlap(x.left, e.left)
  <2>1. PICK s \in Session : id[s] = e.from /\ DomainOf[s] \in SwitchDomains[e.left]
    BY DEF HomeEdge
  <2>2. PICK t \in Session : id[t] = e.from /\ DomainOf[t] \in SwitchDomains[x.left]
    BY DEF HomeEdge
  <2>3. DomainOf[s] = DomainOf[t]
    BY <1>1, <2>1, <2>2, IdOfDomain
  <2> QED
    BY <2>1, <2>2, <2>3 DEF Overlap
<1>3. Overlap(x.right, e.right)
  <2>1. PICK s \in Session : id[s] = e.to /\ DomainOf[s] \in SwitchDomains[e.right]
    BY DEF HomeEdge
  <2>2. PICK t \in Session : id[t] = e.to /\ DomainOf[t] \in SwitchDomains[x.right]
    BY DEF HomeEdge
  <2>3. DomainOf[s] = DomainOf[t]
    BY <1>1, <2>1, <2>2, IdOfDomain
  <2> QED
    BY <2>1, <2>2, <2>3 DEF Overlap
<1>4. PICK w \in Windows : {w.src, w.dst} = {x.left, x.right}
  BY DEF HomeEdge
<1>5. \/ w.src = x.left /\ w.dst = x.right
      \/ w.src = x.right /\ w.dst = x.left
  BY <1>4
<1>6. {w.src, w.dst} = {e.left, e.right}
  BY <1>2, <1>3, <1>5 DEF SoleLink
<1>7. ASSUME ~Overlap(e.left, e.right) PROVE x.right # e.left
  BY <1>3, <1>7 DEF Overlap
<1> QED
  BY <1>4, <1>6, <1>7

\* A link that has no other beside it goes with its switch: all the edges
\* between the two controllers are its own, so whichever edges remove_edge
\* pops, it pops these, and none when another switch goes.
LEMMA SoleLinkGoes ==
    ASSUME AddressesAtHome, IdsInv, GraphInv, LinkInv,
           NEW d \in Dpid, NEW P \in Popped(edges, d), NEW e \in edges, SoleLink(e.left, e.right)
    PROVE  IF d \in {e.left, e.right} THEN e \in P
           ELSE P \cap Parallel(edges, e.from, e.to) = {}
<1> DEFINE par == Parallel(edges, e.from, e.to)
<1>1. edges \in SUBSET EdgeType /\ IsFiniteSet(edges)
  BY DEF GraphInv, SoundGraphs
<1>2. ASSUME NEW x \in par
      PROVE  {x.left, x.right} = {e.left, e.right}
  <2>1. x \in edges /\ x.from = e.from /\ x.to = e.to /\ x \in EdgeType /\ e \in EdgeType
    BY <1>1 DEF Parallel
  <2>2. HomeEdge(x) /\ HomeEdge(e)
    BY <2>1 DEF LinkInv, EdgeAtHome
  <2> QED
    BY <2>1, <2>2, SameLink
<1>3. IsFiniteSet(par) /\ IsFiniteSet(P \cap par)
  BY <1>1, FS_Subset DEF Parallel
<1>4. Cardinality(P \cap par) = Cardinality(Touching(edges, e.from, e.to, d))
  BY DEF Popped
<1>5. CASE d \in {e.left, e.right}
  <2>1. Touching(edges, e.from, e.to, d) = par
    BY <1>2, <1>5 DEF Touching
  <2>2. P \cap par = par
    BY <1>3, <1>4, <2>1, FS_Subset
  <2> QED
    BY <1>5, <2>2 DEF Parallel
<1>6. CASE d \notin {e.left, e.right}
  <2>1. Touching(edges, e.from, e.to, d) = {}
    BY <1>2, <1>6 DEF Touching
  <2>2. P \cap par = {}
    BY <1>3, <1>4, <2>1, FS_EmptySet
  <2> QED
    BY <1>6, <2>2
<1> QED
  BY <1>5, <1>6

\* The first edge between two controllers has the key 0, and no other has.
LEMMA FirstKey ==
    ASSUME NEW E \in SUBSET EdgeType, IsFiniteSet(E), NEW u, NEW v
    PROVE  NewKey(E, u, v) = 0 <=> Parallel(E, u, v) = {}
<1> DEFINE used == Keys(E, u, v)
           c == Cardinality(used)
<1>1. IsFiniteSet(used) /\ c \in Nat
  BY KeysFinite, FS_CardinalityType
<1>2. NewKey(E, u, v) \in Nat /\ NewKey(E, u, v) >= c
  BY NewKeyFree
<1>3. used = {} <=> Parallel(E, u, v) = {}
  BY DEF Keys
<1> HIDE DEF used
<1>4. ASSUME used # {} PROVE c # 0
  BY <1>1, <1>4, FS_EmptySet
<1>5. ASSUME used = {} PROVE NewKey(E, u, v) = 0
  <2>1. c = 0
    BY <1>5, FS_EmptySet
  <2>2. {k \in c .. 2 * c : k \notin used} = {0}
    BY <1>5, <2>1
  <2>3. NewKey(E, u, v) = Least({0})
    BY <2>2 DEF NewKey, used
  <2> QED
    BY <2>3 DEF Least
<1> QED
  BY <1>1, <1>2, <1>3, <1>4, <1>5

\* A window adds edges only, and one with key 0 only where there is none: then
\* in both directions.
LEMMA AddWindowKeys ==
    ASSUME NEW E \in SoundGraphs, NEW w, NEW u, NEW v, NEW G, G = AddWindow(E, w, u, v)
    PROVE  /\ E \subseteq G
           /\ \A a, b : 0 \in Keys(G, a, b) /\ Parallel(E, a, b) # {} => 0 \in Keys(E, a, b)
           /\ G # E /\ Parallel(E, u, v) = {} => 0 \in Keys(G, u, v) /\ 0 \in Keys(G, v, u)
<1>1. CASE Known(E, w, u, v)
  BY <1>1 DEF AddWindow
<1>2. CASE ~Known(E, w, u, v)
  <2>1. E \in SUBSET EdgeType /\ IsFiniteSet(E) /\ PairedEdges(E)
    BY DEF SoundGraphs
  <2> DEFINE e == Edge(E, u, v, w.src, w.dst, w.link)
             f == Edge(E, v, u, w.dst, w.src, w.link)
  <2>2. /\ e.from = u /\ e.to = v /\ f.from = v /\ f.to = u
        /\ e.key = 0 <=> Parallel(E, u, v) = {}
        /\ f.key = 0 <=> Parallel(E, v, u) = {}
    BY <2>1, FirstKey DEF Edge
  <2>3. Parallel(E, u, v) = {} <=> Parallel(E, v, u) = {}
    BY <2>1 DEF PairedEdges, Parallel
  <2>4. G = E \cup {e, f}
    BY <1>2 DEF AddWindow
  <2> HIDE DEF e, f
  <2>5. ASSUME NEW a, NEW b, 0 \in Keys(G, a, b), Parallel(E, a, b) # {}
        PROVE  0 \in Keys(E, a, b)
    <3>1. PICK x \in G : x.from = a /\ x.to = b /\ x.key = 0
      BY <2>5 DEF Keys, Parallel
    <3>2. x \in E
      BY <2>2, <2>4, <2>5, <3>1
    <3> QED
      BY <3>1, <3>2 DEF Keys, Parallel
  <2>6. ASSUME Parallel(E, u, v) = {}
        PROVE  0 \in Keys(G, u, v) /\ 0 \in Keys(G, v, u)
    BY <2>2, <2>3, <2>4, <2>6 DEF Keys, Parallel
  <2> QED
    BY <2>4, <2>5, <2>6
<1> QED
  BY <1>1, <1>2

\* More edges, more keys.
LEMMA KeysGrow ==
    ASSUME NEW E, NEW G, E \subseteq G, NEW a, NEW b
    PROVE  Keys(E, a, b) \subseteq Keys(G, a, b)
BY DEF Keys, Parallel

\* A window keeps the edges at home, and a sole link keyed.
LEMMA AddWindowAtHome ==
    ASSUME AddressesAtHome, IdsInv, NEW E \in SoundGraphs,
           \A e \in E : EdgeAtHome(e), SoleKeyed(E),
           NEW w \in [src : Dpid, dst : Dpid, link : Link], w \in Windows,
           NEW u \in LcId, NEW v \in LcId, u # v,
           w.src \in datapath_list, w.dst \in datapath_list,
           \E t \in Session : id[t] = u /\ DomainOf[t] \in SwitchDomains[w.src],
           \E t \in Session : id[t] = v /\ DomainOf[t] \in SwitchDomains[w.dst]
    PROVE  LET G == AddWindow(E, w, u, v)
           IN  G \in SoundGraphs /\ (\A e \in G : EdgeAtHome(e)) /\ SoleKeyed(G)
<1> DEFINE G == AddWindow(E, w, u, v)
<1>1. G \in SoundGraphs
  BY AddWindowSound
<1>2. G \in SUBSET EdgeType /\ E \in SUBSET EdgeType
  BY <1>1 DEF SoundGraphs
<1>3. ASSUME NEW x \in G, x \notin E
      PROVE  /\ \/ x.from = u /\ x.to = v /\ x.left = w.src /\ x.right = w.dst
                \/ x.from = v /\ x.to = u /\ x.left = w.dst /\ x.right = w.src
             /\ EdgeAtHome(x)
  <2>1. \/ x = Edge(E, u, v, w.src, w.dst, w.link)
        \/ x = Edge(E, v, u, w.dst, w.src, w.link)
    BY <1>3 DEF AddWindow
  <2>2. \/ x.from = u /\ x.to = v /\ x.left = w.src /\ x.right = w.dst
        \/ x.from = v /\ x.to = u /\ x.left = w.dst /\ x.right = w.src
    BY <2>1 DEF Edge
  <2> QED
    BY <2>2 DEF EdgeAtHome, HomeEdge
<1>4. \A x \in G : EdgeAtHome(x)
  BY <1>3
<1>5. /\ E \subseteq G
      /\ G # E /\ Parallel(E, u, v) = {} => 0 \in Keys(G, u, v) /\ 0 \in Keys(G, v, u)
  BY AddWindowKeys
<1> HIDE DEF G
<1>6. ASSUME NEW e \in G, SoleLink(e.left, e.right)
      PROVE  0 \in Keys(G, e.from, e.to)
  <2>1. CASE e \in E
    BY <1>5, <1>6, <2>1, KeysGrow DEF SoleKeyed
  <2>2. CASE e \notin E /\ Parallel(E, u, v) = {}
    BY <1>3, <1>5, <2>2
  <2>3. CASE e \notin E /\ Parallel(E, u, v) # {}
    <3>1. Parallel(E, e.from, e.to) # {}
      <4>1. PairedEdges(E)
        BY DEF SoundGraphs
      <4> QED
        BY <1>3, <2>3, <4>1 DEF PairedEdges, Parallel
    <3>2. PICK x \in E : x.from = e.from /\ x.to = e.to
      BY <3>1 DEF Parallel
    <3>3. HomeEdge(e) /\ HomeEdge(x) /\ e \in EdgeType /\ x \in EdgeType
      BY <1>2, <1>4, <1>5, <3>2 DEF EdgeAtHome
    <3>4. {x.left, x.right} = {e.left, e.right}
      BY <1>6, <3>2, <3>3, SameLink
    <3>5. SoleLink(x.left, x.right)
      <4>1. \/ x.left = e.left /\ x.right = e.right
            \/ x.left = e.right /\ x.right = e.left
        BY <3>4
      <4> QED
        BY <1>6, <4>1 DEF SoleLink
    <3>6. 0 \in Keys(E, x.from, x.to)
      BY <3>5 DEF SoleKeyed
    <3> QED
      BY <1>5, <3>2, <3>6, KeysGrow
  <2> QED
    BY <2>1, <2>2, <2>3
<1> QED
  BY <1>1, <1>4, <1>6 DEF G, SoleKeyed

\* No link at first.
LEMMA InitLinkInv == Init => LinkInv
BY DEF Init, LinkInv, Nodes, SoleKeyed

\* A step that leaves the switches and the graph, and keeps the ids.
LEMMA LinkFrame ==
    ASSUME LinkInv, UNCHANGED <<datapath_list, lc_home, edges, id, local_ctrl_list>>
    PROVE  LinkInv'
BY DEF LinkInv, EdgeAtHome, HomeEdge, SoleKeyed, HomeId, Nodes

\* Edges stay at home, as no session changes an id that it has.
LEMMA HomeEdgeStays ==
    ASSUME NEW e \in EdgeType, HomeEdge(e), \A t \in Session : id[t] # None => id'[t] = id[t]
    PROVE  HomeEdge(e)'
BY DEF HomeEdge, EdgeType, LcId, None

\* Ids are given to sessions that have none.
LEMMA IdsKept ==
    ASSUME TablesTypeOK, [Next]_vars
    PROVE  \A t \in Session : id[t] # None => id'[t] = id[t]
<1>1. ASSUME NEW s \in Session, SessionStep(s)
      PROVE  \A t \in Session : id[t] # None => id'[t] = id[t]
  BY <1>1 DEF SessionStep, Connect, Drop, HelloUp, TablesTypeOK, SessionsTypeOK
<1>2. ASSUME NEW s \in Session, NEW d \in Dpid, DatapathStep(s, d)
      PROVE  id' = id
  BY <1>2 DEF DatapathStep, DatapathConnected, DatapathConnectedRaises, DatapathLeave,
              DatapathLeaveRaises, LoadReport
<1>3. ASSUME NEW s \in Session, NEW d \in Dpid, NEW m \in Mac, HostStep(s, d, m)
      PROVE  id' = id
  BY <1>3 DEF HostStep, HostConnected, HostLeave
<1>4. ASSUME NEW s \in Session, (\E ws \in WindowLists : GraphInfo(s, ws)) \/ HopOf(s)
      PROVE  id' = id
  BY <1>4 DEF GraphInfo, HopOf, Hop
<1>5. CASE Next
  BY <1>1, <1>2, <1>3, <1>4, <1>5, HopSteps DEF Next
<1>6. CASE UNCHANGED vars
  BY <1>6 DEF vars, sessionVars
<1> QED
  BY <1>5, <1>6

\* A greeting gives an id to a session that has none, so the ids of the edges
\* keep the sessions they are of.
LEMMA HelloUpLinkInv ==
    ASSUME TablesTypeOK, GraphInv, LinkInv, NEW s \in Session, HelloUp(s)
    PROVE  LinkInv'
<1> DEFINE i == IF lcip_to_lcid[AddressOf[s]] = None THEN glcid ELSE lcip_to_lcid[AddressOf[s]]
<1>1. AddressOf[s] \in Address
  BY ConstantsAssumption
<1>2. i \in LcId
  BY <1>1 DEF LcId, None, TablesTypeOK, IdsTypeOK
<1>3. /\ id[s] = None /\ id' = [id EXCEPT ![s] = i]
      /\ local_ctrl_list' = [local_ctrl_list EXCEPT ![i] = s]
      /\ UNCHANGED <<datapath_list, lc_home, edges>>
  BY DEF HelloUp, dpVars
<1> HIDE DEF i
<1>4. \A t \in Session : id[t] # None => id'[t] = id[t]
  BY <1>3 DEF TablesTypeOK, SessionsTypeOK
<1>5. ASSUME NEW e \in edges
      PROVE  EdgeAtHome(e)'
  <2>1. e \in EdgeType
    BY DEF GraphInv, SoundGraphs
  <2> QED
    BY <1>3, <1>4, <2>1, HomeEdgeStays DEF LinkInv, EdgeAtHome
<1>6. ASSUME NEW j \in Nodes'
      PROVE  local_ctrl_list'[j] \in Session /\ id'[local_ctrl_list'[j]] = j
  <2>1. j \in LcId /\ j # None
    BY DEF Nodes, LcId, None
  <2>2. CASE j = i
    BY <1>2, <1>3, <2>2 DEF TablesTypeOK, SessionsTypeOK, IdsTypeOK
  <2>3. CASE j # i
    <3>1. local_ctrl_list'[j] = local_ctrl_list[j]
      BY <1>3, <2>1, <2>3 DEF TablesTypeOK, IdsTypeOK
    <3>2. j \in Nodes
      BY <2>1, <3>1 DEF Nodes
    <3> QED
      BY <1>4, <2>1, <3>1, <3>2 DEF LinkInv
  <2> QED
    BY <2>2, <2>3
<1>7. ASSUME NEW d \in datapath_list', HomeId(d)' = None
      PROVE  lc_home'[d] \in EarlySessions
  <2>1. d \in datapath_list /\ lc_home'[d] = lc_home[d] /\ lc_home[d] \in Session
    BY <1>3 DEF GraphInv
  <2>2. HomeId(d) = None
    BY <1>4, <1>7, <2>1 DEF HomeId
  <2> QED
    BY <2>1, <2>2 DEF LinkInv
<1> QED
  BY <1>3, <1>5, <1>6, <1>7 DEF LinkInv, SoleKeyed

\* A switch is announced by a session of its domain, which has an id or is
\* early.
LEMMA DatapathConnectedLinkInv ==
    ASSUME TablesTypeOK, GraphInv, LinkInv,
           NEW s \in Session, NEW d \in Dpid, DatapathConnected(s, d)
    PROVE  LinkInv'
<1>1. /\ DomainOf[s] \in SwitchDomains[d]
      /\ id[s] # None \/ s \in EarlySessions
      /\ datapath_list' = datapath_list \cup {d}
      /\ lc_home' = [lc_home EXCEPT ![d] = s]
      /\ UNCHANGED <<id, local_ctrl_list, edges>>
  BY DEF DatapathConnected, AnnounceDatapath, idVars
<1>2. \A c \in datapath_list' : /\ DomainOf[lc_home'[c]] \in SwitchDomains[c]
                                /\ HomeId(c)' = None => lc_home'[c] \in EarlySessions
  BY <1>1 DEF LinkInv, HomeId, TablesTypeOK, DatapathsTypeOK
<1>3. \A e \in edges' : EdgeAtHome(e)'
  BY <1>1 DEF LinkInv, EdgeAtHome, HomeEdge
<1> QED
  BY <1>1, <1>2, <1>3 DEF LinkInv, SoleKeyed, Nodes

\* The handler of a leaving switch finds all the entries it deletes, so a
\* switch is never unregistered without its links being taken out.
LEMMA DatapathLeaveLinkInv ==
    ASSUME AddressesAtHome, RegistryInv, IdsInv, GraphInv, LinkInv,
           NEW s \in Session, NEW d \in Dpid, DatapathLeave(s, d)
    PROVE  LinkInv'
<1> USE DEF RegistryInv
<1>1. d \in dpid_to_role[s] /\ d \in dpid_to_load[s] /\ s \in lc_connected[d]
  BY DEF DatapathLeave, AnnounceLeave, Receives, SessionsAgree, MembershipOK, Active
<1>2. PICK P \in Popped(edges, d) : edges' = edges \ P
  BY <1>1 DEF DatapathLeave, RemoveDatapath
<1>3. /\ datapath_list \ {d} \subseteq datapath_list'
      /\ datapath_list' \subseteq datapath_list
      /\ \A c \in datapath_list' : lc_home'[c] = lc_home[c]
      /\ UNCHANGED <<id, local_ctrl_list>>
  BY DEF DatapathLeave, idVars, TablesTypeOK, DatapathsTypeOK
<1>4. ASSUME NEW e \in edges'
      PROVE  /\ EdgeAtHome(e)'
             /\ SoleLink(e.left, e.right) => 0 \in Keys(edges', e.from, e.to)
  <2>1. e \in edges /\ e \notin P /\ EdgeAtHome(e)
    BY <1>2 DEF LinkInv
  <2>2. ASSUME SoleLink(e.left, e.right)
        PROVE  d \notin {e.left, e.right} /\ P \cap Parallel(edges, e.from, e.to) = {}
    BY <2>1, <2>2, SoleLinkGoes
  <2>3. SoleLink(e.left, e.right) => {e.left, e.right} \subseteq datapath_list'
    BY <1>3, <2>1, <2>2 DEF EdgeAtHome
  <2>4. SoleLink(e.left, e.right) => 0 \in Keys(edges', e.from, e.to)
    BY <1>2, <2>1, <2>2 DEF LinkInv, SoleKeyed, Keys, Parallel
  <2> QED
    BY <1>3, <2>1, <2>3, <2>4 DEF EdgeAtHome, HomeEdge, SoleLink
<1> QED
  BY <1>3, <1>4 DEF LinkInv, SoleKeyed, HomeId, Nodes

\* A window is entered between the homes of its switches, which are there.
LEMMA GraphInfoLinkInv ==
    ASSUME AddressesAtHome, TablesTypeOK, IdsInv, GraphInv, LinkInv,
           NEW s \in Session, NEW ws \in WindowLists, GraphInfo(s, ws)
    PROVE  LinkInv'
<1> DEFINE Graphs == {E \in SoundGraphs : (\A e \in E : EdgeAtHome(e)) /\ SoleKeyed(E)}
<1>1. ws \in Seq([src : Dpid, dst : Dpid, link : Link])
  BY ConstantsAssumption
<1>2. Len(ws) \in Nat /\ edges \in Graphs
  BY <1>1 DEF GraphInv, LinkInv
<1>3. ASSUME NEW n \in 1 .. Len(ws), NEW E \in Graphs, Usable(ws[n]),
             None \notin {HomeId(ws[n].src), HomeId(ws[n].dst)}
      PROVE  AddWindow(E, ws[n], HomeId(ws[n].src), HomeId(ws[n].dst)) \in Graphs
  <2> DEFINE w == ws[n]
             u == HomeId(w.src)
             v == HomeId(w.dst)
  <2>1. w \in [src : Dpid, dst : Dpid, link : Link] /\ w \in Windows
    <3>1. w \in [src : Dpid, dst : Dpid, link : Link]
      BY <1>1, SeqElement, Zenon
    <3> QED
      BY <3>1 DEF Windows
  <2>2. w.src \in datapath_list /\ w.dst \in datapath_list
    BY <1>3 DEF Usable
  <2>3. u \in LcId /\ v \in LcId
    BY <1>3, <2>2 DEF HomeId, GraphInv, TablesTypeOK, SessionsTypeOK, None, LcId
  <2>4. /\ \E t \in Session : id[t] = u /\ DomainOf[t] \in SwitchDomains[w.src]
        /\ \E t \in Session : id[t] = v /\ DomainOf[t] \in SwitchDomains[w.dst]
    BY <2>2 DEF HomeId, GraphInv, LinkInv
  <2>5. u # v
    BY <1>3 DEF Usable
  <2>6. E \in SoundGraphs /\ (\A e \in E : EdgeAtHome(e)) /\ SoleKeyed(E)
    OBVIOUS
  <2> HIDE DEF w, u, v, Graphs
  <2> DEFINE G == AddWindow(E, w, u, v)
  <2>7. G \in SoundGraphs /\ (\A e \in G : EdgeAtHome(e)) /\ SoleKeyed(G)
    BY <2>1, <2>2, <2>3, <2>4, <2>5, <2>6, AddWindowAtHome
  <2> QED
    BY <2>7 DEF w, u, v, Graphs
<1>4. AfterWindows(ws).edges \in Graphs
  <2> HIDE DEF Graphs
  <2> QED
    BY <1>2, <1>3, AfterWindowsInduction
<1>5. /\ edges' = AfterWindows(ws).edges
      /\ UNCHANGED <<datapath_list, lc_home, id, local_ctrl_list>>
  BY DEF GraphInfo, idVars, dpVars
<1> QED
  BY <1>4, <1>5 DEF LinkInv, EdgeAtHome, HomeEdge, SoleKeyed, HomeId, Nodes

\* No other step changes the switches, the graph or the ids.
LEMMA NextLinkInv ==
    ASSUME AddressesAtHome, RegistryInv, IdsInv, GraphInv, LinkInv, [Next]_vars
    PROVE  LinkInv'
<1>1. TablesTypeOK
  BY DEF RegistryInv
<1>2. ASSUME UNCHANGED <<datapath_list, lc_home, edges, id, local_ctrl_list>>
      PROVE  LinkInv'
  BY <1>2, LinkFrame
<1>3. ASSUME NEW s \in Session, Connect(s) \/ Drop(s)
      PROVE  UNCHANGED <<datapath_list, lc_home, edges, id, local_ctrl_list>>
  BY <1>3 DEF Connect, Drop, dpVars, idVars
<1>4. ASSUME NEW s \in Session, NEW d \in Dpid,
             DatapathConnectedRaises(s, d) \/ DatapathLeaveRaises(s, d) \/ LoadReport(s, d)
      PROVE  UNCHANGED <<datapath_list, lc_home, edges, id, local_ctrl_list>>
  BY <1>4 DEF DatapathConnectedRaises, DatapathLeaveRaises, LoadReport, dpVars, idVars
<1>5. ASSUME NEW s \in Session, NEW d \in Dpid, NEW m \in Mac, HostStep(s, d, m)
      PROVE  UNCHANGED <<datapath_list, lc_home, edges, id, local_ctrl_list>>
  BY <1>5 DEF HostStep, HostConnected, HostLeave, idVars
<1>6. ASSUME NEW s \in Session, HopOf(s)
      PROVE  UNCHANGED <<datapath_list, lc_home, edges, id, local_ctrl_list>>
  BY <1>6 DEF HopOf, Hop, dpVars, idVars
<1>7. ASSUME NEW s \in Session, SessionStep(s)
      PROVE  LinkInv'
  BY <1>1, <1>2, <1>3, <1>7, HelloUpLinkInv DEF SessionStep
<1>8. ASSUME NEW s \in Session, NEW d \in Dpid, DatapathStep(s, d)
      PROVE  LinkInv'
  BY <1>1, <1>2, <1>4, <1>8, DatapathConnectedLinkInv, DatapathLeaveLinkInv DEF DatapathStep
<1>9. ASSUME NEW s \in Session, NEW ws \in WindowLists, GraphInfo(s, ws)
      PROVE  LinkInv'
  BY <1>1, <1>9, GraphInfoLinkInv
<1>10. CASE Next
  BY <1>2, <1>5, <1>6, <1>7, <1>8, <1>9, <1>10, HopSteps DEF Next
<1>11. CASE UNCHANGED vars
  BY <1>2, <1>11 DEF vars, sessionVars, dpVars, idVars
<1> QED
  BY <1>10, <1>11

\* As long as an address keeps its domain and has an id, every edge keeps to
\* the domains of its switches.
LEMMA LinkCorrect ==
    ASSUME AddressesAtHome, IsFiniteSet(Address), Cardinality(Address) =< MaxLcId
    PROVE  Spec => [](RegistryInv /\ IdsInv /\ GraphInv /\ LinkInv)
<1>1. Init => RegistryInv /\ IdsInv /\ GraphInv /\ LinkInv
  BY InitRegistryInv, InitIdsInv, InitGraphInv, InitLinkInv
<1>2. RegistryInv /\ IdsInv /\ GraphInv /\ LinkInv /\ [Next]_vars
          => (RegistryInv /\ IdsInv /\ GraphInv /\ LinkInv)'
  <2>1. RegistryInv => TablesTypeOK
    BY DEF RegistryInv
  <2> QED
    BY <2>1, NextRegistryInv, NextIdsInv, NextGraphInv, NextLinkInv
<1> QED
  BY <1>1, <1>2, PTL DEF Spec

\* No edge of a sole link outlives the registration of a switch it ends at: for
\* any number of domains, links, restarts, parallel links elsewhere and switches
\* that change domain, as long as an address keeps its domain and has an id.
THEOREM LinkEndsRegisteredCorrect ==
    ASSUME AddressesAtHome, IsFiniteSet(Address), Cardinality(Address) =< MaxLcId
    PROVE  Spec => []LinkEndsRegistered
<1>1. LinkInv => LinkEndsRegistered
  BY DEF LinkInv, EdgeAtHome, LinkEndsRegistered
<1> QED
  BY <1>1, LinkCorrect, PTL

\* Only the handler of PACKET_IN sends FLOW_MODs.
LEMMA OtherMessages ==
    ASSUME NEW s \in Session,
           \/ SessionStep(s)
           \/ \E d \in Dpid : DatapathStep(s, d)
           \/ \E d \in Dpid, m \in Mac : HostStep(s, d, m)
           \/ \E ws \in WindowLists : GraphInfo(s, ws)
    PROVE  \A k \in 1 .. Len(sent') : sent'[k].type # "FLOW_MOD"
<1>1. sent' = <<>> \/ \E m : sent' = <<m>> /\ m.type \in {"HELLO_DOWN", "ROLE_ASSIGN"}
  <2>1. CASE SessionStep(s)
    BY <2>1 DEF SessionStep, Connect, Drop, HelloUp
  <2>2. ASSUME NEW d \in Dpid, DatapathStep(s, d)
        PROVE  sent' = <<>> \/ \E m : sent' = <<m>> /\ m.type \in {"HELLO_DOWN", "ROLE_ASSIGN"}
    <3>1. CASE DatapathConnected(s, d)
      <4> DEFINE m == [to |-> s, type |-> "ROLE_ASSIGN", dpid |-> d, lcid |-> id[s]]
      <4>1. sent' = <<>> \/ sent' = <<m>>
        BY <3>1 DEF DatapathConnected
      <4>2. m.type = "ROLE_ASSIGN"
        OBVIOUS
      <4> QED
        BY <4>1, <4>2
    <3>2. CASE DatapathConnectedRaises(s, d) \/ DatapathLeave(s, d) \/ DatapathLeaveRaises(s, d)
               \/ LoadReport(s, d)
      BY <3>2 DEF DatapathConnectedRaises, DatapathLeave, DatapathLeaveRaises, LoadReport
    <3> QED
      BY <2>2, <3>1, <3>2 DEF DatapathStep
  <2>3. ASSUME NEW d \in Dpid, NEW m \in Mac, HostStep(s, d, m)
        PROVE  sent' = <<>>
    BY <2>3 DEF HostStep, HostConnected, HostLeave
  <2>4. ASSUME NEW ws \in WindowLists, GraphInfo(s, ws)
        PROVE  sent' = <<>>
    BY <2>4 DEF GraphInfo
  <2> QED
    BY <2>1, <2>2, <2>3, <2>4
<1> QED
  BY <1>1

\* A hop's FLOW_MOD goes to a session with the id of the hop.  The switch the
\* flow leaves by is registered, so some session holds it; if that one is live
\* and of the same domain, it is this one.
LEMMA FlowModsOwnedStep ==
    ASSUME AddressesAtHome, RegistryInv, IdsInv, GraphInv, LinkInv, NEW s \in Session, HopOf(s)
    PROVE  FlowModsOwned'
<1>1. PICK r : Hop(s, r)
  BY DEF HopOf
<1>2. edges \in SUBSET EdgeType /\ UNCHANGED <<edges, lc_connected, dpid_to_role>>
  BY <1>1 DEF GraphInv, SoundGraphs, Hop, dpVars
<1>3. \A t \in Session : status'[t] = "active" => Active(t)
  BY <1>1 DEF Hop, RaiseIf, Active, RegistryInv, TablesTypeOK, SessionsTypeOK
<1> SUFFICES ASSUME NEW k \in 1 .. Len(sent'), status'[sent'[k].to] = "active",
                    \A e \in edges : e.left = sent'[k].out_dpid /\ e.link = sent'[k].link
                                         => SoleLink(e.left, e.right)
             PROVE  /\ DomainOf[sent'[k].to] \in SwitchDomains[sent'[k].out_dpid]
                    /\ \/ sent'[k].out_dpid \in dpid_to_role[sent'[k].to]
                       \/ \E y \in lc_connected[sent'[k].out_dpid] :
                             status'[y] # "active" \/ DomainOf[y] # DomainOf[sent'[k].to]
  BY <1>2 DEF FlowModsOwned, SoleLink, Overlap, Active
<1> DEFINE i == r.path[r.node_index]
           out == NextEdge(r)
           x == local_ctrl_list[i]
<1>4. ~HopRaises(r) /\ sent' = <<FlowMod(r)>> /\ k = 1
  <2>1. sent' = <<>> \/ (sent' = <<FlowMod(r)>> /\ ~HopRaises(r))
    BY <1>1 DEF Hop
  <2> QED
    BY <2>1
<1>5. sent'[k].to = x /\ sent'[k].out_dpid = out.left /\ sent'[k].link = out.link
  <2>1. sent'[k] = FlowMod(r)
    BY <1>4
  <2> QED
    BY <2>1 DEF FlowMod
<1>6. out \in edges /\ out.from = i /\ out \in EdgeType
  BY <1>2, <1>4, HopEdge
<1> HIDE DEF out, i, x
<1>7. SoleLink(out.left, out.right) /\ EdgeAtHome(out)
  BY <1>5, <1>6 DEF LinkInv
<1>8. i \in Nodes
  <2>1. i # None
    BY <1>6 DEF EdgeType, LcId, None
  <2>2. PICK t \in Session : id[t] = i
    BY <1>6, <1>7 DEF EdgeAtHome, HomeEdge
  <2> QED
    BY <2>1, <2>2 DEF RegistryInv, IdsAllocated
<1>9. x \in Session
  BY <1>8 DEF LinkInv, x
<1>10. out.left \in datapath_list /\ out.left \in Dpid
  BY <1>6, <1>7 DEF EdgeAtHome, EdgeType
<1>11. DomainOf[x] \in SwitchDomains[out.left]
  <2>1. PICK t \in Session : id[t] = i /\ DomainOf[t] \in SwitchDomains[out.left]
    BY <1>6, <1>7 DEF EdgeAtHome, HomeEdge
  <2>2. id[x] = i /\ i # None
    BY <1>6, <1>8 DEF LinkInv, x, EdgeType, LcId, None
  <2> QED
    BY <1>9, <2>1, <2>2, IdOfDomain
<1>12. PICK y \in lc_connected[out.left] : TRUE
  BY <1>10 DEF RegistryInv, MembershipOK
<1>13. ASSUME status'[y] = "active", DomainOf[y] = DomainOf[x]
       PROVE  out.left \in dpid_to_role[x]
  <2>1. y \in Session
    BY <1>10, <1>12 DEF RegistryInv, TablesTypeOK, DatapathsTypeOK
  <2>2. Active(x) /\ Active(y)
    BY <1>3, <1>5, <1>9, <1>13, <2>1
  <2>3. y = x
    BY <1>9, <1>13, <2>1, <2>2 DEF IdsInv, ActiveApart
  <2> QED
    BY <1>10, <1>12, <2>1, <2>3 DEF RegistryInv, MembershipOK
<1> QED
  BY <1>5, <1>11, <1>12, <1>13

\* A FLOW_MOD that reaches a live controller over a sole link names a switch
\* that is its own, or one that a controller that is gone, or of another domain,
\* holds: also when ids are taken over, when switches change their domain, and
\* whatever came and went while the handler waited between two hops.
THEOREM FlowModsOwnedCorrect ==
    ASSUME AddressesAtHome, IsFiniteSet(Address), Cardinality(Address) =< MaxLcId
    PROVE  Spec => []FlowModsOwned
<1>1. Init => FlowModsOwned
  BY DEF Init, FlowModsOwned
<1>2. RegistryInv /\ IdsInv /\ GraphInv /\ LinkInv /\ FlowModsOwned /\ [Next]_vars => FlowModsOwned'
  <2> SUFFICES ASSUME RegistryInv, IdsInv, GraphInv, LinkInv, FlowModsOwned, [Next]_vars
               PROVE  FlowModsOwned'
    OBVIOUS
  <2>1. ASSUME NEW s \in Session, HopOf(s)
        PROVE  FlowModsOwned'
    BY <2>1, FlowModsOwnedStep
  <2>2. ASSUME \A k \in 1 .. Len(sent') : sent'[k].type # "FLOW_MOD"
        PROVE  FlowModsOwned'
    BY <2>2 DEF FlowModsOwned
  <2>3. CASE Next
    BY <2>1, <2>2, <2>3, OtherMessages, HopSteps DEF Next
  <2>4. CASE UNCHANGED vars
    BY <2>4 DEF vars, sessionVars, dpVars, FlowModsOwned, SoleLink, Overlap, Active
  <2> QED
    BY <2>3, <2>4
<1> QED
  BY <1>1, <1>2, LinkCorrect, PTL DEF Spec

-----------------------------------------------------------------------------
\* Handlers that wait between two hops.

\* The last hop left by an edge that is at home; and as long as no edge has
\* gone, the path is one of the graph, and that edge is still the one with key
\* 0 if there is one.
RouteSound(r) ==
    /\ r.out.from = r.path[r.node_index - 1] /\ r.out.to = r.path[r.node_index]
    /\ HomeEdge(r.out)
    /\ ~r.cut => /\ IsPath(edges, r.path)
                 /\ r.out \in edges
                 /\ 0 \in Keys(edges, r.out.from, r.out.to) => r.out.key = 0

RouteInv == \A s \in Session : Held(s) => RouteSound(route[s])

\* A graph that has grown, without a key 0 where there was an edge already.
Grown(E) ==
    /\ edges \subseteq E
    /\ \A a, b : 0 \in Keys(E, a, b) /\ Parallel(edges, a, b) # {} => 0 \in Keys(edges, a, b)

\* GRAPH_INFO only grows the graph.
LEMMA AfterWindowsGrown ==
    ASSUME TablesTypeOK, GraphInv, NEW ws \in WindowLists
    PROVE  Grown(AfterWindows(ws).edges)
<1> DEFINE Graphs == {E \in SoundGraphs : Grown(E)}
<1>1. ws \in Seq([src : Dpid, dst : Dpid, link : Link])
  BY ConstantsAssumption
<1>2. Len(ws) \in Nat /\ edges \in Graphs
  BY <1>1 DEF GraphInv, Grown
<1>3. ASSUME NEW n \in 1 .. Len(ws), NEW E \in Graphs, Usable(ws[n]),
             None \notin {HomeId(ws[n].src), HomeId(ws[n].dst)}
      PROVE  AddWindow(E, ws[n], HomeId(ws[n].src), HomeId(ws[n].dst)) \in Graphs
  <2> DEFINE w == ws[n]
             u == HomeId(w.src)
             v == HomeId(w.dst)
             G == AddWindow(E, w, u, v)
  <2>1. w \in [src : Dpid, dst : Dpid, link : Link]
    BY <1>1, SeqElement, Zenon
  <2>2. u \in LcId /\ v \in LcId /\ u # v
    BY <1>3 DEF Usable, HomeId, GraphInv, TablesTypeOK, SessionsTypeOK, None, LcId
  <2>3. E \in SoundGraphs /\ Grown(E)
    OBVIOUS
  <2> HIDE DEF w, u, v, Graphs
  <2>4. G \in SoundGraphs
    BY <2>1, <2>2, <2>3, AddWindowSound
  <2>5. /\ E \subseteq G
        /\ \A a, b : 0 \in Keys(G, a, b) /\ Parallel(E, a, b) # {} => 0 \in Keys(E, a, b)
    BY <2>3, AddWindowKeys
  <2>6. Grown(G)
    <3> HIDE DEF G
    <3> QED
      BY <2>3, <2>5 DEF Grown, Parallel
  <2> QED
    BY <2>4, <2>6 DEF w, u, v, Graphs
<1>4. AfterWindows(ws).edges \in Graphs
  <2> HIDE DEF Graphs
  <2> QED
    BY <1>2, <1>3, AfterWindowsInduction
<1> QED
  BY <1>4

\* A step of another handler leaves a route sound: it takes no edge away
\* without noting it.
LEMMA RouteStays ==
    ASSUME NEW r \in RouteType, RouteSound(r), Grown(edges'),
           \A t \in Session : id[t] # None => id'[t] = id[t]
    PROVE  RouteSound(r)'
<1>1. HomeEdge(r.out)'
  BY HomeEdgeStays DEF RouteSound, RouteType
<1>2. ASSUME ~r.cut
      PROVE  /\ IsPath(edges', r.path)
             /\ r.out \in edges'
             /\ 0 \in Keys(edges', r.out.from, r.out.to) => r.out.key = 0
  <2>1. IsPath(edges, r.path) /\ r.out \in edges
    BY <1>2 DEF RouteSound
  <2>2. Parallel(edges, r.out.from, r.out.to) # {}
    BY <2>1 DEF Parallel
  <2>3. \A a, b : Parallel(edges, a, b) # {} => Parallel(edges', a, b) # {}
    BY DEF Grown, Parallel
  <2>4. IsPath(edges', r.path)
    BY <2>1, <2>3 DEF IsPath
  <2> QED
    BY <1>2, <2>1, <2>2, <2>4 DEF RouteSound, Grown
<1> QED
  BY <1>1, <1>2 DEF RouteSound

\* The hop after which a handler waits again: its edge is one of the graph.
LEMMA HopRouteSound ==
    ASSUME TablesTypeOK, RoutesTypeOK, GraphInv, LinkInv, NEW s \in Session, NEW r,
           AtHop(r), ~r.cut => IsPath(edges, r.path), Hop(s, r),
           NEW q, q = route'[s], q # NoEntry
    PROVE  RouteSound(q)'
<1>1. edges \in SUBSET EdgeType
  BY DEF GraphInv, SoundGraphs
<1>2. ~HopRaises(r)
      /\ q = [r EXCEPT !.node_index = @ + 1, !.in_dpid = InDpid(r), !.out = NextEdge(r)]
  BY <1>1, HopRoute
<1>3. PICK e : e = NextEdge(r)
  OBVIOUS
<1>4. q.path = r.path /\ q.node_index = r.node_index + 1 /\ q.out = e /\ q.cut = r.cut
      /\ q.node_index - 1 = r.node_index
  BY <1>2, <1>3 DEF AtHop, HopType
<1>5. /\ e \in edges
      /\ e.from = r.path[r.node_index] /\ e.to = r.path[r.node_index + 1]
      /\ 0 \in Keys(edges, e.from, e.to) => e.key = 0
  BY <1>1, <1>2, <1>3, HopEdge
<1>6. edges' = edges /\ id' = id
  BY DEF Hop
<1>7. HomeEdge(e)'
  BY <1>5, <1>6 DEF LinkInv, EdgeAtHome, HomeEdge
<1> QED
  BY <1>4, <1>5, <1>6, <1>7 DEF RouteSound

\* What a step does to the edges.
LEMMA EdgesStep ==
    ASSUME TablesTypeOK, GraphInv, [Next]_vars, ~NoteCut
    PROVE  Grown(edges')
<1>1. edges' = edges => Grown(edges')
  BY DEF Grown
<1>2. ASSUME NEW s \in Session, SessionStep(s)
      PROVE  edges' = edges
  BY <1>2 DEF SessionStep, Connect, Drop, HelloUp
<1>3. ASSUME NEW s \in Session, NEW d \in Dpid, DatapathStep(s, d)
      PROVE  edges' = edges
  BY <1>3 DEF DatapathStep, DatapathConnected, DatapathConnectedRaises, DatapathLeave,
              DatapathLeaveRaises, LoadReport
<1>4. ASSUME NEW s \in Session, NEW d \in Dpid, NEW m \in Mac, HostStep(s, d, m)
      PROVE  edges' = edges
  BY <1>4 DEF HostStep, HostConnected, HostLeave
<1>5. ASSUME NEW s \in Session, NEW ws \in WindowLists, GraphInfo(s, ws)
      PROVE  Grown(edges')
  BY <1>5, AfterWindowsGrown DEF GraphInfo
<1>6. ASSUME NEW s \in Session, HopOf(s)
      PROVE  edges' = edges
  BY <1>6 DEF HopOf, Hop
<1>7. CASE Next
  BY <1>1, <1>2, <1>3, <1>4, <1>5, <1>6, <1>7, HopSteps DEF Next
<1>8. CASE UNCHANGED vars
  BY <1>1, <1>8 DEF vars
<1> QED
  BY <1>7, <1>8

\* The hop that a handler is at has a path of the graph, unless edges went
\* while it waited.
LEMMA HopOnPath ==
    ASSUME TablesTypeOK, RoutesTypeOK, RouteInv, NEW s \in Session,
           NextHop(s) \/ \E d \in Dpid, src, dst \in Mac : PacketIn(s, d, src, dst)
    PROVE  \E r : Hop(s, r) /\ AtHop(r) /\ (~r.cut => IsPath(edges, r.path))
<1>1. CASE NextHop(s)
  BY <1>1, HeldAtHop DEF NextHop, RouteInv, RouteSound
<1>2. CASE \E d \in Dpid, src, dst \in Mac : PacketIn(s, d, src, dst)
  BY <1>2, PacketInHop
<1> QED
  BY <1>1, <1>2

\* Every step keeps the routes sound.
LEMMA NextRouteInv ==
    ASSUME TypeOK, GraphInv, LinkInv, RouteInv, [Next]_vars
    PROVE  RouteInv'
<1> USE DEF TypeOK
<1> SUFFICES ASSUME NEW t \in Session, NEW q, q = route'[t], q # NoEntry
             PROVE  RouteSound(q)'
  BY DEF RouteInv, RouteSound, Held
<1>1. \A s \in Session : id[s] # None => id'[s] = id[s]
  BY IdsKept
<1>2. CASE q = route[t] /\ Grown(edges')
  <2>1. q \in RouteType /\ RouteSound(q)
    BY <1>2, HeldAtHop DEF RouteInv, Held
  <2> QED
    BY <1>1, <1>2, <2>1, RouteStays
<1>3. CASE NoteCut
  <2>1. CASE edges' = edges
    BY <1>2, <1>3, <2>1 DEF NoteCut, Grown
  <2>2. CASE edges' # edges
    <3>1. route[t] \in RouteType /\ RouteSound(route[t]) /\ q = [route[t] EXCEPT !.cut = TRUE]
      BY <1>3, <2>2, HeldAtHop DEF NoteCut, RouteInv, Held
    <3>2. q.cut /\ q.path = route[t].path /\ q.node_index = route[t].node_index
          /\ q.out = route[t].out /\ q.out \in EdgeType
      BY <3>1 DEF RouteType
    <3>3. HomeEdge(q.out)'
      BY <1>1, <3>1, <3>2, HomeEdgeStays DEF RouteSound
    <3> QED
      BY <3>1, <3>2, <3>3 DEF RouteSound
  <2> QED
    BY <2>1, <2>2
<1>4. CASE ~NoteCut
  <2>1. Grown(edges')
    BY <1>4, EdgesStep
  <2>2. ASSUME NEW s \in Session,
               NextHop(s) \/ \E d \in Dpid, src, dst \in Mac : PacketIn(s, d, src, dst)
        PROVE  RouteSound(q)'
    <3>1. PICK r : Hop(s, r) /\ AtHop(r) /\ (~r.cut => IsPath(edges, r.path))
      BY <2>2, HopOnPath
    <3>2. CASE t = s
      BY <3>1, <3>2, HopRouteSound
    <3>3. CASE t # s
      <4>1. q = route[t]
        BY <3>1, <3>3 DEF Hop, RoutesTypeOK
      <4> QED
        BY <1>2, <2>1, <4>1
    <3> QED
      BY <3>2, <3>3
  <2> QED
    BY <1>2, <1>4, <2>1, <2>2, RoutesFrame
<1> QED
  BY <1>3, <1>4

\* The routes are sound, as long as an address keeps its domain and has an id.
LEMMA RouteCorrect ==
    ASSUME AddressesAtHome, IsFiniteSet(Address), Cardinality(Address) =< MaxLcId
    PROVE  Spec => []RouteInv
<1>1. Init => RouteInv
  BY DEF Init, RouteInv, Held
<1>2. TypeOK /\ GraphInv /\ LinkInv /\ RouteInv /\ [Next]_vars => RouteInv'
  BY NextRouteInv
<1> QED
  BY <1>1, <1>2, TypeCorrect, LinkCorrect, PTL DEF Spec

\* Where a hop takes the edge with key 0, that is the one the hop before left
\* by: it was the least of its keys, and no edge gets the key 0 later.
LEMMA HopMeets ==
    ASSUME AddressesAtHome, IdsInv, TypeOK, GraphInv, LinkInv, RouteInv,
           NEW s \in Session, Held(s), NextHop(s), ~route[s].cut \/ SureLink(route[s].out)
    PROVE  \A k \in 1 .. Len(sent') : Meets(route[s], sent'[k])
<1> DEFINE r == route[s]
           in == InEdge(edges, r.path, r.node_index)
<1>1. /\ r \in RouteType /\ RouteSound(r) /\ Hop(s, r)
      /\ ~r.cut \/ SureLink(r.out)
  BY HeldAtHop DEF TypeOK, RouteInv, NextHop
<1> SUFFICES ASSUME NEW k \in 1 .. Len(sent'), sent'[k].wildcards = 0
             PROVE  sent'[k].in_dpid = r.out.right
  BY DEF Meets
<1> HIDE DEF r
<1>2. ~HopRaises(r) /\ sent'[k] = FlowMod(r)
  <2>1. sent' = <<>> \/ (sent' = <<FlowMod(r)>> /\ ~HopRaises(r))
    BY <1>1 DEF Hop
  <2> QED
    BY <2>1
<1>3. HasInEdge(edges, r.path, r.node_index) /\ sent'[k].in_dpid = in.right
  <2>1. r.path[r.node_index] # r.src_lcid
    BY <1>2 DEF FlowMod
  <2> QED
    BY <1>2, <2>1 DEF HopRaises, FlowMod, InDpid
<1>4. /\ r.out.from = Before(r.path, r.node_index) /\ r.out.to = r.path[r.node_index]
      /\ r.out \in EdgeType
  BY <1>1 DEF RouteSound, RouteType, Before
<1>5. edges \in SUBSET EdgeType /\ KeysDistinct(edges)
  BY DEF GraphInv, SoundGraphs
<1>6. in \in edges /\ in \in EdgeType /\ in.from = r.out.from /\ in.to = r.out.to /\ in.key = 0
  BY <1>3, <1>4, <1>5, InEdgeIsEdge DEF Parallel
<1> HIDE DEF in
<1>7. CASE ~r.cut
  <2>1. r.out \in edges /\ r.out.key = 0
    BY <1>1, <1>6, <1>7 DEF RouteSound, Keys, Parallel
  <2>2. in = r.out
    BY <1>5, <1>6, <2>1 DEF KeysDistinct
  <2> QED
    BY <1>3, <2>2
<1>8. CASE SureLink(r.out)
  <2>1. HomeEdge(in) /\ HomeEdge(r.out)
    BY <1>1, <1>6 DEF LinkInv, EdgeAtHome, RouteSound
  <2>2. in.right = r.out.right
    BY <1>4, <1>6, <1>8, <2>1, SameLink DEF SureLink
  <2> QED
    BY <1>3, <2>2
<1> QED
  BY <1>1, <1>7, <1>8

\* Successive FLOW_MODs of one PACKET_IN meet at a link, for any graph of
\* windows, any path and any past of connections and switches, and although the
\* handler may wait before each hop: of a sole link whatever happens meanwhile,
\* of any link as long as none goes.
THEOREM FlowModsMeetCorrect ==
    ASSUME AddressesAtHome, IsFiniteSet(Address), Cardinality(Address) =< MaxLcId
    PROVE  Spec => FlowModsMeet
<1> DEFINE A == \A s \in Session :
                   Held(s) /\ NextHop(s) /\ (~route[s].cut \/ SureLink(route[s].out)) =>
                       \A k \in 1 .. Len(sent') : Meets(route[s], sent'[k])
<1>1. AddressesAtHome
  OBVIOUS
<1>2. RegistryInv /\ IdsInv /\ GraphInv /\ LinkInv /\ TypeOK /\ RouteInv => A
  BY <1>1, HopMeets
<1>3. Spec => [][A]_vars
  <2> HIDE DEF A
  <2> QED
    BY <1>2, LinkCorrect, TypeCorrect, RouteCorrect, PTL DEF Spec
<1> QED
  BY <1>3 DEF FlowModsMeet

-----------------------------------------------------------------------------
\* The handlers that raise.

\* The invariants that what a handler looks up rests on.
LookupsInv ==
    /\ TypeOK
    /\ RegistryInv
    /\ HostsInv
    /\ IdsInv
    /\ GraphInv
    /\ LinkInv
    /\ RouteInv

\* A handler for a switch finds its own switches registered and their hosts
\* known; what is left are the session without id and the stray LOAD_REPORT.
LEMMA DatapathStepRaises ==
    ASSUME LookupsInv, NEW s \in Session, NEW d \in Dpid, DatapathStep(s, d),
           status'[s] = "crashed", Active(s)
    PROVE  OwnFault(s)
<1> USE DEF LookupsInv
<1>1. \A e \in Dpid : BrokenSweeps(e) = {}
  BY DEF HostsInv, ListedHostsKnown, BrokenSweeps
<1>2. /\ lc_datapaths[s] \subseteq datapath_list
      /\ status[s] # "crashed"
  BY DEF RegistryInv, SessionsAgree, MembershipOK, Active, TablesTypeOK, SessionsTypeOK
<1>3. CASE DatapathConnected(s, d)
  BY <1>2, <1>3 DEF DatapathConnected, AnnounceDatapath, LacksId, RaiseIf, OwnFault
<1>4. CASE DatapathConnectedRaises(s, d)
  BY <1>1, <1>4 DEF DatapathConnectedRaises
<1>5. CASE DatapathLeave(s, d)
  <2>1. d \in dpid_to_role[s] /\ d \in dpid_to_load[s] /\ s \in lc_connected[d]
    BY <1>5 DEF DatapathLeave, AnnounceLeave, RegistryInv, SessionsAgree, MembershipOK, Active
  <2>2. status' = status
    BY <1>5, <2>1 DEF DatapathLeave, RaiseIf
  <2> QED
    BY <1>2, <2>2
<1>6. CASE DatapathLeaveRaises(s, d)
  <2>1. d \in datapath_list
    BY <1>2, <1>6 DEF DatapathLeaveRaises, AnnounceLeave
  <2> QED
    BY <1>1, <1>6, <2>1 DEF DatapathLeaveRaises
<1>7. CASE LoadReport(s, d)
  <2>1. d \notin datapath_list
    BY <1>2, <1>7 DEF LoadReport, RaiseIf
  <2>2. s \in LateReports
    BY <1>2, <1>7, <2>1 DEF LoadReport
  <2> QED
    BY <1>7, <2>1, <2>2 DEF OwnFault
<1> QED
  BY <1>3, <1>4, <1>5, <1>6, <1>7 DEF DatapathStep

\* The handlers for hosts find the switch of a host registered.
LEMMA HostStepRaises ==
    ASSUME LookupsInv, NEW s \in Session, NEW d \in Dpid, NEW m \in Mac, HostStep(s, d, m)
    PROVE  status' = status
<1> USE DEF LookupsInv
<1>1. Active(s) /\ lc_datapaths[s] \subseteq datapath_list
  BY DEF HostStep, HostConnected, HostLeave, AnnounceHost, AnnounceHostLeave, Receives,
         RegistryInv, SessionsAgree, MembershipOK, Active, TablesTypeOK, SessionsTypeOK
<1>2. d \in lc_datapaths[s]
  BY <1>1, NoEntryAssumption
     DEF HostStep, HostConnected, HostLeave, AnnounceHost, AnnounceHostLeave, HostsInv, ToldAtHome
<1> QED
  BY <1>1, <1>2 DEF HostStep, HostConnected, HostLeave, RaiseIf

\* GRAPH_INFO finds the homes of its switches, which have ids unless a session
\* that announced them early died of it.
LEMMA GraphInfoRaises ==
    ASSUME LookupsInv, NEW s \in Session, NEW ws \in WindowLists, GraphInfo(s, ws),
           status'[s] = "crashed", Active(s)
    PROVE  OwnFault(s)
<1> USE DEF LookupsInv
<1>1. AfterWindows(ws).raised # FALSE
  BY DEF GraphInfo, RaiseIf, Active
<1>2. PICK n \in 1 .. Len(ws) : Usable(ws[n]) /\ None \in {HomeId(ws[n].src), HomeId(ws[n].dst)}
  BY <1>1, AfterWindowsSound DEF TypeOK
<1>3. PICK d \in datapath_list : HomeId(d) = None
  BY <1>2 DEF Usable
<1>4. lc_home[d] \in EarlySessions
  BY <1>3 DEF LinkInv
<1> QED
  BY <1>3, <1>4 DEF OwnFault

\* The first hop of a path is there, and needs an edge into it only for a host
\* of another controller.
LEMMA PacketInRaises ==
    ASSUME LookupsInv, NEW s \in Session, NEW d \in Dpid, NEW src \in Mac, NEW dst \in Mac,
           PacketIn(s, d, src, dst), status'[s] = "crashed", Active(s)
    PROVE  OwnFault(s)
<1>1. PICK r : /\ Hop(s, r) /\ AtHop(r) /\ IsPath(edges, r.path)
               /\ r.node_index = 1 /\ r.path[1] = id[s] /\ r.src_lcid = host_to_lcid[src]
  BY PacketInHop DEF LookupsInv, TypeOK
<1>2. HopRaises(r)
  BY <1>1 DEF Hop, RaiseIf, Active
<1>3. 1 \in 1 .. Len(r.path) - 1
  BY <1>1 DEF AtHop, HopType
<1>4. Parallel(edges, r.path[1], r.path[1 + 1]) # {}
  BY <1>1, <1>3 DEF IsPath
<1>5. host_to_lcid[src] # id[s]
  BY <1>1, <1>2, <1>4 DEF HopRaises
<1> QED
  BY <1>5 DEF OwnFault

\* A later hop is there as long as no edge has gone, and the edge into it has
\* the key 0 if no other lies beside it.
LEMMA NextHopRaises ==
    ASSUME LookupsInv, NEW s \in Session, NextHop(s), status'[s] = "crashed", Active(s)
    PROVE  OwnFault(s)
<1> USE DEF LookupsInv
<1> DEFINE r == route[s]
<1>1. Held(s) /\ r \in RouteType /\ AtHop(r) /\ RouteSound(r) /\ Hop(s, r)
  BY HeldAtHop DEF TypeOK, RouteInv, NextHop
<1> SUFFICES ASSUME ~r.cut, SoleLink(r.out.left, r.out.right)
             PROVE  FALSE
  BY <1>1 DEF OwnFault
<1> HIDE DEF r
<1>2. HopRaises(r)
  BY <1>1 DEF Hop, RaiseIf, Active
<1>3. r.node_index \in 1 .. Len(r.path) - 1 /\ r.node_index # 1
  BY <1>1 DEF AtHop, HopType, RouteType
<1>4. Parallel(edges, r.path[r.node_index], r.path[r.node_index + 1]) # {}
  BY <1>1, <1>3 DEF RouteSound, IsPath
<1>5. 0 \notin Keys(edges, r.out.from, r.out.to)
  BY <1>1, <1>2, <1>3, <1>4 DEF HopRaises, HasInEdge, Before, RouteSound
<1>6. r.out \in edges
  BY <1>1 DEF RouteSound
<1> QED
  BY <1>5, <1>6 DEF LinkInv, SoleKeyed

\* Only its own handler ends a session by an exception, for one of the reasons.
LEMMA RaisesByOwnFault ==
    ASSUME LookupsInv, [Next]_vars, NEW s \in Session, Active(s), status'[s] = "crashed"
    PROVE  OwnFault(s)
<1> USE DEF Active
<1>1. ASSUME NEW t \in Session, SessionStep(t)
      PROVE  FALSE
  BY <1>1 DEF SessionStep, Connect, Drop, HelloUp, LookupsInv, TypeOK, TablesTypeOK, SessionsTypeOK
<1>2. ASSUME NEW t \in Session, NEW d \in Dpid, DatapathStep(t, d)
      PROVE  OwnFault(s)
  <2>1. \E raised : RaiseIf(raised, t)
    BY <1>2 DEF DatapathStep, DatapathConnected, DatapathConnectedRaises, DatapathLeave,
                DatapathLeaveRaises, LoadReport
  <2>2. s = t
    BY <2>1 DEF RaiseIf
  <2> QED
    BY <1>2, <2>2, DatapathStepRaises
<1>3. ASSUME NEW t \in Session, NEW d \in Dpid, NEW m \in Mac, HostStep(t, d, m)
      PROVE  FALSE
  BY <1>3, HostStepRaises
<1>4. ASSUME NEW t \in Session, NEW ws \in WindowLists, GraphInfo(t, ws)
      PROVE  OwnFault(s)
  <2>1. s = t
    BY <1>4 DEF GraphInfo, RaiseIf
  <2> QED
    BY <1>4, <2>1, GraphInfoRaises
<1>5. ASSUME NEW t \in Session, HopOf(t) PROVE s = t
  BY <1>5 DEF HopOf, Hop, RaiseIf
<1>6. ASSUME NEW t \in Session, NEW d \in Dpid, NEW src \in Mac, NEW dst \in Mac,
             PacketIn(t, d, src, dst)
      PROVE  OwnFault(s)
  <2>1. s = t
    BY <1>5, <1>6, HopSteps
  <2> QED
    BY <1>6, <2>1, PacketInRaises
<1>7. ASSUME NEW t \in Session, NextHop(t)
      PROVE  OwnFault(s)
  <2>1. s = t
    BY <1>5, <1>7, HopSteps
  <2> QED
    BY <1>7, <2>1, NextHopRaises
<1>8. CASE Next
  BY <1>1, <1>2, <1>3, <1>4, <1>6, <1>7, <1>8 DEF Next
<1>9. CASE UNCHANGED vars
  BY <1>9 DEF vars, sessionVars
<1> QED
  BY <1>8, <1>9

\* No local controller loses its session to an exception but by its own early
\* switches, stray reports and paths of others' hosts, or by links that went or
\* lie beside others: as long as hosts stay in their domain, an address keeps
\* its domain and there is an id for every address.
THEOREM NoHandlerRaisesCorrect ==
    ASSUME HostsAtHome, AddressesAtHome, IsFiniteSet(Address), Cardinality(Address) =< MaxLcId
    PROVE  Spec => NoHandlerRaises
<1> DEFINE A == \A s \in Session : Active(s) /\ status'[s] = "crashed" => OwnFault(s)
<1>1. LookupsInv /\ [Next]_vars => A
  BY RaisesByOwnFault
<1>2. LookupsInv <=> /\ TypeOK /\ RegistryInv /\ HostsInv /\ IdsInv /\ GraphInv
                     /\ LinkInv /\ RouteInv
  BY DEF LookupsInv
<1>3. Spec => [][A]_vars
  <2> HIDE DEF A
  <2> QED
    BY <1>1, <1>2, TypeCorrect, HostsCorrect, LinkCorrect, RouteCorrect, PTL DEF Spec
<1> QED
  BY <1>3 DEF NoHandlerRaises

=============================================================================
