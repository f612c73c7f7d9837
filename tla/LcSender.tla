------------------------------ MODULE LcSender ------------------------------
(***************************************************************************)
(* What a local controller promises about the messages it sends up: which  *)
(* may come next after those sent so far.  This is what AppManager takes   *)
(* for granted of the sender of each session (its lc_ variables), and what *)
(* Layer2Switch is shown to keep.                                          *)
(***************************************************************************)
CONSTANTS
    Dpid,      \* switches
    Mac,       \* hosts
    NoEntry    \* the host is not announced

VARIABLES
    lc_datapaths,  \* switches announced and not left
    lc_hosts,      \* host -> switch, as announced
    sent           \* the message sent by the last step

Quiet == [type |-> "none"]

Init ==
    /\ lc_datapaths = {}
    /\ lc_hosts = [m \in Mac |-> NoEntry]
    /\ sent = Quiet

DatapathConnected(d) ==
    /\ sent' = [type |-> "DATAPATH_CONNECTED", dpid |-> d]
    /\ lc_datapaths' = lc_datapaths \cup {d}
    /\ UNCHANGED lc_hosts

\* The hosts behind a switch go with it, without messages of their own.
DatapathLeave(d) ==
    /\ d \in lc_datapaths
    /\ sent' = [type |-> "DATAPATH_LEAVE", dpid |-> d]
    /\ lc_datapaths' = lc_datapaths \ {d}
    /\ lc_hosts' = [m \in Mac |-> IF lc_hosts[m] = d THEN NoEntry ELSE lc_hosts[m]]

HostConnected(d, m) ==
    /\ d \in lc_datapaths
    /\ lc_hosts[m] = NoEntry
    /\ sent' = [type |-> "HOST_CONNECTED", dpid |-> d, mac |-> m]
    /\ lc_hosts' = [lc_hosts EXCEPT ![m] = d]
    /\ UNCHANGED lc_datapaths

HostLeave(d, m) ==
    /\ lc_hosts[m] = d
    /\ sent' = [type |-> "HOST_LEAVE", dpid |-> d, mac |-> m]
    /\ lc_hosts' = [lc_hosts EXCEPT ![m] = NoEntry]
    /\ UNCHANGED lc_datapaths

\* A frame for a host that is not announced, from an announced switch.
PacketIn(d, m) ==
    /\ d \in lc_datapaths
    /\ lc_hosts[m] = NoEntry
    /\ sent' = [type |-> "PACKET_IN", dpid |-> d, mac |-> m]
    /\ UNCHANGED <<lc_datapaths, lc_hosts>>

\* LOAD_REPORT and GRAPH_INFO come from greenlets of their own: they may name
\* switches that have left, or that are not announced yet.
Report ==
    /\ sent'.type \in {"none", "HELLO_UP", "LOAD_REPORT", "GRAPH_INFO"}
    /\ UNCHANGED <<lc_datapaths, lc_hosts>>

Next ==
    \/ Report
    \/ \E d \in Dpid : DatapathConnected(d) \/ DatapathLeave(d)
    \/ \E d \in Dpid, m \in Mac : HostConnected(d, m) \/ HostLeave(d, m) \/ PacketIn(d, m)

Spec == Init /\ [][Next]_<<lc_datapaths, lc_hosts, sent>>
=============================================================================
