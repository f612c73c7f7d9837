# TLA+ models and proofs for the two-level controller of VNF_DockerNet

The repository runs an SDN network under two levels of controllers: a *local
controller* (LC, a Ryu application) per control domain and one *central
controller* (CC) that sees the switches and hosts of all of them and installs
flows between domains. VNFs run in containers beside the switches and can be moved
from one to another. This directory models that control plane and the migration in
TLA+, checks them with TLC and proves the safety properties with TLAPS.

Paths below are relative to the repository; `AM` is
`src/Controllers/tflc/app_manager.py`, `CO` is `src/Controllers/tflc/controller.py`,
`L2` is `src/Controllers/cc_client/layer_2_switch.py`, `CA` is `cc_agent.py` beside it,
and `MR` and `MN` are `mininet_rest.py` and `mn.sh` in
`src/mininet_script/DockerTopo`.

## 1. Inventory

### The central controller's registry (`AM`, `CO`; module `AppManager`)

*State.* One `LocalController` per TCP connection (its id, the roles and loads it
has per switch); `glcid`, `lcip_to_lcid` and `local_ctrl_list` (ids);
`datapath_list` with a `Datapath` per switch (hosts, connected controllers, home
controller); `host_to_lcid`; `LC_LEVEL_TOPO`, a networkx multigraph of
controllers whose edges are the *window links* between domains.

*Operations.* One handler per message: HELLO_UP, DATAPATH_CONNECTED,
DATAPATH_LEAVE, HOST_CONNECTED, HOST_LEAVE, LOAD_REPORT, GRAPH_INFO, PACKET_IN,
ECHO_REPLY, ROLE_NOTIFY, GID_REQUEST, ERROR; and connections that open and end.

*What is hard.* The handlers of different sessions interleave on shared tables. A
session that ends leaves everything it registered behind, and its switches come
back under a new id while the old entries are still there. A handler that raises
ends its session with its work half done. Loops delete from the lists they walk.
Parallel links share a pair of nodes and `remove_edge` picks one itself. PACKET_IN
may wait after each FLOW_MOD it sends, and reads graph and ids again for the next.

*What makes it correct.* The records of who controls a switch agree; a live
controller's switches are registered; ids lead to the right connection; a host is
behind one switch and mapped to a real id; the two directions of a link come and go
together; the FLOW_MODs of a path fit together and name switches of the
controllers they go to.

### The heartbeat (`AM:366-395`; modules `Heartbeat`, `StrikeDetector`)

*State.* Three flags per controller id; the place of the echo greenlet in its round.
*Operations.* `_echo_request` sends to every session every 100 s;
`_ms_switch_decide` inspects the flags every 300 s; an ECHO_REPLY or a HELLO_UP
resets them. *What is hard.* One greenlet serves all sessions and waits in the
bounded queue of each; answers race inspections; a local controller may stop reading
with its connection open. *What makes it correct.* Three silent inspections lead to
one switch-over; a lost controller and a silent one are noticed; the end of a session,
however timed, does not keep the greenlet from the others.

### The send queue of a session (`CO:66-135`; module `SendQueue`)

*State.* A bounded queue of 16, the greenlets that wait in its `put`, the sender
greenlet, the receiver. *Operations.* `send`, `_send_loop`, `_recv_loop`, `serve`.
*What is hard.* The end of a session, which may come from either loop, against
greenlets that wait. *What makes it correct.* Order, no loss before the end, no
missed wake-up, and nobody left waiting.

### The local controller (`L2`, `cc_agent.py`; modules `Layer2Switch`, `LcSender`)

*State.* The tables of its switches, hosts, inter-switch ports and window switches; a
networkx graph of switches and hosts; `window_info_hash`; packets that wait for an
answer, by xid; the connection to the CC with a bounded queue.

*Operations.* Handlers of OpenFlow and topology events (a switch enters or leaves, an
LLDP frame, a host's frame, a new link); greenlets that report loads and window links
every ten seconds; handlers of the CC's messages; `serve`, `send_msg`.

*What is hard.* Four greenlets share the tables and each may be held up in every
`send_msg`, with part of its work done. An exception in a Ryu handler is logged and
the rest of the handler lost; one in the receiver ends the connection for good, as
`serve` never connects again. Messages are queued before HELLO_UP. Tables that are
never cleaned. *What makes it correct.* A host has one place; messages keep the order
that the CC's handlers rely on; a window link is reported in the end.

### The rules of a domain (`L2:150-268`, `L2:332-416`; module `Forwarding`)

*State.* The graph `net` of a local controller (switches, links, the place of each
host), the rules on their way to the switches and those in their tables.

*Operations.* A frame that no rule matches: learn its source, install the path to
its destination. A FLOW_MOD: install the path to a window switch. Switches connect
and leave; links are found; a switch or the controller restarts.

*What is hard.* A path is installed hop by hop, each hop a `put` that may wait, by
two greenlets on the same switches. The path is computed once, but edges and
switches are looked up at each hop and may be gone. Rules have no timeout and
nothing deletes them: those of yesterday's graph meet those of today's. *What makes
it correct.* The tables never add up to a loop by themselves; a rule leads to a
switch that has one too.

### Both ends of the channel (`CO`, `CA`; module `ControlChannel`)

*State.* For every session a bounded send queue and a bounded socket in each
direction, and what the handler of each receiver has still to send. *Operations.*
`_send_loop` and `_recv_loop` at both ends; PACKET_IN, which sends FLOW_MODs to
several sessions; the echo. *What is hard.* A receiver runs the handler, which waits
in the `put` of another session's queue, and reads nothing meanwhile. A local
controller whose handler raised reads no more, and leaves its socket open. *What makes it
correct.* Handlers end and echoes are answered, unless what they wait for is a jam of
one of two known kinds.

### The migration of a VNF (`MR:219-266`, `MN`; module `VnfMigration`)

*State.* The VNF's container, image and archives; its host, links and addresses in
the emulated network. *Operations.* `migrate_VNF` and each command of the script
it calls. *What is hard.* Every command may fail, none is looked at, and the rest
goes on with what an earlier migration left behind. *What makes it correct.* The
newest state of the VNF is never lost, and in the end it is linked to one switch.

### The rest

`src/Controllers/L2Controller` is a variant of `cc_client`, `ryu/app/myapp` an
experiment with paths through services. `rpcClientServer` changes a switch's
controller by one `ovs-vsctl` call, `flow_stats.py` aggregates REST answers,
`wsgi.py` serves debugging reads and a few requests that write, one of which replaces
`LC_LEVEL_TOPO` by a graph from the request (`wsgi_handler.py`). Third-party code (Containernet, Ryu, Ryu's packet
library under `tflc/packet`), topology scripts, Docker build files, traffic
generators and plots are left aside. `PROJECT.json` lists each part with its
status, section 7 why the rest is not modelled.

### How the parts interact

LC and CC exchange messages over one TCP connection per LC process, FIFO in each
direction; either end puts into a bounded queue that a greenlet or thread empties
into the socket. Inside the CC greenlets switch only at socket operations, at `put`
into a full queue, at `get` from an empty one and at `hub.sleep`: a handler that
only reads and writes tables is atomic, and one that sends is so up to each `put`. Nothing is persisted; a process that
restarts starts empty, on either side.

## 2. Modules

| module | what it is |
|---|---|
| `WindowGraph` | pure operators on the set of edges of `LC_LEVEL_TOPO`: add and remove a window, shortest paths, the edge a hop enters and leaves by |
| `AppManager` | the registry: one action per handler and per end of a connection |
| `MCAppManager` | instances of `AppManager` for TLC |
| `AppManagerProofs` | its theorems |
| `StrikeDetector` | abstract: three strikes, one switch-over per silence |
| `Heartbeat` | `_echo_request`, `_ms_switch_decide`, ECHO_REPLY and the queues they wait in; implements `StrikeDetector` |
| `HeartbeatProofs` | its theorems |
| `SendQueue` | the send side of a session |
| `SendQueueProofs` | its theorems |
| `LcSender` | abstract: which message a local controller may send next |
| `Layer2Switch` | the local controller: its tables, greenlets and connection; implements `LcSender` |
| `MCLayer2Switch` | the symmetry of its instances |
| `Layer2SwitchProofs` | its theorems |
| `LcSenderProofs` | the proof that it implements `LcSender` |
| `Forwarding` | the rules of a domain: two installers, the switches' tables, restarts |
| `MCForwarding` | an instance of it for TLC |
| `ForwardingProofs` | its theorems |
| `ControlChannel` | both ends of several sessions: queues, sockets, handlers that wait |
| `ControlChannelProofs` | its theorems |
| `VnfMigration` | `migrate_VNF` and `mn.sh`, each command of which may fail |
| `MCVnfMigration` | an instance of it for TLC |
| `VnfMigrationProofs` | its theorems |

`AppManager` and `Layer2Switch` are the two ends of the protocol, and `LcSender` is
what they have in common: the order of a local controller's messages, which the one
takes for granted and the other is shown to keep. `Heartbeat` and `SendQueue` look
closer at one greenlet and one session of the CC, `ControlChannel` at several sessions
with both their ends, `Forwarding` at the part of the local controller that talks to
the switches.

## 3. How the models correspond to the code

### AppManager

Variables carry the names of the code's fields. A dictionary is a function with
`NoEntry` (0 for ids: `None` in the code) where the key is absent, or the set of its
keys where the values do not matter (`dpid_to_role`, `dpid_to_load`). A session is a
`LocalController` object and never comes back; a restarted controller is another
session of the same domain, at the same address or at another.

A handler's actions cover its whole run, the sweep of hosts at its head and the
messages at its end included. Where it may raise part way, what was written before
the exception stays, the `status` of the session becomes `crashed`
(`_deactivate`, `CO:31-37`) and nothing else is taken back, as in the code:

* `DatapathConnected`, `DatapathLeave` and their `...Raises` forms (a `KeyError` in
  the sweep or at the first lookup). The sweep deletes from the list it walks
  (`AM:119-123`, `AM:276-278`), so it forgets every other host, the half in the odd
  positions; as the list is in order of arrival any half of that size can be meant,
  and `Sweeps` lets it be any.
* DATAPATH_CONNECTED from a session without an id registers the switch and then
  fails to pack the ROLE_ASSIGN (`AM:135`).
* `HostConnected` and `LoadReport` write before the lookup that raises, or after it,
  as the code does.
* `PacketIn` finds the path and does the first hop, `NextHop` the others: each looks up its
  edges and the holder of its id when its turn comes, raises if they are not there
  (`HopRaises`), or sends one FLOW_MOD. Between two hops the handler may wait in `put`
  (`AM:209`), and any other session's handlers run; its own session takes no further
  message (`Receives`), though it may be dropped, and the handler then goes on. `route` is
  the loop's state; its `out` and `cut` are history. Python's `path[-1]` at the first hop is
  `Before`. All other handlers send at most once, as their last statement, so that a wait
  there changes nothing.

`sent` holds the messages of the last step, for the properties. PACKET_INs that
return early change nothing and are not steps.

*The senders.* `lc_datapaths` and `lc_hosts` hold what the LC behind a session has
announced: `switch_features_handler`, the host learning of `packet_in_handler` and
`switch_leave_handler` decide from such tables what they send. They only restrict
which message comes next on a session. The domains of `SwitchDomains` and
`HostDomains` say where a switch or host may turn up: one domain each (`home`), or
several (`roaming`). `EarlySessions` are those whose switches were attached before
the LC reached the CC, so that DATAPATH_CONNECTED goes out before HELLO_UP
(`cc_agent.py:111` starts the sender and queues HELLO_UP last). `LateReports` are those
whose load greenlet was held up, so that a LOAD_REPORT names a switch that has left,
or comes before its DATAPATH_CONNECTED. That a local controller keeps to this order is
what `Layer2Switch` shows: `LcSender` is the same guards on the sender's side.

*Assumed.* A domain runs one LC process at a time, and its old connection has ended
at the CC before the new one opens.

*Left out.* Generation ids and GID_REQUEST, load values, `win_dpid`, `dp_win` (always
empty: the code that fills it is commented out), the counter of requests, ROLE_NOTIFY
and ERROR (they log). No modelled handler reads them. REST (`wsgi_handler.py`) reads tables, resets the counter of requests and asks all
controllers for a change of their switches, which the LC passes on to a JSON-RPC service; and
one POST replaces `LC_LEVEL_TOPO` (`set_lc_topo`): an operator's override, after which nothing
said here about the graph holds. The step-by-step branch
of PACKET_IN is switched off by `cfg.FLOW_DISPATCH_STEPBYSTEP = 0`. The two port numbers
of a window are one identity of the link (`Link`), the same from both ends.

### WindowGraph

`AddWindow` is `AM:323-359` (the two branches differ only in `win_dpid`).
`RemoveDatapath` is the loop of `AM:290-294`: it calls `remove_edge(u, v)` once per
edge that touches the switch, and networkx removes *some* edge of that pair, so the
operator gives the set of graphs that may be left. networkx itself is external: the
keys it gives (`NewKey`), `popitem` (`Popped`) and shortest paths are modelled from
their use. The two directions of a pair see the same insertions and removals in the
same order, so they lose the same keys; `Popped` says so.

### Heartbeat

Each action is one stretch between two switches of greenlets: a message handled, one
`send_msg` of the echo greenlet, one whole round of `_ms_switch_decide` (it never
waits). `waiting` is the session in whose full queue the echo greenlet waits.
`SendFails` and `RecvEnds` are the two ends of a session. A sender that has run
(`Starts`) drains its queue when it ends (`Drained`), which schedules the callback that
lets the echo greenlet go, later (`Released`); one that is killed before it has run
does neither, and the greenlet waits for ever (`release = "never"`). `FallsSilent` is a
local controller that reads no more while its connection stays open: its receiver died
(`LcRaises` of `ControlChannel`) or is in a jam. `send_q` and `replies` are numbers of messages: no property looks inside. Other
traffic through the same queues is not modelled, and with it neither are the other
greenlets that may wait there: that the end of a session lets the echo greenlet go is
what `send_queue` checks for no more greenlets than slots, i.e. for up to fifteen
sessions (their receivers and the echo greenlet, sixteen slots). Beyond that
`EchoReaches` fails with `PuttersReleased` (run `send_queue_crowded`).

### SendQueue

The eventlet queue is modelled from its documented and used behaviour: `put` waits
when full; `get` schedules `_unlock` when somebody waits; `_unlock` lets waiting
putters in, in any order, while there is room. A killed greenlet that never ran does
not enter its function. The receiver is itself a greenlet that puts (its handlers
answer); while it waits it cannot notice that the connection ends. `_recv_loop`,
`_send_loop`, `send`, `serve` and `_deactivate` are covered line by line.

### Layer2Switch

The actions between two `Idle` states are one handler of Ryu's event loop; `out`
holds the messages it has still to put, each a point where it may be held up.
`get_topology_data` waits three times for Ryu's topology and is split there
(`TopologySwitches`, `TopologyWindows`, `TopologyLinks`); `TopologyRaises` is the join
of `L2:526`, which fails as soon as there is a window link. `switch_leave_handler`
begins with a `remove_node` that raises for a switch the graph does not have yet; then
nothing is taken back. After its message it resets the hash (`Reset`). A frame from a new
host on the port of another first takes that one out and puts HOST_LEAVE
(`PacketInReplaces`), and only then enters the new one (`AppEnters`): while that `put`
waits neither is in a table, and the other greenlets see it so. `_load_report`
walks a copy of the switches (`load_todo`); `_graph_info_thread` is read, compare, put
and the write of the hash (`graph`). `Connect`, `HelloPut` and `Ends` are `serve`: what
was put before goes first, and after the end `send` does nothing.

`lc_datapaths` and `lc_hosts` are what has been announced in the messages put, `sent`
the last of them; no action reads them, but for the switches that can be meant by a
ROLE_ASSIGN. The map from `Layer2Switch` to `LcSender` is the identity on these three.

*Assumed.* Ryu and networkx are external. A switch's own events come in the order
features, frames, leave (Ryu reports no leave for one that reconnects over an open
connection). `get_window_switch` and `get_all_window_switch` are not in the Ryu that
the repository vendors; from their use they list dictionaries of window links.
md5 has no collisions (`HashOf`).

*Left out.* Flows, paths and the edges of the graph, which are in `Forwarding`; pending
packets by xid, loads, roles, `lcid`; `_switch_change_handler`, which calls a JSON-RPC
service.

### Forwarding

`nodes`, `links` and `place` are the graph `net`: a host has an edge to one switch
and that switch's port to it. `PacketIn` is `packet_in_handler` from the learning of
the source to the path; `FlowMod` is `cc_flow_mod`. The hops that are
left are `todo`, one list for Ryu's event loop (`app`) and one for the receiver of the
CC's messages. `put` is where an installer is: before the lookups of the next hop
(`Continue`; after a frame's rule the frame itself is put, which may wait), past them and
in the `put` of its rule (`PutRule`, once the switch's queue has room), or at a lookup
that raised (`Abort`, before anything else happens), which ends the receiver but not the
event loop. What is looked up is
kept while the `put` waits: `current` tells the `Datapath` of an open connection from one
whose connection is over, which discards the rule. `SwitchFeatures`, `TopologyData` and `SwitchLeave` are the handlers of the
same names as far as the graph goes; that `get_topology_data` waits in between is in
`Layer2Switch`, and since links are never taken out it adds nothing here.

A rule goes over `wire` into `flow`. `told` is what the table will be if nothing more
is sent, `astray` the switches that missed a rule because their connection was lost or
the handler raised, or that got one out of a port which `UnknownPort` says may be
mistaken for a host's (before the first LLDP frame of the port, `L2:186`). Both are
history: no action reads them. Properties are stated per match, although a rule for a
TCP connection and one for a destination have the same priority and overlap: which one
a switch takes is not said anywhere.

*Assumed.* OpenFlow keeps the order of the messages to one switch. A switch hands up
whole frames (`L2:112`), so the branches for a `buffer_id` are dead code.
*Left out.* The frames sent out along a new path: every hop sends the frame out of its
own port (`L2:245-247`), so that one frame may arrive several times;
and the flooding of frames to unknown hosts, which never ends in a domain whose links
make a ring, as no spanning tree is computed.

### ControlChannel

A session has four places for messages: `down` and `up` are the send queues of the two
ends, the others the socket in each direction. `CcReceive` and `LcReceive` take a
message from the socket, and the handler runs as far as it can put: `todo` is what is
left of a PACKET_IN's FLOW_MODs, `replying` an ECHO_REQUEST whose answer has no room
yet. `FlowMod` and `LcReply` go on. At the local controllers in `Failing` a FLOW_MOD (or a
ROLE_ASSIGN) may be held up by a switch's queue (`installing`), and then comes to its end
(`LcInstalled`) or raises the `KeyError` of `L2:309` or `L2:334` (`LcRaises`): `serve` kills
the sender, whose end drains its queue, nobody closes the socket, and nobody reads it
again (`dead`). `EchoRequest` and `EchoPut` are the round of
`_echo_request`. A connection breaks at any moment (`Break`), and an end finds out at
its next operation on the socket (`CcEnds`), as both programs do. Framing is left out:
both ends cut the stream by the length in the header and keep the rest, which a reading
settles; and so is the order in which a queue lets in those who wait (`SendQueue`).

### VnfMigration

`Steps` is the order of the commands, `pc` the one that is next. Each takes a Boolean
for whether it succeeds; `Outcome` says that it fails if it has nothing to work on, or
for a reason of its own, and notes the latter in `hurt`. What docker and containernet
do is modelled from their source or their use: `docker rm` removes no running
container, `terminate` removes only one that is running (`node.py` of containernet),
`removeLink` takes the first link it finds and `removeDocker` what is left.
`Docker.__init__` may fail before it creates the container, after, or once it runs
(`node.py:766-794`), so a failed `AddDocker` may leave one under the name. `NoExec` is the case that `docker exec` itself fails, so that no command of the first
part runs; the second part goes on.

`src/mn.sh` is an older script that nothing calls. It commits before it stops, so that
what the VNF writes in between is lost: `StepsCommitFirst` is its order, and
`ResumesNewest` refutes it. It also starts a container by itself, whose name the later
`addDocker` would find taken.

*Left out.* ARP entries, routes (not set again after a move) and the `mac` addresses:
`migrate_VNF` collects them and does not use them, and the new interfaces have new ones.

## 4. Runs

| run | what it asks | instance | states |
|---|---|---|---|
| `home` | ids resolve; hosts behind one switch, and known; FLOW_MODs over the link through a restart | 2 domains, one restarts its LC from the same address; 3 switches, 3 hosts, one window link | 481 062 |
| `roaming` | membership, announced switches, host ids | 2 sessions, 2 switches and 2 hosts that move freely, one early session, one with late reports; symmetric in switches and hosts | 680 026 |
| `windows` | edges paired, their ends registered, FLOW_MODs owned and meeting, who raises | 3 domains in a line, the first two joined by two switches; three links; the middle LC early, its reports late; waits between the hops | 435 498 |
| `heartbeat` | flags, refinement of `StrikeDetector`, loss and silence noticed, the greenlet comes by | 2 ids, one slot per queue; LCs that fall silent, senders killed before they run | 107 141 |
| `send_queue` | order, wake-ups, liveness | 2 greenlets, 2 slots, 3 messages each | 3 883 |
| `l2_hosts` | hosts have one place; implements `LcSender` | 2 switches, 2 hosts that come and go; symmetric | 988 581 |
| `l2_windows` | a window link that stays is reported | 2 switches, a link at one, the other leaves and returns | 539 538 |
| `forwarding` | no loop of rules; rules lead on | 3 switches in a line, one leaves and restarts; a host that moves from end to end, and one of another domain; one mistaken port; rules for one destination, one rule on the wire per switch | 2 063 847 |
| `vnf_migration` | the VNF's state survives; its links; its place in the network | 1 VNF, 2 switches, 4 versions, 2 failures | 459 840 |
| `control_channel` | handlers end, echoes are answered, a jam lasts | 2 sessions, one may break and its LC die in a handler; queues and sockets of one; 4 requests, 2 echoes | 368 321 |
| `moved` | **violated**: `HostOnOneDatapath` | as `roaming`, no early session | |
| `send_queue_crowded` | **violated**: `PuttersReleased` | 3 greenlets, 1 slot | |

*Bounds, and why they are enough.* The registry's interactions are pairwise: two
sessions over one switch, two switches over one host, a session and its successor.
The instances have each of these with one actor to spare. `MaxLcId = 2` makes
`glcid` wrap in every run (the code wraps at 2^32 - 1); two addresses are as many
ids as that leaves distinct, and with more live addresses than ids an id is given
twice, in the code as in the model: the code does not look whether the next id is taken. `windows` has three ids, one per domain: a path has a
first, a middle and a last hop, two FLOW_MODs with a wait between them, and a sender in the
middle; its links are distinct, so
that the FLOW_MODs over the only link to the third domain are told from the others. For
`send_queue` the code's sixteen slots
are two: what counts is queue empty, partly full, full, and fewer or more waiting
than slots. `MaxPuts` bounds the messages of a greenlet, `MaxReplies` the answers in
flight; further messages repeat these situations. `l2_hosts` has one port per switch, so that a host displaces another, and
the graph greenlet is there with no links; `l2_windows` has the links and no hosts, as
links and hosts meet only in the leave of a switch, which both have.

A line of three switches is the smallest domain where a path has a middle hop, where two
installs of one match run in opposite directions (the host moves from end to end), and
where a switch is lost in front of, on and behind a hop. A ring makes the instance too
large for its time; the proofs of both properties are for any topology.
`MaxVersion` and `MaxFailures` of `vnf_migration` allow two failures in one migration or
in two that follow each other, with an update before, between and after; every exception
that a property names is a single failure, and the proofs have no bounds on either.
`control_channel` reaches the circle of one session with itself (four requests, two
echoes), and a full session with a dead local controller that the other session's handler
and the echo greenlet wait for. A circle of two sessions needs seven requests, which is
beyond a run's time, but not beyond the theorem `JamStaysCorrect`. `Breakable` and
`Failing` are the same session, so that a death, a break and both meet.

*Deadlock.* Registry, queue and local controller runs turn the deadlock check off: every session may
end, and then nothing is left to do. So do the bounded runs: `control_channel` stops when
its requests are used up (or in the circle, which `HandlersEnd` names), `forwarding` and
`vnf_migration` when no frame, switch or version is left that changes anything. The
heartbeat never stops and is checked.

*Fairness.* `Heartbeat`: `EchoStep` and `MsSwitchDecide` are weakly fair, since
`hub.sleep` returns and both loop for ever; so are `Starts` (a spawned greenlet runs) and,
per controller that is not silent, `Answer` and `EchoReply`. A controller may fall silent at
any moment and need never answer again: no property rests on answers that the code does
not guarantee. Greetings and ends of sessions are not fair. `SendQueue`: the sender's steps and the scheduled callback are
weakly fair (a spawned greenlet runs, `sendall` returns or raises); nobody has to send
and no session has to end. `Layer2Switch`: the event loop's and the graph greenlet's steps are weakly fair, i.e. a
`put` that waits gets its turn: the CC reads on, or the connection ends (which the
property allows for). `ControlChannel`: the loops and handlers of every session are weakly
fair, and so is the echo greenlet's wait: threads and greenlets run, a socket with data
is read by a receiver that is alive and not in a handler, and a handler held up by a
switch's queue ends or raises, since Ryu's sender empties that queue or drops it with the
connection. Frames, echo rounds, exceptions and breaks are not fair. `AppManager`, `Forwarding` and
`VnfMigration` have safety properties only, hence no fairness.

### What the violated runs show

* `moved`: "if the new host has existed, delete it" (`AM:255`). HOST_LEAVE from the
  switch a host *used* to be behind drops its `host_to_lcid` entry; then the next
  HOST_CONNECTED finds nothing to delete, and the host is listed behind two switches.
* `send_queue_crowded`: "unblock them by draining the queue" (`CO:104`). The drain runs
  once, and the greenlets it lets in fill the queue again; with more of them waiting
  than slots the last wait for ever.

### What passing runs show that one might not expect

* Sessions can wait for each other in a circle: the CC's receiver waits to put a FLOW_MOD,
  the local controller's to put an ECHO_REPLY, and nobody reads. Or a local controller has
  died in a handler (`L2:309`, `L2:334`): its socket stays open, the CC sees no end of the
  connection, and once socket and queue are full every handler that sends to it waits, for
  ever. `HandlersEnd` shows that these two, and waiting for a session in either, are the
  only ways a handler of the CC hangs in this model; `JamStays` that nothing in either
  program ends them. The code's queues have sixteen slots and its sockets hold many
  messages, so it takes a burst of requests, or time.
* A controller that reads no more is counted out (`SilenceNoticed`), but not alone: once
  its queue is full the echo greenlet waits in it and sends to nobody else (`Held` in
  `EchoReaches`), so that healthy controllers, which answer what they are asked, are
  asked nothing and are counted out too. So they are after a sender was killed in the `put`
  of which the greenlet waits before it ran.
* A path may be installed with a gap. `FlowModsMeet` shows that the flow enters a domain
  where it left the one before only over a sole link, or as long as no link has gone
  since the path was computed; else the hop after a wait may find another of parallel links.
* Loops of rules do occur, through a switch whose rule was lost with its connection or
  left out by a handler that raised, and they stay, as rules have no timeout (`L2:484`).
  `NoForwardingLoop` shows that nothing else makes one.
* Four kinds of failure lose a VNF's state. The surprising one is `stale`: when the copy of
  a new archive fails, `docker load` silently takes the archive of an earlier
  migration, as nothing removes it from the target (`MN:24`).
* A VNF that lost an interface's address in a failed migration never has both again
  (`MR:262-264` copies the addresses of the old interfaces).

### Mistakes that the models follow

Not worth a run each, as reading shows them; the models do what the code does.

* `get_topology_data` joins the window links as strings (`L2:526`), although they are
  dictionaries, so with a window link the graph gets no new nodes or links and its own
  GRAPH_INFO is not sent. `_graph_info_thread` reports the link nevertheless
  (`WindowsTold`).
* "out_dpid %d is not window datapath" (`L2:329`): the test is for the key, which every
  switch has, with the value False (`L2:524`).
* "0: the src control-region; 1: not the src control-region" (`L2:327`): the CC sends 1
  for the source's region (`AM:201-203`). The LC does not read it.
* "the host must be cleared" when a switch connects to a new controller (`AM:120`), but the
  loop `AM:119-123` skips every other host: a switch with two hosts keeps one, mapped to an
  id whose controller has not learnt it (`Sweeps`).
* "unblock them by draining the queue" (`CO:104`): a sender that is killed before it has run
  never enters its `try` (`CO:134`), so nothing drains, and a later `put` may wait for ever.
* "xid_to_packet timeout handler" (`L2:506`): `_packet_timeout_handler` makes one pass
  when it starts, over empty tables, and ends.
* `cc_flow_mod` installs the rule but sends the frame nowhere when it enters and leaves at the
  same switch (`L2:378-382`).
* `_check_window_link_validity` (`AM:397`) passes once over the edges when it starts, when there
  are none, and would look for keys that edges do not have (`src_dpid`; `AM:331` writes
  `left_dpid`).
* The hash written at `L2:543` is another attribute than the one compared at `L2:477`.

### What holds only under conditions

* `HostOnOneDatapath` and `ListedHostsKnown` hold when hosts stay in their domain; switches
  may roam. `NoHandlerRaises` holds under the same condition, and names what may end a session
  by an exception (`OwnFault`): switches announced before HELLO_UP, a LOAD_REPORT that is late
  or early, a link reported to a switch that such an early session left behind, a PACKET_IN for
  a host of another domain (`path[-1]`), and links that went, or lie parallel, while its handler
  waited. `windows` has all five. When hosts roam, `KeyError`s end other sessions too;
  `roaming` checks that the registry of switches survives that.
* `WindowsTold` is about switches that do not leave. When one leaves and returns between
  two polls, the greenlet may overwrite the reset hash, and its links are not reported
  again.
* `FlowModsOwned` excepts a switch that the session of a dead controller, or a controller
  of another domain, holds. A dead session stays in `connected` and may stay the home; a GRAPH_INFO then enters links under
  its id, and a FLOW_MOD for that id goes to the successor at the same address, whether or
  not the successor has announced the switch: a `KeyError` at `L2:334`. It takes a restart of
  a controller whose switch was never handed over.
* `LinkEndsRegistered` and `FlowModsOwned` are about links that are the only one between
  their two domains (`SoleLink`). Of parallel links the wrong edge may stay, which the Todo
  at `AM:287` concedes; `windows` has both kinds side by side.
* `HandlersEnd` and `EchoAnswered` except the two kinds of jam, `EchoReaches` a greenlet held by
  a silent session or a killed sender, `NoForwardingLoop` and `RulesLeadOn` the
  switches that missed a rule, the properties of `VnfMigration` the failures they name.

## 5. Proofs

All theorems are of the form `Spec => []Inv` (or an action property, or a refinement),
for any sets of sessions, switches, hosts, addresses and windows, any cables, any
`MaxLcId`, any queue sizes and bounds, under the named assumptions of the modules (typing
of the constants; `MaxLcId`, `QueueSize` positive; `NoEntry` and the like differ from
real values).

*AppManager.* `TypeCorrect` is inductive by itself: the wrap of `glcid` is what it
turns on. `RegistryCorrect` proves `RegistryInv`; `MembershipCorrect`,
`AnnouncedCorrect` and `HostIdsCorrect` follow from it. None of those three is
inductive alone. `datapath_leave` unregisters a switch by `len(lc_connected) == 1`: to
know that the one counted is the one that leaves one needs that the leaving session is
listed, i.e. that its announced switches are its recorded ones (`SessionsAgree`, which
also has the load entries, since the `del` of a missing one would skip `del_lc`), and
that the set counted is finite (`MembersFinite`). `HostIdsAllocated` needs that a
session which announced a switch and survived has an id (`IdsAllocated`), because a
session without one dies at the ROLE_ASSIGN. Frame lemmas take care of the actions
that touch only one part.

Three more invariants hold under conditions on the constants, which are assumptions of
their theorems. `HostOnOneDatapathCorrect` and `ListedHostsKnownCorrect` assume
`HostsAtHome`: no host turns up in two domains. Each needs the other: HOST_CONNECTED
looks for the old switch only if the host is known, and forgetting a host that another
switch lists would leave it there unknown. `HostsInv` adds why HOST_LEAVE, which does not
look for the host, names the one switch that lists it: a single live session can tell the
host (`ActiveApart`, `ToldAtHome`), and it told it there (`ListedWhereTold`).
`ActiveIdsResolveCorrect` assumes as many ids as
addresses. Its `GlcidFresh` says that `glcid` is above every id in use, by counting
those, until all addresses have one: then `glcid` may wrap, as it is not used again.

*The graph of window links.* `EdgesPairedCorrect` holds without
conditions. It is not inductive. `SoundGraphs` are the graphs that `AddWindow` and
`RemoveDatapath` make: finite, no edge from a controller to itself, parallel edges with
distinct keys, every edge with its reverse under the same key. That a new key is free
(`NewKeyFree`) is a count: networkx tries the number of the parallel edges and goes up, and
there are more numbers than keys. Removing keeps the pairs since both directions lose the
same keys (`Popped`). The loop of GRAPH_INFO over its windows is a recursive function; that
it ends in a sound graph is an induction over the list. The library's induction rule takes
an operator and cannot be used with the installed provers, so the induction is done by
hand, on a set of numbers and its least element (`NatLeast`, `UpToInduction`), which the
well-foundedness of the subsets of a finite set gives.

`LinkEndsRegisteredCorrect` and the three theorems on PACKET_IN assume that an address
belongs to one domain (`AddressesAtHome`) and that there are as many ids as addresses;
switches may change their domain, sessions come early and reports late. `LinkInv` relates
an edge to the sessions whose ids it joins: they are of domains that its two switches may be
pointed at (`EdgeAtHome`). Hence the edges parallel to a sole link are copies of that link
(`SameLink`), all of them touch the switch that leaves, and whichever `remove_edge` takes,
it takes them all.

For `FlowModsOwnedCorrect`, the id of a hop leads, whenever the handler comes to it, to a
session with that id, of the one domain of its address, and the switch the flow leaves by is
one that may be pointed at that domain; it is registered, so some session holds it,
and if that one is live and of the same domain, then, as only one is at a time
(`ActiveApart`), it is the one that gets the FLOW_MOD.

For `FlowModsMeetCorrect`, `RouteInv` says of a handler that waits: the edge it left the last
hop by joined the two ids; and, as long as no link has gone since the path was computed, the
path is still one, that edge is still there, and it has key 0 if any edge beside it
has (`Grown`: links that come do not take a free key 0 next to others). If links have gone,
a sole link may have come back as a copy, which is the same at both ends (`SameLink`).

`NoHandlerRaisesCorrect` also assumes `HostsAtHome`. It goes through the lookups of every
handler (`LookupsInv` is all of the above): a session's own switches are registered, listed
hosts are known, homes have ids unless their session was early, and the hop after a wait
finds its edges unless `cut`, or parallel links, take them away.

*Heartbeat.* `HeartbeatCorrect` proves `HeartbeatInv`, of which `TypeOK` and `FlagsCount`
are parts; the third, that a session in use was greeted, is why only ids under watch have
flags. `CountsStrikesCorrect` proves that `Heartbeat` implements `StrikeDetector` with
`strikes` read off the flags; it rests on `FlagsCount`, without which the second flag
could be set and the first not, and the mapping would miscount.

*SendQueue.* `SendQueueCorrect` proves `SendQueueInv`, `NoMissedUnlockCorrect` its
most important part: whoever waits while the sender can still take a message has an
`_unlock` coming or a full queue before it. `InOrderCorrect` proves that the messages of a
greenlet go out in their order and without a gap. Its `OrderInv` adds what the property does
not say: a message that waits is the last of its greenlet, so that it may be let in before
or after those of others; the message in `sendall` is the next of its greenlet after those
on the wire, so that one lost there ends the sequence and leaves no gap; and the queue is
there until the sender is over.

*Layer2Switch.* `HostsPlacedCorrect` proves `HostsPlaced`, through `PlacesInv`: the
event loop only handles events of switches whose tables it has, and a switch that is
gone left no hosts in its table; a frame that waits for HOST_LEAVE to be put is of a host
that is still in no table (`FramesWait`). Without the second part a host would be back with the
switch and be no node, and the code would learn it a second time. `TypeCorrect`
proves `TypeOK`, whose bound on `out` says that a handler of the event loop has at
most two messages to put at a time; it splits by what a handler leaves (`OutTypeOK`), what the tables
hold (`TablesTypeOK`) and what has been announced (`ToldTypeOK`).

*The two ends of the protocol.* `SendsInOrderCorrect` proves that `Layer2Switch`
implements `LcSender`, which has the guards that `AppManager` puts on its senders. The
tables change when a frame or an event is handled, the announcements when the messages
are put, possibly much later; `OrderInv` relates the two by what the event loop has still
to put: nothing that matters (`Settled`), a new switch (`Connecting`), a host that came
(`Learning`), one that took the port of another (`Displacing`), a switch that goes
(`Going`). `PlacesInv` adds that a host which is no node is in no table, so that the
next HOST_CONNECTED is of a host not announced. Once the connection has ended nothing is
put, and every step is a stutter of `LcSender` or one of its silent reports.

*Forwarding.* `NoForwardingLoop` speaks of the tables, but the code only knows what it
has sent; so the invariant `LoopInv` speaks of `told`. `ToldIsLast`: what a table will be
is its last rule on the wire, or else what it is. `TodoChained`: the hops that are left
follow one another. `ToldLoopsExcused`: a loop in `told` has a switch on it that missed
its rule or is the next hop of an installer. The step that matters is a rule sent
(`PutRule`): if it closes a loop, the loop goes on through the hop that is
installed next, which becomes the excuse, and if it is the last hop it leads out of the
domain or to the host and closes none. `ToldLeadsOn` is the same for a single rule, and
gives `RulesLeadOn`. Neither needs that a path is shortest, only that it is a sequence of
nodes. `WireOpen` (no rule on the wire of a closed connection) is what a restart needs.

*VnfMigration.* `KeptInv` says at each step of the script where the newest state is: in the
container until the commit, in the image after it, and in the archive the load will take,
as far as nothing in `Loses` has happened. `LinkInv` says where the two links are at each
step, `NodeInv` at which steps the VNF may be missing. The failures that a property names
are exactly those its proof needs.

*ControlChannel.* `ChannelInv` bounds what is in queues and sockets and gives
`ChannelTypeCorrect`. `JamStaysCorrect` rests on it, as that a full queue has no room
and a handler that waits cannot go on (`JamKept`) needs both types; it is proved action by
action, for circles of any length and for sessions whose local controller is dead.

*Only model-checked.* Liveness (`LossNoticed`, `SilenceNoticed`, `EchoReaches`, `AllSent`,
`PuttersReleased`, `WindowsTold`, `HandlersEnd`, `EchoAnswered`) and everything about
ENABLED, which is out of the prover's reach. Every other property of a run that passes is
a theorem, some of them under the conditions above. No module has RECURSIVE operators.

## 6. Order of the work, and what is left

Modelled in this order: `WindowGraph`, `AppManager`, `Heartbeat` over `StrikeDetector`,
`SendQueue`, `Layer2Switch` over `LcSender`, `Forwarding`, `VnfMigration`,
`ControlChannel`; each with its proofs.

Left, by use:

1. `ControlPlane`: `Layer2Switch` and `AppManager` over FIFO channels, for the hazards that
   need both ends: a ROLE_ASSIGN for a switch that has left (`L2:309`), whose effects on the
   channel are in `ControlChannel` but whose cause is not. `LcSender` stands in for it so far. The product of the two is beyond
   a run of a few minutes even for one session.
2. Pending packets by xid (`L2:418`, `AM:208`).

## 7. Not modelled, and why

* *Most of the files.* Nine tenths of the repository's lines are vendored: Ryu with its
  OpenFlow parsers and packet library (`src/Docker/Shared/ryu`), Containernet and Mininet,
  and scripts for images and plots. The repository's own programs use them as libraries,
  and they are modelled as far as that use goes, and marked external. What the models map is the larger
  part of the control logic in `tflc`, `cc_client` and the migration; it is a small share
  of all lines, and no faithful model of this system would change that.
* *Message formats* (`msg_proto*.py`): byte layouts. That a message with `None` in it cannot
  be packed is modelled where it matters. Lengths and the framing at both ends are correct
  as read; `xid` wraps at 32 bits, `length` has 16, which a GRAPH_INFO of some thousand
  window links would exceed.
* *L2Controller*: an earlier variant of `cc_client`. Its connection and messages are those
  of `cc_agent.py`; its `L2Topology` is fed with Ryu's dictionaries, whose `dpid` is a
  string of hexadecimal digits, while `removeNode` is called with an integer
  (`topo_learner.py:567`), so that a switch which leaves stays in its graph.
* *myapp* (in the copy of Ryu): paths through services, as an experiment. Its handlers promise
  nothing between steps. `find_path` compares the string dpid of a link with the integer of a
  datapath and so always takes the link's far port; a port number in hexadecimal digits is
  read as decimal; the handler of a modified port uses attributes that are not there.
* *flow_stats.py* adds up counters of REST answers; *rpcServer* runs one `ovs-vsctl` per call;
  *wsgi* and the rest of *mininet_rest.py* read tables or pass on single commands, but for the
  POST that replaces `LC_LEVEL_TOPO` (section 3, AppManager). None keeps state of its own between calls.
* *Checkpoint migration, topologies, images, traffic generator, plots*: scripts that run from
  top to bottom.

## 8. Running

    tlc -config registry_home.cfg MCAppManager    # any of the .cfg files
    tlc -config heartbeat.cfg Heartbeat
    tlc -config l2_hosts.cfg MCLayer2Switch
    tlc -config control_channel.cfg ControlChannel
    tlapm ForwardingProofs.tla                     # any of the ...Proofs modules
