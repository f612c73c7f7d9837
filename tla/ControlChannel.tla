--------------------------- MODULE ControlChannel ---------------------------
(***************************************************************************)
(* The sessions between the central controller (tflc/controller.py,        *)
(* app_manager.py) and the local controllers (cc_client/cc_agent.py), both *)
(* ends together.  Each end of a session has a bounded send queue, a       *)
(* _send_loop that moves messages from it into the socket, which is bounded*)
(* too, and a _recv_loop that runs the handler of each message to its end, *)
(* the puts it waits in included.                                          *)
(*                                                                         *)
(* A handler of the central controller may send to other sessions: a       *)
(* PACKET_IN sends a FLOW_MOD to every controller of a path but the last.  *)
(* At a local controller the handler of an ECHO_REQUEST sends the reply,   *)
(* and that of a FLOW_MOD puts into the queues of switches, or raises: it  *)
(* then ends the receiver and the sender of the session, and nobody closes *)
(* the socket.  The other greenlets of a local controller only put into    *)
(* its queue.  A DATAPATH_CONNECTED with its ROLE_ASSIGN is like a         *)
(* PACKET_IN that sends to the own session only.  What is in the messages, *)
(* and how they are cut out of the stream, is left out; so is the order in *)
(* which a queue lets in those who wait, which is in SendQueue.            *)
(***************************************************************************)
EXTENDS Integers, FiniteSets, Sequences

CONSTANTS
    Session,      \* connections; a controller that connects again has a new one
    NoSession,    \* the echo greenlet waits for nobody
    QueueSize,    \* hub.Queue(16), at both ends
    SocketSize,   \* the messages that fit into a socket, one way
    Breakable,    \* bound: the connections that may break
    Failing,      \* bound: the sessions where a FLOW_MOD may wait for a switch, or fail
    MaxRequests,  \* bound: the requests of all local controllers
    MaxEchoes     \* bound: the ECHO_REQUESTs

ASSUME ControlChannelAssumption ==
    /\ IsFiniteSet(Session)
    /\ NoSession \notin Session
    /\ QueueSize \in Nat \ {0}
    /\ SocketSize \in Nat \ {0}
    /\ Breakable \subseteq Session
    /\ Failing \subseteq Session
    /\ MaxRequests \in Nat
    /\ MaxEchoes \in Nat

VARIABLES
    is_active,    \* LocalController.is_active; send_q goes with it
    broken,       \* the connections that are gone
    dead,         \* the sessions whose local controller has stopped reading and sending
    down,         \* send_q of the central controller's end
    down_socket,
    up,           \* send_q of the local controller's end
    up_socket,
    todo,         \* the sessions the handler of each session has yet to send to
    replying,     \* the sessions whose local controller handles an ECHO_REQUEST
    installing,   \* or a FLOW_MOD
    echo,         \* the session whose put _echo_request waits in
    requests,
    echoes

endVars == <<is_active, broken, dead>>
downVars == <<down, down_socket>>
upVars == <<up, up_socket>>
handling == <<replying, installing>>
counts == <<requests, echoes>>
vars == <<endVars, downVars, upVars, todo, handling, echo, counts>>

DownMessage == {"ECHO_REQUEST", "FLOW_MOD"}
UpMessage == {"ECHO_REPLY", "PACKET_IN"}

Empty == [s \in Session |-> <<>>]

Init ==
    /\ is_active = [s \in Session |-> TRUE]
    /\ broken = {} /\ dead = {}
    /\ down = Empty /\ down_socket = Empty
    /\ up = Empty /\ up_socket = Empty
    /\ todo = Empty
    /\ replying = {} /\ installing = {}
    /\ echo = NoSession
    /\ requests = 0 /\ echoes = 0

RoomAtMost(q) == Len(q) =< QueueSize
Room(q) == Len(q) < QueueSize
SocketRoom(q) == Len(q) < SocketSize

With(f, s, e) == [f EXCEPT ![s] = Append(@, e)]
Without(f, s) == [f EXCEPT ![s] = Tail(@)]

-----------------------------------------------------------------------------
\* The central controller.

\* The sessions that a request of s sends to: the own one first, then those
\* of the other controllers on a path.
Paths(s) ==
    UNION {{path \in [1 .. n -> Session] :
                path[1] = s /\ \A i, j \in 1 .. n : path[i] = path[j] => i = j}
           : n \in 1 .. Cardinality(Session)}

\* send: nothing happens once send_q is None, and a full queue makes one wait.
Goes(t) == is_active[t] => Room(down[t])
Put(e, ts) == down' = [t \in Session |-> IF t \in ts /\ is_active[t]
                                         THEN Append(down[t], e) ELSE down[t]]

\* The handler that session s runs sends to the sessions of path, until one of
\* them makes it wait.
Sends(s, path) ==
    \E k \in 0 .. Len(path) :
        /\ \A i \in 1 .. k : Goes(path[i])
        /\ k < Len(path) => ~Goes(path[k + 1])
        /\ Put("FLOW_MOD", {path[i] : i \in 1 .. k})
        /\ todo' = [todo EXCEPT ![s] = SubSeq(path, k + 1, Len(path))]

\* A receiver that finds is_active gone after this message stops.
CcReceive(s) ==
    /\ todo[s] = <<>>
    /\ up_socket[s] # <<>>
    /\ up_socket' = IF is_active[s] THEN Without(up_socket, s)
                    ELSE [up_socket EXCEPT ![s] = <<>>]
    /\ IF Head(up_socket[s]) = "PACKET_IN"
       THEN \E path \in Paths(s) : Sends(s, path)
       ELSE UNCHANGED <<down, todo>>
    /\ UNCHANGED <<endVars, down_socket, up, handling, echo, counts>>

\* The wait of the handler is over.
FlowModTimesOut(s) ==
    /\ todo[s] # <<>>
    /\ todo' = Without(todo, s)
    /\ UNCHANGED <<endVars, downVars, upVars, handling, echo, counts>>
FlowMod(s) ==
    /\ todo[s] # <<>>
    /\ Goes(Head(todo[s]))
    /\ Sends(s, todo[s])
    /\ UNCHANGED <<endVars, down_socket, upVars, handling, echo, counts>>

\* _echo_request sends to one session after the other.
EchoRequest(s) ==
    /\ echo = NoSession
    /\ is_active[s]
    /\ echoes < MaxEchoes
    /\ IF Room(down[s]) THEN Put("ECHO_REQUEST", {s}) ELSE UNCHANGED down
    /\ echo' = IF Room(down[s]) THEN NoSession ELSE s
    /\ echoes' = echoes + 1
    /\ UNCHANGED <<endVars, down_socket, upVars, todo, handling, requests>>

EchoPut ==
    /\ echo # NoSession
    /\ Goes(echo)
    /\ Put("ECHO_REQUEST", {echo})
    /\ echo' = NoSession
    /\ UNCHANGED <<endVars, down_socket, upVars, todo, handling, counts>>

\* _send_loop waits in sendall while the socket is full.
CcSendUnlessBusy(s) ==
    /\ down[s] # <<>>
    /\ todo[s] = <<>>
    /\ s \notin broken
    /\ SocketRoom(down_socket[s])
    /\ down_socket' = With(down_socket, s, Head(down[s]))
    /\ down' = Without(down, s)
    /\ UNCHANGED <<endVars, upVars, todo, handling, echo, counts>>
CcSend(s) ==
    /\ down[s] # <<>>
    /\ s \notin broken
    /\ SocketRoom(down_socket[s])
    /\ down_socket' = With(down_socket, s, Head(down[s]))
    /\ down' = Without(down, s)
    /\ UNCHANGED <<endVars, upVars, todo, handling, echo, counts>>

\* sendall raises, or recv has nothing more: the end of _send_loop drains the
\* queue.  A receiver that waits in a put goes on with that, and reads no more.
CcEnds(s) ==
    /\ is_active[s]
    /\ s \in broken
    /\ down[s] # <<>> \/ (todo[s] = <<>> /\ up_socket[s] = <<>>)
    /\ is_active' = [is_active EXCEPT ![s] = FALSE]
    /\ down' = [down EXCEPT ![s] = <<>>]
    /\ up_socket' = IF todo[s] = <<>> THEN up_socket ELSE [up_socket EXCEPT ![s] = <<>>]
    /\ UNCHANGED <<broken, dead, down_socket, up, todo, handling, echo, counts>>

-----------------------------------------------------------------------------
\* The local controllers.

\* What the handler of the next message has begun.
ReceiveOnly(s) == UNCHANGED replying
LcHandle(s) ==
    replying' = IF Head(down_socket[s]) = "ECHO_REQUEST" THEN replying \cup {s} ELSE replying

LcReceive(s) ==
    /\ s \notin replying \cup installing \cup dead
    /\ down_socket[s] # <<>>
    /\ down_socket' = Without(down_socket, s)
    /\ LcHandle(s)
    /\ installing' = IF Head(down_socket[s]) = "FLOW_MOD"
                     THEN installing \cup ({s} \cap Failing) ELSE installing
    /\ UNCHANGED <<endVars, down, upVars, todo, echo, counts>>

LcReply(s) ==
    /\ s \in replying
    /\ Room(up[s])
    /\ up' = With(up, s, "ECHO_REPLY")
    /\ replying' = replying \ {s}
    /\ UNCHANGED <<endVars, downVars, up_socket, todo, installing, echo, counts>>

\* The switches have taken what the handler sends them, or are gone.
LcInstalled(s) ==
    /\ s \in installing
    /\ installing' = installing \ {s}
    /\ UNCHANGED <<endVars, downVars, upVars, todo, replying, echo, counts>>

\* A switch of the message is unknown by now: the KeyError ends _recv_loop, and
\* serve then kills _send_loop, whose end drains the queue.
LcRaises(s) ==
    /\ s \in installing
    /\ installing' = installing \ {s}
    /\ dead' = dead \cup {s}
    /\ up' = [up EXCEPT ![s] = <<>>]
    /\ UNCHANGED <<is_active, broken, downVars, up_socket, todo, replying, echo, counts>>

\* Any other greenlet: packets, new switches.
LcRequest(s) ==
    /\ s \notin broken \cup dead
    /\ requests < MaxRequests
    /\ Room(up[s])
    /\ up' = With(up, s, "PACKET_IN")
    /\ requests' = requests + 1
    /\ UNCHANGED <<endVars, downVars, up_socket, todo, handling, echo, echoes>>

LcSend(s) ==
    /\ up[s] # <<>>
    /\ s \notin broken
    /\ SocketRoom(up_socket[s])
    /\ up_socket' = With(up_socket, s, Head(up[s]))
    /\ up' = Without(up, s)
    /\ UNCHANGED <<endVars, downVars, todo, handling, echo, counts>>

\* The connection is gone.  What the central controller has received it can
\* still read, or loses too; cc_agent, which never connects again, is over.
Break(s) ==
    /\ s \in Breakable \ broken
    /\ broken' = broken \cup {s}
    /\ up_socket' \in {up_socket, [up_socket EXCEPT ![s] = <<>>]}
    /\ up' = [up EXCEPT ![s] = <<>>]
    /\ down_socket' = [down_socket EXCEPT ![s] = <<>>]
    /\ replying' = replying \ {s}
    /\ installing' = installing \ {s}
    /\ UNCHANGED <<is_active, dead, down, todo, echo, counts>>

-----------------------------------------------------------------------------

CcStep(s) == CcReceive(s) \/ FlowMod(s) \/ CcSend(s) \/ CcEnds(s)
LcStep(s) == LcReceive(s) \/ LcReply(s) \/ LcInstalled(s) \/ LcSend(s)

Next ==
    \/ EchoPut
    \/ \E s \in Session :
          \/ CcStep(s) \/ LcStep(s)
          \/ EchoRequest(s) \/ LcRequest(s) \/ LcRaises(s) \/ Break(s)

Spec == Init /\ [][Next]_vars

\* Every greenlet that can go on does, and a broken connection is noticed by
\* whoever uses it.  Nobody has to send anything, no handler has to raise, and
\* no connection has to break.
FairSpec ==
    /\ Spec
    /\ WF_vars(EchoPut)
    /\ \A s \in Session :
          /\ WF_vars(CcReceive(s)) /\ WF_vars(FlowMod(s)) /\ WF_vars(CcSend(s)) /\ WF_vars(CcEnds(s))
          /\ WF_vars(LcReceive(s)) /\ WF_vars(LcReply(s))
          /\ WF_vars(LcInstalled(s) \/ LcRaises(s)) /\ WF_vars(LcSend(s))

-----------------------------------------------------------------------------

\* Queues and sockets hold messages of their direction, and never more than
\* they have room for.
TypeOK ==
    /\ is_active \in [Session -> BOOLEAN]
    /\ broken \subseteq Session /\ dead \subseteq Session
    /\ down \in [Session -> Seq(DownMessage)]
    /\ down_socket \in [Session -> Seq(DownMessage)]
    /\ up \in [Session -> Seq(UpMessage)]
    /\ up_socket \in [Session -> Seq(UpMessage)]
    /\ \A s \in Session : Len(down[s]) =< QueueSize /\ Len(up[s]) =< QueueSize
    /\ \A s \in Session : Len(down_socket[s]) =< SocketSize /\ Len(up_socket[s]) =< SocketSize
    /\ todo \in [Session -> Seq(Session)]
    /\ replying \subseteq Session \ dead
    /\ installing \subseteq Session \ (dead \cup replying)
    /\ \A s \in dead : up[s] = <<>>
    /\ echo \in Session \cup {NoSession}
    /\ requests \in 0 .. MaxRequests
    /\ echoes \in 0 .. MaxEchoes

\* The central controller cannot send to s.
Clogged(s) == s \notin broken /\ ~Room(down[s]) /\ ~SocketRoom(down_socket[s])

\* The local controller of s waits to answer an echo, with its direction full
\* too, and the central controller waits in a put.
Waits(s) ==
    /\ ~Room(up[s]) /\ ~SocketRoom(up_socket[s])
    /\ s \in replying
    /\ todo[s] # <<>>

\* The sessions of J are full, and wait for one another or will never be read
\* again.
Jam(J) == \A s \in J : Clogged(s) /\ (s \in dead \/ (Waits(s) /\ Head(todo[s]) \in J))

\* The put of the central controller into s's queue cannot end.
Jammed(s) == \E J \in SUBSET Session : s \in J /\ Jam(J)

Blocked(s) == todo[s] # <<>> /\ Jammed(Head(todo[s]))

\* Sessions that send to one another do not hang: the handler of a message
\* comes to its end (app_manager.py:193-209), unless it waits for a session that
\* is full and whose local controller has died in a handler, for a circle of
\* sessions each of which is full in both directions while its local controller
\* answers an echo, or for sessions that wait like this for such a one.
HandlersEnd ==
    \A s \in Session : todo[s] # <<>> ~> (todo[s] = <<>> \/ Blocked(s))

\* An ECHO_REQUEST is on its way to s, or waits to be.
Asked(s) ==
    \/ echo = s
    \/ \E i \in 1 .. Len(down[s]) : down[s][i] = "ECHO_REQUEST"
    \/ \E i \in 1 .. Len(down_socket[s]) : down_socket[s][i] = "ECHO_REQUEST"
    \/ s \in replying

Answered(s) == \E i \in 1 .. Len(up_socket[s]) : up_socket[s][i] = "ECHO_REPLY"

\* The round of _echo_request (app_manager.py:369-376), which serves all
\* sessions and waits in the put of each, comes by, and the answer comes back,
\* however full the queues are: unless the session ends, its local controller
\* has died in a handler, or its handler is blocked as above.
EchoAnswered ==
    \A s \in Session :
        Asked(s) ~> (Answered(s) \/ ~is_active[s] \/ s \in dead \/ Blocked(s))

\* Nothing in either program ends such a jam: it lasts until one of its
\* connections breaks.
JamStays ==
    [][\A J \in SUBSET Session :
          Jam(J) /\ (\A s \in J : s \notin broken') => Jam(J)']_vars
=============================================================================
