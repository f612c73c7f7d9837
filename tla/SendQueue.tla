------------------------------ MODULE SendQueue ------------------------------
(***************************************************************************)
(* The send side of one session of the central controller, LocalController *)
(* in tflc/controller.py: any greenlet of the process puts messages into   *)
(* the bounded queue send_q, one greenlet (_send_loop) sends them, and the *)
(* session ends when _send_loop or _recv_loop does.  cc_client/cc_agent.py *)
(* has the same two loops at the other end.                                *)
(*                                                                         *)
(* The queue is eventlet's.  A put into a full one waits; a get schedules  *)
(* the callback _unlock, which lets waiting putters in, in any order, while*)
(* there is room.  A greenlet that is killed before it has run at all never*)
(* enters its function, nor the finally clause of that.                    *)
(***************************************************************************)
EXTENDS Integers, FiniteSets, Sequences

CONSTANTS
    Greenlet,   \* the greenlets that send to this session
    Receiver,   \* the one of them that runs the session's own _recv_loop
    QueueSize,  \* hub.Queue(16)
    MaxPuts,    \* bound: the messages of each greenlet
    NoItem      \* the sender holds no message

ASSUME SendQueueAssumption ==
    /\ Receiver \in Greenlet
    /\ QueueSize \in Nat \ {0}
    /\ MaxPuts \in Nat
    /\ NoItem \notin [by : Greenlet, n : Nat]

VARIABLES
    is_active,  \* LocalController.is_active
    send_q,     \* LocalController.send_q is not None
    items,      \* the messages in the queue
    putters,    \* the messages of the greenlets that wait in put
    unlock,     \* _unlock is scheduled
    sender,     \* where _send_loop is
    buf,        \* the message in sendall
    receiver,   \* whether _recv_loop runs
    puts,       \* the messages each greenlet has passed to send
    wire        \* the messages handed to TCP

vars == <<is_active, send_q, items, putters, unlock, sender, buf, receiver, puts, wire>>

Item == [by : Greenlet, n : 1 .. MaxPuts]

Waits(g) == \E it \in putters : it.by = g

Init ==
    /\ is_active = TRUE
    /\ send_q = TRUE
    /\ items = <<>>
    /\ putters = {}
    /\ unlock = FALSE
    /\ sender = "spawned"
    /\ buf = NoItem
    /\ receiver = "running"
    /\ puts = [g \in Greenlet |-> 0]
    /\ wire = <<>>

-----------------------------------------------------------------------------

\* qsize() < maxsize.
AnyRoom(q) == Len(q) =< QueueSize
Room(q) == Len(q) < QueueSize

\* send: nothing happens once send_q is None; a full queue makes g wait.
Send(g) ==
    LET it == [by |-> g, n |-> puts[g] + 1]
    IN  /\ puts[g] < MaxPuts
        /\ ~Waits(g)
        /\ g = Receiver => receiver = "running"
        /\ puts' = [puts EXCEPT ![g] = @ + 1]
        /\ items' = IF send_q /\ Room(items) THEN Append(items, it) ELSE items
        /\ putters' = IF send_q /\ ~Room(items) THEN putters \cup {it} ELSE putters
        /\ UNCHANGED <<is_active, send_q, unlock, sender, buf, receiver, wire>>

\* _unlock lets one more putter in.
Unlock(it) ==
    /\ unlock
    /\ it \in putters
    /\ Room(items)
    /\ items' = Append(items, it)
    /\ putters' = putters \ {it}
    /\ UNCHANGED <<is_active, send_q, unlock, sender, buf, receiver, puts, wire>>

\* _unlock finds no putter or no room, and is over.
UnlockEnds ==
    /\ unlock
    /\ putters = {} \/ ~Room(items)
    /\ unlock' = FALSE
    /\ UNCHANGED <<is_active, send_q, items, putters, sender, buf, receiver, puts, wire>>

-----------------------------------------------------------------------------
\* _send_loop.

Starts ==
    /\ sender = "spawned"
    /\ sender' = "get"
    /\ UNCHANGED <<is_active, send_q, items, putters, unlock, buf, receiver, puts, wire>>

NoUnlock == unlock
UnlockIfWaiting == unlock \/ putters # {}

Newest(q) == q[Len(q)]
Oldest(q) == Head(q)

Get ==
    /\ sender = "get"
    /\ items # <<>>
    /\ buf' = Oldest(items)
    /\ items' = Tail(items)
    /\ unlock' = UnlockIfWaiting
    /\ sender' = "sendall"
    /\ UNCHANGED <<is_active, send_q, putters, receiver, puts, wire>>

SendAll ==
    /\ sender = "sendall"
    /\ wire' = Append(wire, buf)
    /\ buf' = NoItem
    /\ sender' = "get"
    /\ UNCHANGED <<is_active, send_q, items, putters, unlock, receiver, puts>>

\* The finally clause: send_q = None, then q.get(block=False) until Empty.
NotDrained ==
    /\ send_q' = FALSE
    /\ UNCHANGED <<items, unlock>>
Drained ==
    /\ send_q' = FALSE
    /\ items' = <<>>
    /\ unlock' = (unlock \/ (items # <<>> /\ putters # {}))

\* sendall raises.  The receiver notices by itself, if at all.
SendFails ==
    /\ sender = "sendall"
    /\ sender' = "over"
    /\ is_active' = FALSE
    /\ buf' = NoItem
    /\ Drained
    /\ UNCHANGED <<putters, receiver, puts, wire>>

\* The connection is closed or a handler raises; serve kills the sender, which
\* then runs its finally clause if it had begun.
RecvEnds ==
    /\ receiver = "running"
    /\ ~Waits(Receiver)
    /\ receiver' = "over"
    /\ is_active' = FALSE
    /\ buf' = NoItem
    /\ \/ /\ sender = "spawned"
          /\ sender' = "killed"
          /\ UNCHANGED <<send_q, items, unlock>>
       \/ /\ sender \in {"get", "sendall"}
          /\ sender' = "over"
          /\ Drained
       \/ /\ sender = "over"
          /\ UNCHANGED <<sender, send_q, items, unlock>>
    /\ UNCHANGED <<putters, puts, wire>>

-----------------------------------------------------------------------------

SenderStep == Starts \/ Get \/ SendAll \/ SendFails

UnlockStep == UnlockEnds \/ \E it \in putters : Unlock(it)

Next == SenderStep \/ UnlockStep \/ RecvEnds \/ \E g \in Greenlet : Send(g)

\* A spawned greenlet starts, a scheduled callback runs, and sendall returns
\* or raises.  Nobody has to send, and no session has to end.
Spec == Init /\ [][Next]_vars /\ WF_vars(SenderStep) /\ WF_vars(UnlockStep)

-----------------------------------------------------------------------------

\* The messages of g in the sequence q are those with the numbers 1 to n, in
\* that order and each once.
InSequence(g, q, n) ==
    /\ \A i, j \in 1 .. Len(q) : i < j /\ q[i].by = g /\ q[j].by = g => q[i].n < q[j].n
    /\ {q[i].n : i \in {k \in 1 .. Len(q) : q[k].by = g}} = 1 .. n

\* What the session holds: sent, in sendall, and in the queue.
Kept == (IF buf = NoItem THEN wire ELSE Append(wire, buf)) \o items

\* A queue never holds more than its size, although _unlock fills it too.
TypeOK ==
    /\ is_active \in BOOLEAN
    /\ send_q \in BOOLEAN
    /\ unlock \in BOOLEAN
    /\ items \in Seq(Item) /\ Len(items) =< QueueSize
    /\ putters \subseteq Item
    /\ sender \in {"spawned", "get", "sendall", "over", "killed"}
    /\ buf \in Item \cup {NoItem}
    /\ receiver \in {"running", "over"}
    /\ puts \in [Greenlet -> 0 .. MaxPuts]
    /\ wire \in Seq(Item)

\* What one greenlet sends goes out in that order and without a gap, whoever
\* _unlock lets in first; and before the end of the session nothing is lost.
InOrder ==
    \A g \in Greenlet :
        /\ \E n \in 0 .. MaxPuts : InSequence(g, wire, n)
        /\ send_q => InSequence(g, Kept, IF Waits(g) THEN puts[g] - 1 ELSE puts[g])

\* No wake-up is missed: whoever waits in put while the sender can still take
\* a message has either a full queue before it or an _unlock coming.
NoMissedUnlock ==
    putters # {} /\ sender # "over" => unlock \/ ~Room(items)

\* The inductive invariant.
SendQueueInv == TypeOK /\ (sender = "sendall" => buf # NoItem) /\ NoMissedUnlock

\* Everything passed to send goes out unless the session ends.
AllSent ==
    \A g \in Greenlet, n \in 1 .. MaxPuts :
        puts[g] = n ~>
            ((\E i \in 1 .. Len(wire) : wire[i] = [by |-> g, n |-> n]) \/ ~is_active)

\* The end of _send_loop lets go everybody who waits in put
\* (controller.py:104).
PuttersReleased ==
    \A g \in Greenlet : (Waits(g) /\ sender = "over") ~> ~Waits(g)
=============================================================================
