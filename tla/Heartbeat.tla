------------------------------ MODULE Heartbeat ------------------------------
(***************************************************************************)
(* The two periodic greenlets of tflc/app_manager.py that watch the local  *)
(* controllers: _echo_request sends every one an ECHO_REQUEST in turn, and *)
(* _ms_switch_decide counts, in three flags per id, its own rounds without *)
(* an ECHO_REPLY.                                                          *)
(*                                                                         *)
(* One greenlet sends to all of them, through the bounded send queue of    *)
(* each session (tflc/controller.py): it waits in put while that queue is  *)
(* full.  The rounds of the two greenlets are 100 and 300 seconds apart    *)
(* (cfg.py); the model takes them in any order and number.  Messages other *)
(* than the echoes are left out, and so is the content of these.           *)
(*                                                                         *)
(* A local controller may go silent while its connection stays open: its   *)
(* receiver has died in a handler, or waits in a jam (ControlChannel).  The*)
(* end of a session's sender drains the queue and schedules the callback   *)
(* that lets the echo greenlet go; a sender killed before its first step   *)
(* does neither.  SendQueue has this in detail: the callback lets go as    *)
(* many greenlets as there are slots, the echo greenlet among them for up  *)
(* to fifteen sessions.                                                    *)
(***************************************************************************)
EXTENDS Integers, FiniteSets

CONSTANTS
    LcId,        \* controller ids, each with the address it belongs to
    QueueSize,   \* the slots of send_q (16 in the code)
    MaxReplies,  \* bound: the answers that fit between the two processes
    NoLc         \* the echo greenlet waits for nobody

ASSUME HeartbeatAssumption ==
    /\ QueueSize \in Nat \ {0}
    /\ MaxReplies \in Nat \ {0}
    /\ NoLc \notin LcId

VARIABLES
    local_ctrl_list,  \* the ids greeted so far
    is_active,        \* LocalController.is_active of the session of each id
    receiving,        \* its _recv_loop is running
    sender,           \* where its _send_loop is
    silent,           \* the ids whose local controller has stopped reading
    send_q,           \* the ECHO_REQUESTs in its send queue
    replies,          \* the ECHO_REPLYs on their way back
    lc_outline,       \* the controller is taken for lost
    lc_outline_0,
    lc_outline_1,
    round,            \* the ids _echo_request has yet to serve in this round
    waiting,          \* the id whose send_q.put it waits in
    release,          \* whether that session has ended, and the wait will
    executed          \* the ids the last step called _ms_switch_execute for

endVars == <<is_active, receiving, sender, silent>>
sessionVars == <<endVars, send_q, replies>>
flagVars == <<lc_outline, lc_outline_0, lc_outline_1>>
echoVars == <<round, waiting, release>>
vars == <<local_ctrl_list, sessionVars, flagVars, echoVars, executed>>

None == [i \in LcId |-> FALSE]

Init ==
    /\ local_ctrl_list = {}
    /\ is_active = None
    /\ receiving = None
    /\ sender = [i \in LcId |-> "over"]
    /\ silent = {}
    /\ send_q = [i \in LcId |-> 0]
    /\ replies = [i \in LcId |-> 0]
    /\ lc_outline = None
    /\ lc_outline_0 = None
    /\ lc_outline_1 = None
    /\ round = {}
    /\ waiting = NoLc
    /\ release = "none"
    /\ executed = {}

KeepSecondFlag(i) ==
    /\ lc_outline' = [lc_outline EXCEPT ![i] = FALSE]
    /\ lc_outline_0' = [lc_outline_0 EXCEPT ![i] = FALSE]
    /\ UNCHANGED lc_outline_1
Reset(i) ==
    /\ lc_outline' = [lc_outline EXCEPT ![i] = FALSE]
    /\ lc_outline_0' = [lc_outline_0 EXCEPT ![i] = FALSE]
    /\ lc_outline_1' = [lc_outline_1 EXCEPT ![i] = FALSE]

\* A session from the address of i, new or after the older one is over.  The
\* round in progress walks the sessions there were when it began, and passes
\* over the older one.
HelloUp(i) ==
    /\ ~receiving[i]
    /\ local_ctrl_list' = local_ctrl_list \cup {i}
    /\ is_active' = [is_active EXCEPT ![i] = TRUE]
    /\ receiving' = [receiving EXCEPT ![i] = TRUE]
    /\ sender' = [sender EXCEPT ![i] = "spawned"]
    /\ silent' = silent \ {i}
    /\ send_q' = [send_q EXCEPT ![i] = 0]
    /\ replies' = [replies EXCEPT ![i] = 0]
    /\ Reset(i)
    /\ round' = round \ {i}
    /\ executed' = {}
    /\ UNCHANGED <<waiting, release>>

\* _send_loop runs for the first time.
Starts(i) ==
    /\ sender[i] = "spawned"
    /\ sender' = [sender EXCEPT ![i] = "running"]
    /\ executed' = {}
    /\ UNCHANGED <<local_ctrl_list, is_active, receiving, silent, send_q, replies, flagVars, echoVars>>

\* The echo greenlet waits in the put of the session that i has now.
InPut(i) == waiting = i /\ release = "none"

\* The finally clause of _send_loop: the queue is emptied, and with that the
\* callback scheduled that lets go whoever waits in put.
NotDrained(i) == UNCHANGED <<send_q, release>>
Drained(i) ==
    /\ send_q' = [send_q EXCEPT ![i] = 0]
    /\ release' = IF InPut(i) THEN "coming" ELSE release

\* sendall raises: the queue is gone, the receiving side not yet.
SendFails(i) ==
    /\ sender[i] = "running"
    /\ sender' = [sender EXCEPT ![i] = "over"]
    /\ is_active' = [is_active EXCEPT ![i] = FALSE]
    /\ Drained(i)
    /\ executed' = {}
    /\ UNCHANGED <<local_ctrl_list, receiving, silent, replies, flagVars, round, waiting>>

\* The connection is closed or a handler raises; serve kills the sender, which
\* drains its queue if it has run at all.
RecvEnds(i) ==
    /\ receiving[i]
    /\ receiving' = [receiving EXCEPT ![i] = FALSE]
    /\ is_active' = [is_active EXCEPT ![i] = FALSE]
    /\ replies' = [replies EXCEPT ![i] = 0]
    /\ \/ /\ sender[i] = "spawned"
          /\ sender' = [sender EXCEPT ![i] = "killed"]
          /\ release' = IF InPut(i) THEN "never" ELSE release
          /\ UNCHANGED send_q
       \/ /\ sender[i] = "running"
          /\ sender' = [sender EXCEPT ![i] = "over"]
          /\ Drained(i)
       \/ /\ sender[i] = "over"
          /\ UNCHANGED <<sender, send_q, release>>
    /\ executed' = {}
    /\ UNCHANGED <<local_ctrl_list, silent, flagVars, round, waiting>>

\* The sender passes a request on and the local controller answers it.
Answer(i) ==
    /\ sender[i] = "running"
    /\ i \notin silent
    /\ send_q[i] > 0
    /\ replies[i] < MaxReplies
    /\ send_q' = [send_q EXCEPT ![i] = @ - 1]
    /\ replies' = [replies EXCEPT ![i] = @ + 1]
    /\ executed' = {}
    /\ UNCHANGED <<local_ctrl_list, endVars, flagVars, echoVars>>

\* The local controller of an open connection reads no more.
FallsSilent(i) ==
    /\ receiving[i]
    /\ silent' = silent \cup {i}
    /\ executed' = {}
    /\ UNCHANGED <<local_ctrl_list, is_active, receiving, sender, send_q, replies, flagVars, echoVars>>

\* Its socket has room for one request more.
Unread(i) ==
    /\ sender[i] = "running"
    /\ i \in silent
    /\ send_q[i] > 0
    /\ send_q' = [send_q EXCEPT ![i] = @ - 1]
    /\ executed' = {}
    /\ UNCHANGED <<local_ctrl_list, endVars, replies, flagVars, echoVars>>

EchoReply(i) ==
    /\ receiving[i]
    /\ replies[i] > 0
    /\ replies' = [replies EXCEPT ![i] = @ - 1]
    /\ Reset(i)
    /\ executed' = {}
    /\ UNCHANGED <<local_ctrl_list, endVars, send_q, echoVars>>

-----------------------------------------------------------------------------
\* _echo_request.

\* hub.sleep(ECHO_REQ_INTERVAL) is over.
EchoWake ==
    /\ round = {} /\ waiting = NoLc
    /\ round' = local_ctrl_list
    /\ executed' = {}
    /\ UNCHANGED <<local_ctrl_list, sessionVars, flagVars, waiting, release>>

\* qsize() < maxsize.
RoomAtMost(i) == send_q[i] =< QueueSize
Room(i) == send_q[i] < QueueSize

EchoSend(i) ==
    /\ i \in round /\ waiting = NoLc
    /\ round' = round \ {i}
    /\ send_q' = IF is_active[i] /\ Room(i)
                 THEN [send_q EXCEPT ![i] = @ + 1] ELSE send_q
    /\ waiting' = IF is_active[i] /\ ~Room(i) THEN i ELSE NoLc
    /\ executed' = {}
    /\ UNCHANGED <<local_ctrl_list, endVars, replies, flagVars, release>>

\* The sender has freed a slot.
EchoPut ==
    /\ waiting # NoLc /\ release = "none"
    /\ sender[waiting] = "running" /\ Room(waiting)
    /\ send_q' = [send_q EXCEPT ![waiting] = @ + 1]
    /\ waiting' = NoLc
    /\ executed' = {}
    /\ UNCHANGED <<local_ctrl_list, endVars, replies, flagVars, round, release>>

\* The callback puts the request into the queue of the session that is over.
Released ==
    /\ release = "coming"
    /\ waiting' = NoLc
    /\ release' = "none"
    /\ executed' = {}
    /\ UNCHANGED <<local_ctrl_list, sessionVars, flagVars, round>>

-----------------------------------------------------------------------------
\* _ms_switch_decide.

Lost(i) == lc_outline[i]
FirstAlways(i) == ~Lost(i)
First(i) == ~Lost(i) /\ ~lc_outline_0[i]
SecondTwice(i) == ~Lost(i) /\ lc_outline_1[i]
Second(i) == ~Lost(i) /\ lc_outline_0[i] /\ ~lc_outline_1[i]
ThirdTwice(i) == lc_outline_0[i] /\ lc_outline_1[i]
Third(i) == ~Lost(i) /\ lc_outline_0[i] /\ lc_outline_1[i]

\* One round over local_ctrl_list, without a switch of greenlets.
MsSwitchDecide ==
    /\ lc_outline' = [i \in LcId |-> lc_outline[i] \/ (i \in local_ctrl_list /\ Third(i))]
    /\ lc_outline_0' = [i \in LcId |-> lc_outline_0[i] \/ (i \in local_ctrl_list /\ First(i))]
    /\ lc_outline_1' = [i \in LcId |->
                           IF i \in local_ctrl_list /\ First(i) THEN FALSE
                           ELSE lc_outline_1[i] \/ (i \in local_ctrl_list /\ Second(i))]
    /\ executed' = {i \in local_ctrl_list : Third(i)}
    /\ UNCHANGED <<local_ctrl_list, sessionVars, echoVars>>

-----------------------------------------------------------------------------

EchoStep == EchoWake \/ EchoPut \/ Released \/ \E i \in LcId : EchoSend(i)

Next ==
    \/ EchoStep
    \/ MsSwitchDecide
    \/ \E i \in LcId :
          \/ HelloUp(i) \/ Starts(i) \/ SendFails(i) \/ RecvEnds(i)
          \/ Answer(i) \/ FallsSilent(i) \/ Unread(i) \/ EchoReply(i)

Spec == Init /\ [][Next]_vars

\* The two greenlets wake up again and again (hub.sleep returns), a spawned
\* sender starts, and a session whose local controller is not silent goes on:
\* requests are sent and answered, answers are handled.
Fairness ==
    /\ WF_vars(EchoStep)
    /\ WF_vars(MsSwitchDecide)
    /\ \A i \in LcId : WF_vars(Starts(i)) /\ WF_vars(Answer(i)) /\ WF_vars(EchoReply(i))

FairSpec == Spec /\ Fairness

-----------------------------------------------------------------------------

\* The echo greenlet never puts more into a send queue than it has slots, and
\* every table holds values of its kind.
TypeOK ==
    /\ local_ctrl_list \subseteq LcId
    /\ is_active \in [LcId -> BOOLEAN]
    /\ receiving \in [LcId -> BOOLEAN]
    /\ sender \in [LcId -> {"spawned", "running", "over", "killed"}]
    /\ silent \subseteq LcId
    /\ send_q \in [LcId -> 0 .. QueueSize]
    /\ replies \in [LcId -> 0 .. MaxReplies]
    /\ lc_outline \in [LcId -> BOOLEAN]
    /\ lc_outline_0 \in [LcId -> BOOLEAN]
    /\ lc_outline_1 \in [LcId -> BOOLEAN]
    /\ round \subseteq LcId
    /\ waiting \in LcId \cup {NoLc}
    /\ release \in {"none", "coming", "never"}
    /\ executed \subseteq LcId

\* The flags count in one direction (the branch that finds lc_outline_1 set
\* without lc_outline_0, app_manager.py:382, is never taken), and only ids
\* under watch have any.
FlagsCount ==
    \A i \in LcId :
        /\ lc_outline[i] => lc_outline_1[i]
        /\ lc_outline_1[i] => lc_outline_0[i]
        /\ lc_outline_0[i] => i \in local_ctrl_list

\* A session in use is one that was greeted.
SessionsKnown ==
    \A i \in LcId :
        (is_active[i] => receiving[i]) /\ (receiving[i] => i \in local_ctrl_list)

\* The inductive invariant.
HeartbeatInv == TypeOK /\ FlagsCount /\ SessionsKnown

Strikes(i) ==
    IF lc_outline[i] THEN 3 ELSE IF lc_outline_1[i] THEN 2 ELSE IF lc_outline_0[i] THEN 1 ELSE 0

Abstract == INSTANCE StrikeDetector
    WITH watched <- local_ctrl_list, strikes <- [i \in LcId |-> Strikes(i)]

\* The three flags implement three strikes, a switch-over at the third and
\* none again before the next sign of life.
CountsStrikes == Abstract!Spec

\* A controller whose session is over for good is taken for lost
\* (_ms_switch_decide).
LossNoticed ==
    \A i \in LcId :
        (i \in local_ctrl_list /\ ~receiving[i]) ~> (lc_outline[i] \/ receiving[i])

\* So is one that has gone silent with its connection open, whatever the echo
\* greenlet waits for, and however many of its answers are still on their way.
SilenceNoticed ==
    \A i \in LcId : i \in silent ~> (lc_outline[i] \/ i \notin silent)

\* The greenlet waits for a session that is silent, or whose sender was killed
\* before it ran.
Held == waiting # NoLc /\ ((waiting \in silent /\ release = "none") \/ release = "never")

\* No session, however slow, and no end of one, however timed, keeps the
\* greenlet (app_manager.py:369-376) from the others: every live controller
\* gets its next request, unless one that has gone silent fills its queue.
EchoReaches ==
    \A i \in LcId : is_active[i] ~> (send_q[i] > 0 \/ ~is_active[i] \/ Held)
=============================================================================
