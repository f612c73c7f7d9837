--------------------------- MODULE HeartbeatProofs ---------------------------
(***************************************************************************)
(* Proofs about Heartbeat: its invariants, and that its flags implement    *)
(* StrikeDetector, for any number of controllers and any queue size.       *)
(***************************************************************************)
EXTENDS Heartbeat, TLAPS

\* Nobody is watched, waited for or lost at the start.
LEMMA InitHeartbeatInv == Init => HeartbeatInv
BY HeartbeatAssumption DEF Init, HeartbeatInv, TypeOK, FlagsCount, SessionsKnown, None

\* What happens to a session keeps the invariant.
LEMMA SessionHeartbeatInv ==
    ASSUME HeartbeatInv, NEW i \in LcId,
           \/ HelloUp(i) \/ Starts(i) \/ SendFails(i) \/ RecvEnds(i)
           \/ Answer(i) \/ FallsSilent(i) \/ Unread(i) \/ EchoReply(i)
    PROVE  HeartbeatInv'
<1> USE HeartbeatAssumption
    DEF HeartbeatInv, TypeOK, FlagsCount, SessionsKnown, endVars, flagVars, echoVars
<1>1. CASE HelloUp(i)
  BY <1>1 DEF HelloUp, Reset
<1>2. CASE Starts(i)
  BY <1>2 DEF Starts
<1>3. CASE SendFails(i)
  BY <1>3 DEF SendFails, Drained
<1>4. CASE RecvEnds(i)
  <2>1. /\ send_q' \in [LcId -> 0 .. QueueSize]
        /\ sender' \in [LcId -> {"spawned", "running", "over", "killed"}]
        /\ release' \in {"none", "coming", "never"}
    BY <1>4 DEF RecvEnds, Drained
  <2>2. /\ receiving' = [receiving EXCEPT ![i] = FALSE]
        /\ is_active' = [is_active EXCEPT ![i] = FALSE]
        /\ replies' = [replies EXCEPT ![i] = 0]
        /\ executed' = {}
        /\ UNCHANGED <<local_ctrl_list, silent, flagVars, round, waiting>>
    BY <1>4 DEF RecvEnds
  <2> QED
    BY <2>1, <2>2
<1>5. CASE Answer(i)
  BY <1>5 DEF Answer
<1>6. CASE FallsSilent(i)
  BY <1>6 DEF FallsSilent
<1>7. CASE Unread(i)
  BY <1>7 DEF Unread
<1>8. CASE EchoReply(i)
  BY <1>8 DEF EchoReply, Reset
<1> QED
  BY <1>1, <1>2, <1>3, <1>4, <1>5, <1>6, <1>7, <1>8

\* The rounds of the two greenlets keep the invariant.
LEMMA GreenletHeartbeatInv ==
    ASSUME HeartbeatInv, EchoStep \/ MsSwitchDecide
    PROVE  HeartbeatInv'
<1> USE HeartbeatAssumption
    DEF HeartbeatInv, TypeOK, FlagsCount, SessionsKnown, endVars, sessionVars, flagVars, echoVars
<1>1. CASE EchoWake
  BY <1>1 DEF EchoWake
<1>2. CASE EchoPut
  BY <1>2 DEF EchoPut, Room
<1>3. CASE Released
  BY <1>3 DEF Released
<1>4. ASSUME NEW i \in LcId, EchoSend(i) PROVE HeartbeatInv'
  BY <1>4 DEF EchoSend, Room
<1>5. CASE MsSwitchDecide
  BY <1>5 DEF MsSwitchDecide, First, Second, Third, Lost
<1> QED
  BY <1>1, <1>2, <1>3, <1>4, <1>5 DEF EchoStep

\* Every step keeps the invariant.
LEMMA NextHeartbeatInv == HeartbeatInv /\ [Next]_vars => HeartbeatInv'
<1> SUFFICES ASSUME HeartbeatInv, [Next]_vars
             PROVE  HeartbeatInv'
  OBVIOUS
<1>1. CASE Next
  BY <1>1, SessionHeartbeatInv, GreenletHeartbeatInv DEF Next
<1>2. CASE UNCHANGED vars
  BY <1>2 DEF vars, endVars, sessionVars, flagVars, echoVars, HeartbeatInv, TypeOK, FlagsCount, SessionsKnown
<1> QED
  BY <1>1, <1>2

\* The tables are typed, the flags count in one direction, and only greeted
\* ids have a session.
THEOREM HeartbeatCorrect == Spec => []HeartbeatInv
BY InitHeartbeatInv, NextHeartbeatInv, PTL DEF Spec

\* Flags, queues and answers are typed, and no queue is over its size.
THEOREM HeartbeatTypeCorrect == Spec => []TypeOK
<1>1. HeartbeatInv => TypeOK
  BY DEF HeartbeatInv
<1> QED
  BY <1>1, HeartbeatCorrect, PTL

\* The three flags of a controller are set in one order only, and are only set
\* for ids that have been handed out.
THEOREM FlagsCountCorrect == Spec => []FlagsCount
<1>1. HeartbeatInv => FlagsCount
  BY DEF HeartbeatInv
<1> QED
  BY <1>1, HeartbeatCorrect, PTL

-----------------------------------------------------------------------------
\* The refinement.

\* No flag is set at the start: no strikes.
LEMMA InitImplements == Init => Abstract!Init
BY DEF Init, None, Abstract!Init, Strikes

\* Resetting the three flags of an id is a sign of life.
LEMMA ResetImplements ==
    ASSUME HeartbeatInv, NEW i \in LcId, Reset(i), executed' = {},
           local_ctrl_list' = local_ctrl_list \cup {i}
    PROVE  Abstract!SignOfLife(i)
BY DEF HeartbeatInv, TypeOK, Reset, Abstract!SignOfLife, Strikes

\* A step that leaves the flags and the ids alone is none of the detector's.
LEMMA OtherImplements ==
    ASSUME HeartbeatInv, UNCHANGED <<local_ctrl_list, flagVars>>, executed' = {}
    PROVE  Abstract!Other
BY DEF HeartbeatInv, TypeOK, flagVars, Abstract!Other, Strikes

\* One round of _ms_switch_decide is one inspection: the flags in the order
\* of FlagsCount count it, and the third one calls _ms_switch_execute.
LEMMA DecideImplements ==
    ASSUME HeartbeatInv, MsSwitchDecide
    PROVE  Abstract!Inspect
<1>1. ASSUME NEW i \in local_ctrl_list
      PROVE  /\ Third(i) <=> Strikes(i) = 2
             /\ Strikes(i)' = IF Strikes(i) < 3 THEN Strikes(i) + 1 ELSE Strikes(i)
  <2>1. /\ lc_outline'[i] <=> lc_outline[i] \/ Third(i)
        /\ lc_outline_0'[i] <=> lc_outline_0[i] \/ First(i)
        /\ lc_outline_1'[i] <=> (~First(i) /\ (lc_outline_1[i] \/ Second(i)))
    BY DEF HeartbeatInv, TypeOK, MsSwitchDecide
  <2>2. /\ lc_outline[i] => lc_outline_1[i]
        /\ lc_outline_1[i] => lc_outline_0[i]
    BY DEF HeartbeatInv, TypeOK, FlagsCount
  <2>3. CASE lc_outline[i]
    BY <2>1, <2>2, <2>3 DEF First, Second, Third, Lost, Strikes
  <2>4. CASE ~lc_outline[i] /\ lc_outline_1[i]
    BY <2>1, <2>2, <2>4 DEF First, Second, Third, Lost, Strikes
  <2>5. CASE ~lc_outline[i] /\ ~lc_outline_1[i] /\ lc_outline_0[i]
    BY <2>1, <2>2, <2>5 DEF First, Second, Third, Lost, Strikes
  <2>6. CASE ~lc_outline[i] /\ ~lc_outline_1[i] /\ ~lc_outline_0[i]
    BY <2>1, <2>2, <2>6 DEF First, Second, Third, Lost, Strikes
  <2> QED
    BY <2>3, <2>4, <2>5, <2>6
<1>2. ASSUME NEW i \in LcId, i \notin local_ctrl_list
      PROVE  Strikes(i)' = Strikes(i)
  BY <1>2 DEF HeartbeatInv, TypeOK, MsSwitchDecide, Strikes
<1>3. executed' = {i \in local_ctrl_list : Strikes(i) = 2}
  BY <1>1 DEF MsSwitchDecide
<1> QED
  BY <1>1, <1>2, <1>3 DEF Abstract!Inspect, Abstract!Limit, MsSwitchDecide, HeartbeatInv, TypeOK

\* Every step of the heartbeat is one of the detector's, or none.
LEMMA NextImplements == HeartbeatInv /\ [Next]_vars => [Abstract!Next]_Abstract!vars
<1> SUFFICES ASSUME HeartbeatInv, [Next]_vars
             PROVE  [Abstract!Next]_Abstract!vars
  OBVIOUS
<1>1. ASSUME NEW i \in LcId, HelloUp(i)
      PROVE  Abstract!SignOfLife(i)
  BY <1>1, ResetImplements DEF HelloUp
<1>2. ASSUME NEW i \in LcId, EchoReply(i)
      PROVE  Abstract!SignOfLife(i)
  BY <1>2, ResetImplements DEF EchoReply, HeartbeatInv, SessionsKnown, TypeOK
<1>3. CASE MsSwitchDecide
  BY <1>3, DecideImplements DEF Abstract!Next
<1>4. CASE EchoStep \/ \E i \in LcId : \/ Starts(i) \/ SendFails(i) \/ RecvEnds(i)
                                      \/ Answer(i) \/ FallsSilent(i) \/ Unread(i)
  <2>1. UNCHANGED <<local_ctrl_list, flagVars>> /\ executed' = {}
    BY <1>4 DEF EchoStep, EchoWake, EchoPut, Released, EchoSend, Starts, SendFails, RecvEnds, Answer,
      FallsSilent, Unread
  <2> QED
    BY <2>1, OtherImplements DEF Abstract!Next
<1>5. CASE UNCHANGED vars
  BY <1>5 DEF vars, flagVars, Abstract!vars, Strikes
<1> QED
  BY <1>1, <1>2, <1>3, <1>4, <1>5 DEF Next, Abstract!Next

\* lc_outline, lc_outline_0 and lc_outline_1 implement the three strikes of
\* StrikeDetector: one switch-over per silence, at the third inspection.
THEOREM CountsStrikesCorrect == Spec => CountsStrikes
BY InitImplements, NextImplements, HeartbeatCorrect, PTL DEF Spec, CountsStrikes, Abstract!Spec
=============================================================================
