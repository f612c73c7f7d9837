--------------------------- MODULE StrikeDetector ---------------------------
(***************************************************************************)
(* What the liveness watch of the central controller promises: a local     *)
(* controller that stays silent over three successive inspections is       *)
(* switched over, once per silence.                                        *)
(***************************************************************************)
EXTENDS Integers

CONSTANT LcId      \* the ids the central controller hands out

VARIABLES
    watched,   \* the ids under watch
    strikes,   \* inspections since the last sign of life, up to three
    executed   \* the ids switched over by the last step

vars == <<watched, strikes, executed>>

Limit == 3

Init ==
    /\ watched = {}
    /\ strikes = [i \in LcId |-> 0]
    /\ executed = {}

\* A greeting or an answer.
SignOfLife(i) ==
    /\ watched' = watched \cup {i}
    /\ strikes' = [strikes EXCEPT ![i] = 0]
    /\ executed' = {}

Inspect ==
    /\ strikes' = [i \in LcId |-> IF i \in watched /\ strikes[i] < Limit
                                  THEN strikes[i] + 1 ELSE strikes[i]]
    /\ executed' = {i \in watched : strikes[i] = Limit - 1}
    /\ UNCHANGED watched

Other ==
    /\ executed' = {}
    /\ UNCHANGED <<watched, strikes>>

Next == Inspect \/ Other \/ \E i \in LcId : SignOfLife(i)

Spec == Init /\ [][Next]_vars
=============================================================================
