-------------------------- MODULE ForwardingProofs --------------------------
(***************************************************************************)
(* The rules of a control domain never add up to a loop by themselves:     *)
(* proofs for any finite set of switches, any hosts, links and queues.     *)
(***************************************************************************)
EXTENDS Forwarding, FiniteSetTheorems, TLAPS

-----------------------------------------------------------------------------
\* What the operators on hops return.

\* Hops that follow each other: each one's next is the switch of the one after.
Chained(hops) == \A n \in 1 .. Len(hops) - 1 : hops[n].next = hops[n + 1].dpid

\* A path found in the graph is a sequence of switches, with one at least.
LEMMA PathsAreSequences ==
    ASSUME NEW N \in SUBSET Dpid, NEW c, NEW d, NEW p \in PathsIn(N, c, d)
    PROVE  p \in Seq(Dpid) /\ p # <<>>
<1>1. IsFiniteSet(N)  BY FS_Subset, ForwardingAssumption
<1>2. Cardinality(N) \in Nat  BY <1>1, FS_CardinalityType
<1>3. PICK n \in 1 .. Cardinality(N) : p \in [1 .. n -> N]
  BY Zenon DEF PathsIn, ShortestPaths, PathsOfLength
<1> QED  BY <1>2, <1>3

\* The hops of a path are chained hops; only the last may end elsewhere.
LEMMA HopsOfPath ==
    ASSUME NEW p \in Seq(Dpid), p # <<>>, NEW last \in NextHop
    PROVE  /\ Hops(p, last) \in Seq(Hop)
           /\ Hops(p, last) # <<>>
           /\ Chained(Hops(p, last))
<1>1. Len(p) \in Nat /\ Len(p) > 0  OBVIOUS
<1>2. \A n \in 1 .. Len(p) : p[n] \in Dpid  OBVIOUS
<1>3. \A n \in 1 .. Len(p) :
        [dpid |-> p[n], next |-> IF n = Len(p) THEN last ELSE p[n + 1]] \in Hop
  BY <1>1, <1>2 DEF Hop, NextHop
<1>4. Hops(p, last) \in Seq(Hop) /\ Len(Hops(p, last)) = Len(p)
  BY <1>1, <1>3 DEF Hops
<1>5. Chained(Hops(p, last))
  <2>1. ASSUME NEW n \in 1 .. Len(p) - 1
        PROVE  Hops(p, last)[n].next = Hops(p, last)[n + 1].dpid
    <3>1. n \in 1 .. Len(p) /\ n + 1 \in 1 .. Len(p) /\ n # Len(p)  BY <1>1
    <3>2. Hops(p, last)[n] = [dpid |-> p[n], next |-> p[n + 1]]  BY <3>1 DEF Hops
    <3>3. Hops(p, last)[n + 1].dpid = p[n + 1]  BY <3>1 DEF Hops
    <3> QED  BY <3>2, <3>3
  <2> QED  BY <2>1, <1>4 DEF Chained
<1> QED  BY <1>1, <1>4, <1>5

\* What is left after the first hop is chained too, and begins where it led.
LEMMA HopsAfterFirst ==
    ASSUME NEW hops \in Seq(Hop), hops # <<>>, Chained(hops)
    PROVE  /\ AfterFirst(hops) \in Seq(Hop)
           /\ Chained(AfterFirst(hops))
           /\ AfterFirst(hops) # <<>> => Head(AfterFirst(hops)).dpid = Head(hops).next
           /\ AfterFirst(hops) = <<>> => Len(hops) = 1
           /\ Head(hops) \in Hop
<1>1. Len(Tail(hops)) = Len(hops) - 1
      /\ \A n \in 1 .. Len(hops) - 1 : Tail(hops)[n] = hops[n + 1]
  OBVIOUS
<1>2. Chained(Tail(hops))
  BY <1>1 DEF Chained
<1>3. Tail(hops) # <<>> => Head(Tail(hops)).dpid = Head(hops).next
  BY <1>1 DEF Chained
<1>4. Len(hops) \in Nat /\ Len(hops) > 0 /\ Head(hops) = hops[1]  OBVIOUS
<1>5. Tail(hops) \in Seq(Hop)  OBVIOUS
<1>6. Head(hops) \in Hop  BY <1>4
<1>7. Tail(hops) = <<>> => Len(hops) = 1
  <2> SUFFICES ASSUME Tail(hops) = <<>>  PROVE Len(hops) = 1
    OBVIOUS
  <2>1. Len(<<>>) = 0  OBVIOUS
  <2>2. Len(Tail(hops)) = 0  BY <2>1, Zenon
  <2> QED  BY <2>2, <1>1, <1>4
<1> QED  BY <1>2, <1>3, <1>5, <1>6, <1>7 DEF AfterFirst

-----------------------------------------------------------------------------
\* The invariant.

\* What is left to do is chained, and known by its match.
TodoChained == \A i \in Installer :
    /\ Chained(todo[i])
    /\ todo[i] # <<>> => match[i] \in Match
    /\ put[i] # "none" => todo[i] # <<>>

\* A table and what is on its way to it make up what was told: the last rule
\* under way for a match, or the table where none is.
ToldIsLast == \A d \in Dpid, k \in Match :
    /\ k \notin Coming(d) => told[d][k] = flow[d][k]
    /\ \A n \in 1 .. Len(wire[d]) :
          /\ wire[d][n].match = k
          /\ \A m \in n + 1 .. Len(wire[d]) : wire[d][m].match # k
          => wire[d][n].next = told[d][k]

\* The switches excused for k.
Excused(k) == astray[k] \cup Heads(k)

\* Once everything under way has arrived, a loop has an excused switch on it.
ToldLoopsExcused == \A k \in Match, S \in SUBSET Dpid :
    S # {} /\ (\A d \in S : told[d][k] \in S) => S \cap Excused(k) # {}

\* Once everything under way has arrived, a rule leads to a switch that has one
\* too, or the exceptions of RulesLeadOn apply.
LeadsOn(d, k) ==
    LET v == told[d][k]
    IN  v \in Dpid => told[v][k] # NoRule \/ d \in astray[k] \/ v \in Excused(k)
ToldLeadsOn == \A k \in Match, d \in Dpid : LeadsOn(d, k)

RuleTypes ==
    /\ todo \in [Installer -> Seq(Hop)]
    /\ match \in [Installer -> Match \cup {NoRule}]
    /\ put \in [Installer -> {"none", "raised", "open", "closed"}]
    /\ wire \in [Dpid -> Seq(Rule)]
    /\ flow \in [Dpid -> [Match -> NextHop \cup {NoRule}]]
    /\ told \in [Dpid -> [Match -> NextHop \cup {NoRule}]]
    /\ astray \in [Match -> SUBSET Dpid]

GraphTypes ==
    /\ connected \subseteq Dpid /\ datapaths \subseteq Dpid /\ current \subseteq Dpid
    /\ nodes \subseteq Dpid
    /\ links \subseteq [from : Dpid, to : Dpid]
    /\ place \in [Mac -> Place \cup {Nowhere}]
    /\ receiver \in BOOLEAN

RuleInv == RuleTypes /\ TodoChained /\ ToldIsLast /\ ToldLoopsExcused /\ ToldLeadsOn

LoopInv == GraphTypes /\ RuleInv

\* A loop in the tables with nothing on its way is one in what was told.
LEMMA NoLoopFromInv == LoopInv => NoForwardingLoop
<1> SUFFICES ASSUME LoopInv, NEW k \in Match, NEW S \in SUBSET Dpid, Loop(k, S),
                    \A d \in S : k \notin Coming(d)
             PROVE  \E d \in S : d \in Excused(k)
  BY DEF NoForwardingLoop, Excused
<1>1. \A d \in S : told[d][k] \in S
  BY DEF LoopInv, RuleInv, ToldIsLast, Loop
<1> QED  BY <1>1 DEF LoopInv, RuleInv, ToldLoopsExcused, Loop

\* Where nothing is on its way, the tables lead on as they were told to.
LEMMA RulesLeadOnFromInv == LoopInv => RulesLeadOn
<1> SUFFICES ASSUME LoopInv, NEW k \in Match, NEW d \in Dpid, flow[d][k] \in Dpid,
                    k \notin Coming(d), k \notin Coming(flow[d][k]), d \notin astray[k],
                    flow[d][k] \notin astray[k] \cup Heads(k)
             PROVE  flow[flow[d][k]][k] # NoRule
  BY DEF RulesLeadOn
<1>1. told[d][k] = flow[d][k] /\ told[flow[d][k]][k] = flow[flow[d][k]][k]
  BY DEF LoopInv, RuleInv, ToldIsLast
<1> QED  BY <1>1 DEF LoopInv, RuleInv, ToldLeadsOn, LeadsOn, Excused

\* At the start nothing is told and nothing is to do.
LEMMA LoopInit == Init => LoopInv
<1> SUFFICES ASSUME Init PROVE LoopInv
  OBVIOUS
<1>1. GraphTypes  BY DEF Init, GraphTypes
<1>2. RuleTypes
  BY DEF Init, RuleTypes, EmptyTable
<1>3. TodoChained  BY DEF Init, TodoChained, Chained
<1>4. ToldIsLast  BY DEF Init, ToldIsLast, Coming
<1>5. ToldLoopsExcused
  BY ForwardingAssumption DEF Init, ToldLoopsExcused, EmptyTable
<1>6. ToldLeadsOn
  BY ForwardingAssumption DEF Init, ToldLeadsOn, LeadsOn, EmptyTable
<1> QED  BY <1>1, <1>2, <1>3, <1>4, <1>5, <1>6 DEF LoopInv, RuleInv

-----------------------------------------------------------------------------
\* One lemma for each step that touches rules.

\* Steps that leave rules and installers alone.
LEMMA RulesFrame ==
    ASSUME RuleInv, UNCHANGED <<installVars, ruleVars>>
    PROVE  RuleInv'
<1> USE DEF installVars, ruleVars
<1>1. RuleTypes'  BY DEF RuleInv, RuleTypes
<1>2. TodoChained'  BY DEF RuleInv, TodoChained
<1>3. ToldIsLast'  BY DEF RuleInv, ToldIsLast, Coming
<1>4. ToldLoopsExcused'  BY DEF RuleInv, ToldLoopsExcused, Excused, Heads
<1>5. ToldLeadsOn'  BY DEF RuleInv, ToldLeadsOn, LeadsOn, Excused, Heads
<1> QED  BY <1>1, <1>2, <1>3, <1>4, <1>5 DEF RuleInv

\* A rule put at the end of the wire is what the switch is told last.
LEMMA ToldOnSend ==
    ASSUME RuleInv, NEW d \in Dpid, NEW k \in Match, NEW v \in NextHop,
           wire' = [wire EXCEPT ![d] = Append(@, [match |-> k, next |-> v])],
           told' = [told EXCEPT ![d][k] = v],
           UNCHANGED flow
    PROVE  ToldIsLast'
<1> DEFINE r == [match |-> k, next |-> v]
<1>1. wire[d] \in Seq(Rule) /\ r \in Rule
  BY DEF RuleInv, RuleTypes, Rule
<1>2. /\ Len(Append(wire[d], r)) = Len(wire[d]) + 1
      /\ \A n \in 1 .. Len(wire[d]) : Append(wire[d], r)[n] = wire[d][n]
      /\ Append(wire[d], r)[Len(wire[d]) + 1] = r
      /\ Len(wire[d]) \in Nat
  BY <1>1
<1>3. wire'[d] = Append(wire[d], r) /\ told'[d] = [told[d] EXCEPT ![k] = v]
  BY DEF RuleInv, RuleTypes
<1>4. told'[d][k] = v /\ \A j \in Match \ {k} : told'[d][j] = told[d][j]
  BY <1>3 DEF RuleInv, RuleTypes
<1>5. ASSUME NEW c \in Dpid \ {d}
      PROVE  wire'[c] = wire[c] /\ told'[c] = told[c]
  BY DEF RuleInv, RuleTypes
<1> SUFFICES ASSUME NEW c \in Dpid, NEW j \in Match
             PROVE  /\ j \notin Coming(c)' => told'[c][j] = flow'[c][j]
                    /\ \A n \in 1 .. Len(wire'[c]) :
                          /\ wire'[c][n].match = j
                          /\ \A m \in n + 1 .. Len(wire'[c]) : wire'[c][m].match # j
                          => wire'[c][n].next = told'[c][j]
  BY DEF ToldIsLast
<1>6. CASE c # d
  BY <1>5, <1>6 DEF RuleInv, ToldIsLast, Coming
<1>7. CASE c = d /\ j = k
  <2>1. j \in Coming(c)'  BY <1>2, <1>3, <1>7 DEF Coming
  <2>2. ASSUME NEW n \in 1 .. Len(wire'[c]),
               \A m \in n + 1 .. Len(wire'[c]) : wire'[c][m].match # j
        PROVE  n = Len(wire[d]) + 1
    <3>1. Len(wire'[c]) = Len(wire[d]) + 1 /\ wire'[c][Len(wire[d]) + 1].match = k
      BY <1>2, <1>3, <1>7
    <3>2. n < Len(wire[d]) + 1 => Len(wire[d]) + 1 \in n + 1 .. Len(wire'[c])
      BY <2>2, <3>1, <1>2
    <3>3. ~(n < Len(wire[d]) + 1)  BY <2>2, <3>1, <3>2, <1>7
    <3> QED  BY <2>2, <3>1, <3>3, <1>2
  <2> QED  BY <2>1, <2>2, <1>2, <1>3, <1>4, <1>7
<1>8. CASE c = d /\ j # k
  <2>1. j \notin Coming(c)' => j \notin Coming(c)
    BY <1>2, <1>3, <1>8 DEF Coming
  <2>2. ASSUME NEW n \in 1 .. Len(wire'[c]), wire'[c][n].match = j,
               \A m \in n + 1 .. Len(wire'[c]) : wire'[c][m].match # j
        PROVE  wire'[c][n].next = told'[c][j]
    <3>1. n \in 1 .. Len(wire[d])  BY <2>2, <1>2, <1>3, <1>8
    <3>2. \A m \in n + 1 .. Len(wire[d]) : wire[d][m].match # j
      BY <3>1, <2>2, <1>2, <1>3, <1>8
    <3>3. wire[d][n].match = j  BY <3>1, <2>2, <1>2, <1>3, <1>8
    <3>4. wire[d][n].next = told[d][j]
      BY <3>1, <3>2, <3>3 DEF RuleInv, ToldIsLast
    <3> QED  BY <3>1, <3>4, <1>2, <1>3, <1>4, <1>8
  <2>3. told'[c][j] = told[c][j]  BY <1>4, <1>8
  <2> QED  BY <2>1, <2>2, <2>3, <1>8 DEF RuleInv, ToldIsLast
<1> QED  BY <1>6, <1>7, <1>8

\* What an installer will do next has a type.
LEMMA EnteredType ==
    ASSUME NEW hops
    PROVE  Entered(hops) \in {"none", "raised", "open", "closed"} /\ Entered(hops) # "none"
BY DEF Entered

\* One hop: sent, it leads to the next one's switch, which is excused, or is
\* itself the rule that ends at a mistaken port; discarded, it is astray.
LEMMA RulesOnPut ==
    ASSUME RuleInv, NEW i \in Installer, NEW k, k = match[i], PutRule(i)
    PROVE  RuleInv'
<1> DEFINE hops == todo[i]
           h == Head(hops)
           rest == AfterFirst(hops)
<1>0. hops \in Seq(Hop) /\ hops # <<>> /\ Chained(hops) /\ k \in Match
  BY DEF PutRule, RuleInv, RuleTypes, TodoChained
<1>1. /\ rest \in Seq(Hop) /\ Chained(rest)
      /\ rest # <<>> => Head(rest).dpid = h.next
      /\ rest = <<>> => Len(hops) = 1
      /\ h \in Hop
  BY <1>0, HopsAfterFirst
<1>2. h.dpid \in Dpid /\ h.next \in NextHop /\ k \in Match
  BY <1>0, <1>1 DEF Hop
<1>3. /\ todo' = [todo EXCEPT ![i] = rest]
      /\ match' = [match EXCEPT ![i] = IF rest = <<>> THEN NoRule ELSE k]
  BY DEF PutRule
<1>4. /\ todo'[i] = rest /\ (rest # <<>> => match'[i] = k)
      /\ \A j \in Installer \ {i} : todo'[j] = todo[j] /\ match'[j] = match[j]
  BY <1>3 DEF RuleInv, RuleTypes
<1>44. /\ put' \in [Installer -> {"none", "raised", "open", "closed"}]
       /\ rest = <<>> => put'[i] = "none"
       /\ \A j \in Installer \ {i} : put'[j] = put[j]
  <2>1. put' = [put EXCEPT ![i] = IF rest # <<>> /\ i = "receiver" THEN Entered(rest) ELSE "none"]
    BY DEF PutRule
  <2>2. put \in [Installer -> {"none", "raised", "open", "closed"}]
    BY DEF RuleInv, RuleTypes
  <2>3. Entered(rest) \in {"none", "raised", "open", "closed"}
    BY EnteredType
  <2> HIDE DEF rest
  <2> QED  BY <2>1, <2>2, <2>3
<1>5. todo' \in [Installer -> Seq(Hop)] /\ match' \in [Installer -> Match \cup {NoRule}]
  BY <1>0, <1>1, <1>3 DEF RuleInv, RuleTypes
<1>6. TodoChained'
  <2>1. TodoChained  BY DEF RuleInv
  <2>2. ASSUME NEW j \in Installer \ {i}
        PROVE  /\ Chained(todo'[j]) /\ (todo'[j] # <<>> => match'[j] \in Match)
               /\ put'[j] # "none" => todo'[j] # <<>>
    BY <1>4, <1>44, <2>1, <2>2 DEF TodoChained
  <2>3. /\ Chained(todo'[i]) /\ (todo'[i] # <<>> => match'[i] \in Match)
        /\ put'[i] # "none" => todo'[i] # <<>>
    BY <1>0, <1>1, <1>4, <1>44
  <2>4. ASSUME NEW j \in Installer  PROVE Chained(todo'[j])  <=> Chained(todo[j])'
    BY DEF Chained
  <2> QED  BY <2>2, <2>3, <2>4 DEF TodoChained
<1>7. \A j \in Match : Heads(j) \ (IF j = k THEN {h.dpid} ELSE {}) \subseteq Heads(j)'
  <2> SUFFICES ASSUME NEW j \in Match, NEW c \in Installer, todo[c] # <<>>, match[c] = j,
                      j = k => Head(todo[c]).dpid # h.dpid
               PROVE  Head(todo[c]).dpid \in Heads(j)'
    BY DEF Heads
  <2>1. c # i  OBVIOUS
  <2> QED  BY <2>1, <1>4 DEF Heads
<1>8. rest # <<>> => h.next \in Heads(k)'
  BY <1>1, <1>4 DEF Heads
<1>9. CASE RuleSent(k, hops)
  <2>1. /\ wire' = [wire EXCEPT ![h.dpid] = Append(@, [match |-> k, next |-> h.next])]
        /\ told' = [told EXCEPT ![h.dpid][k] = h.next]
        /\ astray' = [astray EXCEPT ![k] = IF Mistaken(hops) THEN @ \cup {h.dpid} ELSE @ \ {h.dpid}]
        /\ flow' = flow
    BY <1>9 DEF RuleSent
  <2>2. wire' \in [Dpid -> Seq(Rule)]
    <3>1. [match |-> k, next |-> h.next] \in Rule  BY <1>2 DEF Rule
    <3> QED  BY <1>2, <2>1, <3>1 DEF RuleInv, RuleTypes
  <2>3. told' \in [Dpid -> [Match -> NextHop \cup {NoRule}]]
    BY <1>2, <2>1 DEF RuleInv, RuleTypes
  <2>4. astray' \in [Match -> SUBSET Dpid]
    BY <1>2, <2>1 DEF RuleInv, RuleTypes
  <2>5. RuleTypes'
    BY <1>5, <1>44, <2>1, <2>2, <2>3, <2>4 DEF RuleInv, RuleTypes
  <2>6. ToldIsLast'
    BY <1>2, <2>1, ToldOnSend
  <2>7. ToldLoopsExcused'
    <3> SUFFICES ASSUME NEW j \in Match, NEW S \in SUBSET Dpid, S # {},
                        \A d \in S : told'[d][j] \in S
                 PROVE  S \cap Excused(j)' # {}
      BY DEF ToldLoopsExcused
    <3>1. \A d \in Dpid : d # h.dpid \/ j # k => told'[d][j] = told[d][j]
      BY <1>2, <2>1 DEF RuleInv, RuleTypes
    <3>2. Excused(j) \ (IF j = k THEN {h.dpid} ELSE {}) \subseteq Excused(j)'
      BY <1>7, <2>1 DEF Excused, RuleInv, RuleTypes
    <3>3. CASE j # k \/ h.dpid \notin S
      BY <3>1, <3>2, <3>3 DEF RuleInv, ToldLoopsExcused
    <3>4. CASE j = k /\ h.dpid \in S
      <4>1. told'[h.dpid][k] = h.next
        BY <1>2, <2>1 DEF RuleInv, RuleTypes
      <4>2. h.next \in S  BY <3>4, <4>1
      <4>3. CASE rest = <<>>
        <5>1. Mistaken(hops)  BY <1>1, <4>2, <4>3 DEF Mistaken
        <5>2. astray'[k] = astray[k] \cup {h.dpid}
          BY <5>1, <2>1, <1>2 DEF RuleInv, RuleTypes
        <5> QED  BY <5>2, <3>4 DEF Excused
      <4>4. CASE rest # <<>>
        BY <1>8, <3>4, <4>2, <4>4 DEF Excused
      <4> QED  BY <4>3, <4>4
    <3> QED  BY <3>3, <3>4
  <2>8. ToldLeadsOn'
    <3> SUFFICES ASSUME NEW j \in Match, NEW d \in Dpid, told'[d][j] \in Dpid,
                        told'[told'[d][j]][j] = NoRule
                 PROVE  d \in astray'[j] \/ told'[d][j] \in Excused(j)'
      BY DEF ToldLeadsOn, LeadsOn
    <3> DEFINE v == told'[d][j]
    <3>1. \A c \in Dpid : c # h.dpid \/ j # k => told'[c][j] = told[c][j]
      BY <1>2, <2>1 DEF RuleInv, RuleTypes
    <3>2. Excused(j) \ (IF j = k THEN {h.dpid} ELSE {}) \subseteq Excused(j)'
      BY <1>7, <2>1 DEF Excused, RuleInv, RuleTypes
    <3>3. told'[h.dpid][k] = h.next  BY <1>2, <2>1 DEF RuleInv, RuleTypes
    <3>4. h.next # NoRule  BY <1>2, ForwardingAssumption DEF NextHop
    <3>5. v # h.dpid \/ j # k  BY <3>3, <3>4
    <3>6. CASE d # h.dpid \/ j # k
      <4>1. told[d][j] = v /\ told[v][j] = NoRule  BY <3>1, <3>5, <3>6
      <4>2. d \in astray[j] \/ v \in Excused(j)
        BY <4>1 DEF RuleInv, ToldLeadsOn, LeadsOn
      <4>3. d \in astray[j] => d \in astray'[j]
        BY <3>6, <2>1, <1>2 DEF RuleInv, RuleTypes
      <4> QED  BY <4>2, <4>3, <3>2, <3>5
    <3>7. CASE d = h.dpid /\ j = k
      <4>1. CASE rest = <<>>
        <5>1. Mistaken(hops)  BY <1>1, <4>1, <3>3, <3>7 DEF Mistaken
        <5> QED  BY <5>1, <2>1, <3>7 DEF RuleInv, RuleTypes
      <4>2. CASE rest # <<>>
        BY <1>8, <3>3, <3>7, <4>2 DEF Excused
      <4> QED  BY <4>1, <4>2
    <3> QED  BY <3>6, <3>7
  <2> QED  BY <1>6, <2>5, <2>6, <2>7, <2>8 DEF RuleInv
<1>10. CASE RuleDiscarded(k, hops)
  <2>1. /\ wire' = wire /\ flow' = flow /\ told' = told
        /\ astray' = [astray EXCEPT ![k] = @ \cup {h.dpid}]
    BY <1>10 DEF RuleDiscarded
  <2>2. astray' \in [Match -> SUBSET Dpid]
    BY <1>2, <2>1 DEF RuleInv, RuleTypes
  <2>3. RuleTypes'  BY <1>5, <1>44, <2>1, <2>2 DEF RuleInv, RuleTypes
  <2>4. ToldIsLast'
    <3>1. ToldIsLast  BY DEF RuleInv
    <3> QED  BY <2>1, <3>1 DEF ToldIsLast, Coming
  <2>5. \A j \in Match : Excused(j) \subseteq Excused(j)'
    BY <1>7, <2>1 DEF Excused, RuleInv, RuleTypes
  <2>6. ToldLoopsExcused'
    BY <2>1, <2>5 DEF RuleInv, ToldLoopsExcused
  <2>7. \A j \in Match : astray[j] \subseteq astray'[j]
    BY <1>2, <2>1 DEF RuleInv, RuleTypes
  <2>8. ToldLeadsOn'
    BY <2>1, <2>5, <2>7 DEF RuleInv, ToldLeadsOn, LeadsOn
  <2> QED  BY <1>6, <2>3, <2>4, <2>6, <2>8 DEF RuleInv
<1> QED  BY <1>9, <1>10 DEF PutRule

\* A path just found: its first switch is about to be told, no rule is sent.
LEMMA RulesOnBegin ==
    ASSUME RuleInv, NEW i \in Installer, NEW k \in Match, todo[i] = <<>>,
           NEW N \in SUBSET Dpid, NEW c, NEW d, NEW p \in PathsIn(N, c, d),
           NEW last \in NextHop, Begin(i, k, Hops(p, last))
    PROVE  RuleInv'
<1> DEFINE hops == Hops(p, last)
<1>1. p \in Seq(Dpid) /\ p # <<>>  BY PathsAreSequences
<1>2. hops \in Seq(Hop) /\ hops # <<>> /\ Chained(hops)
  BY <1>1, HopsOfPath
<1> HIDE DEF hops
<1>3. /\ todo' = [todo EXCEPT ![i] = hops]
      /\ match' = [match EXCEPT ![i] = k]
      /\ put' = [put EXCEPT ![i] = Entered(hops)]
      /\ wire' = wire /\ flow' = flow /\ told' = told /\ astray' = astray
  BY DEF Begin, ruleVars, hops
<1>4. RuleTypes'
  BY <1>2, <1>3, EnteredType DEF RuleInv, RuleTypes
<1>5. TodoChained'
  BY <1>2, <1>3 DEF RuleInv, RuleTypes, TodoChained, Chained
<1>6. ToldIsLast'  BY <1>3 DEF RuleInv, ToldIsLast, Coming
<1>7. \A j \in Match : Excused(j) \subseteq Excused(j)'
  <2> SUFFICES ASSUME NEW j \in Match, NEW a \in Installer, todo[a] # <<>>, match[a] = j
               PROVE  Head(todo[a]).dpid \in Heads(j)'
    BY <1>3 DEF Excused, Heads
  <2>1. todo'[a] = todo[a] /\ match'[a] = match[a]
    BY <1>3 DEF RuleInv, RuleTypes
  <2> QED  BY <2>1 DEF Heads
<1>8. ToldLoopsExcused'
  BY <1>3, <1>7 DEF RuleInv, ToldLoopsExcused
<1>9. ToldLeadsOn'
  BY <1>3, <1>7 DEF RuleInv, ToldLeadsOn, LeadsOn
<1> QED  BY <1>4, <1>5, <1>6, <1>8, <1>9 DEF RuleInv

\* Steps that leave rules and hops alone, and touch put only.
LEMMA RulesOnLookup ==
    ASSUME RuleInv, UNCHANGED <<todo, match, ruleVars>>,
           put' \in [Installer -> {"none", "raised", "open", "closed"}],
           \A i \in Installer : put'[i] # "none" => todo[i] # <<>>
    PROVE  RuleInv'
<1> USE DEF ruleVars
<1>1. RuleTypes'  BY DEF RuleInv, RuleTypes
<1>2. TodoChained'  BY DEF RuleInv, TodoChained, Chained
<1>3. ToldIsLast'  BY DEF RuleInv, ToldIsLast, Coming
<1>4. ToldLoopsExcused'  BY DEF RuleInv, ToldLoopsExcused, Excused, Heads
<1>5. ToldLeadsOn'  BY DEF RuleInv, ToldLeadsOn, LeadsOn, Excused, Heads
<1> QED  BY <1>1, <1>2, <1>3, <1>4, <1>5 DEF RuleInv

\* A frame comes up.
LEMMA LoopPacketIn ==
    ASSUME LoopInv, NEW d \in Dpid, NEW port \in {HostPort} \cup Neighbour(d),
           NEW src \in Mac, NEW k \in Match \cup {Flood}, PacketIn(d, port, src, k)
    PROVE  LoopInv'
<1> DEFINE learns == place[src] = Nowhere /\ (port = HostPort \/ <<d, port>> \in UnknownPort)
           after(gone) == [m \in Mac |-> IF m \in gone THEN Nowhere
                                         ELSE IF learns /\ m = src THEN PlaceAt(d, port)
                                         ELSE place[m]]
           N == IF learns THEN nodes \cup {d} ELSE nodes
           to(gone) == IF k = Flood THEN Nowhere ELSE after(gone)[DstOf[k]]
           paths(gone) == IF to(gone) = Nowhere THEN {} ELSE PathsIn(N, d, to(gone).dpid)
<1>1. PICK gone \in IF learns THEN Displaced(d, port) ELSE {{}} :
          /\ place' = after(gone)
          /\ nodes' = N
          /\ IF paths(gone) = {} THEN UNCHANGED <<installVars, ruleVars>>
             ELSE \E p \in paths(gone) : Begin("app", k, Hops(p, to(gone).port))
  BY DEF PacketIn
<1>2. port \in Dpid \cup {HostPort}  BY DEF Neighbour
<1>3. after(gone) \in [Mac -> Place \cup {Nowhere}]
  BY <1>2 DEF LoopInv, GraphTypes, PlaceAt, Place
<1>4. N \in SUBSET Dpid  BY DEF LoopInv, GraphTypes
<1>5. GraphTypes'
  BY <1>1, <1>3, <1>4 DEF LoopInv, GraphTypes, PacketIn, switchVars
<1>6. RuleInv'
  <2>1. CASE paths(gone) = {}
    BY <1>1, <2>1, RulesFrame DEF LoopInv
  <2>2. CASE paths(gone) # {}
    <3>1. PICK p \in paths(gone) : Begin("app", k, Hops(p, to(gone).port))
      BY <1>1, <2>2
    <3>2. to(gone) # Nowhere  BY <2>2
    <3>3. k \in Match /\ to(gone) \in Place
      <4>1. k # Flood  BY <3>2
      <4>2. to(gone) = after(gone)[DstOf[k]] /\ DstOf[k] \in Mac
        BY <4>1, ForwardingAssumption
      <4> QED  BY <4>1, <4>2, <3>2, <1>3
    <3>4. to(gone).port \in NextHop  BY <3>3 DEF Place, NextHop
    <3>5. p \in PathsIn(N, d, to(gone).dpid)  BY <3>1, <3>2
    <3>6. "app" \in Installer /\ todo["app"] = <<>>  BY DEF PacketIn, Idle, Installer
    <3>7. RuleInv  BY DEF LoopInv
    <3> HIDE DEF N, to, paths, after, learns
    <3> QED  BY <3>1, <3>3, <3>4, <3>5, <3>6, <3>7, <1>4, RulesOnBegin
  <2> QED  BY <2>1, <2>2
<1> QED  BY <1>5, <1>6 DEF LoopInv

\* A FLOW_MOD of the central controller.
LEMMA LoopFlowMod ==
    ASSUME LoopInv, NEW in \in Dpid, NEW out \in WindowDpid, NEW k \in EthMatch,
           FlowMod(in, out, k)
    PROVE  LoopInv'
<1>1. GraphTypes'
  <2>1. receiver' \in BOOLEAN  BY DEF FlowMod
  <2> QED  BY <2>1 DEF FlowMod, LoopInv, GraphTypes, switchVars, graphVars
<1>2. RuleInv'
  <2>1. CASE UNCHANGED <<installVars, ruleVars>>
    BY <2>1, RulesFrame DEF LoopInv
  <2>2. ASSUME NEW p \in PathsIn(nodes, in, out),
               Begin("receiver", k, Hops(p, WindowPort))
        PROVE  RuleInv'
    <3>1. "receiver" \in Installer /\ todo["receiver"] = <<>> /\ WindowPort \in NextHop
      BY DEF FlowMod, Installer, NextHop
    <3>2. k \in Match  BY ForwardingAssumption
    <3>3. RuleInv /\ nodes \in SUBSET Dpid  BY DEF LoopInv, GraphTypes
    <3> QED  BY <2>2, <3>1, <3>2, <3>3, RulesOnBegin
  <2> QED  BY <2>1, <2>2 DEF FlowMod
<1> QED  BY <1>1, <1>2 DEF LoopInv

\* The lookups of the next hop.
LEMMA LoopContinue ==
    ASSUME LoopInv, NEW i \in Installer, Continue(i)
    PROVE  LoopInv'
<1>1. GraphTypes'
  BY DEF Continue, LoopInv, GraphTypes, switchVars, graphVars
<1>2. /\ put' \in [Installer -> {"none", "raised", "open", "closed"}]
      /\ \A j \in Installer : put'[j] # "none" => todo[j] # <<>>
  BY EnteredType DEF Continue, LoopInv, RuleInv, RuleTypes, TodoChained
<1>3. RuleInv'
  BY <1>2, RulesOnLookup DEF Continue, LoopInv
<1> QED  BY <1>1, <1>3 DEF LoopInv

\* A rule is put.
LEMMA LoopPutRule ==
    ASSUME LoopInv, NEW i \in Installer, PutRule(i)
    PROVE  LoopInv'
<1>1. GraphTypes'
  BY DEF PutRule, LoopInv, GraphTypes, switchVars, graphVars
<1> QED  BY <1>1, RulesOnPut DEF LoopInv

\* An installer gives up: the switch of the hop it was at is astray.
LEMMA LoopAbort ==
    ASSUME LoopInv, NEW i \in Installer, Abort(i)
    PROVE  LoopInv'
<1> DEFINE h == Head(todo[i])
<1>1. GraphTypes'
  BY DEF Abort, LoopInv, GraphTypes, switchVars, graphVars
<1>2. todo[i] \in Seq(Hop) /\ todo[i] # <<>> /\ match[i] \in Match
  BY DEF Abort, LoopInv, RuleInv, RuleTypes, TodoChained
<1>3. h.dpid \in Dpid
  <2>1. h \in Hop  BY <1>2
  <2> QED  BY <2>1 DEF Hop
<1>4. /\ todo' = [todo EXCEPT ![i] = <<>>] /\ match' = [match EXCEPT ![i] = NoRule]
      /\ put' = [put EXCEPT ![i] = "none"]
      /\ astray' = [astray EXCEPT ![match[i]] = @ \cup {h.dpid}]
      /\ wire' = wire /\ flow' = flow /\ told' = told
  BY DEF Abort
<1>5. RuleTypes'
  BY <1>2, <1>3, <1>4 DEF LoopInv, RuleInv, RuleTypes
<1>6. TodoChained'
  BY <1>4 DEF LoopInv, RuleInv, RuleTypes, TodoChained, Chained
<1>7. ToldIsLast'  BY <1>4 DEF LoopInv, RuleInv, ToldIsLast, Coming
<1>8. \A j \in Match : Excused(j) \subseteq Excused(j)'
  <2> SUFFICES ASSUME NEW j \in Match, NEW d \in Excused(j)  PROVE d \in Excused(j)'
    OBVIOUS
  <2>1. CASE d \in astray[j]
    BY <2>1, <1>3, <1>4 DEF Excused, LoopInv, RuleInv, RuleTypes
  <2>2. CASE d \in Heads(j)
    <3>1. PICK c \in Installer : todo[c] # <<>> /\ match[c] = j /\ d = Head(todo[c]).dpid
      BY <2>2 DEF Heads
    <3>2. CASE c = i
      BY <3>1, <3>2, <1>4 DEF Excused, LoopInv, RuleInv, RuleTypes
    <3>3. CASE c # i
      <4>1. todo'[c] = todo[c] /\ match'[c] = match[c]
        BY <3>3, <1>4 DEF LoopInv, RuleInv, RuleTypes
      <4> QED  BY <3>1, <4>1 DEF Excused, Heads
    <3> QED  BY <3>2, <3>3
  <2> QED  BY <2>1, <2>2 DEF Excused
<1>9. ToldLoopsExcused'
  BY <1>4, <1>8 DEF LoopInv, RuleInv, ToldLoopsExcused
<1>10. \A j \in Match : astray[j] \subseteq astray'[j]
  BY <1>3, <1>4 DEF LoopInv, RuleInv, RuleTypes
<1>11. ToldLeadsOn'
  BY <1>4, <1>8, <1>10 DEF LoopInv, RuleInv, ToldLeadsOn, LeadsOn
<1> QED  BY <1>1, <1>5, <1>6, <1>7, <1>9, <1>11 DEF LoopInv, RuleInv

\* Handlers and switches that leave the rules alone.
LEMMA LoopOtherHandlers ==
    ASSUME LoopInv,
           \/ \E d \in Dpid : SwitchFeatures(d) \/ SwitchLeave(d) \/ Connects(d)
           \/ TopologyData
    PROVE  LoopInv'
<1>1. UNCHANGED <<installVars, ruleVars>>
  BY DEF SwitchFeatures, SwitchLeave, Connects, TopologyData
<1>2. RuleInv'  BY <1>1, RulesFrame DEF LoopInv
<1>3. ASSUME NEW d \in Dpid, SwitchFeatures(d)  PROVE GraphTypes'
  BY <1>3 DEF SwitchFeatures, LoopInv, GraphTypes, graphVars
<1>4. ASSUME NEW d \in Dpid, SwitchLeave(d)  PROVE GraphTypes'
  BY <1>4 DEF SwitchLeave, LoopInv, GraphTypes
<1>5. ASSUME NEW d \in Dpid, Connects(d)  PROVE GraphTypes'
  BY <1>5 DEF Connects, LoopInv, GraphTypes, graphVars
<1>6. ASSUME TopologyData  PROVE GraphTypes'
  <2>1. PICK late \in SUBSET LateCable :
          LET found == {c \in Cable \ late : {c[1], c[2]} \subseteq connected}
          IN  links' = links \cup {[from |-> c[1], to |-> c[2]] : c \in found}
                             \cup {[from |-> c[2], to |-> c[1]] : c \in found}
    BY <1>6 DEF TopologyData
  <2>2. \A c \in Cable : c[1] \in Dpid /\ c[2] \in Dpid
    BY ForwardingAssumption
  <2>3. links' \subseteq [from : Dpid, to : Dpid]
    BY <2>1, <2>2 DEF LoopInv, GraphTypes
  <2> QED  BY <1>6, <2>3 DEF TopologyData, LoopInv, GraphTypes, switchVars
<1>7. GraphTypes'  BY <1>3, <1>4, <1>5, <1>6
<1> QED  BY <1>2, <1>7 DEF LoopInv

\* A switch applies the first rule under way: it now is in the table, and the
\* last one for its match is where it was.
LEMMA LoopApplies ==
    ASSUME LoopInv, NEW d \in Dpid, Applies(d)
    PROVE  LoopInv'
<1> DEFINE r == Head(wire[d])
<1>1. GraphTypes'
  BY DEF Applies, LoopInv, GraphTypes, switchVars, graphVars
<1>2. wire[d] \in Seq(Rule) /\ wire[d] # <<>>
  BY DEF Applies, LoopInv, RuleInv, RuleTypes
<1>3. /\ Len(wire[d]) \in Nat /\ Len(wire[d]) > 0 /\ r = wire[d][1]
      /\ Tail(wire[d]) \in Seq(Rule)
      /\ Len(Tail(wire[d])) = Len(wire[d]) - 1
      /\ \A n \in 1 .. Len(wire[d]) - 1 : Tail(wire[d])[n] = wire[d][n + 1]
  BY <1>2
<1>4. r \in Rule  BY <1>3, <1>2
<1>5. r.match \in Match /\ r.next \in NextHop  BY <1>4 DEF Rule
<1>6. /\ flow' = [flow EXCEPT ![d][r.match] = r.next]
      /\ wire' = [wire EXCEPT ![d] = Tail(@)]
      /\ told' = told /\ astray' = astray
      /\ todo' = todo /\ match' = match /\ put' = put
  BY DEF Applies, installVars
<1>7. RuleTypes'
  BY <1>3, <1>5, <1>6 DEF LoopInv, RuleInv, RuleTypes
<1>8. TodoChained'  BY <1>6 DEF LoopInv, RuleInv, TodoChained, Chained
<1>9. ToldLoopsExcused'
  BY <1>6 DEF LoopInv, RuleInv, ToldLoopsExcused, Excused, Heads
<1>10. ToldIsLast'
  <2> SUFFICES ASSUME NEW c \in Dpid, NEW j \in Match
               PROVE  /\ j \notin Coming(c)' => told'[c][j] = flow'[c][j]
                      /\ \A n \in 1 .. Len(wire'[c]) :
                            /\ wire'[c][n].match = j
                            /\ \A m \in n + 1 .. Len(wire'[c]) : wire'[c][m].match # j
                            => wire'[c][n].next = told'[c][j]
    BY DEF ToldIsLast
  <2>1. CASE c # d
    <3>1. wire'[c] = wire[c] /\ flow'[c] = flow[c]
      BY <2>1, <1>6 DEF LoopInv, RuleInv, RuleTypes
    <3> QED  BY <3>1, <1>6 DEF LoopInv, RuleInv, ToldIsLast, Coming
  <2>2. CASE c = d
    <3>1. wire'[d] = Tail(wire[d])
      BY <1>6 DEF LoopInv, RuleInv, RuleTypes
    <3>2. ASSUME NEW n \in 1 .. Len(wire'[d]), wire'[d][n].match = j,
                 \A m \in n + 1 .. Len(wire'[d]) : wire'[d][m].match # j
          PROVE  wire'[d][n].next = told'[d][j]
      <4>1. n + 1 \in 1 .. Len(wire[d]) /\ wire'[d][n] = wire[d][n + 1]
        BY <1>3, <3>1
      <4>2. ASSUME NEW m \in n + 2 .. Len(wire[d])  PROVE wire[d][m].match # j
        <5>1. m - 1 \in n + 1 .. Len(wire'[d]) /\ wire'[d][m - 1] = wire[d][m]
          BY <1>3, <3>1
        <5> QED  BY <5>1, <3>2
      <4>3. \A m \in (n + 1) + 1 .. Len(wire[d]) : wire[d][m].match # j
        BY <4>2
      <4> QED  BY <4>1, <4>3, <3>2, <1>6 DEF LoopInv, RuleInv, ToldIsLast
    <3>3. ASSUME j \notin Coming(d)'  PROVE told'[d][j] = flow'[d][j]
      <4>1. \A m \in 1 .. Len(wire[d]) - 1 : wire[d][m + 1].match # j
        BY <3>1, <3>3, <1>3 DEF Coming
      <4>2. ASSUME NEW m \in 2 .. Len(wire[d])  PROVE wire[d][m].match # j
        <5>1. m - 1 \in 1 .. Len(wire[d]) - 1 /\ (m - 1) + 1 = m  BY <1>3
        <5> QED  BY <5>1, <4>1
      <4>3. CASE r.match = j
        <5>1. 1 \in 1 .. Len(wire[d]) /\ wire[d][1].match = j
              /\ \A m \in 1 + 1 .. Len(wire[d]) : wire[d][m].match # j
          BY <4>2, <4>3, <1>3
        <5>2. r.next = told[d][j]
          BY <5>1, <1>3 DEF LoopInv, RuleInv, ToldIsLast
        <5> QED  BY <5>2, <4>3, <1>5, <1>6 DEF LoopInv, RuleInv, RuleTypes
      <4>4. CASE r.match # j
        <5>1. j \notin Coming(d)
          <6>1. \A m \in 1 .. Len(wire[d]) : m = 1 \/ m \in 2 .. Len(wire[d])
            BY <1>3
          <6> QED  BY <6>1, <4>2, <4>4, <1>3 DEF Coming
        <5>2. flow'[d][j] = flow[d][j]
          BY <4>4, <1>5, <1>6 DEF LoopInv, RuleInv, RuleTypes
        <5> QED  BY <5>1, <5>2, <1>6 DEF LoopInv, RuleInv, ToldIsLast
      <4> QED  BY <4>3, <4>4
    <3> QED  BY <2>2, <3>2, <3>3
  <2> QED  BY <2>1, <2>2
<1>11. ToldLeadsOn'
  BY <1>6 DEF LoopInv, RuleInv, ToldLeadsOn, LeadsOn, Excused, Heads
<1> QED  BY <1>1, <1>7, <1>8, <1>9, <1>10, <1>11 DEF LoopInv, RuleInv

\* A connection is lost: what was under way counts as astray, the rest of the
\* table is as it was told.
LEMMA LoopConnectionLost ==
    ASSUME LoopInv, NEW d \in Dpid, ConnectionLost(d)
    PROVE  LoopInv'
<1>1. /\ wire' = [wire EXCEPT ![d] = <<>>]
      /\ astray' = [k \in Match |-> astray[k] \cup (IF k \in Coming(d) THEN {d} ELSE {})]
      /\ told' = [told EXCEPT ![d] = flow[d]]
      /\ flow' = flow /\ todo' = todo /\ match' = match
  BY DEF ConnectionLost
<1>11. /\ put' \in [Installer -> {"none", "raised", "open", "closed"}]
       /\ \A i \in Installer : put'[i] = "none" <=> put[i] = "none"
  <2>1. put' = [i \in Installer |-> IF put[i] = "open" /\ Head(todo[i]).dpid = d
                                   THEN "closed" ELSE put[i]]
    BY DEF ConnectionLost
  <2>2. put \in [Installer -> {"none", "raised", "open", "closed"}]
    BY DEF LoopInv, RuleInv, RuleTypes
  <2>3. ASSUME NEW i \in Installer
        PROVE  /\ put'[i] \in {"none", "raised", "open", "closed"}
               /\ put'[i] = "none" <=> put[i] = "none"
    <3>1. put'[i] = IF put[i] = "open" /\ Head(todo[i]).dpid = d THEN "closed" ELSE put[i]
      BY <2>1, Zenon
    <3>2. CASE put[i] = "open" /\ Head(todo[i]).dpid = d
      BY <3>1, <3>2
    <3>3. CASE ~(put[i] = "open" /\ Head(todo[i]).dpid = d)
      <4>1. put'[i] = put[i]  BY <3>1, <3>3, Zenon
      <4> QED  BY <4>1, <2>2
    <3> QED  BY <3>2, <3>3
  <2>4. DOMAIN put' = Installer /\ put' = [i \in Installer |-> put'[i]]
    BY <2>1
  <2> QED  BY <2>3, <2>4
<1>2. GraphTypes'
  BY DEF ConnectionLost, LoopInv, GraphTypes, graphVars
<1>3. RuleTypes'
  BY <1>1, <1>11 DEF LoopInv, RuleInv, RuleTypes
<1>4. TodoChained'  BY <1>1, <1>11 DEF LoopInv, RuleInv, TodoChained, Chained
<1>5. ToldIsLast'
  <2> SUFFICES ASSUME NEW c \in Dpid, NEW j \in Match
               PROVE  /\ j \notin Coming(c)' => told'[c][j] = flow'[c][j]
                      /\ \A n \in 1 .. Len(wire'[c]) :
                            /\ wire'[c][n].match = j
                            /\ \A m \in n + 1 .. Len(wire'[c]) : wire'[c][m].match # j
                            => wire'[c][n].next = told'[c][j]
    BY DEF ToldIsLast
  <2>1. CASE c = d
    BY <2>1, <1>1 DEF LoopInv, RuleInv, RuleTypes
  <2>2. CASE c # d
    <3>1. wire'[c] = wire[c] /\ told'[c] = told[c]
      BY <2>2, <1>1 DEF LoopInv, RuleInv, RuleTypes
    <3> QED  BY <3>1, <1>1 DEF LoopInv, RuleInv, ToldIsLast, Coming
  <2> QED  BY <2>1, <2>2
<1>6. ToldLoopsExcused'
  <2> SUFFICES ASSUME NEW j \in Match, NEW S \in SUBSET Dpid, S # {},
                      \A c \in S : told'[c][j] \in S
               PROVE  S \cap Excused(j)' # {}
    BY DEF ToldLoopsExcused
  <2>1. Excused(j) \subseteq Excused(j)'
    BY <1>1 DEF Excused, Heads
  <2>2. CASE d \in S /\ j \in Coming(d)
    BY <2>2, <1>1 DEF Excused
  <2>3. CASE d \notin S \/ j \notin Coming(d)
    <3>1. \A c \in S : told'[c][j] = told[c][j]
      BY <2>3, <1>1 DEF LoopInv, RuleInv, RuleTypes, ToldIsLast
    <3> QED  BY <3>1, <2>1 DEF LoopInv, RuleInv, ToldLoopsExcused
  <2> QED  BY <2>2, <2>3
<1>7. ToldLeadsOn'
  <2> SUFFICES ASSUME NEW j \in Match, NEW c \in Dpid, told'[c][j] \in Dpid,
                      told'[told'[c][j]][j] = NoRule
               PROVE  c \in astray'[j] \/ told'[c][j] \in Excused(j)'
    BY DEF ToldLeadsOn, LeadsOn
  <2> DEFINE v == told'[c][j]
  <2>1. \A e \in Dpid : e \in astray'[j] \/ told'[e][j] = told[e][j]
    BY <1>1 DEF LoopInv, RuleInv, RuleTypes, ToldIsLast
  <2>2. Excused(j) \subseteq Excused(j)' /\ astray[j] \subseteq astray'[j]
    BY <1>1 DEF Excused, Heads
  <2>3. CASE c \in astray'[j] \/ v \in astray'[j]
    BY <2>3 DEF Excused
  <2>4. CASE c \notin astray'[j] /\ v \notin astray'[j]
    <3>1. told[c][j] = v /\ told[v][j] = NoRule
      BY <2>1, <2>4
    <3> QED  BY <3>1, <2>2 DEF LoopInv, RuleInv, ToldLeadsOn, LeadsOn
  <2> QED  BY <2>3, <2>4
<1> QED  BY <1>2, <1>3, <1>4, <1>5, <1>6, <1>7 DEF LoopInv, RuleInv

\* A switch comes back empty: it is on no loop, and what leads to it is astray.
LEMMA LoopSwitchRestarts ==
    ASSUME LoopInv, NEW d \in Dpid, SwitchRestarts(d), wire[d] = <<>>
    PROVE  LoopInv'
<1>1. /\ flow' = [flow EXCEPT ![d] = EmptyTable] /\ told' = [told EXCEPT ![d] = EmptyTable]
      /\ astray' = [k \in Match |-> astray[k] \cup (IF flow[d][k] # NoRule THEN {d} ELSE {})]
      /\ wire' = wire /\ todo' = todo /\ match' = match /\ put' = put
  BY DEF SwitchRestarts, installVars
<1>2. GraphTypes'
  BY DEF SwitchRestarts, LoopInv, GraphTypes, graphVars, switchVars
<1>3. RuleTypes'
  BY <1>1 DEF LoopInv, RuleInv, RuleTypes, EmptyTable
<1>4. TodoChained'  BY <1>1 DEF LoopInv, RuleInv, TodoChained, Chained
<1>5. ToldIsLast'
  <2> SUFFICES ASSUME NEW c \in Dpid, NEW j \in Match
               PROVE  /\ j \notin Coming(c)' => told'[c][j] = flow'[c][j]
                      /\ \A n \in 1 .. Len(wire'[c]) :
                            /\ wire'[c][n].match = j
                            /\ \A m \in n + 1 .. Len(wire'[c]) : wire'[c][m].match # j
                            => wire'[c][n].next = told'[c][j]
    BY DEF ToldIsLast
  <2>1. CASE c = d
    BY <2>1, <1>1 DEF LoopInv, RuleInv, RuleTypes
  <2>2. CASE c # d
    <3>1. flow'[c] = flow[c] /\ told'[c] = told[c]
      BY <2>2, <1>1 DEF LoopInv, RuleInv, RuleTypes
    <3> QED  BY <3>1, <1>1 DEF LoopInv, RuleInv, ToldIsLast, Coming
  <2> QED  BY <2>1, <2>2
<1>6. ToldLoopsExcused'
  <2> SUFFICES ASSUME NEW j \in Match, NEW S \in SUBSET Dpid, S # {},
                      \A c \in S : told'[c][j] \in S
               PROVE  S \cap Excused(j)' # {}
    BY DEF ToldLoopsExcused
  <2>1. d \notin S
    <3>1. told'[d][j] = NoRule
      BY <1>1 DEF LoopInv, RuleInv, RuleTypes, EmptyTable
    <3>2. NoRule \notin Dpid  BY ForwardingAssumption
    <3> QED  BY <3>1, <3>2
  <2>2. \A c \in S : told'[c][j] = told[c][j]
    BY <2>1, <1>1 DEF LoopInv, RuleInv, RuleTypes
  <2>3. Excused(j) \subseteq Excused(j)'
    BY <1>1 DEF Excused, Heads
  <2> QED  BY <2>1, <2>2, <2>3 DEF LoopInv, RuleInv, ToldLoopsExcused
<1>7. ToldLeadsOn'
  <2> SUFFICES ASSUME NEW j \in Match, NEW c \in Dpid, told'[c][j] \in Dpid,
                      told'[told'[c][j]][j] = NoRule
               PROVE  c \in astray'[j] \/ told'[c][j] \in Excused(j)'
    BY DEF ToldLeadsOn, LeadsOn
  <2> DEFINE v == told'[c][j]
  <2>1. told[d][j] = flow[d][j]
    BY DEF LoopInv, RuleInv, ToldIsLast, Coming
  <2>2. Excused(j) \subseteq Excused(j)' /\ astray[j] \subseteq astray'[j]
    BY <1>1 DEF Excused, Heads
  <2>3. c # d
    <3>1. told'[d][j] = NoRule
      BY <1>1 DEF LoopInv, RuleInv, RuleTypes, EmptyTable
    <3> QED  BY <3>1, ForwardingAssumption
  <2>4. told[c][j] = v
    BY <2>3, <1>1 DEF LoopInv, RuleInv, RuleTypes
  <2>5. v \in astray'[j] \/ told[v][j] = NoRule
    BY <2>1, <1>1 DEF LoopInv, RuleInv, RuleTypes
  <2> QED  BY <2>2, <2>4, <2>5 DEF LoopInv, RuleInv, ToldLeadsOn, LeadsOn, Excused
<1> QED  BY <1>2, <1>3, <1>4, <1>5, <1>6, <1>7 DEF LoopInv, RuleInv

\* The controller is restarted: what was to do or under way is astray, the
\* tables are as they are.
LEMMA LoopControllerRestarts ==
    ASSUME LoopInv, ControllerRestarts
    PROVE  LoopInv'
<1>1. /\ wire' = [d \in Dpid |-> <<>>] /\ told' = flow /\ flow' = flow
      /\ todo' = [i \in Installer |-> <<>>] /\ match' = [i \in Installer |-> NoRule]
      /\ put' = [i \in Installer |-> "none"]
      /\ astray' = [k \in Match |-> astray[k] \cup Heads(k) \cup {d \in Dpid : k \in Coming(d)}]
  BY DEF ControllerRestarts
<1>2. GraphTypes'
  BY DEF ControllerRestarts, GraphTypes
<1>3. \A k \in Match : Heads(k) \subseteq Dpid
  <2> SUFFICES ASSUME NEW k \in Match, NEW i \in Installer, todo[i] # <<>>
               PROVE  Head(todo[i]).dpid \in Dpid
    BY DEF Heads
  <2>1. Head(todo[i]) \in Hop  BY DEF LoopInv, RuleInv, RuleTypes
  <2> QED  BY <2>1 DEF Hop
<1>4. RuleTypes'
  BY <1>1, <1>3 DEF LoopInv, RuleInv, RuleTypes
<1>5. TodoChained'  BY <1>1 DEF TodoChained, Chained
<1>6. ToldIsLast'  BY <1>1 DEF ToldIsLast, Coming
<1>7. ToldLoopsExcused'
  <2> SUFFICES ASSUME NEW j \in Match, NEW S \in SUBSET Dpid, S # {},
                      \A c \in S : flow[c][j] \in S
               PROVE  S \cap astray'[j] # {}
    BY <1>1 DEF ToldLoopsExcused, Excused
  <2>1. CASE \E c \in S : j \in Coming(c)
    BY <2>1, <1>1
  <2>2. CASE \A c \in S : j \notin Coming(c)
    <3>1. \A c \in S : told[c][j] \in S
      BY <2>2 DEF LoopInv, RuleInv, ToldIsLast
    <3>2. S \cap Excused(j) # {}
      BY <3>1 DEF LoopInv, RuleInv, ToldLoopsExcused
    <3> QED  BY <3>2, <1>1 DEF Excused
  <2> QED  BY <2>1, <2>2
<1>8. ToldLeadsOn'
  <2> SUFFICES ASSUME NEW j \in Match, NEW c \in Dpid, flow[c][j] \in Dpid,
                      flow[flow[c][j]][j] = NoRule
               PROVE  c \in astray'[j] \/ flow[c][j] \in astray'[j]
    BY <1>1 DEF ToldLeadsOn, LeadsOn, Excused
  <2> DEFINE v == flow[c][j]
  <2>1. CASE j \in Coming(c) \/ j \in Coming(v)
    BY <2>1, <1>1
  <2>2. CASE j \notin Coming(c) /\ j \notin Coming(v)
    <3>1. told[c][j] = v /\ told[v][j] = NoRule
      BY <2>2 DEF LoopInv, RuleInv, ToldIsLast
    <3>2. c \in astray[j] \/ v \in Excused(j)
      BY <3>1 DEF LoopInv, RuleInv, ToldLeadsOn, LeadsOn
    <3> QED  BY <3>2, <1>1 DEF Excused
  <2> QED  BY <2>1, <2>2
<1> QED  BY <1>2, <1>4, <1>5, <1>6, <1>7, <1>8 DEF LoopInv, RuleInv

-----------------------------------------------------------------------------
\* Nothing is on its way over a connection that is not there, and nobody puts
\* anything there.
WireOpen ==
    /\ \A d \in Dpid : d \notin connected => wire[d] = <<>>
    /\ current \subseteq connected
    /\ \A i \in Installer : put[i] = "open" => Head(todo[i]).dpid \in connected

\* What an installer enters is open only if its connection is.
LEMMA EnteredOpen ==
    ASSUME WireOpen, NEW hops, Entered(hops) = "open"
    PROVE  Head(hops).dpid \in connected
BY DEF Entered, WireOpen

LEMMA WireOpenBegin ==
    ASSUME LoopInv, WireOpen, NEW i \in Installer, NEW k, NEW hops, Begin(i, k, hops),
           UNCHANGED switchVars
    PROVE  WireOpen'
BY EnteredOpen DEF Begin, WireOpen, LoopInv, RuleInv, RuleTypes, ruleVars, switchVars

LEMMA WireOpenPut ==
    ASSUME LoopInv, WireOpen, NEW i \in Installer, PutRule(i)
    PROVE  WireOpen'
<1> USE DEF LoopInv, RuleInv, RuleTypes
<1>1. UNCHANGED switchVars /\ todo' = [todo EXCEPT ![i] = AfterFirst(todo[i])]
  BY DEF PutRule
<1>2. \A j \in Installer : put'[j] = "open" => Head(todo'[j]).dpid \in connected
  <2>1. put'[i] = "open" => Entered(AfterFirst(todo[i])) = "open"
    BY DEF PutRule
  <2>2. \A j \in Installer \ {i} : put'[j] = put[j]
    BY DEF PutRule
  <2> QED  BY <1>1, <2>1, <2>2, EnteredOpen DEF WireOpen
<1>3. \A d \in Dpid : d \notin connected => wire'[d] = <<>>
  <2>1. CASE put[i] = "open" /\ RuleSent(match[i], todo[i])
    BY <2>1 DEF RuleSent, WireOpen
  <2>2. CASE RuleDiscarded(match[i], todo[i])
    BY <2>2 DEF RuleDiscarded, WireOpen
  <2> QED  BY <2>1, <2>2 DEF PutRule
<1> QED  BY <1>1, <1>2, <1>3 DEF WireOpen, switchVars

LEMMA WireOpenConnectionLost ==
    ASSUME LoopInv, WireOpen, NEW d \in Dpid, ConnectionLost(d)
    PROVE  WireOpen'
<1> USE DEF LoopInv, RuleInv, RuleTypes, WireOpen
<1>1. \A c \in Dpid : c \notin connected' => wire'[c] = <<>>
  BY DEF ConnectionLost
<1>2. current' \subseteq connected'
  BY DEF ConnectionLost
<1>3. ASSUME NEW i \in Installer, put'[i] = "open"
      PROVE  Head(todo'[i]).dpid \in connected'
  BY <1>3 DEF ConnectionLost
<1> QED  BY <1>1, <1>2, <1>3

LEMMA WireOpenStep ==
    ASSUME LoopInv, WireOpen, [Next]_vars
    PROVE  WireOpen'
<1>1. ASSUME UNCHANGED <<connected, current, wire, todo, put>>  PROVE WireOpen'
  BY <1>1 DEF WireOpen
<1>2. ASSUME UNCHANGED <<switchVars, installVars, ruleVars>>  PROVE WireOpen'
  BY <1>1, <1>2 DEF switchVars, installVars, ruleVars
<1>3. ASSUME NEW d \in Dpid, SwitchFeatures(d)  PROVE WireOpen'
  BY <1>3 DEF SwitchFeatures, ruleVars, installVars, WireOpen
<1>33. ASSUME NEW d \in Dpid, SwitchLeave(d)  PROVE WireOpen'
  BY <1>1, <1>33 DEF SwitchLeave, ruleVars, installVars
<1>4. ASSUME NEW d \in Dpid, NEW port, NEW src, NEW k, PacketIn(d, port, src, k)
      PROVE  WireOpen'
  <2>1. UNCHANGED switchVars  BY <1>4 DEF PacketIn
  <2>2. UNCHANGED <<installVars, ruleVars>> \/ \E hops : Begin("app", k, hops)
    BY <1>4, Zenon DEF PacketIn
  <2> QED  BY <2>1, <2>2, <1>2, WireOpenBegin DEF Installer
<1>5. ASSUME NEW in, NEW out, NEW k, FlowMod(in, out, k)  PROVE WireOpen'
  <2>1. UNCHANGED switchVars  BY <1>5 DEF FlowMod
  <2>2. UNCHANGED <<installVars, ruleVars>> \/ \E hops : Begin("receiver", k, hops)
    BY <1>5, Zenon DEF FlowMod
  <2> QED  BY <2>1, <2>2, <1>2, WireOpenBegin DEF Installer
<1>6. ASSUME TopologyData  PROVE WireOpen'
  BY <1>2, <1>6 DEF TopologyData
<1>7. ASSUME NEW d \in Dpid, Connects(d)  PROVE WireOpen'
  BY <1>7 DEF Connects, ruleVars, installVars, WireOpen
<1>9. ASSUME NEW d \in Dpid, SwitchRestarts(d)  PROVE WireOpen'
  BY <1>1, <1>9 DEF SwitchRestarts, switchVars, installVars
<1>10. ASSUME ControllerRestarts  PROVE WireOpen'
  BY <1>10 DEF ControllerRestarts, WireOpen
<1>11. ASSUME NEW i \in Installer, Continue(i)  PROVE WireOpen'
  <2>1. \A j \in Installer : put'[j] = "open" => Head(todo[j]).dpid \in connected
    BY <1>11, EnteredOpen DEF Continue, WireOpen, LoopInv, RuleInv, RuleTypes
  <2> QED  BY <1>11, <2>1 DEF Continue, WireOpen, switchVars, ruleVars
<1>12. ASSUME NEW i \in Installer, Abort(i)  PROVE WireOpen'
  BY <1>12 DEF Abort, WireOpen, switchVars, LoopInv, RuleInv, RuleTypes
<1>13. ASSUME NEW d \in Dpid, Applies(d)  PROVE WireOpen'
  BY <1>13 DEF Applies, WireOpen, switchVars, installVars, LoopInv, RuleInv, RuleTypes
<1>14. ASSUME UNCHANGED vars  PROVE WireOpen'
  BY <1>2, <1>14 DEF vars
<1> QED
  BY <1>3, <1>33, <1>4, <1>5, <1>6, <1>7, <1>9, <1>10, <1>11, <1>12, <1>13, <1>14,
     WireOpenPut, WireOpenConnectionLost, Zenon DEF Next, Handler, Environment

\* Every step keeps the invariant.
LEMMA LoopStep ==
    ASSUME LoopInv, WireOpen, [Next]_vars
    PROVE  LoopInv'
<1>1. CASE Handler
  BY <1>1, LoopOtherHandlers, LoopPacketIn, LoopFlowMod, Zenon DEF Handler
<1>2. CASE Environment
  <2>1. ASSUME NEW d \in Dpid, SwitchRestarts(d)  PROVE wire[d] = <<>>
    BY <2>1 DEF SwitchRestarts, WireOpen
  <2> QED
    BY <1>2, <2>1, LoopOtherHandlers, LoopConnectionLost, LoopSwitchRestarts,
       LoopControllerRestarts, Zenon DEF Environment
<1>3. CASE \E i \in Installer : Abort(i) \/ PutRule(i) \/ Continue(i)
  BY <1>3, LoopPutRule, LoopContinue, LoopAbort
<1>4. CASE \E d \in Dpid : Applies(d)
  BY <1>4, LoopApplies
<1>5. CASE UNCHANGED vars
  <2>1. GraphTypes'
    BY <1>5 DEF vars, switchVars, graphVars, LoopInv, GraphTypes
  <2>2. RuleInv'  BY <1>5, RulesFrame DEF vars, LoopInv
  <2> QED  BY <2>1, <2>2 DEF LoopInv
<1> QED  BY <1>1, <1>2, <1>3, <1>4, <1>5 DEF Next

\* Every variable keeps its type (layer_2_switch.py:125-283, 343-396).
THEOREM ForwardingTypeCorrect == Spec => []TypeOK
<1>1. Init => LoopInv /\ WireOpen
  BY LoopInit DEF Init, WireOpen
<1>2. LoopInv /\ WireOpen /\ [Next]_vars => (LoopInv /\ WireOpen)'
  BY LoopStep, WireOpenStep
<1>3. LoopInv => TypeOK
  BY DEF LoopInv, GraphTypes, RuleInv, RuleTypes, TypeOK
<1> QED  BY <1>1, <1>2, <1>3, PTL DEF Spec

\* The rules along all the paths ever installed add up to a loop only through
\* a switch whose rule is still to come, was lost, or ends at a mistaken port
\* (add_flow at layer_2_switch.py:241 and 376), in any topology.
THEOREM NoForwardingLoopCorrect == Spec => []NoForwardingLoop
<1>1. Init => LoopInv /\ WireOpen
  BY LoopInit DEF Init, WireOpen
<1>2. LoopInv /\ WireOpen /\ [Next]_vars => (LoopInv /\ WireOpen)'
  BY LoopStep, WireOpenStep
<1> QED  BY <1>1, <1>2, NoLoopFromInv, PTL DEF Spec

\* A rule leads out of the domain or to a switch with a rule too
\* (layer_2_switch.py:222-244), unless one of the two missed its rule, is about
\* to get it, or has lost it in a restart; in any topology.
THEOREM RulesLeadOnCorrect == Spec => []RulesLeadOn
<1>1. Init => LoopInv /\ WireOpen
  BY LoopInit DEF Init, WireOpen
<1>2. LoopInv /\ WireOpen /\ [Next]_vars => (LoopInv /\ WireOpen)'
  BY LoopStep, WireOpenStep
<1> QED  BY <1>1, <1>2, RulesLeadOnFromInv, PTL DEF Spec
=============================================================================
