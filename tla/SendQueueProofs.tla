--------------------------- MODULE SendQueueProofs ---------------------------
(***************************************************************************)
(* Proofs about SendQueue, for any number of greenlets and any queue size. *)
(***************************************************************************)
EXTENDS SendQueue, TLAPS

\* The empty hands of the sender are told apart from a message.
LEMMA NoItemIsNone == NoItem \notin Item
<1> SUFFICES Item \subseteq [by : Greenlet, n : Nat]
  BY SendQueueAssumption
<1> QED
  BY DEF Item

\* The drained queue is a queue within its size.
LEMMA EmptyQueue == <<>> \in Seq(Item) /\ Len(<<>>) = 0 /\ Len(<<>>) =< QueueSize
BY SendQueueAssumption

\* A session begins with an empty queue and nobody waiting.
LEMMA InitSendQueueInv == Init => SendQueueInv
<1> SUFFICES ASSUME Init
             PROVE  SendQueueInv
  OBVIOUS
<1>1. puts \in [Greenlet -> 0 .. MaxPuts]
  BY SendQueueAssumption DEF Init
<1> QED
  BY <1>1, EmptyQueue DEF Init, SendQueueInv, TypeOK, NoMissedUnlock

\* Puts and the callback that lets waiting ones in.
LEMMA QueueStepInv ==
    ASSUME SendQueueInv, UnlockStep \/ \E g \in Greenlet : Send(g)
    PROVE  SendQueueInv'
<1> USE SendQueueAssumption DEF SendQueueInv, TypeOK, NoMissedUnlock
<1>1. ASSUME NEW g \in Greenlet, Send(g) PROVE SendQueueInv'
  <2> DEFINE it == [by |-> g, n |-> puts[g] + 1]
  <2>1. it \in Item
    BY <1>1 DEF Send, Item
  <2>2. puts' \in [Greenlet -> 0 .. MaxPuts]
    BY <1>1 DEF Send
  <2>3. items' \in Seq(Item) /\ Len(items') =< QueueSize
    BY <1>1, <2>1 DEF Send, Room
  <2>4. putters' \subseteq Item
    BY <1>1, <2>1 DEF Send
  <2>5. TypeOK'
    BY <1>1, <2>2, <2>3, <2>4 DEF Send
  <2>6. NoMissedUnlock'
    <3>1. CASE send_q /\ ~Room(items)
      BY <1>1, <3>1 DEF Send, Room
    <3>2. CASE ~send_q
      BY <1>1, <3>2 DEF Send, Room
    <3>3. CASE send_q /\ Room(items)
      BY <1>1, <3>3 DEF Send, Room
    <3> QED
      BY <3>1, <3>2, <3>3
  <2> QED
    BY <1>1, <2>5, <2>6 DEF Send
<1>2. ASSUME NEW it \in putters, Unlock(it) PROVE SendQueueInv'
  <2>1. items' \in Seq(Item) /\ Len(items') =< QueueSize
    BY <1>2 DEF Unlock, Room
  <2> QED
    BY <1>2, <2>1 DEF Unlock
<1>3. CASE UnlockEnds
  BY <1>3 DEF UnlockEnds, Room
<1> QED
  BY <1>1, <1>2, <1>3 DEF UnlockStep

\* The steps of the two loops of the session.
LEMMA LoopStepInv ==
    ASSUME SendQueueInv, SenderStep \/ RecvEnds
    PROVE  SendQueueInv'
<1> USE DEF SendQueueInv, TypeOK, NoMissedUnlock
<1>1. CASE Starts
  BY <1>1 DEF Starts, Room
<1>2. CASE Get
  <2>1. /\ Head(items) \in Item
        /\ Tail(items) \in Seq(Item)
        /\ Len(Tail(items)) =< QueueSize
    BY <1>2, SendQueueAssumption DEF Get
  <2>2. unlock' \in BOOLEAN /\ (putters' # {} => unlock')
    BY <1>2 DEF Get, UnlockIfWaiting
  <2>3. /\ buf' = Head(items) /\ items' = Tail(items) /\ sender' = "sendall"
        /\ UNCHANGED <<is_active, send_q, putters, receiver, puts, wire>>
    BY <1>2 DEF Get, Oldest
  <2> QED
    BY <2>1, <2>2, <2>3, NoItemIsNone
<1>3. CASE SendAll
  <2>1. wire' \in Seq(Item)
    BY <1>3 DEF SendAll
  <2> QED
    BY <1>3, <2>1 DEF SendAll, Room
<1>4. Drained => /\ items' \in Seq(Item) /\ Len(items') =< QueueSize
                 /\ send_q' \in BOOLEAN /\ unlock' \in BOOLEAN
  <2> SUFFICES ASSUME Drained
               PROVE  items' = <<>> /\ send_q' \in BOOLEAN /\ unlock' \in BOOLEAN
    BY EmptyQueue
  <2> QED
    BY DEF Drained
<1>5. CASE SendFails
  BY <1>4, <1>5 DEF SendFails
<1>6. CASE RecvEnds
  <2>1. CASE sender = "spawned"
    <3>1. /\ sender' = "killed" /\ is_active' = FALSE /\ receiver' = "over" /\ buf' = NoItem
          /\ UNCHANGED <<send_q, items, unlock, putters, puts, wire>>
      BY <1>6, <2>1 DEF RecvEnds
    <3> QED
      BY <2>1, <3>1 DEF Room
  <2>2. CASE sender \in {"get", "sendall"}
    <3>1. sender' = "over" /\ Drained
      BY <1>6, <2>2 DEF RecvEnds
    <3> QED
      BY <1>4, <1>6, <3>1 DEF RecvEnds
  <2>3. CASE sender = "over"
    BY <1>6, <2>3 DEF RecvEnds, Room
  <2> QED
    BY <1>6, <2>1, <2>2, <2>3 DEF RecvEnds
<1> QED
  BY <1>1, <1>2, <1>3, <1>5, <1>6 DEF SenderStep

\* Every step keeps the invariant.
LEMMA NextSendQueueInv == SendQueueInv /\ [Next]_vars => SendQueueInv'
<1> SUFFICES ASSUME SendQueueInv, [Next]_vars
             PROVE  SendQueueInv'
  OBVIOUS
<1>1. CASE Next
  BY <1>1, QueueStepInv, LoopStepInv DEF Next
<1>2. CASE UNCHANGED vars
  BY <1>2 DEF vars, SendQueueInv, TypeOK, NoMissedUnlock, Room
<1> QED
  BY <1>1, <1>2

\* The send queue is never over its size, and a greenlet that waits in put has
\* an _unlock coming or a full queue before it, so the next get wakes it.
THEOREM SendQueueCorrect == Spec => []SendQueueInv
BY InitSendQueueInv, NextSendQueueInv, PTL DEF Spec

\* The queue is never over its size, also while greenlets are let in.
THEOREM SendQueueTypeCorrect == Spec => []TypeOK
<1>1. SendQueueInv => TypeOK
  BY DEF SendQueueInv
<1> QED
  BY <1>1, SendQueueCorrect, PTL

\* Whoever waits in put of a live session has a full queue before it or an
\* _unlock coming, for any number of greenlets and slots.
THEOREM NoMissedUnlockCorrect == Spec => []NoMissedUnlock
<1>1. SendQueueInv => NoMissedUnlock
  BY DEF SendQueueInv
<1> QED
  BY <1>1, SendQueueCorrect, PTL

-----------------------------------------------------------------------------

\* What the proof of InOrder carries along: a message in sendall is the next
\* one of its sender, a waiting message is the last one its greenlet has put,
\* and the queue is there as long as _send_loop is not over.
OrderInv ==
    /\ InOrder
    /\ sender # "sendall" => buf = NoItem
    /\ buf # NoItem => \A n \in Nat : InSequence(buf.by, wire, n) => buf.n = n + 1
    /\ \A it \in putters : it.n = puts[it.by]
    /\ sender # "over" => send_q

\* A message behind the second of two sequences is behind both.
LEMMA AppendBehind ==
    ASSUME NEW S, NEW p \in Seq(S), NEW q \in Seq(S), NEW x \in S
    PROVE  p \o Append(q, x) = Append(p \o q, x)
<1>1. Append(q, x) \in Seq(S) /\ p \o q \in Seq(S)
  OBVIOUS
<1>2. /\ Len(p \o Append(q, x)) = Len(p) + Len(q) + 1
      /\ Len(Append(p \o q, x)) = Len(p) + Len(q) + 1
  BY <1>1
<1>3. ASSUME NEW i \in 1 .. Len(p) + Len(q) + 1
      PROVE  (p \o Append(q, x))[i] = Append(p \o q, x)[i]
  BY <1>1
<1>4. /\ p \o Append(q, x) \in Seq(S)
      /\ Append(p \o q, x) \in Seq(S)
  BY <1>1
<1> QED
  BY <1>2, <1>3, <1>4

\* The next message of g continues its numbers.
LEMMA AppendOwn ==
    ASSUME NEW q \in Seq(Item), NEW it \in Item, NEW n \in Nat,
           InSequence(it.by, q, n), it.n = n + 1
    PROVE  InSequence(it.by, Append(q, it), n + 1)
<1> DEFINE g == it.by
           r == Append(q, it)
           own(p) == {k \in 1 .. Len(p) : p[k].by = g}
<1>1. /\ Len(q) \in Nat /\ Len(r) = Len(q) + 1 /\ r[Len(q) + 1] = it
      /\ \A i \in 1 .. Len(q) : r[i] = q[i] /\ q[i] \in Item
  OBVIOUS
<1>2. /\ \A i, j \in 1 .. Len(q) : i < j /\ q[i].by = g /\ q[j].by = g => q[i].n < q[j].n
      /\ {q[i].n : i \in own(q)} = 1 .. n
  BY DEF InSequence
<1>3. \A i \in 1 .. Len(q) : q[i].by = g => q[i].n \in 1 .. n
  BY <1>2
<1>4. \A i, j \in 1 .. Len(r) : i < j /\ r[i].by = g /\ r[j].by = g => r[i].n < r[j].n
  <2> SUFFICES ASSUME NEW i \in 1 .. Len(r), NEW j \in 1 .. Len(r),
                      i < j, r[i].by = g, r[j].by = g
               PROVE  r[i].n < r[j].n
    OBVIOUS
  <2>1. i \in 1 .. Len(q) /\ r[i] = q[i] /\ q[i].n \in 1 .. n
    BY <1>1, <1>3
  <2>2. CASE j = Len(q) + 1
    BY <1>1, <2>1, <2>2
  <2>3. CASE j # Len(q) + 1
    BY <1>1, <1>2, <2>1, <2>3
  <2> QED
    BY <2>2, <2>3
<1>5. {r[i].n : i \in own(r)} = 1 .. n + 1
  <2>1. own(r) = own(q) \cup {Len(q) + 1}
    BY <1>1
  <2>2. {r[i].n : i \in own(r)} = {q[i].n : i \in own(q)} \cup {n + 1}
    BY <1>1, <2>1
  <2>3. 1 .. n \cup {n + 1} = 1 .. n + 1
    OBVIOUS
  <2>4. {r[i].n : i \in own(r)} = 1 .. n \cup {n + 1}
    BY ONLY <1>2, <2>2, Zenon
  <2> QED
    BY <2>3, <2>4, Zenon
<1> QED
  BY <1>4, <1>5 DEF InSequence

\* A message of another greenlet leaves them alone.
LEMMA AppendOther ==
    ASSUME NEW q \in Seq(Item), NEW it \in Item, NEW g, NEW n \in Nat,
           InSequence(g, q, n), it.by # g
    PROVE  InSequence(g, Append(q, it), n)
<1> DEFINE r == Append(q, it)
           own(p) == {k \in 1 .. Len(p) : p[k].by = g}
<1>1. /\ Len(q) \in Nat /\ Len(r) = Len(q) + 1 /\ r[Len(q) + 1] = it
      /\ \A i \in 1 .. Len(q) : r[i] = q[i]
  OBVIOUS
<1>2. own(r) = own(q)
  BY <1>1
<1>3. {r[i].n : i \in own(r)} = {q[i].n : i \in own(q)}
  BY <1>1, <1>2
<1>4. \A i, j \in 1 .. Len(r) : i < j /\ r[i].by = g /\ r[j].by = g => r[i].n < r[j].n
  BY <1>1 DEF InSequence
<1> QED
  BY <1>3, <1>4 DEF InSequence

\* After the numbers 1 to n, what follows of g begins with n + 1.
LEMMA NextNumber ==
    ASSUME NEW p \in Seq(Item), NEW q \in Seq(Item), q # <<>>,
           NEW n \in Nat, NEW m \in Nat,
           InSequence(Head(q).by, p, n), InSequence(Head(q).by, p \o q, m)
    PROVE  Head(q).n = n + 1
<1> DEFINE h == Head(q)
           r == p \o q
           own(s) == {k \in 1 .. Len(s) : s[k].by = h.by}
           at == Len(p) + 1
<1>1. /\ Len(p) \in Nat /\ Len(q) \in Nat \ {0} /\ Len(r) = Len(p) + Len(q)
      /\ r[at] = h /\ at \in 1 .. Len(r)
      /\ \A i \in 1 .. Len(p) : r[i] = p[i]
      /\ \A i \in 1 .. Len(r) : r[i] \in Item
  OBVIOUS
<1>2. \A i, j \in own(r) : i < j => r[i].n < r[j].n
  BY DEF InSequence
<1>3. {p[i].n : i \in own(p)} = 1 .. n /\ {r[i].n : i \in own(r)} = 1 .. m
  BY DEF InSequence
<1>4. at \in own(r) /\ h.n \in 1 .. m
  BY <1>1, <1>3
<1>5. ~(h.n =< n)
  <2> SUFFICES ASSUME h.n =< n
               PROVE  FALSE
    OBVIOUS
  <2>1. h.n \in 1 .. n
    BY <1>4
  <2>2. PICK i \in own(p) : p[i].n = h.n
    BY <1>3, <2>1
  <2>3. i \in own(r) /\ i < at /\ r[i].n = h.n
    BY <1>1, <2>2
  <2> QED
    BY <1>1, <1>2, <1>4, <2>3
<1>6. ~(h.n > n + 1)
  <2> SUFFICES ASSUME h.n > n + 1
               PROVE  FALSE
    OBVIOUS
  <2>1. n + 1 \in 1 .. m
    BY <1>4
  <2>2. PICK i \in own(r) : r[i].n = n + 1
    BY <1>3, <2>1
  <2>3. CASE i < at
    <3>1. i \in own(p) /\ p[i].n = n + 1
      BY <1>1, <2>2, <2>3
    <3>2. n + 1 \in 1 .. n
      BY <1>3, <3>1
    <3> QED
      BY <3>2
  <2>4. CASE i = at
    BY <1>1, <2>2, <2>4
  <2>5. CASE i > at
    <3>1. h.n < n + 1
      BY <1>1, <1>2, <1>4, <2>2, <2>5
    <3> QED
      BY <1>4, <3>1
  <2> QED
    BY <2>3, <2>4, <2>5
<1> QED
  BY <1>4, <1>5, <1>6

\* A session begins with nothing sent.
LEMMA InitOrderInv == Init => OrderInv
<1> SUFFICES ASSUME Init
             PROVE  OrderInv
  OBVIOUS
<1>1. wire = <<>> /\ Kept = <<>>
  BY DEF Init, Kept
<1>2. \A g \in Greenlet : puts[g] = 0 /\ ~Waits(g)
  BY DEF Init, Waits
<1>3. \A g \in Greenlet : InSequence(g, <<>>, 0)
  BY DEF InSequence
<1> QED
  BY <1>1, <1>2, <1>3, SendQueueAssumption DEF Init, OrderInv, InOrder

\* Every message of a greenlet goes behind its earlier ones, whether the queue
\* has room for it or it waits, and whoever _unlock lets in.
LEMMA QueueStepOrder ==
    ASSUME SendQueueInv, OrderInv, UnlockStep \/ \E g \in Greenlet : Send(g)
    PROVE  OrderInv'
<1> DEFINE Due(g) == IF Waits(g) THEN puts[g] - 1 ELSE puts[g]
           Held == IF buf = NoItem THEN wire ELSE Append(wire, buf)
<1>1. /\ Held \in Seq(Item) /\ items \in Seq(Item) /\ Kept = Held \o items
      /\ Kept \in Seq(Item)
  BY DEF SendQueueInv, TypeOK, Kept
<1>2. \A it \in Item : Held \o Append(items, it) = Append(Kept, it)
  <2> SUFFICES ASSUME NEW it \in Item
               PROVE  Held \o Append(items, it) = Append(Held \o items, it)
    BY <1>1
  <2> HIDE DEF Held
  <2> QED
    BY <1>1, AppendBehind
<1>3. \A g \in Greenlet : puts[g] \in Nat /\ (send_q => InSequence(g, Kept, Due(g)))
  BY SendQueueAssumption DEF SendQueueInv, TypeOK, OrderInv, InOrder
<1>4. \A it \in putters : it \in Item /\ it.n = puts[it.by] /\ it.n > 0
  BY SendQueueAssumption DEF SendQueueInv, TypeOK, OrderInv, Item
<1>5. \A g \in Greenlet : Due(g) \in Nat
  BY <1>3, <1>4 DEF Waits
<1>6. /\ \A g \in Greenlet : \E n \in 0 .. MaxPuts : InSequence(g, wire, n)
      /\ sender # "sendall" => buf = NoItem
      /\ buf # NoItem => \A n \in Nat : InSequence(buf.by, wire, n) => buf.n = n + 1
      /\ sender # "over" => send_q
  BY DEF OrderInv, InOrder
<1>7. ASSUME NEW h \in Greenlet, Send(h) PROVE OrderInv'
  <2> DEFINE it == [by |-> h, n |-> puts[h] + 1]
  <2>1. /\ it \in Item /\ ~Waits(h) /\ puts' = [puts EXCEPT ![h] = @ + 1]
        /\ UNCHANGED <<send_q, sender, buf, wire>>
    <3>1. puts[h] + 1 \in 1 .. MaxPuts
      BY <1>7, SendQueueAssumption DEF Send, SendQueueInv, TypeOK
    <3>2. it \in Item
      BY <3>1 DEF Item
    <3> QED
      BY <1>7, <3>2 DEF Send
  <2>2. \A g \in Greenlet : puts'[g] = IF g = h THEN puts[h] + 1 ELSE puts[g]
    BY <2>1 DEF SendQueueInv, TypeOK
  <2>3. \A x \in putters' : x.n = puts'[x.by]
    <3>1. \A x \in putters : x.by \in Greenlet /\ x.by # h
      BY <1>4, <2>1 DEF Waits, Item
    <3>2. putters' \subseteq putters \cup {it}
      BY <1>7 DEF Send
    <3> QED
      BY <1>4, <2>2, <3>1, <3>2
  <2>4. ASSUME send_q, NEW g \in Greenlet
        PROVE  InSequence(g, Kept', Due(g)')
    <3>1. CASE Room(items)
      <4>1. items' = Append(items, it) /\ putters' = putters
        BY <1>7, <2>4, <3>1 DEF Send
      <4>2. Kept' = Append(Kept, it)
        BY <1>2, <2>1, <4>1 DEF Kept
      <4>3. Waits(g)' <=> Waits(g)
        BY <4>1 DEF Waits
      <4>4. CASE g = h
        <5>1. Due(g) = puts[h] /\ Due(g)' = puts[h] + 1
          BY <2>1, <2>2, <4>3, <4>4
        <5> QED
          BY <1>1, <1>3, <2>1, <2>4, <4>2, <4>4, <5>1, AppendOwn
      <4>5. CASE g # h
        <5>1. Due(g)' = Due(g)
          BY <2>2, <4>3, <4>5
        <5> QED
          BY <1>1, <1>3, <1>5, <2>1, <2>4, <4>2, <4>5, <5>1, AppendOther
      <4> QED
        BY <4>4, <4>5
    <3>2. CASE ~Room(items)
      <4>1. items' = items /\ putters' = putters \cup {it}
        BY <1>7, <2>4, <3>2 DEF Send
      <4>2. Kept' = Kept
        BY <2>1, <4>1 DEF Kept
      <4>3. Waits(g)' <=> Waits(g) \/ g = h
        <5>1. it.by = h
          OBVIOUS
        <5> QED
          BY <4>1, <5>1 DEF Waits
      <4>4. Due(g)' = Due(g)
        BY <1>3, <2>1, <2>2, <4>3
      <4> QED
        BY <1>3, <2>4, <4>2, <4>4
    <3> QED
      BY <3>1, <3>2
  <2> QED
    BY <1>6, <2>1, <2>3, <2>4 DEF OrderInv, InOrder
<1>8. ASSUME NEW it \in putters, Unlock(it) PROVE OrderInv'
  <2>1. /\ items' = Append(items, it) /\ putters' = putters \ {it}
        /\ UNCHANGED <<send_q, sender, buf, puts, wire>>
    BY <1>8 DEF Unlock
  <2>2. Kept' = Append(Kept, it)
    BY <1>2, <1>4, <2>1 DEF Kept
  <2>3. it \in Item /\ it.by \in Greenlet
    BY <1>4 DEF Item
  <2>4. \A x \in putters : x.by = it.by => x = it
    BY <1>4 DEF Item
  <2>5. \A g \in Greenlet : Waits(g)' <=> Waits(g) /\ g # it.by
    BY <2>1, <2>4 DEF Waits
  <2>6. ASSUME send_q, NEW g \in Greenlet
        PROVE  InSequence(g, Kept', Due(g)')
    <3>1. CASE g = it.by
      <4>1. Waits(g) /\ ~Waits(g)'
        BY <2>5, <3>1 DEF Waits
      <4>2. Due(g) = puts[g] - 1 /\ Due(g)' = puts[g] /\ it.n = puts[g]
        BY <1>4, <2>1, <3>1, <4>1
      <4>3. it.n = Due(g) + 1 /\ Due(g)' = Due(g) + 1
        BY <1>3, <4>2
      <4> QED
        BY <1>1, <1>3, <1>5, <2>2, <2>3, <2>6, <3>1, <4>3, AppendOwn
    <3>2. CASE g # it.by
      <4>1. Due(g)' = Due(g)
        BY <2>1, <2>5, <3>2
      <4> QED
        BY <1>1, <1>3, <1>5, <2>2, <2>3, <2>6, <3>2, <4>1, AppendOther
    <3> QED
      BY <3>1, <3>2
  <2> QED
    BY <1>4, <1>6, <2>1, <2>6 DEF OrderInv, InOrder
<1>9. CASE UnlockEnds
  BY <1>9 DEF UnlockEnds, OrderInv, InOrder, Kept, Waits
<1> QED
  BY <1>7, <1>8, <1>9 DEF UnlockStep

\* The loops move a message from the queue to the wire and in between hold it,
\* and what the end of the session drops is dropped behind what was sent.
LEMMA LoopStepOrder ==
    ASSUME SendQueueInv, OrderInv, SenderStep \/ RecvEnds
    PROVE  OrderInv'
<1>1. CASE Starts
  BY <1>1 DEF Starts, OrderInv, InOrder, Kept, Waits
<1>2. CASE Get
  <2>1. /\ items \in Seq(Item) /\ items # <<>> /\ wire \in Seq(Item)
        /\ buf = NoItem /\ send_q /\ sender' = "sendall"
        /\ buf' = Head(items) /\ items' = Tail(items)
        /\ UNCHANGED <<send_q, putters, puts, wire>>
    BY <1>2 DEF Get, Oldest, SendQueueInv, TypeOK, OrderInv
  <2>2. Head(items) \in Item /\ buf' # NoItem
    BY <2>1, NoItemIsNone
  <2>3. Kept = wire \o items /\ Kept' = Append(wire, Head(items)) \o Tail(items)
    BY <2>1, <2>2 DEF Kept
  <2>4. Kept' = Kept
    BY <2>1, <2>2, <2>3
  <2>5. \A n \in Nat : InSequence(buf'.by, wire', n) => buf'.n = n + 1
    <3> SUFFICES ASSUME NEW n \in Nat, InSequence(Head(items).by, wire, n)
                 PROVE  Head(items).n = n + 1
      BY <2>1
    <3> DEFINE g == Head(items).by
               m == IF Waits(g) THEN puts[g] - 1 ELSE puts[g]
    <3>1. g \in Greenlet
      BY <2>2 DEF Item
    <3>2. m \in Nat
      BY <3>1 DEF SendQueueInv, TypeOK, OrderInv, Waits, Item
    <3>3. InSequence(g, wire \o items, m)
      BY <2>1, <2>3, <3>1 DEF OrderInv, InOrder
    <3> QED
      BY <2>1, <3>2, <3>3, NextNumber
  <2> QED
    BY <2>1, <2>4, <2>5 DEF OrderInv, InOrder, Waits
<1>3. CASE SendAll
  <2>1. /\ sender = "sendall" /\ buf \in Item /\ buf # NoItem /\ wire \in Seq(Item)
        /\ wire' = Append(wire, buf) /\ buf' = NoItem /\ sender' = "get"
        /\ UNCHANGED <<send_q, items, putters, puts>>
    BY <1>3 DEF SendAll, SendQueueInv, TypeOK
  <2>2. Kept' = Kept
    BY <2>1 DEF Kept
  <2>3. ASSUME NEW g \in Greenlet
        PROVE  \E n \in 0 .. MaxPuts : InSequence(g, wire', n)
    <3>1. PICK n \in 0 .. MaxPuts : InSequence(g, wire, n)
      BY DEF OrderInv, InOrder
    <3>2. CASE buf.by = g
      <4>1. buf.n = n + 1
        BY <2>1, <3>1, <3>2 DEF OrderInv
      <4>2. n + 1 \in 0 .. MaxPuts
        BY <2>1, <4>1, SendQueueAssumption DEF Item
      <4> QED
        BY <2>1, <3>1, <3>2, <4>1, <4>2, AppendOwn
    <3>3. CASE buf.by # g
      BY <2>1, <3>1, <3>3, AppendOther
    <3> QED
      BY <3>2, <3>3
  <2> QED
    BY <2>1, <2>2, <2>3 DEF OrderInv, InOrder, Waits
<1>4. CASE SendFails
  BY <1>4 DEF SendFails, Drained, OrderInv, InOrder
<1>5. CASE RecvEnds
  <2>1. CASE sender = "spawned"
    <3>1. /\ buf = NoItem /\ buf' = NoItem /\ send_q
          /\ UNCHANGED <<send_q, items, putters, puts, wire>>
      BY <1>5, <2>1 DEF RecvEnds, OrderInv
    <3> QED
      BY <3>1 DEF OrderInv, InOrder, Kept, Waits
  <2>2. CASE sender \in {"get", "sendall"}
    BY <1>5, <2>2 DEF RecvEnds, Drained, OrderInv, InOrder
  <2>3. CASE sender = "over"
    <3>1. buf' = NoItem /\ UNCHANGED <<sender, send_q, items, putters, puts, wire>>
      BY <1>5, <2>3 DEF RecvEnds
    <3> QED
      BY <2>3, <3>1 DEF OrderInv, InOrder, Kept, Waits
  <2> QED
    BY <1>5, <2>1, <2>2, <2>3 DEF RecvEnds
<1> QED
  BY <1>1, <1>2, <1>3, <1>4, <1>5 DEF SenderStep

\* What each greenlet sends goes out in the order of its calls and without a
\* gap, and nothing is lost before _send_loop is over: for any number of
\* greenlets, messages and slots, and in whatever order _unlock lets them in.
THEOREM InOrderCorrect == Spec => []InOrder
<1>1. SendQueueInv /\ OrderInv /\ [Next]_vars => OrderInv'
  <2> SUFFICES ASSUME SendQueueInv, OrderInv, [Next]_vars
               PROVE  OrderInv'
    OBVIOUS
  <2>1. CASE Next
    BY <2>1, QueueStepOrder, LoopStepOrder DEF Next
  <2>2. CASE UNCHANGED vars
    BY <2>2 DEF vars, OrderInv, InOrder, Kept, Waits
  <2> QED
    BY <2>1, <2>2
<1>2. OrderInv => InOrder
  BY DEF OrderInv
<1> QED
  BY <1>1, <1>2, InitOrderInv, SendQueueCorrect, PTL DEF Spec
=============================================================================
