------------------------ MODULE ControlChannelProofs ------------------------
(***************************************************************************)
(* Proofs about ControlChannel: the buffers keep their bounds, and a jam   *)
(* is never left by a step of either program.                              *)
(***************************************************************************)
EXTENDS ControlChannel, SequenceTheorems, TLAPS

\* Only a connection that broke is over.
EndsBroken == \A s \in Session : ~is_active[s] => s \in broken

ChannelInv == TypeOK /\ EndsBroken

USE DEF DownMessage, UpMessage

-----------------------------------------------------------------------------

\* What a put does to the queues: those who have room keep to their bound, and
\* no other queue is touched.
LEMMA PutKeeps ==
    ASSUME TypeOK, NEW e \in DownMessage, NEW ts, \A t \in ts : Goes(t), Put(e, ts)
    PROVE  /\ down' \in [Session -> Seq(DownMessage)]
           /\ \A t \in Session : Len(down'[t]) =< QueueSize
           /\ \A t \in Session \ ts : down'[t] = down[t]
<1>1. \A t \in Session : down[t] \in Seq(DownMessage) /\ Len(down[t]) =< QueueSize
    BY DEF TypeOK
<1>2. ASSUME NEW t \in Session, t \in ts, is_active[t]
      PROVE  /\ Append(down[t], e) \in Seq(DownMessage)
             /\ Len(Append(down[t], e)) =< QueueSize
    <2>1. Len(down[t]) < QueueSize
        BY <1>2 DEF Goes, Room
    <2>2. QueueSize \in Nat /\ Len(down[t]) \in Nat
        BY <1>1, ControlChannelAssumption
    <2>. QED  BY <1>1, <2>1, <2>2
<1>. QED  BY <1>1, <1>2 DEF Put

\* What the handler of s does: it appends to queues that have room, and leaves
\* the handlers of the other sessions alone.
LEMMA SendsKeeps ==
    ASSUME TypeOK, NEW s \in Session, NEW path \in Seq(Session), Sends(s, path)
    PROVE  /\ down' \in [Session -> Seq(DownMessage)]
           /\ \A t \in Session : Len(down'[t]) =< QueueSize
           /\ \A t \in Session : ~Goes(t) => down'[t] = down[t]
           /\ todo' \in [Session -> Seq(Session)]
           /\ \A t \in Session \ {s} : todo'[t] = todo[t]
<1>1. PICK k \in 0 .. Len(path) :
          /\ \A i \in 1 .. k : Goes(path[i])
          /\ Put("FLOW_MOD", {path[i] : i \in 1 .. k})
          /\ todo' = [todo EXCEPT ![s] = SubSeq(path, k + 1, Len(path))]
    BY DEF Sends
<1>2. SubSeq(path, k + 1, Len(path)) \in Seq(Session)
    BY <1>1
<1>3. todo \in [Session -> Seq(Session)]
    BY DEF TypeOK
<1>4. \A t \in {path[i] : i \in 1 .. k} : Goes(t)
    BY <1>1
<1>5. /\ down' \in [Session -> Seq(DownMessage)]
      /\ \A t \in Session : Len(down'[t]) =< QueueSize
      /\ \A t \in Session \ {path[i] : i \in 1 .. k} : down'[t] = down[t]
    BY <1>1, <1>4, PutKeeps
<1>. QED  BY <1>1, <1>2, <1>3, <1>4, <1>5

LEMMA PathsType ==
    ASSUME NEW s \in Session, NEW path \in Paths(s)
    PROVE  path \in Seq(Session)
<1>1. PICK n \in 1 .. Cardinality(Session) : path \in [1 .. n -> Session]
    BY DEF Paths
<1>. QED  BY <1>1

-----------------------------------------------------------------------------

THEOREM InitInv == Init => ChannelInv
BY ControlChannelAssumption DEF Init, Empty, ChannelInv, TypeOK, EndsBroken

LEMMA CcReceiveInv ==
    ASSUME ChannelInv, NEW s \in Session, CcReceive(s)
    PROVE  ChannelInv'
<1>. USE DEF ChannelInv
<1>1. /\ up_socket[s] \in Seq(UpMessage) /\ up_socket[s] # <<>>
      /\ up_socket \in [Session -> Seq(UpMessage)]
    BY DEF CcReceive, TypeOK
<1>2. /\ up_socket' \in [Session -> Seq(UpMessage)]
      /\ \A t \in Session : Len(up_socket'[t]) =< SocketSize
    <2>1. \A t \in Session : Len(up_socket[t]) =< SocketSize /\ SocketSize \in Nat
        BY ControlChannelAssumption DEF TypeOK
    <2>2. Tail(up_socket[s]) \in Seq(UpMessage) /\ Len(Tail(up_socket[s])) =< SocketSize
        BY <1>1, <2>1
    <2>. QED  BY <1>1, <2>1, <2>2 DEF CcReceive, Without
<1>3. /\ down' \in [Session -> Seq(DownMessage)]
      /\ \A t \in Session : Len(down'[t]) =< QueueSize
      /\ todo' \in [Session -> Seq(Session)]
    <2>1. CASE Head(up_socket[s]) = "PACKET_IN"
        <3>1. PICK path \in Paths(s) : Sends(s, path)
            BY <2>1 DEF CcReceive
        <3>. QED  BY <3>1, PathsType, SendsKeeps
    <2>2. CASE Head(up_socket[s]) # "PACKET_IN"
        BY <2>2 DEF CcReceive, TypeOK
    <2>. QED  BY <2>1, <2>2
<1>. QED  BY <1>2, <1>3 DEF CcReceive, TypeOK, EndsBroken, endVars, handling, counts

LEMMA FlowModInv ==
    ASSUME ChannelInv, NEW s \in Session, FlowMod(s)
    PROVE  ChannelInv'
<1>. USE DEF ChannelInv
<1>1. todo[s] \in Seq(Session)
    BY DEF TypeOK
<1>2. /\ down' \in [Session -> Seq(DownMessage)]
      /\ \A t \in Session : Len(down'[t]) =< QueueSize
      /\ todo' \in [Session -> Seq(Session)]
    BY <1>1, SendsKeeps DEF FlowMod
<1>. QED  BY <1>2 DEF FlowMod, TypeOK, EndsBroken, endVars, handling, upVars, counts

LEMMA EchoRequestInv ==
    ASSUME ChannelInv, NEW s \in Session, EchoRequest(s)
    PROVE  ChannelInv'
<1>. USE DEF ChannelInv
<1>1. /\ down' \in [Session -> Seq(DownMessage)]
      /\ \A t \in Session : Len(down'[t]) =< QueueSize
    <2>1. CASE Room(down[s])
        BY <2>1, PutKeeps DEF EchoRequest, Goes
    <2>2. CASE ~Room(down[s])
        BY <2>2 DEF EchoRequest, TypeOK
    <2>. QED  BY <2>1, <2>2
<1>2. echoes' \in 0 .. MaxEchoes /\ echo' \in Session \cup {NoSession}
    BY ControlChannelAssumption DEF EchoRequest, TypeOK
<1>. QED  BY <1>1, <1>2 DEF EchoRequest, TypeOK, EndsBroken, endVars, handling, upVars

LEMMA EchoPutInv ==
    ASSUME ChannelInv, EchoPut
    PROVE  ChannelInv'
<1>. USE DEF ChannelInv
<1>1. /\ down' \in [Session -> Seq(DownMessage)]
      /\ \A t \in Session : Len(down'[t]) =< QueueSize
    BY PutKeeps DEF EchoPut
<1>. QED  BY <1>1 DEF EchoPut, TypeOK, EndsBroken, endVars, handling, upVars, counts

\* Emptying one of the queues or sockets.
LEMMA Emptied ==
    ASSUME NEW M, NEW f \in [Session -> Seq(M)], NEW s \in Session, NEW n \in Nat,
           \A t \in Session : Len(f[t]) =< n
    PROVE  /\ [f EXCEPT ![s] = <<>>] \in [Session -> Seq(M)]
           /\ \A t \in Session : Len([f EXCEPT ![s] = <<>>][t]) =< n
<1>1. <<>> \in Seq(M) /\ Len(<<>>) = 0
    OBVIOUS
<1>2. \A t \in Session : [f EXCEPT ![s] = <<>>][t] = IF t = s THEN <<>> ELSE f[t]
    OBVIOUS
<1>. QED  BY <1>1, <1>2

\* A message that goes from a queue into a socket with room.
LEMMA Moves ==
    ASSUME NEW M, NEW f \in [Session -> Seq(M)], NEW g \in [Session -> Seq(M)],
           NEW s \in Session, f[s] # <<>>, SocketRoom(g[s]),
           \A t \in Session : Len(f[t]) =< QueueSize,
           \A t \in Session : Len(g[t]) =< SocketSize
    PROVE  /\ With(g, s, Head(f[s])) \in [Session -> Seq(M)]
           /\ Without(f, s) \in [Session -> Seq(M)]
           /\ \A t \in Session : Len(Without(f, s)[t]) =< QueueSize
           /\ \A t \in Session : Len(With(g, s, Head(f[s]))[t]) =< SocketSize
<1>1. /\ Head(f[s]) \in M /\ Tail(f[s]) \in Seq(M)
      /\ Len(Tail(f[s])) = Len(f[s]) - 1 /\ Len(f[s]) \in Nat /\ QueueSize \in Nat
    BY ControlChannelAssumption
<1>2. /\ Append(g[s], Head(f[s])) \in Seq(M)
      /\ Len(Append(g[s], Head(f[s]))) =< SocketSize
    BY <1>1, ControlChannelAssumption DEF SocketRoom
<1>. QED  BY <1>1, <1>2 DEF With, Without

LEMMA CcSendInv ==
    ASSUME ChannelInv, NEW s \in Session, CcSend(s)
    PROVE  ChannelInv'
<1>. USE DEF ChannelInv
<1>1. /\ down_socket' \in [Session -> Seq(DownMessage)]
      /\ down' \in [Session -> Seq(DownMessage)]
      /\ \A t \in Session : Len(down'[t]) =< QueueSize
      /\ \A t \in Session : Len(down_socket'[t]) =< SocketSize
    BY Moves DEF CcSend, TypeOK
<1>. QED  BY <1>1 DEF CcSend, TypeOK, EndsBroken, endVars, handling, upVars, counts

LEMMA LcSendInv ==
    ASSUME ChannelInv, NEW s \in Session, LcSend(s)
    PROVE  ChannelInv'
<1>. USE DEF ChannelInv
<1>1. /\ up_socket' \in [Session -> Seq(UpMessage)]
      /\ up' \in [Session -> Seq(UpMessage)]
      /\ \A t \in Session : Len(up'[t]) =< QueueSize
      /\ \A t \in Session : Len(up_socket'[t]) =< SocketSize
    BY Moves DEF LcSend, TypeOK
<1>2. \A t \in dead : up'[t] = <<>>
    BY DEF LcSend, Without, TypeOK
<1>. QED  BY <1>1, <1>2 DEF LcSend, TypeOK, EndsBroken, endVars, handling, downVars, counts

LEMMA CcEndsInv ==
    ASSUME ChannelInv, NEW s \in Session, CcEnds(s)
    PROVE  ChannelInv'
<1>. USE DEF ChannelInv
<1>0. QueueSize \in Nat /\ SocketSize \in Nat
    BY ControlChannelAssumption
<1>1. /\ down' \in [Session -> Seq(DownMessage)]
      /\ \A t \in Session : Len(down'[t]) =< QueueSize
    BY <1>0, Emptied DEF CcEnds, TypeOK
<1>2. /\ up_socket' \in [Session -> Seq(UpMessage)]
      /\ \A t \in Session : Len(up_socket'[t]) =< SocketSize
    BY <1>0, Emptied DEF CcEnds, TypeOK
<1>. QED  BY <1>1, <1>2 DEF CcEnds, TypeOK, EndsBroken, handling, counts

LEMMA LcReceiveInv ==
    ASSUME ChannelInv, NEW s \in Session, LcReceive(s)
    PROVE  ChannelInv'
<1>. USE DEF ChannelInv
<1>1. /\ down_socket[s] \in Seq(DownMessage) /\ down_socket[s] # <<>>
      /\ Len(down_socket[s]) =< SocketSize /\ SocketSize \in Nat
    BY ControlChannelAssumption DEF LcReceive, TypeOK
<1>2. /\ Tail(down_socket[s]) \in Seq(DownMessage)
      /\ Len(Tail(down_socket[s])) =< SocketSize
    BY <1>1
<1>3. /\ replying' \subseteq Session \ dead
      /\ installing' \subseteq Session \ (dead \cup replying')
    BY DEF LcReceive, LcHandle, TypeOK
<1>. QED  BY <1>2, <1>3 DEF LcReceive, Without, TypeOK, EndsBroken, endVars, upVars, counts

\* A message that goes into a queue with room.
LEMMA Appends ==
    ASSUME TypeOK, NEW s \in Session, NEW e \in UpMessage, Room(up[s])
    PROVE  /\ With(up, s, e) \in [Session -> Seq(UpMessage)]
           /\ \A t \in Session : Len(With(up, s, e)[t]) =< QueueSize
<1>1. up[s] \in Seq(UpMessage) /\ Len(up[s]) < QueueSize /\ QueueSize \in Nat
    BY ControlChannelAssumption DEF TypeOK, Room
<1>2. Append(up[s], e) \in Seq(UpMessage) /\ Len(Append(up[s], e)) =< QueueSize
    BY <1>1
<1>. QED  BY <1>2 DEF With, TypeOK

LEMMA LcInstalledInv ==
    ASSUME ChannelInv, NEW s \in Session, LcInstalled(s)
    PROVE  ChannelInv'
BY DEF ChannelInv, LcInstalled, TypeOK, EndsBroken, endVars, downVars, upVars, counts

LEMMA LcRaisesInv ==
    ASSUME ChannelInv, NEW s \in Session, LcRaises(s)
    PROVE  ChannelInv'
<1>. USE DEF ChannelInv
<1>0. QueueSize \in Nat
    BY ControlChannelAssumption
<1>1. /\ up' \in [Session -> Seq(UpMessage)]
      /\ \A t \in Session : Len(up'[t]) =< QueueSize
    BY <1>0, Emptied DEF LcRaises, TypeOK
<1>2. \A t \in dead' : up'[t] = <<>>
    BY DEF LcRaises, TypeOK
<1>3. /\ dead' \subseteq Session
      /\ replying' \subseteq Session \ dead'
      /\ installing' \subseteq Session \ (dead' \cup replying')
    BY DEF LcRaises, TypeOK
<1>. QED  BY <1>1, <1>2, <1>3 DEF LcRaises, TypeOK, EndsBroken, downVars, counts

LEMMA LcReplyInv ==
    ASSUME ChannelInv, NEW s \in Session, LcReply(s)
    PROVE  ChannelInv'
<1>. USE DEF ChannelInv
<1>1. /\ up' \in [Session -> Seq(UpMessage)]
      /\ \A t \in Session : Len(up'[t]) =< QueueSize
    BY Appends DEF LcReply
<1>2. \A t \in dead : up'[t] = <<>>
    BY DEF LcReply, With, TypeOK
<1>. QED  BY <1>1, <1>2 DEF LcReply, TypeOK, EndsBroken, endVars, handling, downVars, counts

LEMMA LcRequestInv ==
    ASSUME ChannelInv, NEW s \in Session, LcRequest(s)
    PROVE  ChannelInv'
<1>. USE DEF ChannelInv
<1>1. /\ up' \in [Session -> Seq(UpMessage)]
      /\ \A t \in Session : Len(up'[t]) =< QueueSize
    BY Appends DEF LcRequest
<1>2. requests' \in 0 .. MaxRequests
    BY ControlChannelAssumption DEF LcRequest, TypeOK
<1>3. \A t \in dead : up'[t] = <<>>
    BY DEF LcRequest, With, TypeOK
<1>. QED  BY <1>1, <1>2, <1>3 DEF LcRequest, TypeOK, EndsBroken, endVars, handling, downVars

LEMMA BreakInv ==
    ASSUME ChannelInv, NEW s \in Session, Break(s)
    PROVE  ChannelInv'
<1>. USE DEF ChannelInv
<1>0. QueueSize \in Nat /\ SocketSize \in Nat
    BY ControlChannelAssumption
<1>1. /\ up_socket' \in [Session -> Seq(UpMessage)]
      /\ \A t \in Session : Len(up_socket'[t]) =< SocketSize
    <2>1. CASE up_socket' = up_socket
        BY <2>1 DEF TypeOK
    <2>2. CASE up_socket' = [up_socket EXCEPT ![s] = <<>>]
        BY <1>0, <2>2, Emptied DEF TypeOK
    <2>. QED  BY <2>1, <2>2 DEF Break
<1>2. /\ up' \in [Session -> Seq(UpMessage)]
      /\ \A t \in Session : Len(up'[t]) =< QueueSize
    BY <1>0, Emptied DEF Break, TypeOK
<1>3. /\ down_socket' \in [Session -> Seq(DownMessage)]
      /\ \A t \in Session : Len(down_socket'[t]) =< SocketSize
    BY <1>0, Emptied DEF Break, TypeOK
<1>. QED  BY <1>1, <1>2, <1>3 DEF Break, TypeOK, EndsBroken, counts

LEMMA NextInv ==
    ASSUME ChannelInv, [Next]_vars
    PROVE  ChannelInv'
<1>1. CASE UNCHANGED vars
    BY <1>1 DEF ChannelInv, TypeOK, EndsBroken, vars, endVars, downVars, upVars, handling, counts
<1>2. CASE EchoPut
    BY <1>2, EchoPutInv
<1>3. ASSUME NEW s \in Session, CcStep(s)
      PROVE  ChannelInv'
    BY <1>3, CcReceiveInv, FlowModInv, CcSendInv, CcEndsInv DEF CcStep
<1>4. ASSUME NEW s \in Session, LcStep(s)
      PROVE  ChannelInv'
    BY <1>4, LcReceiveInv, LcReplyInv, LcInstalledInv, LcSendInv DEF LcStep
<1>5. ASSUME NEW s \in Session, EchoRequest(s) \/ LcRequest(s) \/ LcRaises(s) \/ Break(s)
      PROVE  ChannelInv'
    BY <1>5, EchoRequestInv, LcRequestInv, LcRaisesInv, BreakInv
<1>. QED  BY <1>1, <1>2, <1>3, <1>4, <1>5 DEF Next

THEOREM ChannelInvariant == Spec => []ChannelInv
<1>. QED  BY InitInv, NextInv, PTL DEF Spec

\* Queues and sockets never hold more than they have room for, with any number
\* of sessions and any sizes.
THEOREM ChannelTypeCorrect == Spec => []TypeOK
<1>1. ChannelInv => TypeOK
    BY DEF ChannelInv
<1>. QED  BY <1>1, ChannelInvariant, PTL

-----------------------------------------------------------------------------

\* What a jam says of each of its sessions.
LEMMA JamFacts ==
    ASSUME ChannelInv, NEW J \in SUBSET Session, Jam(J), NEW s \in J
    PROVE  /\ s \in Session /\ s \notin broken /\ is_active[s]
           /\ ~Room(down[s]) /\ ~SocketRoom(down_socket[s]) /\ ~Goes(s)
           /\ s \notin dead => /\ ~Room(up[s]) /\ ~SocketRoom(up_socket[s])
                              /\ s \in replying /\ s \notin installing
                              /\ todo[s] # <<>>
                              /\ Head(todo[s]) \in J /\ ~Goes(Head(todo[s]))
BY DEF Jam, Clogged, Waits, Goes, ChannelInv, EndsBroken, TypeOK

\* Nothing of what the jam rests on changes about t.
Same(t) ==
    /\ down'[t] = down[t] /\ down_socket'[t] = down_socket[t]
    /\ t \in dead => t \in dead'
    /\ t \notin dead => /\ up'[t] = up[t] /\ up_socket'[t] = up_socket[t]
                       /\ t \in replying' /\ todo'[t] = todo[t]

LEMMA JamKept ==
    ASSUME NEW J \in SUBSET Session, Jam(J), \A s \in J : s \notin broken' /\ Same(s)
    PROVE  Jam(J)'
BY DEF Jam, Clogged, Waits, Room, SocketRoom, Same

LEMMA JamStep ==
    ASSUME ChannelInv, Next, NEW J \in SUBSET Session, Jam(J), \A s \in J : s \notin broken'
    PROVE  Jam(J)'
<1>. SUFFICES ASSUME NEW t \in J
              PROVE  Same(t)
    BY JamKept
<1>0. ChannelInv /\ TypeOK
    BY DEF ChannelInv
<1>00. /\ t \in Session /\ t \notin broken /\ t \notin broken' /\ is_active[t]
       /\ ~Room(down[t]) /\ ~SocketRoom(down_socket[t]) /\ ~Goes(t)
       /\ t \notin dead => /\ ~Room(up[t]) /\ ~SocketRoom(up_socket[t])
                          /\ t \in replying /\ t \notin installing
                          /\ todo[t] # <<>> /\ ~Goes(Head(todo[t]))
    BY JamFacts
<1>. USE DEF Same
<1>1. CASE EchoPut
    <2>1. down'[t] = down[t]
        BY <1>0, <1>00, <1>1, PutKeeps DEF EchoPut
    <2>. QED  BY <1>00, <1>1, <2>1 DEF EchoPut, endVars, upVars, handling
<1>2. ASSUME NEW s \in Session, CcReceive(s)
      PROVE  Same(t)
    <2>1. s = t => t \in dead
        BY <1>00, <1>2 DEF CcReceive
    <2>2. down'[t] = down[t] /\ (s # t => todo'[t] = todo[t])
        <3>1. CASE Head(up_socket[s]) = "PACKET_IN"
            <4>1. PICK path \in Paths(s) : Sends(s, path)
                BY <1>2, <3>1 DEF CcReceive
            <4>. QED  BY <1>0, <1>00, <4>1, PathsType, SendsKeeps
        <3>2. CASE Head(up_socket[s]) # "PACKET_IN"
            BY <1>2, <3>2 DEF CcReceive
        <3>. QED  BY <3>1, <3>2
    <2>3. s # t => up_socket'[t] = up_socket[t]
        BY <1>0, <1>00, <1>2 DEF CcReceive, Without, TypeOK
    <2>. QED  BY <1>00, <1>2, <2>1, <2>2, <2>3 DEF CcReceive, endVars, handling
<1>3. ASSUME NEW s \in Session, FlowMod(s)
      PROVE  Same(t)
    <2>1. s = t => t \in dead
        BY <1>00, <1>3 DEF FlowMod
    <2>2. todo[s] \in Seq(Session)
        BY <1>0 DEF TypeOK
    <2>3. down'[t] = down[t] /\ (s # t => todo'[t] = todo[t])
        BY <1>0, <1>00, <1>3, <2>2, SendsKeeps DEF FlowMod
    <2>. QED  BY <1>00, <1>3, <2>1, <2>3 DEF FlowMod, endVars, upVars, handling
<1>4. ASSUME NEW s \in Session, EchoRequest(s)
      PROVE  Same(t)
    <2>1. down'[t] = down[t]
        BY <1>0, <1>00, <1>4, PutKeeps DEF EchoRequest, Goes
    <2>. QED  BY <1>00, <1>4, <2>1 DEF EchoRequest, endVars, upVars, handling
<1>5. ASSUME NEW s \in Session,
             \/ CcSend(s) \/ CcEnds(s)
             \/ LcStep(s) \/ LcRequest(s) \/ LcRaises(s) \/ Break(s)
      PROVE  Same(t)
    <2>2. CASE CcSend(s)
        BY <1>0, <1>00, <2>2 DEF CcSend, With, Without, endVars, upVars, handling, TypeOK
    <2>3. CASE CcEnds(s)
        BY <1>0, <1>00, <2>3 DEF CcEnds, handling, TypeOK
    <2>4. CASE LcReceive(s)
        BY <1>0, <1>00, <2>4 DEF LcReceive, LcHandle, Without, endVars, upVars, TypeOK
    <2>5. CASE LcReply(s)
        BY <1>0, <1>00, <2>5 DEF LcReply, With, endVars, downVars, TypeOK
    <2>6. CASE LcSend(s)
        BY <1>0, <1>00, <2>6 DEF LcSend, With, Without, endVars, downVars, handling, TypeOK
    <2>7. CASE LcRequest(s)
        BY <1>0, <1>00, <2>7 DEF LcRequest, With, endVars, downVars, handling, TypeOK
    <2>8. CASE Break(s)
        BY <1>0, <1>00, <2>8 DEF Break, TypeOK
    <2>9. CASE LcInstalled(s)
        BY <1>0, <1>00, <2>9 DEF LcInstalled, endVars, downVars, upVars
    <2>10. CASE LcRaises(s)
        BY <1>0, <1>00, <2>10 DEF LcRaises, downVars, TypeOK
    <2>. QED  BY <1>5, <2>2, <2>3, <2>4, <2>5, <2>6, <2>7, <2>8, <2>9, <2>10 DEF LcStep
<1>. QED  BY <1>1, <1>2, <1>3, <1>4, <1>5 DEF Next, CcStep

\* A jam, around a circle of full sessions or behind a local controller that
\* has died in a handler, lasts until one of its connections breaks, with
\* any number of sessions and queues of any size.
THEOREM JamStaysCorrect == Spec => JamStays
<1>1. ASSUME ChannelInv, [Next]_vars
      PROVE  [\A J \in SUBSET Session :
                 Jam(J) /\ (\A s \in J : s \notin broken') => Jam(J)']_vars
    BY <1>1, JamStep
<1>. QED  BY <1>1, ChannelInvariant, PTL DEF Spec, JamStays
=============================================================================
