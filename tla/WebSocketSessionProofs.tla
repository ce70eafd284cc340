---------------------- MODULE WebSocketSessionProofs -----------------------
(***************************************************************************)
(* Proofs about WebSocketSession, for any payloads and any number of       *)
(* sends.  The four safety invariants and the type invariant together are  *)
(* inductive; the implementation of OutgoingChannel follows from them.     *)
(***************************************************************************)
EXTENDS WebSocketSession, SequenceTheorems, TLAPS

(* The abbreviations that every proof sees through. *)
USE DEF Unbind, Idle, Remaining, Following, AfterError

SessionInv ==
  /\ TypeOK
  /\ OneWriteOfTheFront
  /\ FailedWriteBlocksQueue
  /\ Conserved
  /\ BoundIsAlive
----------------------------------------------------------------------------
(* Moving the head of one sequence to the end of the one before it. *)
LEMMA HeadMoves ==
  ASSUME NEW S, NEW u \in Seq(S), NEW v \in Seq(S), v # <<>>
  PROVE  Append(u, Head(v)) \o Tail(v) = u \o v
<1> DEFINE l == Append(u, Head(v)) \o Tail(v)
           r == u \o v
<1>1. Head(v) \in S /\ Tail(v) \in Seq(S) /\ Len(Tail(v)) = Len(v) - 1
  BY HeadTailProperties
<1>2. /\ Append(u, Head(v)) \in Seq(S)
      /\ Len(Append(u, Head(v))) = Len(u) + 1
  BY <1>1, AppendProperties
<1>3. l \in Seq(S) /\ Len(l) = Len(u) + 1 + (Len(v) - 1)
  BY <1>1, <1>2, ConcatProperties
<1>4. r \in Seq(S) /\ Len(r) = Len(u) + Len(v)
  BY ConcatProperties
<1>5. \A i \in 1..Len(l) : l[i] = r[i]
  BY <1>1, <1>2, <1>3
<1>6. Len(l) = Len(r)
  BY <1>3, <1>4
<1> QED
  BY <1>3, <1>4, <1>5, <1>6, SeqEqual

LEMMA AppendToConcat ==
  ASSUME NEW S, NEW u \in Seq(S), NEW v \in Seq(S), NEW e \in S
  PROVE  u \o Append(v, e) = Append(u \o v, e)
<1>1. u \o v \in Seq(S) /\ <<e>> \in Seq(S)
  BY ConcatProperties
<1>2. Append(u \o v, e) = (u \o v) \o <<e>>
  BY <1>1, AppendIsConcat
<1>3. Append(v, e) = v \o <<e>>
  BY AppendIsConcat
<1>4. (u \o v) \o <<e>> = u \o (v \o <<e>>)
  BY <1>1, ConcatAssociative
<1> QED
  BY <1>2, <1>3, <1>4
----------------------------------------------------------------------------
LEMMA InvInit == Init => SessionInv
<1> SUFFICES ASSUME Init PROVE SessionInv
  OBVIOUS
<1>1. TypeOK
  <2>1. \A q \in {strand, writeQueue, writes, sent, wire} : q \in Seq(Payload)
    BY EmptySeq DEF Init
  <2> QED
    BY <2>1 DEF Init, TypeOK
<1>2. OneWriteOfTheFront /\ FailedWriteBlocksQueue /\ BoundIsAlive
  BY DEF Init, OneWriteOfTheFront, FailedWriteBlocksQueue, BoundIsAlive
<1>3. Conserved
  <2>1. <<>> \o <<>> = <<>>
    BY EmptySeq, ConcatEmptySeq
  <2> QED
    BY <2>1 DEF Init, Conserved
<1> QED
  BY <1>1, <1>2, <1>3 DEF SessionInv

LEMMA SendInv ==
  ASSUME SessionInv, NEW p \in Payload, Send(p)
  PROVE  SessionInv'
<1> USE DEF SessionInv, Send
<1>1. TypeOK'
  BY DEF TypeOK
<1>2. OneWriteOfTheFront' /\ FailedWriteBlocksQueue' /\ BoundIsAlive'
  BY DEF OneWriteOfTheFront, FailedWriteBlocksQueue, BoundIsAlive
<1>3. Conserved'
  <2>1. wire \o writeQueue \in Seq(Payload) /\ strand \in Seq(Payload)
    <3>1. wire \in Seq(Payload) /\ writeQueue \in Seq(Payload)
      BY DEF TypeOK
    <3> QED
      BY <3>1, ConcatProperties DEF TypeOK
  <2> HIDE DEF Send
  <2>u. PICK u \in Seq(Payload) : u = wire \o writeQueue
    BY <2>1
  <2>v. PICK v \in Seq(Payload) : v = strand
    BY <2>1
  <2> HIDE DEF SessionInv
  <2>2. u \o Append(v, p) = Append(u \o v, p)
    BY AppendToConcat
  <2>3. /\ sent' = Append(sent, p) /\ strand' = Append(strand, p)
        /\ wire' = wire /\ writeQueue' = writeQueue
    BY DEF Send
  <2> QED
    BY <2>u, <2>v, <2>2, <2>3, Zenon DEF SessionInv, Conserved
<1> QED
  BY <1>1, <1>2, <1>3

LEMMA RunPostedInv ==
  ASSUME SessionInv, RunPosted
  PROVE  SessionInv'
<1> USE DEF SessionInv
<1>0. /\ strand \in Seq(Payload) /\ strand # <<>>
      /\ writeQueue \in Seq(Payload) /\ wire \in Seq(Payload)
  BY DEF TypeOK, RunPosted
<1>a. Head(strand) \in Payload /\ Tail(strand) \in Seq(Payload)
  BY <1>0, HeadTailProperties
<1>b. /\ writeQueue' = Append(writeQueue, Head(strand))
      /\ writeQueue' \in Seq(Payload)
      /\ writeQueue' # <<>>
      /\ Head(writeQueue') = IF writeQueue = <<>> THEN Head(strand)
                                                 ELSE Head(writeQueue)
  BY <1>0, <1>a, AppendProperties, HeadTailAppend DEF RunPosted
<1>c. writes' = IF writeQueue = <<>> THEN <<Head(strand)>> ELSE writes
  <2>1. CASE writeQueue = <<>>
    <3>1. writes = <<>>
      BY <2>1 DEF OneWriteOfTheFront
    <3>2. writes' = Append(<<>>, Head(strand))
      BY <1>b, <2>1, <3>1 DEF RunPosted, DoWrite
    <3> QED
      BY <2>1, <3>2
  <2>2. CASE writeQueue # <<>>
    BY <2>2 DEF RunPosted
  <2> QED
    BY <2>1, <2>2
<1>1. TypeOK'
  <2>1. writes' \in Seq(Payload)
    BY <1>a, <1>c DEF TypeOK
  <2> QED
    BY <1>a, <1>b, <2>1 DEF TypeOK, RunPosted
<1>2. OneWriteOfTheFront' /\ FailedWriteBlocksQueue'
  <2>1. writeFailed' = writeFailed
    BY DEF RunPosted
  <2> QED
    BY <1>b, <1>c, <2>1 DEF OneWriteOfTheFront, FailedWriteBlocksQueue
<1>3. BoundIsAlive'
  BY DEF BoundIsAlive, RunPosted
<1>4. Conserved'
  <2>1. wire \o writeQueue \in Seq(Payload)
    BY <1>0, ConcatProperties
  <2>2. wire \o Append(writeQueue, Head(strand))
          = Append(wire \o writeQueue, Head(strand))
    BY <1>0, <1>a, AppendToConcat
  <2>3. Append(wire \o writeQueue, Head(strand)) \o Tail(strand)
          = (wire \o writeQueue) \o strand
    BY <1>0, <2>1, HeadMoves
  <2> QED
    BY <2>2, <2>3 DEF Conserved, RunPosted
<1> QED
  BY <1>1, <1>2, <1>3, <1>4

LEMMA OnWriteInv ==
  ASSUME SessionInv, OnWrite
  PROVE  SessionInv'
<1> USE DEF SessionInv
<1>0. /\ writes # <<>> /\ writeQueue # <<>>
      /\ writes = <<Head(writeQueue)>>
      /\ writeQueue \in Seq(Payload) /\ wire \in Seq(Payload)
      /\ strand \in Seq(Payload)
  BY DEF TypeOK, OnWrite, OneWriteOfTheFront
<1>a. Head(writeQueue) \in Payload /\ Tail(writeQueue) \in Seq(Payload)
  BY <1>0, HeadTailProperties
<1>b. Head(writes) = Head(writeQueue) /\ Tail(writes) = <<>>
  <2> DEFINE h == Head(writeQueue)
  <2> HIDE DEF h
  <2>1. Head(<<h>>) = h /\ Tail(<<h>>) = <<>>
    OBVIOUS
  <2> QED
    BY <1>0, <2>1 DEF h
<1>c. /\ wire' = Append(wire, Head(writeQueue))
      /\ wire' \in Seq(Payload)
      /\ writeQueue' = Tail(writeQueue)
  BY <1>0, <1>a, <1>b, AppendProperties DEF OnWrite
<1>d. writes' = IF writeQueue' = <<>> THEN <<>> ELSE <<Head(writeQueue')>>
  <2> DEFINE h == Head(writeQueue')
  <2> HIDE DEF h
  <2>1. Append(<<>>, h) = <<h>>
    OBVIOUS
  <2> QED
    BY <1>b, <2>1 DEF OnWrite, h
<1>1. TypeOK'
  <2>1. writeQueue' # <<>> => Head(writeQueue') \in Payload
    BY <1>a, <1>c, HeadTailProperties
  <2>2. writes' \in Seq(Payload)
    BY <1>d, <2>1
  <2> QED
    BY <1>a, <1>c, <2>2 DEF TypeOK, OnWrite
<1>2. OneWriteOfTheFront' /\ FailedWriteBlocksQueue'
  <2>1. ~writeFailed /\ ~writeFailed'
    BY <1>0 DEF OneWriteOfTheFront, OnWrite
  <2> QED
    BY <1>d, <2>1 DEF OneWriteOfTheFront, FailedWriteBlocksQueue
<1>3. BoundIsAlive'
  BY DEF BoundIsAlive, OnWrite
<1>4. Conserved'
  <2>1. Append(wire, Head(writeQueue)) \o Tail(writeQueue) = wire \o writeQueue
    BY <1>0, HeadMoves
  <2> QED
    BY <1>c, <2>1 DEF Conserved, OnWrite
<1> QED
  BY <1>1, <1>2, <1>3, <1>4

LEMMA InvNext == SessionInv /\ [Next]_vars => SessionInv'
<1> SUFFICES ASSUME SessionInv, [Next]_vars PROVE SessionInv'
  OBVIOUS
<1> USE DEF SessionInv, TypeOK, OneWriteOfTheFront, FailedWriteBlocksQueue,
            Conserved, BoundIsAlive
<1>1. CASE OnAccept
  BY <1>1 DEF OnAccept
<1>2. CASE OnAcceptError
  BY <1>2 DEF OnAcceptError
<1>3. CASE OnReadError
  BY <1>3 DEF OnReadError
<1>4. CASE \E p \in Payload : Send(p)
  BY <1>4, SendInv
<1>5. CASE RunPosted
  BY <1>5, RunPostedInv
<1>6. CASE OnWrite
  BY <1>6, OnWriteInv
<1>7. CASE OnWriteError
  <2>1. writeQueue # <<>> /\ writes = <<Head(writeQueue)>>
    BY <1>7 DEF OnWriteError
  <2>2. writes' = <<>>
    <3> DEFINE h == Head(writeQueue)
    <3> HIDE DEF h
    <3>1. Tail(<<h>>) = <<>>
      OBVIOUS
    <3> QED
      BY <1>7, <2>1, <3>1 DEF OnWriteError, h
  <2>3. writes' \in Seq(Payload)
    BY <2>2, EmptySeq
  <2> QED
    BY <1>7, <2>1, <2>2, <2>3 DEF OnWriteError
<1>8. CASE PeerDies
  BY <1>8 DEF PeerDies
<1>9. CASE Stop
  BY <1>9 DEF Stop
<1>10. CASE UNCHANGED vars
  BY <1>10 DEF vars
<1> QED
  BY <1>1, <1>2, <1>3, <1>4, <1>5, <1>6, <1>7, <1>8, <1>9, <1>10 DEF Next

THEOREM SessionInvariant == Spec => []SessionInv
BY InvInit, InvNext, PTL DEF Spec

(* The state of a session is always of its type. *)
THEOREM TypeCorrect == Spec => []TypeOK
<1>1. SessionInv => TypeOK
  BY DEF SessionInv
<1> QED
  BY <1>1, SessionInvariant, PTL

(***************************************************************************)
(* WebSocketSession never has two writes outstanding, never leaves a       *)
(* queued payload without a write, and the buffer of the write is the      *)
(* front of the queue.                                                     *)
(***************************************************************************)
THEOREM WritesAreSerial == Spec => []OneWriteOfTheFront
<1>1. SessionInv => OneWriteOfTheFront
  BY DEF SessionInv
<1> QED
  BY <1>1, SessionInvariant, PTL

(* Every payload sent is on the wire, in writeQueue_ or posted, in order. *)
THEOREM NothingIsLost == Spec => []Conserved
<1>1. SessionInv => Conserved
  BY DEF SessionInv
<1> QED
  BY <1>1, SessionInvariant, PTL

(***************************************************************************)
(* After a failed write the queue is never empty again, so no function on  *)
(* the strand starts another write on the broken stream.                   *)
(***************************************************************************)
THEOREM NoWriteAfterFailure == Spec => []FailedWriteBlocksQueue
<1>1. SessionInv => FailedWriteBlocksQueue
  BY DEF SessionInv
<1> QED
  BY <1>1, SessionInvariant, PTL

(* The weak_ptr that SessionActor holds of a bound session can be locked. *)
THEOREM BoundSessionsLive == Spec => []BoundIsAlive
<1>1. SessionInv => BoundIsAlive
  BY DEF SessionInv
<1> QED
  BY <1>1, SessionInvariant, PTL
----------------------------------------------------------------------------
LEMMA ChannelInit == Init => Channel!Init
BY DEF Init, Channel!Init

(* A completed write is the delivery of the next payload. *)
LEMMA OnWriteDelivers ==
  ASSUME SessionInv, OnWrite
  PROVE  Channel!DeliverNext
<1>1. /\ writeQueue \in Seq(Payload) /\ wire \in Seq(Payload)
      /\ strand \in Seq(Payload) /\ writeQueue # <<>>
      /\ writes = <<Head(writeQueue)>> /\ ~writeFailed
  BY DEF SessionInv, TypeOK, OneWriteOfTheFront, OnWrite
<1> DEFINE h == Head(writeQueue)
<1>2. /\ Len(writeQueue) \in Nat \ {0} /\ Len(wire) \in Nat
      /\ Len(strand) \in Nat
  BY <1>1, EmptySeq, LenProperties
<1>h. h = writeQueue[1]
  BY <1>1
<1>u. PICK u \in Seq(Payload) : u = wire \o writeQueue
  BY <1>1, ConcatProperties
<1>3. /\ Len(u) = Len(wire) + Len(writeQueue)
      /\ u[Len(wire) + 1] = writeQueue[1]
  BY <1>1, <1>2, <1>u, ConcatProperties
<1> HIDE DEF h
<1>4. /\ Len(u \o strand) = Len(u) + Len(strand)
      /\ (u \o strand)[Len(wire) + 1] = u[Len(wire) + 1]
  <2>1. strand \in Seq(Payload)
    BY <1>1
  <2>2. Len(wire) + 1 \in 1..Len(u)
    BY <1>2, <1>3
  <2> QED
    BY <2>1, <2>2, ConcatProperties
<1>5. sent = u \o strand
  BY <1>u DEF SessionInv, Conserved
<1>6. Len(wire) < Len(sent) /\ sent[Len(wire) + 1] = h
  BY <1>2, <1>h, <1>3, <1>4, <1>5
<1>7. Head(<<h>>) = h
  OBVIOUS
<1>8. wire' = Append(wire, h) /\ sent' = sent /\ writeFailed' = writeFailed
  BY <1>1, <1>7 DEF OnWrite, h
<1> QED
  BY <1>1, <1>6, <1>8 DEF Channel!DeliverNext

LEMMA ChannelNext ==
  SessionInv /\ [Next]_vars => [Channel!Next]_<<sent, wire, writeFailed>>
<1> SUFFICES ASSUME SessionInv, [Next]_vars
             PROVE  Channel!Next \/ UNCHANGED <<sent, wire, writeFailed>>
  OBVIOUS
<1>1. CASE OnAccept \/ OnAcceptError \/ OnReadError
  BY <1>1 DEF OnAccept, OnAcceptError, OnReadError
<1>2. ASSUME NEW p \in Payload, Send(p) PROVE Channel!Next
  BY <1>2 DEF Send, Channel!Next, Channel!Post
<1>3. CASE RunPosted
  BY <1>3 DEF RunPosted
<1>4. CASE OnWrite
  BY <1>4, OnWriteDelivers DEF Channel!Next
<1>5. CASE OnWriteError
  BY <1>5 DEF OnWriteError, Channel!Next, Channel!Cut
<1>6. CASE PeerDies \/ Stop
  BY <1>6 DEF PeerDies, Stop
<1>7. CASE UNCHANGED vars
  BY <1>7 DEF vars
<1> QED
  BY <1>1, <1>2, <1>3, <1>4, <1>5, <1>6, <1>7 DEF Next

(***************************************************************************)
(* WebSocketSession implements OutgoingChannel: the client receives the    *)
(* payloads in the order they were posted, without gaps and repetitions,   *)
(* and nothing after a failed write.                                       *)
(***************************************************************************)
THEOREM SessionIsAChannel == Spec => ImplementsChannel
BY ChannelInit, ChannelNext, SessionInvariant, PTL
   DEF Spec, ImplementsChannel, Channel!Spec
============================================================================
