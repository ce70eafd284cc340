------------------------- MODULE ActorSystemProofs -------------------------
(***************************************************************************)
(* Proofs about ActorSystem for any number of workers, sessions and frames *)
(* and any mailbox capacity: type correctness, that every envelope is with *)
(* the actor it is addressed to, that nobody is told of a message before   *)
(* it is handed to storage, that payloads reach the right session only,    *)
(* and that an unbound session stays so.                                   *)
(***************************************************************************)
EXTENDS ActorSystem, TLAPS

(* The abbreviations of ActorSystem that every proof sees through. *)
USE DEF Accepts, Pushed, Rest, Last, Continues, Bound, BindTransport, AllExited, Echo,
        Copy

(* Appending keeps the elements in place and puts one behind them. *)
LEMMA AppendAt ==
  ASSUME NEW S, NEW q \in Seq(S), NEW e \in S
  PROVE  /\ \A j : j \in DOMAIN Append(q, e) <=> j \in DOMAIN q \/ j = Len(q) + 1
         /\ \A j \in DOMAIN q : Append(q, e)[j] = q[j]
         /\ Append(q, e)[Len(q) + 1] = e
         /\ Len(q) + 1 \notin DOMAIN q
OBVIOUS

(* What stays of a mailbox moves up by one. *)
LEMMA TailAt ==
  ASSUME NEW S, NEW q \in Seq(S), q # <<>>
  PROVE  /\ \A j : j \in DOMAIN Tail(q) => /\ j \in Nat \ {0} /\ j + 1 \in DOMAIN q
                                           /\ Tail(q)[j] = q[j + 1]
         /\ \A j \in DOMAIN q : j = 1 \/ (j \in Nat \ {0} /\ j - 1 \in DOMAIN Tail(q))
         /\ 1 \in DOMAIN q /\ q[1] = Head(q)
OBVIOUS

(* Appending to a sequence adds one element to its range. *)
LEMMA RangeOfAppend ==
  ASSUME NEW S, NEW q \in Seq(S), NEW e \in S
  PROVE  /\ Append(q, e) \in Seq(S)
         /\ Len(Append(q, e)) = Len(q) + 1
         /\ Range(Append(q, e)) = Range(q) \cup {e}
<1>1. Append(q, e) \in Seq(S) /\ Len(Append(q, e)) = Len(q) + 1
  OBVIOUS
<1>2. ASSUME NEW x \in Range(Append(q, e))
      PROVE  x \in Range(q) \cup {e}
  BY DEF Range
<1>3. ASSUME NEW x \in Range(q)
      PROVE  x \in Range(Append(q, e))
  BY DEF Range
<1>4. e \in Range(Append(q, e))
  <2>1. /\ Len(q) + 1 \in DOMAIN Append(q, e)
        /\ Append(q, e)[Len(q) + 1] = e
    OBVIOUS
  <2>2. QED
    BY <2>1 DEF Range
<1>5. QED
  BY <1>1, <1>2, <1>3, <1>4

(* The range of a sequence is that of its tail, and its head. *)
LEMMA RangeOfTail ==
  ASSUME NEW S, NEW q \in Seq(S), q # <<>>
  PROVE  /\ Tail(q) \in Seq(S)
         /\ Len(Tail(q)) = Len(q) - 1
         /\ Head(q) \in S
         /\ Range(q) = {Head(q)} \cup Range(Tail(q))
<1>1. /\ Tail(q) \in Seq(S)
      /\ Len(Tail(q)) = Len(q) - 1
      /\ Head(q) \in S
  OBVIOUS
<1>2. ASSUME NEW x \in Range(q)
      PROVE  x \in {Head(q)} \cup Range(Tail(q))
  <2>1. PICK i \in DOMAIN q : x = q[i]
    BY DEF Range
  <2>2. CASE i = 1
    BY <2>1, <2>2
  <2>3. CASE i # 1
    <3>1. i - 1 \in DOMAIN Tail(q) /\ Tail(q)[i - 1] = x
      BY <2>1, <2>3
    <3>2. QED
      BY <3>1 DEF Range
  <2>4. QED
    BY <2>2, <2>3
<1>3. ASSUME NEW x \in Range(Tail(q))
      PROVE  x \in Range(q)
  <2>1. PICK i \in DOMAIN Tail(q) : x = Tail(q)[i]
    BY DEF Range
  <2>2. i + 1 \in DOMAIN q /\ q[i + 1] = x
    BY <2>1
  <2>3. QED
    BY <2>2 DEF Range
<1>4. Head(q) \in Range(q)
  <2>1. 1 \in DOMAIN q /\ q[1] = Head(q)
    OBVIOUS
  <2>2. QED
    BY <2>1 DEF Range
<1>5. QED
  BY <1>1, <1>2, <1>3, <1>4

(* An envelope that is sent is in the mailbox of its actor or refused, and *)
(* every other envelope stays where it was.                                *)
LEMMA SendEffect ==
  ASSUME TypeOK, NEW e \in Envelope, Send(e)
  PROVE  /\ mailbox' \in [ActorType -> Seq(Envelope)]
         /\ \A t \in ActorType : Len(mailbox'[t]) <= Capacity
         /\ leaked' \in SUBSET Envelope
         /\ \A t \in ActorType : Range(mailbox[t]) \subseteq Range(mailbox'[t])
         /\ \A t \in ActorType : \A x \in Range(mailbox'[t]) :
              x \in Range(mailbox[t]) \/ (t = e.dest /\ x = e)
         /\ leaked \subseteq leaked'
         /\ e \in leaked' \/ e \in Range(mailbox'[e.dest])
<1>1. /\ mailbox \in [ActorType -> Seq(Envelope)]
      /\ \A t \in ActorType : Len(mailbox[t]) <= Capacity
      /\ leaked \in SUBSET Envelope
      /\ e.dest \in ActorType
      /\ Capacity \in Nat
  BY ConstantsAssumption, Zenon DEF TypeOK, Envelope
<1>2. CASE Len(mailbox[e.dest]) < Capacity
  <2>1. /\ mailbox' = [mailbox EXCEPT ![e.dest] = Append(@, e)]
        /\ leaked' = leaked
    BY <1>2 DEF Send
  <2>2. /\ Append(mailbox[e.dest], e) \in Seq(Envelope)
        /\ Len(Append(mailbox[e.dest], e)) = Len(mailbox[e.dest]) + 1
        /\ Range(Append(mailbox[e.dest], e)) = Range(mailbox[e.dest]) \cup {e}
    <3>1. mailbox[e.dest] \in Seq(Envelope) /\ e \in Envelope
      BY <1>1
    <3>2. QED
      BY <3>1, RangeOfAppend
  <2>3. \A t \in ActorType :
          mailbox'[t] = IF t = e.dest THEN Append(mailbox[t], e) ELSE mailbox[t]
    BY <1>1, <2>1
  <2>4. mailbox' \in [ActorType -> Seq(Envelope)]
    BY <1>1, <2>1, <2>2
  <2>5. \A t \in ActorType : Len(mailbox'[t]) <= Capacity
    <3>1. Len(mailbox[e.dest]) \in Nat
      BY <1>1
    <3>2. Len(Append(mailbox[e.dest], e)) <= Capacity
      BY <1>1, <1>2, <2>2, <3>1
    <3>3. QED
      BY <1>1, <2>3, <3>2, Zenon
  <2>6. QED
    BY <1>1, <2>1, <2>2, <2>3, <2>4, <2>5
<1>3. CASE ~(Len(mailbox[e.dest]) < Capacity)
  BY <1>1, <1>3 DEF Send
<1>4. QED
  BY <1>2, <1>3, Zenon

(* pop moves one envelope from a mailbox to the worker. *)
LEMMA PopEffect ==
  ASSUME TypeOK, NEW w \in Workers, Pop(w)
  PROVE  /\ Order[pos[w]] \in ActorType
         /\ mailbox' \in [ActorType -> Seq(Envelope)]
         /\ \A t \in ActorType : Len(mailbox'[t]) <= Capacity
         /\ held' \in [Workers -> Envelope \cup {NoEnvelope}]
         /\ held'[w] \in Envelope
         /\ held'[w] \in Range(mailbox[Order[pos[w]]])
         /\ \A v \in Workers : v # w => held'[v] = held[v]
         /\ \A t \in ActorType : Range(mailbox'[t]) \subseteq Range(mailbox[t])
         /\ \A t \in ActorType : \A x \in Range(mailbox[t]) :
              x \in Range(mailbox'[t]) \/ (t = Order[pos[w]] /\ x = held'[w])
<1> DEFINE t == Order[pos[w]]
<1>1. t \in ActorType
  BY OrderAssumption DEF TypeOK
<1> HIDE DEF t
<1>2. /\ mailbox \in [ActorType -> Seq(Envelope)]
      /\ \A u \in ActorType : Len(mailbox[u]) <= Capacity
      /\ held \in [Workers -> Envelope \cup {NoEnvelope}]
      /\ Capacity \in Nat
  BY ConstantsAssumption DEF TypeOK
<1>3. /\ mailbox[t] # <<>>
      /\ mailbox' = [mailbox EXCEPT ![t] = Tail(@)]
      /\ held' = [held EXCEPT ![w] = Head(mailbox[t])]
  BY DEF Pop, t
<1>4. /\ Tail(mailbox[t]) \in Seq(Envelope)
      /\ Len(Tail(mailbox[t])) = Len(mailbox[t]) - 1
      /\ Head(mailbox[t]) \in Envelope
      /\ Range(mailbox[t]) = {Head(mailbox[t])} \cup Range(Tail(mailbox[t]))
  <2>1. mailbox[t] \in Seq(Envelope)
    BY <1>1, <1>2
  <2>2. QED
    BY <1>3, <2>1, RangeOfTail, Zenon
<1>5. \A u \in ActorType :
        mailbox'[u] = IF u = t THEN Tail(mailbox[u]) ELSE mailbox[u]
  BY <1>2, <1>3
<1>6. mailbox' \in [ActorType -> Seq(Envelope)]
  BY <1>1, <1>2, <1>3, <1>4
<1>7. \A u \in ActorType : Len(mailbox'[u]) <= Capacity
  <2>1. Len(mailbox[t]) \in Nat
    BY <1>1, <1>2
  <2>2. Len(Tail(mailbox[t])) <= Capacity
    <3>1. Len(mailbox[t]) <= Capacity
      BY <1>1, <1>2
    <3>2. QED
      BY <1>2, <1>4, <2>1, <3>1
  <2>3. QED
    BY <1>2, <1>5, <2>2, Zenon
<1>8. /\ held' \in [Workers -> Envelope \cup {NoEnvelope}]
      /\ held'[w] = Head(mailbox[t])
      /\ \A v \in Workers : v # w => held'[v] = held[v]
  BY <1>2, <1>3, <1>4
<1>9. QED
  BY <1>1, <1>4, <1>5, <1>6, <1>7, <1>8, Zenon DEF t

(* What the handlers of MessageActor and ChatActor send. *)
LEMMA SendsEffect ==
  ASSUME NEW e \in Envelope, NEW n \in 1..3, n <= Len(Sends(e))
  PROVE  /\ Sends(e)[n] \in Envelope
         /\ Len(Sends(e)) \in 1..3
         /\ e.kind = "send"
         /\ \/ /\ e.dest = "message"
               /\ n = 1 /\ Len(Sends(e)) = 1
               /\ Sends(e)[n] = [e EXCEPT !.dest = "chat"]
            \/ /\ e.dest = "chat"
               /\ Len(Sends(e)) > 1
               /\ n = 1 => Sends(e)[n] = StoragePersistMessage(e)
               /\ n = 2 => Sends(e)[n] =
                    SessionOutgoingEvent(e, e.session, "message_delivered")
               /\ n = 3 => Sends(e)[n] =
                    SessionOutgoingEvent(e, e.recipient, "incoming_message")
<1>1. e.kind = "send" /\ e.dest \in {"message", "chat"}
  BY DEF Sends
<1>2. CASE e.dest = "message"
  <2>1. Sends(e) = <<[e EXCEPT !.dest = "chat"]>>
    BY <1>1, <1>2 DEF Sends, MessageActorSends
  <2>2. [e EXCEPT !.dest = "chat"] \in Envelope
    BY DEF Envelope, ActorType
  <2>3. QED
    BY <1>1, <1>2, <2>1, <2>2
<1>3. CASE e.dest = "chat"
  <2> DEFINE p == StoragePersistMessage(e)
             d == SessionOutgoingEvent(e, e.session, "message_delivered")
             r == SessionOutgoingEvent(e, e.recipient, "incoming_message")
  <2>1. Sends(e) = <<p, d>> \/ Sends(e) = <<p, d, r>>
    BY <1>1, <1>3 DEF Sends, ChatActorSends
  <2>2. p \in Envelope /\ d \in Envelope /\ r \in Envelope
    BY DEF Envelope, ActorType, Kind, OutgoingKind, SessionRef,
           StoragePersistMessage, SessionOutgoingEvent
  <2> HIDE DEF p, d, r
  <2>3. /\ Len(Sends(e)) \in {2, 3}
        /\ n = 1 => Sends(e)[n] = p
        /\ n = 2 => Sends(e)[n] = d
        /\ n = 3 => Sends(e)[n] = r
    BY <2>1
  <2>4. Sends(e)[n] \in Envelope
    BY <2>2, <2>3
  <2>5. Len(Sends(e)) \in 1..3 /\ Len(Sends(e)) > 1
    BY <2>3
  <2>6. QED
    BY <1>1, <1>3, <2>3, <2>4, <2>5 DEF p, d, r
<1>4. QED
  BY <1>1, <1>2, <1>3

(* Where the handlers send what. *)
LEMMA SentKinds ==
  ASSUME NEW e \in Envelope, NEW n \in 1..3, n <= Len(Sends(e)),
         NEW x, x = Sends(e)[n]
  PROVE  /\ x.id = e.id
         /\ \/ x.dest = "chat" /\ x.kind = "send"
            \/ x.dest = "storage" /\ x.kind = "persist"
            \/ x.dest = "session" /\ x.kind \in OutgoingKind
<1>1. \/ e.kind = "send" /\ x = [e EXCEPT !.dest = "chat"]
      \/ x = StoragePersistMessage(e)
      \/ x = SessionOutgoingEvent(e, e.session, "message_delivered")
      \/ x = SessionOutgoingEvent(e, e.recipient, "incoming_message")
  BY SendsEffect
<1>2. CASE e.kind = "send" /\ x = [e EXCEPT !.dest = "chat"]
  BY <1>2 DEF Envelope
<1>3. CASE x = StoragePersistMessage(e)
  BY <1>3 DEF StoragePersistMessage
<1>4. CASE \/ x = SessionOutgoingEvent(e, e.session, "message_delivered")
           \/ x = SessionOutgoingEvent(e, e.recipient, "incoming_message")
  BY <1>4 DEF SessionOutgoingEvent, OutgoingKind
<1>5. QED
  BY <1>1, <1>2, <1>3, <1>4

(* What the dispatcher makes of a frame. *)
LEMMA DispatchedEffect ==
  ASSUME NEW f \in Frame, NEW i \in Ids, NEW e \in Dispatched(f, i)
  PROVE  /\ e \in Envelope
         /\ e.id = i
         /\ \/ e.dest = "session" /\ e.kind = "auth"
            \/ e.dest = "message" /\ e.kind \in {"typing", "read"}
            \/ /\ e.dest = "message" /\ e.kind = "send"
               /\ f.type = "send_message"
               /\ e.session = f.session /\ e.recipient = f.recipient
<1>1. \/ f.type = "auth" /\ e = AuthEvent(i, f.session)
      \/ f.type = "send_message"
           /\ e = SendMessageEvent(i, f.session, f.recipient, f.uuids)
      \/ f.type = "typing" /\ e = TypingEvent(i)
      \/ f.type = "message_read" /\ e = ReadEvent(i)
  BY DEF Dispatched
<1>2. f.session \in SessionRef /\ f.recipient \in SessionRef
        /\ f.uuids \in BOOLEAN /\ NoSession \in SessionRef
  BY DEF Frame, SessionRef
<1> USE DEF Envelope, ActorType, Kind
<1>3. CASE f.type = "auth" /\ e = AuthEvent(i, f.session)
  BY <1>2, <1>3 DEF AuthEvent
<1>4. CASE f.type = "send_message"
             /\ e = SendMessageEvent(i, f.session, f.recipient, f.uuids)
  BY <1>2, <1>4 DEF SendMessageEvent
<1>5. CASE f.type = "typing" /\ e = TypingEvent(i)
  BY <1>2, <1>5 DEF TypingEvent
<1>6. CASE f.type = "message_read" /\ e = ReadEvent(i)
  BY <1>2, <1>6 DEF ReadEvent
<1>7. QED
  BY <1>1, <1>3, <1>4, <1>5, <1>6

(* A worker that moves on holds no envelope. *)
LEMMA AdvanceEffect ==
  ASSUME TypeOK, NEW w \in Workers, Advance(w)
  PROVE  /\ pc' \in [Workers -> {"unborn", "loop", "scan", "handle", "exited"}]
         /\ pos' \in [Workers -> 1..4]
         /\ held' \in [Workers -> Envelope \cup {NoEnvelope}]
         /\ step' \in [Workers -> 1..3]
         /\ pc'[w] # "handle" /\ held'[w] = NoEnvelope /\ step'[w] = 1
         /\ \A v \in Workers : v # w =>
              /\ pc'[v] = pc[v] /\ pos'[v] = pos[v]
              /\ held'[v] = held[v] /\ step'[v] = step[v]
<1>1. pos' \in [Workers -> 1..4]
  <2> DEFINE next == IF pos[w] = 4 THEN 1 ELSE pos[w] + 1
  <2>1. pos \in [Workers -> 1..4] /\ pos' = [pos EXCEPT ![w] = next]
    BY DEF TypeOK, Advance
  <2>2. next \in 1..4
    BY <2>1
  <2> HIDE DEF next
  <2>3. QED
    BY <2>1, <2>2
<1>2. /\ pc' \in [Workers -> {"unborn", "loop", "scan", "handle", "exited"}]
      /\ pc'[w] # "handle"
  BY DEF TypeOK, Advance
<1>3. /\ held' \in [Workers -> Envelope \cup {NoEnvelope}]
      /\ held'[w] = NoEnvelope
  BY DEF TypeOK, Advance
<1>4. step' \in [Workers -> 1..3] /\ step'[w] = 1
  BY DEF TypeOK, Advance
<1>5. \A v \in Workers : v # w =>
        /\ pc'[v] = pc[v] /\ pos'[v] = pos[v]
        /\ held'[v] = held[v] /\ step'[v] = step[v]
  BY DEF TypeOK, Advance
<1>6. QED
  BY <1>1, <1>2, <1>3, <1>4, <1>5

(* A worker in a handler that sends holds a real envelope: NoEnvelope has  *)
(* nothing to send.                                                        *)
LEMMA ForwardEffect ==
  ASSUME TypeOK, NEW w \in Workers, Forward(w)
  PROVE  /\ held[w] \in Envelope
         /\ step[w] \in 1..3
         /\ step[w] <= Len(Sends(held[w]))
         /\ Send(Sends(held[w])[step[w]])
         /\ \/ step[w] = Len(Sends(held[w])) /\ Advance(w)
            \/ /\ step[w] # Len(Sends(held[w]))
               /\ step' = [step EXCEPT ![w] = @ + 1]
               /\ UNCHANGED <<pc, pos, held>>
<1>1. step[w] \in 1..3 /\ held[w] \in Envelope \cup {NoEnvelope}
  BY DEF TypeOK
<1>2. step[w] <= Len(Sends(held[w]))
  BY DEF Forward
<1>3. held[w] # NoEnvelope
  <2>1. Sends(NoEnvelope) = <<>>
    BY Zenon DEF Sends, NoEnvelope
  <2>2. QED
    BY <1>1, <1>2, <2>1
<1>4. QED
  BY <1>1, <1>2, <1>3 DEF Forward

(* What MessageActor::handle and ChatActor::handle pass on, and when. *)
LEMMA Forwarded ==
  ASSUME TypeOK, NEW w \in Workers, Forward(w), NEW y, y = Sends(held[w])[step[w]]
  PROVE  /\ y \in Envelope /\ held[w].kind = "send" /\ y.id = held[w].id
         /\ \/ /\ held[w].dest = "message" /\ step[w] = 1
               /\ y.dest = "chat" /\ y.kind = "send"
            \/ /\ held[w].dest = "chat" /\ step[w] = 1
               /\ y.dest = "storage" /\ y.kind = "persist"
            \/ /\ held[w].dest = "chat"
               /\ y.dest = "session" /\ y.kind \in OutgoingKind
<1> DEFINE e == held[w]
<1>1. e \in Envelope /\ step[w] \in 1..3 /\ step[w] <= Len(Sends(e))
  BY ForwardEffect
<1>2. /\ y \in Envelope /\ e.kind = "send"
      /\ \/ e.dest = "message" /\ y = [e EXCEPT !.dest = "chat"] /\ step[w] = 1
         \/ /\ e.dest = "chat"
            /\ \/ y = StoragePersistMessage(e) /\ step[w] = 1
               \/ y = SessionOutgoingEvent(e, e.session, "message_delivered")
               \/ y = SessionOutgoingEvent(e, e.recipient, "incoming_message")
  BY <1>1, SendsEffect
<1> HIDE DEF e
<1>3. QED
  BY <1>1, <1>2 DEF StoragePersistMessage, SessionOutgoingEvent, OutgoingKind,
                    Envelope, e

(* The initial state has the types. *)
LEMMA InitTypeOK == Init => TypeOK
<1> SUFFICES ASSUME Init PROVE TypeOK
  OBVIOUS
<1>1. /\ mailbox \in [ActorType -> Seq(Envelope)]
      /\ \A t \in ActorType : Len(mailbox[t]) <= Capacity
  BY ConstantsAssumption DEF Init
<1>2. /\ held \in [Workers -> Envelope \cup {NoEnvelope}]
      /\ pos \in [Workers -> 1..4]
      /\ step \in [Workers -> 1..3]
      /\ pc \in [Workers -> {"unborn", "loop", "scan", "handle", "exited"}]
  BY DEF Init
<1>3. /\ frames \in Seq(ClientFrames) /\ Len(frames) <= MaxFrames
      /\ posted \in [Sessions -> Seq(Ids \X OutgoingKind)]
      /\ messages \in Seq(Ids)
      /\ accepted \in 0..MaxSessions
  BY ConstantsAssumption DEF Init
<1>4. /\ leaked \in SUBSET Envelope /\ running \in BOOLEAN
      /\ terminated \in BOOLEAN
      /\ server \in {"constructed", "running", "net_stopped", "joining",
                     "stopped"}
      /\ transports \in SUBSET Sessions /\ reading \in SUBSET Sessions
      /\ handshaking \in SUBSET Sessions /\ broken \in SUBSET Sessions
  BY Zenon DEF Init
<1>5. QED
  BY <1>1, <1>2, <1>3, <1>4 DEF TypeOK

(* Every step preserves the types. *)
LEMMA NextTypeOK == TypeOK /\ [Next]_vars => TypeOK'
<1> SUFFICES ASSUME TypeOK, [Next]_vars PROVE TypeOK'
  OBVIOUS
<1> USE DEF workerVars, sessionVars
<1>1. CASE ServerRun
  <2>1. pc' \in [Workers -> {"unborn", "loop", "scan", "handle", "exited"}]
    BY <1>1 DEF ServerRun
  <2>2. QED
    BY <1>1, <2>1 DEF ServerRun, TypeOK
<1>2. CASE StopNetwork
  BY <1>2 DEF StopNetwork, TypeOK
<1>3. CASE StopActors
  BY <1>3, Zenon DEF StopActors, TypeOK
<1>4. CASE Joined
  BY <1>4 DEF Joined, TypeOK
<1>5. CASE Accept
  <2>1. accepted' \in 0..MaxSessions /\ accepted + 1 \in Sessions
    BY <1>5, ConstantsAssumption DEF Accept, TypeOK, Sessions
  <2>2. QED
    BY <1>5, <2>1 DEF Accept, TypeOK
<1>6. ASSUME NEW f \in ClientFrames, OnRead(f)
      PROVE  TypeOK'
  <2> DEFINE i == Len(frames) + 1
  <2>1. /\ frames' \in Seq(ClientFrames) /\ Len(frames') <= MaxFrames
        /\ i \in Ids
    BY <1>6, ConstantsAssumption DEF OnRead, TypeOK, Ids
  <2>2. /\ mailbox' \in [ActorType -> Seq(Envelope)]
        /\ \A t \in ActorType : Len(mailbox'[t]) <= Capacity
        /\ leaked' \in SUBSET Envelope
    <3>1. CASE \E e \in Dispatched(f, i) : Send(e)
      <4>1. PICK e \in Dispatched(f, i) : Send(e)
        BY <3>1
      <4>2. f \in Frame
        BY <1>6, ConstantsAssumption
      <4>3. e \in Envelope
        BY <2>1, <4>1, <4>2, DispatchedEffect
      <4>4. QED
        BY <4>1, <4>3, SendEffect
    <3>2. CASE UNCHANGED <<mailbox, leaked>>
      BY <3>2 DEF TypeOK
    <3>3. QED
      BY <1>6, <3>1, <3>2 DEF OnRead
  <2>3. terminated' \in BOOLEAN
    BY <1>6 DEF OnRead
  <2>4. QED
    BY <1>6, <2>1, <2>2, <2>3 DEF OnRead, TypeOK
<1>7. ASSUME NEW s \in Sessions, OnAccept(s) \/ OnReadError(s) \/ OnWriteError(s)
      PROVE  TypeOK'
  BY <1>7, Zenon DEF OnAccept, OnReadError, OnWriteError, TypeOK
<1>8. ASSUME NEW w \in Workers, Worker(w)
      PROVE  TypeOK'
  <2>1. CASE LoopTest(w)
    <3>1. pc' \in [Workers -> {"unborn", "loop", "scan", "handle", "exited"}]
      BY <2>1, Zenon DEF LoopTest, TypeOK
    <3>2. QED
      BY <2>1, <3>1 DEF LoopTest, TypeOK
  <2>2. CASE PopEmpty(w)
    BY <2>2, AdvanceEffect, Zenon DEF PopEmpty, TypeOK
  <2>3. CASE Pop(w)
    <3>1. pc' \in [Workers -> {"unborn", "loop", "scan", "handle", "exited"}]
      BY <2>3 DEF Pop, TypeOK
    <3>2. QED
      BY <2>3, <3>1, PopEffect, Zenon DEF Pop, TypeOK
  <2>4. CASE Forward(w)
    <3> DEFINE e == Sends(held[w])[step[w]]
    <3>1. e \in Envelope /\ Send(e) /\ Len(Sends(held[w])) \in 1..3
      BY <2>4, ForwardEffect, SendsEffect, Zenon
    <3>2. /\ mailbox' \in [ActorType -> Seq(Envelope)]
          /\ \A t \in ActorType : Len(mailbox'[t]) <= Capacity
          /\ leaked' \in SUBSET Envelope
      BY <3>1, SendEffect
    <3>3. /\ pc' \in [Workers -> {"unborn", "loop", "scan", "handle", "exited"}]
          /\ pos' \in [Workers -> 1..4]
          /\ held' \in [Workers -> Envelope \cup {NoEnvelope}]
          /\ step' \in [Workers -> 1..3]
      <4>1. CASE Advance(w)
        BY <4>1, AdvanceEffect
      <4>2. CASE /\ step[w] # Len(Sends(held[w]))
                 /\ step' = [step EXCEPT ![w] = @ + 1]
                 /\ UNCHANGED <<pc, pos, held>>
        <5>1. step[w] + 1 \in 1..3
          <6> DEFINE n == Len(Sends(held[w]))
          <6>1. step[w] \in 1..3 /\ step[w] <= n
            BY <2>4, ForwardEffect
          <6>2. n \in 1..3 /\ step[w] # n
            BY <3>1, <4>2, Zenon
          <6> HIDE DEF n
          <6>3. QED
            BY <6>1, <6>2
        <5>2. QED
          BY <4>2, <5>1 DEF TypeOK
      <4>3. QED
        BY <2>4, <4>1, <4>2, ForwardEffect
    <3>4. QED
      BY <2>4, <3>2, <3>3 DEF Forward, TypeOK
  <2>5. CASE Deliver(w)
    <3>1. held[w] \in Envelope
      BY <2>5 DEF Deliver, TypeOK, NoEnvelope, OutgoingKind
    <3>2. <<held[w].id, held[w].kind>> \in Ids \X OutgoingKind
      BY <2>5, <3>1, Zenon DEF Deliver, Envelope
    <3>3. posted' \in [Sessions -> Seq(Ids \X OutgoingKind)]
      BY <2>5, <3>2 DEF Deliver, TypeOK
    <3>4. QED
      BY <2>5, <3>3, AdvanceEffect, Zenon DEF Deliver, TypeOK
  <2>6. CASE Ignore(w)
    BY <2>6, AdvanceEffect, Zenon DEF Ignore, TypeOK
  <2>7. CASE Store(w)
    <3>1. held[w].id \in Ids
      BY <2>7 DEF Store, TypeOK, NoEnvelope, Envelope
    <3>2. messages' \in Seq(Ids)
      BY <2>7, <3>1 DEF Store, TypeOK
    <3>3. QED
      BY <2>7, <3>2, AdvanceEffect, Zenon DEF Store, TypeOK
  <2>8. CASE StoreThrows(w)
    BY <2>8, Zenon DEF StoreThrows, TypeOK
  <2>9. QED
    BY <1>8, <2>1, <2>2, <2>3, <2>4, <2>5, <2>6, <2>7, <2>8 DEF Worker
<1>9. CASE UNCHANGED vars
  BY <1>9 DEF vars, TypeOK
<1>10. QED
  BY <1>1, <1>2, <1>3, <1>4, <1>5, <1>6, <1>7, <1>8, <1>9 DEF Next, Network

(* Each variable of the pipeline keeps its type; in particular no mailbox  *)
(* ever holds more than mailbox_capacity envelopes.                        *)
THEOREM TypeCorrect == Spec => []TypeOK
  BY InitTypeOK, NextTypeOK, PTL DEF Spec

(* Initially no envelope is anywhere. *)
LEMMA InitAtHome == Init => AtHome
<1> SUFFICES ASSUME Init PROVE AtHome
  OBVIOUS
<1>1. \A t \in ActorType : Range(mailbox[t]) = {}
  BY DEF Init, Range
<1>2. QED
  BY <1>1 DEF Init, AtHome

(* No worker thread exists before Server::run. *)
NotBornYet == server = "constructed" => \A w \in Workers : pc[w] = "unborn"

LEMMA NextNotBornYet == TypeOK /\ NotBornYet /\ [Next]_vars => NotBornYet'
<1> SUFFICES ASSUME TypeOK, NotBornYet, Next \/ UNCHANGED vars,
                    server' = "constructed"
             PROVE  \A w \in Workers : pc'[w] = "unborn"
  BY Zenon DEF NotBornYet
<1> USE DEF workerVars, sessionVars
<1>1. CASE Network \/ ServerRun \/ StopNetwork \/ StopActors \/ Joined
           \/ UNCHANGED vars
  BY <1>1, Zenon DEF NotBornYet, Network, ServerRun, StopNetwork, StopActors, Joined,
       vars, Accept, OnRead, OnAccept, OnReadError, OnWriteError, NetworkUp
<1>2. ASSUME NEW w \in Workers, Worker(w)
      PROVE  FALSE
  <2>1. server' = server
    BY <1>2 DEF Worker, LoopTest, PopEmpty, Pop, Forward, Deliver, Ignore,
                Store, StoreThrows
  <2>2. pc[w] = "unborn"
    BY <2>1, Zenon DEF NotBornYet
  <2>3. QED
    BY <1>2, <2>2, Zenon DEF Worker, LoopTest, PopEmpty, Pop, Forward, Deliver,
                      Ignore, Store, StoreThrows
<1>3. QED
  BY <1>1, <1>2 DEF Next

(* AtHome after a step of one worker, from what it says of that worker. *)
LEMMA OneWorkerMoves ==
  ASSUME AtHome, NEW w \in Workers,
         \A t \in ActorType : \A x \in Range(mailbox'[t]) :
           x.dest = t /\ x.kind \in KindsOf[t],
         \A v \in Workers : v # w =>
           /\ pc'[v] = pc[v] /\ pos'[v] = pos[v]
           /\ held'[v] = held[v] /\ step'[v] = step[v],
         \/ pc'[w] # "handle" /\ held'[w] = NoEnvelope /\ step'[w] = 1
         \/ /\ pc'[w] = "handle" /\ held'[w] \in Envelope
            /\ held'[w].dest = Order[pos'[w]]
            /\ held'[w].kind \in KindsOf[held'[w].dest] /\ step'[w] = 1
  PROVE  AtHome'
<1> DEFINE Fits(p, o, h, n) ==
             IF p = "handle"
               THEN /\ h \in Envelope
                    /\ h.dest = Order[o]
                    /\ h.kind \in KindsOf[h.dest]
                    /\ h.dest = "chat" \/ n = 1
               ELSE h = NoEnvelope /\ n = 1
<1>1. \A v \in Workers : Fits(pc[v], pos[v], held[v], step[v])
  BY Zenon DEF AtHome
<1>2. Fits(pc'[w], pos'[w], held'[w], step'[w])
  BY Zenon
<1>3. \A v \in Workers : Fits(pc'[v], pos'[v], held'[v], step'[v])
  <2> HIDE DEF Fits
  <2> QED
    BY <1>1, <1>2, Zenon
<1>4. QED
  BY <1>3, Zenon DEF AtHome

(* Sends and pops keep every envelope with the actor it is meant for. *)
LEMMA NextAtHome ==
  TypeOK /\ NotBornYet /\ AtHome /\ [Next]_vars => AtHome'
<1> SUFFICES ASSUME TypeOK, NotBornYet, AtHome, [Next]_vars PROVE AtHome'
  BY Zenon
<1> USE DEF workerVars, sessionVars
<1>1. CASE ServerRun
  <2>1. \A w \in Workers : held[w] = NoEnvelope /\ step[w] = 1
    BY <1>1, Zenon DEF ServerRun, NotBornYet, AtHome
  <2>2. QED
    BY <1>1, <2>1, Zenon DEF ServerRun, AtHome
<1>2. CASE UNCHANGED <<mailbox, workerVars>>
  BY <1>2 DEF AtHome
<1>3. ASSUME NEW f \in ClientFrames, OnRead(f)
      PROVE  AtHome'
  <2> DEFINE i == Len(frames) + 1
  <2>1. CASE \E e \in Dispatched(f, i) : Send(e)
    <3>1. PICK e \in Dispatched(f, i) : Send(e)
      BY <2>1
    <3>2. f \in Frame /\ i \in Ids
      BY <1>3, ConstantsAssumption, SMTT(20) DEF OnRead, TypeOK, Ids
    <3>3. e \in Envelope /\ e.kind \in KindsOf[e.dest]
      BY <3>1, <3>2, DispatchedEffect DEF KindsOf
    <3>4. \A t \in ActorType : \A x \in Range(mailbox'[t]) :
            x \in Range(mailbox[t]) \/ (t = e.dest /\ x = e)
      BY <3>1, <3>3, SendEffect, Zenon
    <3>5. UNCHANGED workerVars
      BY <1>3, Zenon DEF OnRead
    <3>6. QED
      BY <3>3, <3>4, <3>5, Zenon DEF AtHome
  <2>2. CASE UNCHANGED <<mailbox, leaked>>
    BY <1>3, <2>2, Zenon DEF OnRead, AtHome
  <2>3. QED
    BY <1>3, <2>1, <2>2, Zenon DEF OnRead
<1>4. ASSUME NEW w \in Workers, LoopTest(w)
      PROVE  AtHome'
  BY <1>4 DEF LoopTest, AtHome, TypeOK
<1>5. ASSUME NEW w \in Workers, Pop(w)
      PROVE  AtHome'
  <2> DEFINE t == Order[pos[w]]
  <2>1. /\ t \in ActorType
        /\ held'[w] \in Envelope /\ held'[w] \in Range(mailbox[t])
        /\ \A v \in Workers : v # w => held'[v] = held[v]
        /\ \A u \in ActorType : Range(mailbox'[u]) \subseteq Range(mailbox[u])
    BY <1>5, PopEffect, Zenon
  <2>2. /\ \A v \in Workers : pc'[v] = IF v = w THEN "handle" ELSE pc[v]
        /\ pos' = pos /\ step' = step /\ pc[w] = "scan"
    BY <1>5, Zenon DEF Pop, TypeOK
  <2>3. held'[w].dest = t /\ held'[w].kind \in KindsOf[t] /\ step[w] = 1
    BY <2>1, <2>2 DEF AtHome
  <2>4. \A u \in ActorType : \A x \in Range(mailbox'[u]) :
          x.dest = u /\ x.kind \in KindsOf[u]
    BY <2>1 DEF AtHome
  <2>5. \A v \in Workers : v # w =>
          /\ pc'[v] = pc[v] /\ pos'[v] = pos[v]
          /\ held'[v] = held[v] /\ step'[v] = step[v]
    BY <2>1, <2>2
  <2>6. /\ pc'[w] = "handle" /\ held'[w] \in Envelope
        /\ held'[w].dest = Order[pos'[w]]
        /\ held'[w].kind \in KindsOf[held'[w].dest] /\ step'[w] = 1
    BY <2>1, <2>2, <2>3
  <2>7. QED
    BY <2>4, <2>5, <2>6, OneWorkerMoves, Zenon
<1>6. ASSUME NEW w \in Workers, Forward(w)
      PROVE  AtHome'
  <2> DEFINE e == Sends(held[w])[step[w]]
  <2>1. /\ held[w] \in Envelope /\ step[w] \in 1..3
        /\ step[w] <= Len(Sends(held[w])) /\ Send(e)
    BY <1>6, ForwardEffect, Zenon
  <2>2. e \in Envelope /\ e.kind \in KindsOf[e.dest]
    <3>1. e \in Envelope
      BY <2>1, SendsEffect, Zenon
    <3>2. \/ e.dest = "chat" /\ e.kind = "send"
          \/ e.dest = "storage" /\ e.kind = "persist"
          \/ e.dest = "session" /\ e.kind \in OutgoingKind
      BY <2>1, SentKinds
    <3>3. QED
      BY <3>1, <3>2 DEF KindsOf
  <2>3. \A t \in ActorType : \A x \in Range(mailbox'[t]) :
          x \in Range(mailbox[t]) \/ (t = e.dest /\ x = e)
    BY <2>1, <2>2, SendEffect, Zenon
  <2> HIDE DEF e
  <2>4. CASE Advance(w)
    <3>1. /\ pc'[w] # "handle" /\ held'[w] = NoEnvelope /\ step'[w] = 1
          /\ \A v \in Workers : v # w =>
               /\ pc'[v] = pc[v] /\ pos'[v] = pos[v]
               /\ held'[v] = held[v] /\ step'[v] = step[v]
      BY <2>4, AdvanceEffect
    <3>2. \A u \in ActorType : \A x \in Range(mailbox'[u]) :
            x.dest = u /\ x.kind \in KindsOf[u]
      BY <2>2, <2>3, Zenon DEF AtHome
    <3>3. QED
      BY <3>1, <3>2, OneWorkerMoves
  <2>5. CASE /\ step[w] # Len(Sends(held[w]))
             /\ step' = [step EXCEPT ![w] = @ + 1]
             /\ UNCHANGED <<pc, pos, held>>
    <3>1. held[w].dest = "chat" /\ pc[w] = "handle"
      BY <1>6, <2>1, <2>5, SendsEffect, Zenon DEF Forward
    <3>2. \A v \in Workers : v # w => step'[v] = step[v]
      BY <2>5 DEF TypeOK
    <3>3. QED
      BY <2>2, <2>3, <2>5, <3>1, <3>2 DEF AtHome
  <2>6. QED
    BY <1>6, <2>4, <2>5, ForwardEffect
<1>7. ASSUME NEW w \in Workers, Advance(w), UNCHANGED mailbox
      PROVE  AtHome'
  BY <1>7, AdvanceEffect, SMTT(20) DEF AtHome
<1>8. ASSUME NEW w \in Workers, Worker(w)
      PROVE  AtHome'
  BY <1>2, <1>4, <1>5, <1>6, <1>7, <1>8
     DEF Worker, PopEmpty, Deliver, Ignore, Store, StoreThrows
<1>9. QED
  BY <1>1, <1>2, <1>3, <1>8
     DEF Next, Network, StopNetwork, StopActors, Joined, Accept, OnAccept, OnReadError,
         OnWriteError, vars

(* Every actor is only ever handed payloads it handles. *)
THEOREM EnvelopesAreAtHome == Spec => []AtHome
<1>1. Init => NotBornYet
  BY Zenon DEF Init, NotBornYet
<1>2. QED
  BY <1>1, InitTypeOK, NextTypeOK, NextNotBornYet, InitAtHome, NextAtHome, PTL
     DEF Spec

(* What was handed to storage stays so: refused, queued, held or stored.   *)
LEMMA HandedIsKept ==
  ASSUME TypeOK, AtHome, Next, NEW i \in Ids, HandedToStorage(i)
  PROVE  HandedToStorage(i)'
<1> USE DEF workerVars, sessionVars
<1>1. CASE UNCHANGED <<mailbox, held, messages, leaked>>
  BY <1>1, Zenon DEF HandedToStorage
<1>2. ASSUME NEW e \in Envelope, Send(e), UNCHANGED messages,
             \A v \in Workers : held[v].kind = "persist" => held'[v] = held[v]
      PROVE  HandedToStorage(i)'
  <2>1. /\ Range(mailbox["storage"]) \subseteq Range(mailbox'["storage"])
        /\ leaked \subseteq leaked'
    BY <1>2, SendEffect DEF ActorType
  <2>2. QED
    BY <1>2, <2>1, Zenon DEF HandedToStorage
<1>3. ASSUME NEW f \in ClientFrames, OnRead(f)
      PROVE  HandedToStorage(i)'
  <2> DEFINE n == Len(frames) + 1
  <2>1. CASE \E e \in Dispatched(f, n) : Send(e)
    <3>1. PICK e \in Dispatched(f, n) : Send(e)
      BY <2>1, Zenon
    <3>2. f \in Frame /\ n \in Ids
      BY <1>3, ConstantsAssumption DEF OnRead, TypeOK, Ids
    <3>3. e \in Envelope
      BY <3>1, <3>2, DispatchedEffect, Zenon
    <3>4. QED
      BY <1>2, <1>3, <3>1, <3>3 DEF OnRead
  <2>2. CASE UNCHANGED <<mailbox, leaked>>
    BY <1>1, <1>3, <2>2, Zenon DEF OnRead
  <2>3. QED
    BY <1>3, <2>1, <2>2, Zenon DEF OnRead
<1>4. ASSUME NEW w \in Workers, Pop(w)
      PROVE  HandedToStorage(i)'
  <2>1. /\ \A v \in Workers : v # w => held'[v] = held[v]
        /\ \A x \in Range(mailbox["storage"]) :
             \/ x \in Range(mailbox'["storage"])
             \/ x = held'[w]
    BY <1>4, PopEffect, Zenon DEF ActorType
  <2>2. held[w] = NoEnvelope
    BY <1>4, Zenon DEF Pop, AtHome
  <2>3. \A x \in Range(mailbox["storage"]) : x.kind = "persist"
    BY Zenon DEF AtHome, ActorType, KindsOf
  <2>4. messages' = messages /\ leaked' = leaked
    BY <1>4, Zenon DEF Pop
  <2>5. held[w].kind # "persist"
    BY <2>2 DEF NoEnvelope
  <2> HIDE DEF HandedToStorage
  <2>6. CASE \E x \in Range(mailbox["storage"]) : x.id = i
    BY <2>1, <2>3, <2>6, Zenon DEF HandedToStorage
  <2>7. CASE \E v \in Workers : held[v].id = i /\ held[v].kind = "persist"
    BY <2>1, <2>5, <2>7 DEF HandedToStorage
  <2>8. CASE i \in Range(messages) \/ \E x \in leaked : x.id = i /\ x.kind = "persist"
    BY <2>4, <2>8, Zenon DEF HandedToStorage
  <2>9. QED
    BY <2>6, <2>7, <2>8, Zenon DEF HandedToStorage
<1>5. ASSUME NEW w \in Workers, Forward(w)
      PROVE  HandedToStorage(i)'
  <2> DEFINE e == Sends(held[w])[step[w]]
  <2>1. e \in Envelope /\ Send(e) /\ held[w].kind = "send"
    BY <1>5, ForwardEffect, SendsEffect, Zenon
  <2>2. \A v \in Workers : v # w => held'[v] = held[v]
    BY <1>5, ForwardEffect, AdvanceEffect
  <2>3. messages' = messages
    BY <1>5 DEF Forward
  <2>4. QED
    BY <1>2, <2>1, <2>2, <2>3
<1>6. ASSUME NEW w \in Workers, Advance(w), UNCHANGED <<mailbox, leaked>>,
             \/ UNCHANGED messages /\ held[w].kind # "persist"
             \/ messages' = Append(messages, held[w].id) /\ held[w].id \in Ids
      PROVE  HandedToStorage(i)'
  <2>1. \A v \in Workers : v # w => held'[v] = held[v]
    BY <1>6, AdvanceEffect, Zenon
  <2>2. CASE UNCHANGED messages /\ held[w].kind # "persist"
    BY <1>6, <2>1, <2>2, Zenon DEF HandedToStorage
  <2>3. CASE messages' = Append(messages, held[w].id) /\ held[w].id \in Ids
    <3>1. Range(messages') = Range(messages) \cup {held[w].id}
      BY <2>3, RangeOfAppend DEF TypeOK
    <3>2. QED
      BY <1>6, <2>1, <3>1, Zenon DEF HandedToStorage
  <2>4. QED
    BY <1>6, <2>2, <2>3
<1>7. ASSUME NEW w \in Workers, PopEmpty(w) \/ Deliver(w) \/ Ignore(w)
      PROVE  HandedToStorage(i)'
  <2>1. held[w].kind # "persist"
    <3>1. CASE PopEmpty(w)
      <4>1. pc[w] # "handle"
        BY <3>1, Zenon DEF PopEmpty
      <4>2. held[w] = NoEnvelope
        BY <4>1, Zenon DEF AtHome
      <4>3. QED
        BY <4>2 DEF NoEnvelope
    <3>2. CASE Deliver(w)
      BY <3>2, Zenon DEF Deliver, OutgoingKind
    <3>3. CASE Ignore(w)
      <4>1. held[w].kind \in KindsOf[held[w].dest] /\ held[w] \in Envelope
        BY <3>3, Zenon DEF Ignore, AtHome
      <4>2. held[w].dest \in ActorType
        BY <4>1, Zenon DEF Envelope
      <4>3. ~(held[w].dest = "storage" /\ held[w].kind = "persist")
        BY <3>3 DEF Ignore
      <4>4. CASE held[w].dest = "storage"
        BY <4>3, <4>4
      <4>5. CASE held[w].dest # "storage"
        <5>1. held[w].dest \in {"session", "chat", "message"}
          BY <4>2, <4>5 DEF ActorType
        <5>2. \A t \in {"session", "chat", "message"} : "persist" \notin KindsOf[t]
          BY DEF KindsOf, OutgoingKind
        <5>3. QED
          BY <4>1, <5>1, <5>2
      <4>6. QED
        BY <4>4, <4>5, Zenon
    <3>4. QED
      BY <1>7, <3>1, <3>2, <3>3, Zenon
  <2>2. QED
    BY <1>6, <1>7, <2>1, Zenon DEF PopEmpty, Deliver, Ignore
<1>8. ASSUME NEW w \in Workers, Store(w)
      PROVE  HandedToStorage(i)'
  <2>1. held[w].id \in Ids
    BY <1>8, Zenon DEF Store, AtHome, Envelope
  <2>2. QED
    BY <1>6, <1>8, <2>1, Zenon DEF Store
<1>9. ASSUME NEW w \in Workers, Worker(w)
      PROVE  HandedToStorage(i)'
  BY <1>1, <1>4, <1>5, <1>7, <1>8, <1>9, Zenon DEF Worker, LoopTest, StoreThrows
<1>10. QED
  BY <1>1, <1>3, <1>9, Zenon
     DEF Next, Network, ServerRun, StopNetwork, StopActors, Joined, Accept,
         OnAccept, OnReadError, OnWriteError

(* A step that tells somebody of frame i comes after its persist envelope. *)
LEMMA NextToldInv == TypeOK /\ AtHome /\ ToldInv /\ [Next]_vars => ToldInv'
<1> SUFFICES ASSUME TypeOK, AtHome, ToldInv, Next, NEW i \in Ids,
                    Told(i)' \/ AboutToTell(i)'
             PROVE  Told(i) \/ AboutToTell(i) \/ HandedToStorage(i)'
  <2>1. CASE UNCHANGED vars
    BY <2>1 DEF ToldInv, Told, AboutToTell, HandedToStorage, vars, workerVars,
                Ids
  <2>2. CASE Next
    BY <2>2, HandedIsKept, Zenon DEF ToldInv, Ids
  <2>3. QED
    BY <2>1, <2>2, Zenon
<1> USE DEF workerVars, sessionVars
<1>1. CASE UNCHANGED <<mailbox, held, step, posted>>
  BY <1>1, Zenon DEF Told, AboutToTell
<1>2. ASSUME NEW f \in ClientFrames, OnRead(f)
      PROVE  Told(i) \/ AboutToTell(i)
  <2> DEFINE n == Len(frames) + 1
  <2>1. CASE \E e \in Dispatched(f, n) : Send(e)
    <3>1. PICK e \in Dispatched(f, n) : Send(e)
      BY <2>1, Zenon
    <3>2. f \in Frame /\ n \in Ids
      BY <1>2, ConstantsAssumption DEF OnRead, TypeOK, Ids
    <3>3. e \in Envelope /\ e.kind \notin OutgoingKind
      BY <3>1, <3>2, DispatchedEffect, Zenon DEF OutgoingKind
    <3>4. \A x \in Range(mailbox'["session"]) :
            x \in Range(mailbox["session"]) \/ x = e
      BY <3>1, <3>3, SendEffect DEF ActorType
    <3>5. UNCHANGED <<held, step, posted>>
      BY <1>2, Zenon DEF OnRead
    <3>6. QED
      BY <3>3, <3>4, <3>5 DEF Told, AboutToTell
  <2>2. CASE UNCHANGED <<mailbox, leaked>>
    BY <1>1, <1>2, <2>2, Zenon DEF OnRead, Told, AboutToTell
  <2>3. QED
    BY <1>2, <2>1, <2>2, Zenon DEF OnRead
<1>3. ASSUME NEW w \in Workers, Pop(w)
      PROVE  Told(i) \/ AboutToTell(i)
  <2> DEFINE t == Order[pos[w]]
  <2>1. /\ t \in ActorType /\ held'[w] \in Range(mailbox[t])
        /\ \A v \in Workers : v # w => held'[v] = held[v]
        /\ Range(mailbox'["session"]) \subseteq Range(mailbox["session"])
    BY <1>3, PopEffect, Zenon DEF ActorType
  <2> HIDE DEF t
  <2>2. step' = step /\ posted' = posted /\ step[w] = 1
    BY <1>3, Zenon DEF Pop, AtHome
  <2>3. held'[w].kind \in OutgoingKind => t = "session"
    BY <2>1, Zenon DEF AtHome, KindsOf, ActorType, OutgoingKind
  <2>4. CASE Told(i)'
    <3>1. CASE \E x \in Range(mailbox'["session"]) : x.id = i /\ x.kind \in OutgoingKind
      BY <2>1, <3>1, Zenon DEF Told
    <3>2. CASE \E v \in Workers : held'[v].id = i /\ held'[v].kind \in OutgoingKind
      BY <2>1, <2>3, <3>2, Zenon DEF Told
    <3>3. CASE \E s \in Sessions : \E p \in Range(posted'[s]) : p[1] = i
      BY <2>2, <3>3, Zenon DEF Told
    <3>4. QED
      BY <2>4, <3>1, <3>2, <3>3, Zenon DEF Told
  <2>5. CASE AboutToTell(i)'
    <3>1. PICK v \in Workers :
            held'[v].id = i /\ held'[v].dest = "chat" /\ step'[v] > 1
      BY <2>5, Zenon DEF AboutToTell
    <3>2. v # w
      BY <2>2, <3>1
    <3>3. QED
      BY <2>1, <2>2, <3>1, <3>2, Zenon DEF AboutToTell
  <2>6. QED
    BY <1>3, <2>4, <2>5, Zenon
<1>4. ASSUME NEW w \in Workers, Advance(w), UNCHANGED posted,
             \A x \in Range(mailbox'["session"]) :
               \/ x \in Range(mailbox["session"])
               \/ x.id = i => Told(i) \/ AboutToTell(i)
               \/ x.kind \notin OutgoingKind
      PROVE  Told(i) \/ AboutToTell(i)
  <2>1. /\ held'[w] = NoEnvelope /\ step'[w] = 1
        /\ \A v \in Workers : v # w => held'[v] = held[v] /\ step'[v] = step[v]
    BY <1>4, AdvanceEffect, Zenon
  <2>2. held'[w].kind \notin OutgoingKind /\ held'[w].dest # "chat"
    BY <2>1, SMTT(30) DEF NoEnvelope, OutgoingKind
  <2>3. CASE Told(i)'
    <3>1. CASE \E x \in Range(mailbox'["session"]) : x.id = i /\ x.kind \in OutgoingKind
      BY <1>4, <3>1, Zenon DEF Told
    <3>2. CASE \E v \in Workers : held'[v].id = i /\ held'[v].kind \in OutgoingKind
      BY <2>1, <2>2, <3>2, Zenon DEF Told
    <3>3. CASE \E s \in Sessions : \E p \in Range(posted'[s]) : p[1] = i
      BY <1>4, <3>3, Zenon DEF Told
    <3>4. QED
      BY <2>3, <3>1, <3>2, <3>3 DEF Told
  <2>4. CASE AboutToTell(i)'
    BY <2>1, <2>2, <2>4, Zenon DEF AboutToTell
  <2>5. QED
    BY <2>3, <2>4, Zenon
<1>5. ASSUME NEW w \in Workers, Forward(w)
      PROVE  Told(i) \/ AboutToTell(i) \/ HandedToStorage(i)'
  <2> DEFINE e == Sends(held[w])[step[w]]
  <2>1. /\ held[w] \in Envelope /\ step[w] \in 1..3
        /\ step[w] <= Len(Sends(held[w])) /\ Send(e)
    BY <1>5, ForwardEffect, Zenon
  <2>2. e \in Envelope /\ e.id = held[w].id
    <3>1. e \in Envelope
      BY <2>1, SendsEffect, Zenon
    <3>2. e.id = held[w].id
      BY <2>1, SentKinds
    <3>3. QED
      BY <3>1, <3>2
  <2>3. \/ held[w].dest = "message" /\ e.dest = "chat" /\ step[w] = 1
             /\ Len(Sends(held[w])) = 1
        \/ held[w].dest = "chat" /\ step[w] > 1
        \/ /\ held[w].dest = "chat" /\ step[w] = 1
           /\ e.dest = "storage" /\ e.kind = "persist"
    <3>1. \/ /\ held[w].dest = "message"
             /\ step[w] = 1 /\ Len(Sends(held[w])) = 1
             /\ e = [held[w] EXCEPT !.dest = "chat"]
          \/ /\ held[w].dest = "chat"
             /\ step[w] = 1 => e = StoragePersistMessage(held[w])
      BY <2>1, SendsEffect
    <3>2. CASE /\ held[w].dest = "message"
               /\ step[w] = 1 /\ Len(Sends(held[w])) = 1
               /\ e = [held[w] EXCEPT !.dest = "chat"]
      <4>1. e.dest = "chat"
        BY <2>1, <3>2 DEF Envelope
      <4>2. QED
        BY <3>2, <4>1
    <3>3. CASE /\ held[w].dest = "chat"
               /\ step[w] = 1 => e = StoragePersistMessage(held[w])
      <4>1. step[w] = 1 \/ step[w] > 1
        BY <2>1
      <4>2. step[w] = 1 => e.dest = "storage" /\ e.kind = "persist"
        BY <3>3, SMT DEF StoragePersistMessage
      <4>3. QED
        BY <3>3, <4>1, <4>2
    <3>4. QED
      BY <3>1, <3>2, <3>3
  <2>4. /\ \A x \in Range(mailbox'["session"]) :
             x \in Range(mailbox["session"]) \/ ("session" = e.dest /\ x = e)
        /\ e \in leaked' \/ e \in Range(mailbox'[e.dest])
    BY <2>1, <2>2, SendEffect, Zenon DEF ActorType
  <2>5. posted' = posted
    BY <1>5, Zenon DEF Forward
  <2> HIDE DEF e
  <2>6. CASE held[w].dest = "chat" /\ step[w] > 1
    <3>1. held[w].id = i => AboutToTell(i)
      BY <2>6, Zenon DEF AboutToTell
    <3>2. CASE Advance(w)
      BY <1>4, <2>2, <2>4, <2>5, <3>1, <3>2, Zenon
    <3>3. CASE UNCHANGED <<pc, pos, held>> /\ step' = [step EXCEPT ![w] = @ + 1]
      <4>1. \A v \in Workers : v # w => step'[v] = step[v]
        BY <3>3, Zenon DEF TypeOK
      <4>2. QED
        BY <2>2, <2>4, <2>5, <3>1, <3>3, <4>1, Zenon DEF Told, AboutToTell
    <3>4. QED
      BY <1>5, <3>2, <3>3, ForwardEffect, Zenon
  <2>7. CASE held[w].dest = "message" /\ e.dest = "chat" /\ step[w] = 1
               /\ Len(Sends(held[w])) = 1
    <3>1. Advance(w)
      BY <1>5, <2>7, ForwardEffect, Zenon
    <3>2. QED
      BY <1>4, <2>4, <2>5, <2>7, <3>1, Zenon
  <2>8. CASE /\ held[w].dest = "chat" /\ step[w] = 1
             /\ e.dest = "storage" /\ e.kind = "persist"
    <3>1. held[w].id = i => HandedToStorage(i)'
      BY <2>2, <2>4, <2>8 DEF HandedToStorage
    <3>2. CASE Advance(w)
      BY <1>4, <2>4, <2>5, <2>8, <3>2
    <3>3. CASE UNCHANGED <<pc, pos, held>> /\ step' = [step EXCEPT ![w] = @ + 1]
      <4>1. \A v \in Workers : v # w => step'[v] = step[v]
        BY <3>3 DEF TypeOK
      <4>2. QED
        BY <2>4, <2>5, <2>8, <3>1, <3>3, <4>1 DEF Told, AboutToTell
    <3>4. QED
      BY <1>5, <3>2, <3>3, ForwardEffect
  <2>9. QED
    BY <2>3, <2>6, <2>7, <2>8, Zenon
<1>6. ASSUME NEW w \in Workers, PopEmpty(w) \/ Ignore(w) \/ Store(w)
      PROVE  Told(i) \/ AboutToTell(i)
  <2>1. Advance(w) /\ UNCHANGED <<mailbox, posted>>
    BY <1>6 DEF PopEmpty, Ignore, Store
  <2>2. QED
    BY <1>4, <2>1, Zenon
<1>7. ASSUME NEW w \in Workers, Deliver(w)
      PROVE  Told(i) \/ AboutToTell(i)
  <2> DEFINE e == held[w]
             p == <<e.id, e.kind>>
  <2>1. /\ held'[w] = NoEnvelope /\ step'[w] = 1
        /\ \A v \in Workers : v # w => held'[v] = held[v] /\ step'[v] = step[v]
    BY <1>7, AdvanceEffect, Zenon DEF Deliver
  <2>2. /\ e.kind \in OutgoingKind /\ e.session \in Sessions
        /\ posted' = [posted EXCEPT ![e.session] = Append(@, p)]
        /\ mailbox' = mailbox
    BY <1>7, Zenon DEF Deliver, TypeOK
  <2>3. e.id = i => Told(i)
    BY <2>2, Zenon DEF Told
  <2>4. p \in Ids \X OutgoingKind
    BY <1>7, <2>2, Zenon DEF AtHome, Deliver, Envelope
  <2>5. Range(Append(posted[e.session], p)) = Range(posted[e.session]) \cup {p}
    <3>1. posted[e.session] \in Seq(Ids \X OutgoingKind)
      BY <2>2, Zenon DEF TypeOK
    <3>2. QED
      BY <2>4, <3>1, RangeOfAppend
  <2>6. \A s \in Sessions : \A x \in Range(posted'[s]) :
          x \in Range(posted[s]) \/ x = p
    BY <2>2, <2>5 DEF TypeOK
  <2>7. p[1] = e.id
    BY Zenon
  <2> HIDE DEF p, e
  <2>8. ASSUME AboutToTell(i)'
        PROVE  AboutToTell(i)
    <3>1. NoEnvelope.dest # "chat" BY DEF NoEnvelope
    <3>2. QED BY <2>1, <2>8, <3>1, Zenon DEF AboutToTell
  <2>9. ASSUME Told(i)'
        PROVE  Told(i)
    <3>1. CASE \E s \in Sessions : \E x \in Range(posted'[s]) : x[1] = i
      BY <2>3, <2>6, <2>7, <3>1, Zenon DEF Told
    <3>2. CASE \E v \in Workers : /\ held'[v].id = i
                                  /\ held'[v].kind \in OutgoingKind
      <4>1. NoEnvelope.kind \notin OutgoingKind BY DEF NoEnvelope, OutgoingKind
      <4>2. QED BY <2>1, <3>2, <4>1, Zenon DEF Told
    <3>3. CASE \E x \in Range(mailbox'["session"]) :
                 x.id = i /\ x.kind \in OutgoingKind
      BY <2>2, <3>3, Zenon DEF Told
    <3>4. QED
      BY <2>9, <3>1, <3>2, <3>3, Zenon DEF Told
  <2>10. QED
    BY <2>8, <2>9, Zenon
<1>8. ASSUME NEW w \in Workers, Worker(w)
      PROVE  Told(i) \/ AboutToTell(i) \/ HandedToStorage(i)'
  <2>1. CASE LoopTest(w) \/ StoreThrows(w)
    BY <1>1, <2>1, Zenon DEF LoopTest, StoreThrows
  <2>2. QED
    BY <1>3, <1>5, <1>6, <1>7, <1>8, <2>1, Zenon DEF Worker
<1>9. QED
  BY <1>1, <1>2, <1>8
     DEF Next, Network, ServerRun, StopNetwork, StopActors, Joined, Accept,
         OnAccept, OnReadError, OnWriteError

(* Nobody is told of a message - neither its sender by the echo nor its    *)
(* recipient - before ChatActor has handed it to the storage actor.        *)
THEOREM StorageComesFirst == Spec => []ToldAfterHandedToStorage
<1>1. Init => NotBornYet
  BY DEF Init, NotBornYet
<1>2. Init => ToldInv
  <2> SUFFICES ASSUME Init, NEW i \in Ids
               PROVE  ~Told(i) /\ ~AboutToTell(i)
    BY DEF ToldInv
  <2>1. Range(mailbox["session"]) = {} /\ \A s \in Sessions : Range(posted[s]) = {}
    BY DEF Init, Range, ActorType
  <2>2. QED
    BY <2>1, Zenon DEF Init, Told, AboutToTell, NoEnvelope, OutgoingKind
<1>3. ToldInv => ToldAfterHandedToStorage
  BY DEF ToldInv, ToldAfterHandedToStorage
<1>4. QED
  BY <1>1, <1>2, <1>3, InitTypeOK, NextTypeOK, NextNotBornYet, InitAtHome,
     NextAtHome, NextToldInv, PTL DEF Spec

(* The history of frames only grows. *)
LEMMA FramesGrow ==
  ASSUME TypeOK, Next
  PROVE  \A n \in DOMAIN frames : n \in DOMAIN frames' /\ frames'[n] = frames[n]
<1>1. CASE frames' = frames
  BY <1>1
<1>2. ASSUME NEW f \in ClientFrames, frames' = Append(frames, f)
      PROVE  \A n \in DOMAIN frames : n \in DOMAIN frames' /\ frames'[n] = frames[n]
  BY <1>2 DEF TypeOK
<1>3. ASSUME NEW w \in Workers, Worker(w)
      PROVE  frames' = frames
  <2>1. CASE LoopTest(w)
    BY <2>1, Zenon DEF LoopTest
  <2>2. CASE PopEmpty(w)
    BY <2>2, Zenon DEF PopEmpty
  <2>3. CASE Pop(w)
    BY <2>3, Zenon DEF Pop
  <2>4. CASE Forward(w)
    BY <2>4, Zenon DEF Forward
  <2>5. CASE Deliver(w)
    BY <2>5, Zenon DEF Deliver
  <2>6. CASE Ignore(w)
    BY <2>6, Zenon DEF Ignore
  <2>7. CASE Store(w) \/ StoreThrows(w)
    BY <2>7, Zenon DEF Store, StoreThrows
  <2>8. QED
    BY <1>3, <2>1, <2>2, <2>3, <2>4, <2>5, <2>6, <2>7 DEF Worker
<1>4. CASE \E f \in ClientFrames : OnRead(f)
  BY <1>2, <1>4, Zenon DEF OnRead
<1>5. CASE ServerRun \/ StopNetwork \/ StopActors \/ Joined
  BY <1>1, <1>5, Zenon DEF ServerRun, StopNetwork, StopActors, Joined
<1>6. CASE Accept \/ \E s \in Sessions : OnAccept(s) \/ OnReadError(s) \/ OnWriteError(s)
  BY <1>1, <1>6, Zenon DEF Accept, OnAccept, OnReadError, OnWriteError
<1>7. QED
  BY <1>1, <1>3, <1>4, <1>5, <1>6 DEF Next, Network

(* A longer history of frames vouches for the same envelopes. *)
LEMMA GenuineStays ==
  ASSUME NEW fs, NEW gs, NEW e, Genuine(fs, e),
         \A n \in DOMAIN fs : n \in DOMAIN gs /\ gs[n] = fs[n]
  PROVE  Genuine(gs, e)
  BY DEF Genuine

(* The handlers pass on the sessions of the message they handle. *)
LEMMA SentIsGenuine ==
  ASSUME NEW fs, NEW e \in Envelope, Genuine(fs, e),
         NEW n \in 1..3, n <= Len(Sends(e)), NEW x, x = Sends(e)[n]
  PROVE  Genuine(fs, x)
<1>1. /\ e.kind = "send"
      /\ \/ x = [e EXCEPT !.dest = "chat"]
         \/ x = StoragePersistMessage(e)
         \/ x = SessionOutgoingEvent(e, e.session, "message_delivered")
         \/ x = SessionOutgoingEvent(e, e.recipient, "incoming_message")
  BY SendsEffect
<1>2. /\ e.id \in DOMAIN fs /\ fs[e.id].type = "send_message"
      /\ e.session = fs[e.id].session /\ e.recipient = fs[e.id].recipient
  BY <1>1 DEF Genuine
<1>3. CASE x = [e EXCEPT !.dest = "chat"]
  <2>1. x.kind = e.kind /\ x.id = e.id /\ x.session = e.session
          /\ x.recipient = e.recipient
    BY <1>3, Zenon DEF Envelope
  <2>2. QED
    BY <1>1, <1>2, <2>1 DEF Genuine, OutgoingKind
<1>4. CASE x = StoragePersistMessage(e)
  BY <1>4, SMTT(30) DEF Genuine, StoragePersistMessage, OutgoingKind
<1>5. CASE x = SessionOutgoingEvent(e, e.session, "message_delivered")
  <2>1. x.kind = "message_delivered" /\ x.id = e.id /\ x.session = e.session
    BY <1>5 DEF SessionOutgoingEvent
  <2>2. RightSession(fs[e.id], "message_delivered") = e.session
    BY <1>2, Zenon DEF RightSession
  <2>3. QED
    BY <1>2, <2>1, <2>2, Zenon DEF Genuine, OutgoingKind
<1>6. CASE x = SessionOutgoingEvent(e, e.recipient, "incoming_message")
  <2>1. x.kind = "incoming_message" /\ x.id = e.id /\ x.session = e.recipient
    BY <1>6 DEF SessionOutgoingEvent
  <2>2. RightSession(fs[e.id], "incoming_message") = e.recipient
    BY <1>2 DEF RightSession
  <2>3. QED
    BY <1>2, <2>1, <2>2, Zenon DEF Genuine, OutgoingKind
<1>7. QED
  BY <1>1, <1>3, <1>4, <1>5, <1>6

(* Every envelope descends from the frame it names. *)
LEMMA NextOriginInv == TypeOK /\ AtHome /\ OriginInv /\ [Next]_vars => OriginInv'
<1> SUFFICES ASSUME TypeOK, AtHome, OriginInv, Next \/ UNCHANGED vars
             PROVE  OriginInv'
  BY Zenon
<1> DEFINE Boxes == \A t \in ActorType : \A e \in Range(mailbox[t]) :
                      Genuine(frames, e)
           Hands == \A w \in Workers : Genuine(frames, held[w])
<1> USE DEF workerVars, sessionVars
<1>1. CASE UNCHANGED vars
  BY <1>1, Zenon DEF vars, OriginInv, PostedToTheRightSession, Submitted
<1>2. CASE Next
  <2>1. \A n \in DOMAIN frames : n \in DOMAIN frames' /\ frames'[n] = frames[n]
    BY <1>2, FramesGrow
  <2>2. \A e : Genuine(frames, e) => Genuine(frames', e)
    BY <2>1, GenuineStays, Zenon
  <2>3. Genuine(frames', NoEnvelope)
    BY Zenon DEF Genuine, NoEnvelope, OutgoingKind
  <2>4. ASSUME UNCHANGED posted
        PROVE  PostedToTheRightSession'
    BY <2>1, <2>4, Zenon DEF OriginInv, PostedToTheRightSession, Submitted
  <2>5. CASE UNCHANGED <<mailbox, held, posted>>
    BY <2>2, <2>4, <2>5, Zenon DEF OriginInv
  <2>6. ASSUME NEW f \in ClientFrames, OnRead(f)
        PROVE  OriginInv'
    <3> DEFINE n == Len(frames) + 1
    <3>1. UNCHANGED <<held, posted>>
      BY <2>6, Zenon DEF OnRead
    <3>2. ASSUME NEW e \in Dispatched(f, n), Send(e)
          PROVE  Boxes'
      <4>1. f \in Frame /\ n \in Ids
        BY <2>6, ConstantsAssumption DEF OnRead, TypeOK, Ids
      <4>2. e \in Envelope /\ e.id = n /\ e.kind \notin OutgoingKind
              /\ (e.kind = "send" => /\ f.type = "send_message"
                                     /\ e.session = f.session
                                     /\ e.recipient = f.recipient)
        BY <3>2, <4>1, DispatchedEffect, SMTT(30) DEF OutgoingKind
      <4>3. n \in DOMAIN frames' /\ frames'[n] = f
        BY <2>6 DEF OnRead, TypeOK
      <4>4. Genuine(frames', e)
        BY <4>2, <4>3, Zenon DEF Genuine
      <4>5. \A t \in ActorType : \A x \in Range(mailbox'[t]) :
              x \in Range(mailbox[t]) \/ x = e
        BY <3>2, <4>2, SendEffect, Zenon
      <4>6. QED
        BY <2>2, <4>4, <4>5, Zenon DEF OriginInv
    <3>3. ASSUME UNCHANGED <<mailbox, leaked>>
          PROVE  Boxes'
      BY <2>2, <3>3, Zenon DEF OriginInv
    <3>4. Boxes'
      BY <2>6, <3>2, <3>3, Zenon DEF OnRead
    <3>5. Hands'
      BY <2>2, <3>1, Zenon DEF OriginInv
    <3>6. QED
      BY <2>4, <3>1, <3>4, <3>5, Zenon DEF OriginInv
  <2>7. ASSUME NEW w \in Workers, Pop(w)
        PROVE  OriginInv'
    <3>1. /\ Order[pos[w]] \in ActorType
          /\ held'[w] \in Range(mailbox[Order[pos[w]]])
          /\ \A v \in Workers : v # w => held'[v] = held[v]
          /\ \A t \in ActorType : Range(mailbox'[t]) \subseteq Range(mailbox[t])
      BY <2>7, PopEffect, Zenon
    <3>2. Boxes' /\ Hands'
      BY <2>2, <3>1, Zenon DEF OriginInv
    <3>3. posted' = posted
      BY <2>7, Zenon DEF Pop
    <3>4. QED
      BY <2>4, <3>2, <3>3, Zenon DEF OriginInv
  <2>8. ASSUME NEW w \in Workers, Forward(w)
        PROVE  OriginInv'
    <3> DEFINE e == Sends(held[w])[step[w]]
    <3>1. /\ held[w] \in Envelope /\ step[w] \in 1..3
          /\ step[w] <= Len(Sends(held[w])) /\ Send(e)
      BY <2>8, ForwardEffect
    <3>2. e \in Envelope
      BY <3>1, SendsEffect, Zenon
    <3>3. Genuine(frames, e)
      BY <3>1, SentIsGenuine DEF OriginInv
    <3>4. \A t \in ActorType : \A x \in Range(mailbox'[t]) :
            x \in Range(mailbox[t]) \/ x = e
      BY <3>1, <3>2, SendEffect, Zenon
    <3> HIDE DEF e
    <3>5. Boxes'
      BY <2>2, <3>3, <3>4 DEF OriginInv
    <3>6. \A v \in Workers : held'[v] = held[v] \/ held'[v] = NoEnvelope
      BY <2>8, ForwardEffect, AdvanceEffect
    <3>7. Hands'
      BY <2>2, <2>3, <3>6 DEF OriginInv
    <3>8. posted' = posted
      BY <2>8, Zenon DEF Forward
    <3>9. QED
      BY <2>4, <3>5, <3>7, <3>8, Zenon DEF OriginInv
  <2>9. ASSUME NEW w \in Workers, Advance(w), UNCHANGED mailbox
        PROVE  Boxes' /\ Hands'
    <3>1. \A v \in Workers : held'[v] = held[v] \/ held'[v] = NoEnvelope
      BY <2>9, AdvanceEffect, Zenon
    <3>2. QED
      BY <2>2, <2>3, <2>9, <3>1, Zenon DEF OriginInv
  <2>10. ASSUME NEW w \in Workers, PopEmpty(w) \/ Ignore(w) \/ Store(w)
         PROVE  OriginInv'
    <3>1. Advance(w) /\ UNCHANGED <<mailbox, posted>>
      BY <2>10, Zenon DEF PopEmpty, Ignore, Store
    <3>2. QED
      BY <2>4, <2>9, <3>1, Zenon DEF OriginInv
  <2>11. ASSUME NEW w \in Workers, Deliver(w)
         PROVE  OriginInv'
    <3> DEFINE e == held[w]
               p == <<e.id, e.kind>>
    <3>1. /\ e.kind \in OutgoingKind /\ e.session \in Sessions
          /\ posted' = [posted EXCEPT ![e.session] = Append(@, p)]
          /\ mailbox' = mailbox /\ frames' = frames /\ Advance(w)
      BY <2>11, Zenon DEF Deliver, TypeOK
    <3>2. p \in Ids \X OutgoingKind
      BY <2>11, <3>1, Zenon DEF AtHome, Deliver, Envelope
    <3>3. Range(Append(posted[e.session], p)) = Range(posted[e.session]) \cup {p}
      <4>1. posted[e.session] \in Seq(Ids \X OutgoingKind)
        BY <3>1, Zenon DEF TypeOK
      <4>2. QED
        BY <3>2, <4>1, RangeOfAppend
    <3>4. \A s \in Sessions : \A x \in Range(posted'[s]) :
            x \in Range(posted[s]) \/ (s = e.session /\ x = p)
      BY <3>1, <3>3, Zenon DEF TypeOK
    <3>5. /\ e.id \in Submitted
          /\ e.session = RightSession(frames[e.id], e.kind)
      BY <3>1, Zenon DEF OriginInv, Genuine, Submitted
    <3>6. p[1] = e.id /\ p[2] = e.kind
      BY Zenon
    <3> HIDE DEF p, e
    <3>7. PostedToTheRightSession'
      BY <3>1, <3>4, <3>5, <3>6, Zenon
         DEF OriginInv, PostedToTheRightSession, Submitted
    <3>8. QED
      BY <2>9, <3>1, <3>7, Zenon DEF OriginInv
  <2>12. ASSUME NEW w \in Workers, Worker(w)
         PROVE  OriginInv'
    <3>1. CASE LoopTest(w) \/ StoreThrows(w)
      BY <2>5, <3>1, Zenon DEF LoopTest, StoreThrows
    <3>2. QED
      BY <2>7, <2>8, <2>10, <2>11, <2>12, <3>1 DEF Worker
  <2>13. QED
    BY <1>2, <2>5, <2>6, <2>12, Zenon
       DEF Next, Network, ServerRun, StopNetwork, StopActors, Joined, Accept,
           OnAccept, OnReadError, OnWriteError
<1>3. QED
  BY <1>1, <1>2

(* Every reachable envelope is genuine. *)
LEMMA AlwaysOrigin == Spec => []OriginInv
<1>1. Init => NotBornYet
  BY DEF Init, NotBornYet
<1>2. Init => OriginInv
  <2> SUFFICES ASSUME Init PROVE OriginInv
    OBVIOUS
  <2>1. /\ \A t \in ActorType : Range(mailbox[t]) = {}
        /\ \A s \in Sessions : Range(posted[s]) = {}
    BY SMTT(20) DEF Init, Range
  <2>2. Genuine(frames, NoEnvelope)
    BY DEF Genuine, NoEnvelope, OutgoingKind
  <2>3. QED
    BY <2>1, <2>2, Zenon DEF Init, OriginInv, PostedToTheRightSession
<1>3. QED
  BY <1>1, <1>2, InitTypeOK, NextTypeOK, NextNotBornYet, InitAtHome,
     NextAtHome, NextOriginInv, PTL DEF Spec

(* Echoes reach only the session that sent the frame, and copies only the  *)
(* session the frame names, whatever the workers interleave.               *)
THEOREM PayloadsReachTheirSession == Spec => []PostedToTheRightSession
<1>1. OriginInv => PostedToTheRightSession
  BY DEF OriginInv
<1>2. QED
  BY <1>1, AlwaysOrigin, PTL

(***************************************************************************)
(* The states of the sessions: SessionInv is inductive.                    *)
(***************************************************************************)
LEMMA InitSessionInv == Init => SessionInv
BY DEF Init, SessionInv

LEMMA NextSessionInv == TypeOK /\ SessionInv /\ [Next]_vars => SessionInv'
<1> SUFFICES ASSUME TypeOK, SessionInv, [Next]_vars PROVE SessionInv'
  OBVIOUS
<1> USE DEF workerVars, sessionVars
<1>1. /\ handshaking \cup transports \cup broken \subseteq 1..accepted
      /\ handshaking \cap (transports \cup broken) = {}
      /\ broken \cap transports = {}
      /\ reading \subseteq transports \cup broken
      /\ \A i \in DOMAIN frames : frames[i].session \in transports \cup broken
  BY Zenon DEF SessionInv
<1>2. CASE UNCHANGED <<sessionVars, frames>>
  BY <1>1, <1>2, Zenon DEF SessionInv
<1>3. CASE Accept
  <2>1. accepted \in Int /\ accepted' = accepted + 1
    BY <1>3 DEF Accept, TypeOK
  <2>2. 1..accepted' = 1..accepted \cup {accepted + 1} \/ accepted' < 1
    BY <2>1
  <2>3. accepted' >= 1
    BY <2>1 DEF TypeOK
  <2>4. accepted + 1 \notin 1..accepted
    BY <2>1
  <2>5. 1..accepted' = 1..accepted \cup {accepted + 1}
    BY <2>1, <2>2, <2>3
  <2>6. /\ handshaking' = handshaking \cup {accepted + 1}
        /\ UNCHANGED <<transports, reading, broken, frames>>
    BY <1>3, Zenon DEF Accept
  <2>7. QED
    BY <1>1, <2>4, <2>5, <2>6, Zenon DEF SessionInv
<1>4. ASSUME NEW s \in Sessions, OnAccept(s) PROVE SessionInv'
  BY <1>1, <1>4 DEF OnAccept, SessionInv
<1>5. ASSUME NEW s \in Sessions, OnReadError(s) \/ OnWriteError(s) PROVE SessionInv'
  <2>1. s \in transports \cup broken
    BY <1>1, <1>5, Zenon DEF OnReadError, OnWriteError
  <2>2. /\ transports' = transports \ {s} /\ broken' = broken \cup {s}
        /\ reading' \subseteq reading
        /\ UNCHANGED <<accepted, handshaking, frames>>
    BY <1>5, Zenon DEF OnReadError, OnWriteError
  <2>3. QED
    BY <1>1, <2>1, <2>2 DEF SessionInv
<1>6. ASSUME NEW f \in ClientFrames, OnRead(f) PROVE SessionInv'
  <2>1. /\ f.session \in reading /\ frames' = Append(frames, f)
        /\ UNCHANGED <<accepted, handshaking, transports, reading, broken>>
    BY <1>6, Zenon DEF OnRead
  <2>2. \A i \in DOMAIN frames' :
          frames'[i] = f \/ (i \in DOMAIN frames /\ frames'[i] = frames[i])
    BY <2>1, AppendAt DEF TypeOK
  <2>3. QED
    BY <1>1, <2>1, <2>2, Zenon DEF SessionInv
<1>7. ASSUME NEW w \in Workers, Worker(w) PROVE SessionInv'
  BY <1>2, <1>7, Zenon
     DEF Worker, LoopTest, PopEmpty, Pop, Forward, Deliver, Ignore, Store, StoreThrows
<1>8. CASE UNCHANGED vars
  BY <1>2, <1>8, Zenon DEF vars
<1>9. CASE ServerRun \/ StopNetwork \/ StopActors \/ Joined
  BY <1>2, <1>9, Zenon DEF ServerRun, StopNetwork, StopActors, Joined
<1>10. QED
  BY <1>3, <1>4, <1>5, <1>6, <1>7, <1>8, <1>9, Zenon DEF Next, Network

(***************************************************************************)
(* A session that was bound and has lost its transport is never bound or   *)
(* posted to again: ids are fresh, the handshake of a session ends once    *)
(* and before it breaks, and delivery looks the transport up first.        *)
(***************************************************************************)
THEOREM UnboundSessionsStayUnbound == Spec => UnboundForGood
<1> DEFINE Step == \A s \in broken : s \notin transports' /\ posted'[s] = posted[s]
<1>1. ASSUME TypeOK, SessionInv, [Next]_vars
      PROVE  [Step]_vars
  <2> USE DEF workerVars, sessionVars
  <2>0. \A s \in broken : s \notin transports /\ s \notin handshaking /\ s \in Sessions
    BY <1>1, Zenon DEF SessionInv, TypeOK
  <2>1. CASE UNCHANGED vars
    BY <2>1
  <2>2. ASSUME UNCHANGED <<transports, posted>>
        PROVE  Step
    BY <2>0, <2>2, Zenon
  <2>3. CASE Accept
    BY <2>2, <2>3, Zenon DEF Accept
  <2>4. ASSUME NEW s \in Sessions, OnAccept(s) \/ OnReadError(s) \/ OnWriteError(s)
        PROVE  Step
    BY <2>0, <2>4, Zenon DEF OnAccept, OnReadError, OnWriteError
  <2>5. ASSUME NEW w \in Workers, Deliver(w)
        PROVE  Step
    <3>1. \A s \in broken : s # held[w].session
      BY <2>0, <2>5, Zenon DEF Deliver
    <3>2. QED
      BY <1>1, <2>0, <2>5, <3>1, Zenon DEF Deliver, TypeOK
  <2>6. ASSUME NEW w \in Workers, Worker(w)
        PROVE  Step
    BY <2>2, <2>5, <2>6, Zenon
       DEF Worker, LoopTest, PopEmpty, Pop, Forward, Ignore, Store, StoreThrows
  <2>7. ASSUME NEW f \in ClientFrames, OnRead(f)
        PROVE  Step
    BY <2>2, <2>7, Zenon DEF OnRead
  <2>8. CASE ServerRun \/ StopNetwork \/ StopActors \/ Joined
    BY <2>2, <2>8, Zenon DEF ServerRun, StopNetwork, StopActors, Joined
  <2> HIDE DEF Step
  <2>9. QED
    BY <1>1, <2>1, <2>3, <2>4, <2>6, <2>7, <2>8, Zenon DEF Next, Network
<1>2. QED
  BY <1>1, InitTypeOK, NextTypeOK, InitSessionInv, NextSessionInv, PTL
     DEF Spec, UnboundForGood

(* When Server::stop has returned every worker thread has exited. *)
ExitedWhenStopped == server = "stopped" => \A w \in Workers : pc[w] = "exited"

(* Nothing happens after Server::stop has returned, so that the members of *)
(* Server can be destroyed: each worker has left its loop by then.         *)
THEOREM NothingAfterStop == Spec => StillAfterStop
<1> USE DEF workerVars, sessionVars
<1>1. Init => ExitedWhenStopped
  BY DEF Init, ExitedWhenStopped
<1>2. ASSUME ExitedWhenStopped, Next
      PROVE  server # "stopped"
  <2>1. ASSUME NEW w \in Workers, Worker(w)
        PROVE  pc[w] # "exited"
    BY <2>1, Zenon DEF Worker, LoopTest, PopEmpty, Pop, Forward, Deliver, Ignore,
                Store, StoreThrows
  <2>2. CASE \E w \in Workers : Worker(w)
    BY <1>2, <2>1, <2>2, Zenon DEF ExitedWhenStopped
  <2>3. CASE ~\E w \in Workers : Worker(w)
    BY <1>2, <2>3, Zenon
       DEF Next, Network, ServerRun, StopNetwork, StopActors, Joined, Accept,
           OnRead, OnAccept, OnReadError, OnWriteError, NetworkUp
  <2>4. QED
    BY <2>2, <2>3, Zenon
<1>3. ExitedWhenStopped /\ [Next]_vars => ExitedWhenStopped'
  <2> SUFFICES ASSUME ExitedWhenStopped, Next, server' = "stopped"
               PROVE  \A w \in Workers : pc'[w] = "exited"
    <3>1. CASE UNCHANGED vars
      BY <3>1 DEF ExitedWhenStopped, vars
    <3>2. QED
      BY <3>1, Zenon DEF ExitedWhenStopped
  <2>1. server # "stopped"
    BY <1>2, Zenon
  <2>2. ASSUME NEW w \in Workers, Worker(w)
        PROVE  server' = server
    BY <2>2, Zenon DEF Worker, LoopTest, PopEmpty, Pop, Forward, Deliver, Ignore,
                Store, StoreThrows
  <2>3. Joined
    BY <2>1, <2>2, Zenon
       DEF Next, Network, ServerRun, StopNetwork, StopActors, Accept, OnRead,
           OnAccept, OnReadError, OnWriteError, NetworkUp
  <2>4. QED
    BY <2>3, Zenon DEF Joined
<1>4. ExitedWhenStopped /\ [Next]_vars => [server # "stopped"]_vars
  BY <1>2
<1>5. QED
  BY <1>1, <1>3, <1>4, PTL DEF Spec, StillAfterStop
============================================================================
