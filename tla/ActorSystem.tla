---------------------------- MODULE ActorSystem ----------------------------
(***************************************************************************)
(* The message pipeline of the server: the actor runtime (core/actor), the *)
(* four actors (infrastructure/actors), the dispatcher that feeds them     *)
(* from the WebSocket read handlers, and Server::run / Server::stop.       *)
(*                                                                         *)
(* A frame read from a client becomes one envelope in the mailbox of an    *)
(* actor.  Any worker thread may pop any mailbox, so several workers can   *)
(* be inside the handlers of the same actor at once.  A handler pushes its *)
(* envelopes one at a time; each push is atomic, the handler is not.       *)
(***************************************************************************)
EXTENDS Integers, Sequences, FiniteSets, Functions

CONSTANTS
  Workers,      \* the actor worker threads (server.actor_threads of them)
  Capacity,     \* server.mailbox_capacity
  Order,        \* iteration order of the unordered_map actors_
  MaxSessions,  \* bound: WebSocket connections accepted
  MaxFrames,    \* bound: client frames read
  ClientFrames  \* the frames the clients may send

ActorType == {"session", "chat", "message", "storage"}

Sessions == 1..MaxSessions       \* ids handed out by ++nextSessionId_
NoSession == 0                   \* the empty recipientId
SessionRef == Sessions \cup {NoSession}
Ids == 1..MaxFrames              \* a frame is named by its arrival number

(***************************************************************************)
(* What the dispatcher tells apart in a frame.  "other" is a JSON object   *)
(* of any other type, ping included; "mistyped" one with a field of the    *)
(* wrong JSON type.  recipient and uuids (do chat_id and sender_id parse   *)
(* as UUIDs?) matter to a send_message frame only.                         *)
(***************************************************************************)
FrameType == {"auth", "send_message", "typing", "message_read",
              "other", "not_object", "mistyped"}

Frame == [type : FrameType, session : Sessions, recipient : SessionRef,
          uuids : BOOLEAN]

ASSUME ConstantsAssumption ==
  /\ IsFiniteSet(Workers)
  /\ Capacity \in Nat
  /\ MaxSessions \in Nat
  /\ MaxFrames \in Nat
  /\ ClientFrames \subseteq Frame

(***************************************************************************)
(* actors_ is filled by the constructor of Server and never changes, so a  *)
(* worker meets the four actors in one fixed order, whichever it is.       *)
(***************************************************************************)
ASSUME OrderAssumption ==
  /\ Order \in [1..4 -> ActorType]
  /\ \A t \in ActorType : \E i \in 1..4 : Order[i] = t

(***************************************************************************)
(* ActorEnvelope.  chat id, sender id and text are named by the frame they *)
(* came with; "uuids" says whether chat id and sender id parse as UUIDs.   *)
(* The two outgoing kinds are the payloads of SessionOutgoingEvent.        *)
(***************************************************************************)
OutgoingKind == {"message_delivered", "incoming_message"}
Kind == {"auth", "send", "typing", "read", "persist"} \cup OutgoingKind

Envelope == [dest : ActorType, kind : Kind, id : Ids, session : SessionRef,
             recipient : SessionRef, uuids : BOOLEAN]

VARIABLES
  mailbox,     \* queue_ of the mailbox of each actor
  leaked,      \* envelopes released by push and refused by bounded_push
  running,     \* ActorSystem::running_
  server,      \* how far Server::run / Server::stop have come
  pc,          \* where each worker is in workerLoop
  pos,         \* its position in the scan over actors_
  held,        \* the envelope it handles
  step,        \* which of the handler's sends is next
  accepted,    \* nextSessionId_ of the listener
  handshaking, \* sessions with an async_accept outstanding
  transports,  \* keys of SessionActor::transports_
  reading,     \* sessions with an async_read outstanding
  broken,      \* history: sessions of which a read or a write failed
  frames,      \* history: the frames read, in order
  posted,      \* payloads posted to the strand of each session
  messages,    \* rows of the messages table, in commit order
  terminated   \* an exception left a thread: std::terminate

workerVars == <<pc, pos, held, step>>
sessionVars == <<accepted, handshaking, transports, reading, broken>>
vars == <<mailbox, leaked, running, server, workerVars, sessionVars, frames,
          posted, messages, terminated>>

NoEnvelope == [dest |-> "session", kind |-> "auth", id |-> 0,
               session |-> NoSession, recipient |-> NoSession, uuids |-> FALSE]

TypeOK ==
  /\ mailbox \in [ActorType -> Seq(Envelope)]
  /\ \A t \in ActorType : Len(mailbox[t]) <= Capacity
  /\ leaked \in SUBSET Envelope
  /\ running \in BOOLEAN
  /\ server \in {"constructed", "running", "net_stopped", "joining", "stopped"}
  /\ pc \in [Workers -> {"unborn", "loop", "scan", "handle", "exited"}]
  /\ pos \in [Workers -> 1..4]
  /\ held \in [Workers -> Envelope \cup {NoEnvelope}]
  /\ step \in [Workers -> 1..3]
  /\ accepted \in 0..MaxSessions
  /\ handshaking \in SUBSET Sessions
  /\ transports \in SUBSET Sessions
  /\ reading \in SUBSET Sessions
  /\ broken \in SUBSET Sessions
  /\ frames \in Seq(ClientFrames)
  /\ Len(frames) <= MaxFrames
  /\ posted \in [Sessions -> Seq(Ids \X OutgoingKind)]
  /\ messages \in Seq(Ids)
  /\ terminated \in BOOLEAN

Init ==
  /\ mailbox = [t \in ActorType |-> <<>>]
  /\ leaked = {}
  /\ running = FALSE
  /\ server = "constructed"
  /\ pc = [w \in Workers |-> "unborn"]
  /\ pos = [w \in Workers |-> 1]
  /\ held = [w \in Workers |-> NoEnvelope]
  /\ step = [w \in Workers |-> 1]
  /\ accepted = 0
  /\ handshaking = {}
  /\ transports = {}
  /\ reading = {}
  /\ broken = {}
  /\ frames = <<>>
  /\ posted = [s \in Sessions |-> <<>>]
  /\ messages = <<>>
  /\ terminated = FALSE
----------------------------------------------------------------------------
(* bounded_push has a free node. *)
Accepts(q) == Len(q) < Capacity

(* Fault: the mailbox is a stack. *)
PushedInFront(q, e) == <<e>> \o q

Pushed(q, e) == Append(q, e)

(***************************************************************************)
(* ActorSystem::send and Mailbox::push.  push releases the envelope before *)
(* it asks the queue to take it, so a refused envelope is owned by nobody; *)
(* every caller discards the result.                                       *)
(***************************************************************************)
Send(e) ==
  IF Accepts(mailbox[e.dest])
    THEN /\ mailbox' = [mailbox EXCEPT ![e.dest] = Pushed(@, e)]
         /\ UNCHANGED leaked
    ELSE /\ leaked' = leaked \cup {e}
         /\ UNCHANGED mailbox
----------------------------------------------------------------------------
(* The envelopes the handlers and the dispatcher make. *)

AuthEvent(i, s) ==
  [dest |-> "session", kind |-> "auth", id |-> i, session |-> s,
   recipient |-> NoSession, uuids |-> TRUE]

SendMessageEvent(i, s, r, u) ==
  [dest |-> "message", kind |-> "send", id |-> i, session |-> s,
   recipient |-> r, uuids |-> u]

TypingEvent(i) ==
  [dest |-> "message", kind |-> "typing", id |-> i, session |-> NoSession,
   recipient |-> NoSession, uuids |-> TRUE]

ReadEvent(i) ==
  [dest |-> "message", kind |-> "read", id |-> i, session |-> NoSession,
   recipient |-> NoSession, uuids |-> TRUE]

StoragePersistMessage(e) ==
  [dest |-> "storage", kind |-> "persist", id |-> e.id, session |-> NoSession,
   recipient |-> NoSession, uuids |-> e.uuids]

SessionOutgoingEvent(e, s, k) ==
  [dest |-> "session", kind |-> k, id |-> e.id, session |-> s,
   recipient |-> NoSession, uuids |-> TRUE]
----------------------------------------------------------------------------
(***************************************************************************)
(* What the handlers of MessageActor and ChatActor send, in order.         *)
(***************************************************************************)
(* Fault: the message is passed on to the wrong actor. *)
MessageActorSendsToStorage(e) == <<[e EXCEPT !.dest = "storage"]>>

MessageActorSends(e) == <<[e EXCEPT !.dest = "chat"]>>

Echo(e) == SessionOutgoingEvent(e, e.session, "message_delivered")

(* Fault: the recipient's copy is sent to the sender. *)
CopyToSender(e) == SessionOutgoingEvent(e, e.session, "incoming_message")

Copy(e) == SessionOutgoingEvent(e, e.recipient, "incoming_message")

(* Fault: only a message that has a recipient is stored. *)
ChatActorSendsRecipientOnly(e) ==
  IF e.recipient = NoSession THEN <<Echo(e)>>
                             ELSE <<StoragePersistMessage(e), Echo(e), Copy(e)>>

(* Fault: the sender is told before the message is handed to storage. *)
ChatActorSendsEchoFirst(e) ==
  IF e.recipient = NoSession THEN <<Echo(e), StoragePersistMessage(e)>>
                             ELSE <<Echo(e), StoragePersistMessage(e), Copy(e)>>

ChatActorSends(e) ==
  IF e.recipient = NoSession THEN <<StoragePersistMessage(e), Echo(e)>>
                             ELSE <<StoragePersistMessage(e), Echo(e), Copy(e)>>

Sends(e) ==
  IF e.kind # "send" THEN <<>>
  ELSE IF e.dest = "message" THEN MessageActorSends(e)
  ELSE IF e.dest = "chat" THEN ChatActorSends(e)
  ELSE <<>>
----------------------------------------------------------------------------
(* Fault: the scan stops before the last actor. *)
LastIsThird(p) == p >= 3

Last(p) == p = 4

(* workerLoop: the for loop moves on to the next actor, or starts again. *)
Advance(w) ==
  /\ pc' = [pc EXCEPT ![w] = IF Last(pos[w]) THEN "loop" ELSE "scan"]
  /\ pos' = [pos EXCEPT ![w] = IF Last(pos[w]) THEN 1 ELSE pos[w] + 1]
  /\ held' = [held EXCEPT ![w] = NoEnvelope]
  /\ step' = [step EXCEPT ![w] = 1]

(* Fault: the flag is not looked at. *)
ContinuesAnyway == TRUE

Continues == running

(* while (running_.load(acquire)) *)
LoopTest(w) ==
  /\ ~terminated
  /\ pc[w] = "loop"
  /\ pc' = [pc EXCEPT ![w] = IF Continues THEN "scan" ELSE "exited"]
  /\ UNCHANGED <<mailbox, leaked, running, server, pos, held, step,
                 sessionVars, frames, posted, messages, terminated>>

(* Mailbox::pop finds the queue empty and returns nullptr. *)
PopEmpty(w) ==
  /\ ~terminated
  /\ pc[w] = "scan"
  /\ mailbox[Order[pos[w]]] = <<>>
  /\ Advance(w)
  /\ UNCHANGED <<mailbox, leaked, running, server, sessionVars, frames,
                 posted, messages, terminated>>

(* Fault: the envelope is read but stays in the queue. *)
RestAll(q) == q

Rest(q) == Tail(q)

(* Mailbox::pop returns the oldest envelope; handle is called with it. *)
Pop(w) ==
  LET t == Order[pos[w]] IN
  /\ ~terminated
  /\ pc[w] = "scan"
  /\ mailbox[t] # <<>>
  /\ mailbox' = [mailbox EXCEPT ![t] = Rest(@)]
  /\ held' = [held EXCEPT ![w] = Head(mailbox[t])]
  /\ pc' = [pc EXCEPT ![w] = "handle"]
  /\ UNCHANGED <<leaked, running, server, pos, step, sessionVars, frames,
                 posted, messages, terminated>>

(***************************************************************************)
(* MessageActor::handle, ChatActor::handle: the next of the handler's      *)
(* sends.  After the last one the handler returns.                         *)
(***************************************************************************)
Forward(w) ==
  LET out == Sends(held[w]) IN
  /\ ~terminated
  /\ pc[w] = "handle"
  /\ step[w] <= Len(out)
  /\ Send(out[step[w]])
  /\ IF step[w] = Len(out)
       THEN Advance(w)
       ELSE /\ step' = [step EXCEPT ![w] = @ + 1]
            /\ UNCHANGED <<pc, pos, held>>
  /\ UNCHANGED <<running, server, sessionVars, frames, posted, messages,
                 terminated>>

(* Fault: a session is taken for bound once it was accepted. *)
BoundOnce(s) == s \in 1..accepted

Bound(s) == s \in transports

(***************************************************************************)
(* SessionActor::handle for a bound session: under the shared lock the     *)
(* transport is looked up and the payload posted to its strand.            *)
(***************************************************************************)
Deliver(w) ==
  LET e == held[w] IN
  /\ ~terminated
  /\ pc[w] = "handle"
  /\ e.dest = "session"
  /\ e.kind \in OutgoingKind
  /\ Bound(e.session)
  /\ posted' = [posted EXCEPT ![e.session] = Append(@, <<e.id, e.kind>>)]
  /\ Advance(w)
  /\ UNCHANGED <<mailbox, leaked, running, server, sessionVars, frames,
                 messages, terminated>>

(***************************************************************************)
(* A handler that returns without a change of state: the session is not    *)
(* bound, or the payload is one the actor only logs.                       *)
(***************************************************************************)
Ignore(w) ==
  LET e == held[w] IN
  /\ ~terminated
  /\ pc[w] = "handle"
  /\ \/ e.dest = "session" /\ e.kind \notin OutgoingKind
     \/ e.dest = "session" /\ ~Bound(e.session)
     \/ e.dest \in {"message", "chat"} /\ e.kind # "send"
     \/ e.dest = "storage" /\ e.kind # "persist"
  /\ Advance(w)
  /\ UNCHANGED <<mailbox, leaked, running, server, sessionVars, frames,
                 posted, messages, terminated>>

(***************************************************************************)
(* StorageActor::handle: both ids parse and create commits the row.  The   *)
(* connection may be lost before the answer to the commit has come; commit *)
(* throws then, although the row is there.                                 *)
(***************************************************************************)
Store(w) ==
  LET e == held[w] IN
  /\ ~terminated
  /\ pc[w] = "handle"
  /\ e.dest = "storage"
  /\ e.kind = "persist"
  /\ e.uuids
  /\ messages' = Append(messages, e.id)
  /\ Advance(w)
  /\ terminated' \in BOOLEAN
  /\ UNCHANGED <<mailbox, leaked, running, server, sessionVars, frames, posted>>

(***************************************************************************)
(* StorageActor::handle throws and stores nothing: string_generator throws *)
(* for an id that is not a UUID, create for any database error.            *)
(* workerLoop has no handler, the exception leaves the thread and          *)
(* std::terminate ends the process.                                        *)
(***************************************************************************)
StoreThrows(w) ==
  /\ ~terminated
  /\ pc[w] = "handle"
  /\ held[w].dest = "storage"
  /\ held[w].kind = "persist"
  /\ terminated' = TRUE
  /\ UNCHANGED <<mailbox, leaked, running, server, workerVars, sessionVars,
                 frames, posted, messages>>

Worker(w) ==
  \/ LoopTest(w) \/ PopEmpty(w) \/ Pop(w)
  \/ Forward(w) \/ Deliver(w) \/ Ignore(w) \/ Store(w) \/ StoreThrows(w)
----------------------------------------------------------------------------
(* The network threads: handlers run between Server::run and its stop. *)

NetworkUp == ~terminated /\ server = "running"

(* WebSocketListener::onAccept, WebSocketSession::run *)
Accept ==
  /\ NetworkUp
  /\ accepted < MaxSessions
  /\ accepted' = accepted + 1
  /\ handshaking' = handshaking \cup {accepted + 1}
  /\ UNCHANGED <<mailbox, leaked, running, server, workerVars, transports,
                 reading, broken, frames, posted, messages, terminated>>

(* Fault: the transport of a session replaces all others. *)
BindOnly(s) == transports' = {s}

(* SessionActor::bindTransport *)
BindTransport(s) == transports' = transports \cup {s}

(***************************************************************************)
(* WebSocketSession::onAccept, when the handshake is done: the session is  *)
(* bound, then the first read started; after an error nothing is.  The     *)
(* handshakes of several sessions end in any order.                        *)
(***************************************************************************)
OnAccept(s) ==
  /\ NetworkUp
  /\ s \in handshaking
  /\ handshaking' = handshaking \ {s}
  /\ \/ BindTransport(s) /\ reading' = reading \cup {s}
     \/ UNCHANGED <<transports, reading>>
  /\ UNCHANGED <<mailbox, leaked, running, server, workerVars, accepted, broken,
                 frames, posted, messages, terminated>>

(* The envelopes MessageDispatcher::dispatch makes of a frame: one or none. *)
Dispatched(f, i) ==
  CASE f.type = "auth" -> {AuthEvent(i, f.session)}
    [] f.type = "send_message" ->
         {SendMessageEvent(i, f.session, f.recipient, f.uuids)}
    [] f.type = "typing" -> {TypingEvent(i)}
    [] f.type = "message_read" -> {ReadEvent(i)}
    [] OTHER -> {}

(***************************************************************************)
(* WebSocketSession::onRead without error: the frame is dispatched and the *)
(* next read started.  A field of the wrong JSON type makes dispatch throw *)
(* out of io_context::run and of the network thread.                       *)
(***************************************************************************)
OnRead(f) ==
  /\ NetworkUp
  /\ f.session \in reading
  /\ Len(frames) < MaxFrames
  /\ frames' = Append(frames, f)
  /\ \/ \E e \in Dispatched(f, Len(frames) + 1) : Send(e)
     \/ /\ Dispatched(f, Len(frames) + 1) = {}
        /\ UNCHANGED <<mailbox, leaked>>
  /\ terminated' = (f.type = "mistyped")
  /\ UNCHANGED <<running, server, workerVars, sessionVars, posted, messages>>

(* WebSocketSession::onRead with an error: unbound, never read again. *)
OnReadError(s) ==
  /\ NetworkUp
  /\ s \in reading
  /\ reading' = reading \ {s}
  /\ transports' = transports \ {s}
  /\ broken' = broken \cup {s}
  /\ UNCHANGED <<mailbox, leaked, running, server, workerVars, accepted,
                 handshaking, frames, posted, messages, terminated>>

(* WebSocketSession::onWrite with an error: unbound, but still reading. *)
OnWriteError(s) ==
  /\ NetworkUp
  /\ s \in transports
  /\ posted[s] # <<>>
  /\ transports' = transports \ {s}
  /\ broken' = broken \cup {s}
  /\ UNCHANGED <<mailbox, leaked, running, server, workerVars, accepted,
                 handshaking, reading, frames, posted, messages, terminated>>

Network ==
  \/ Accept
  \/ \E f \in ClientFrames : OnRead(f)
  \/ \E s \in Sessions : OnAccept(s) \/ OnReadError(s) \/ OnWriteError(s)
----------------------------------------------------------------------------
(* Server::run: the workers are started, then the network threads. *)
ServerRun ==
  /\ server = "constructed"
  /\ server' = "running"
  /\ running' = TRUE
  /\ pc' = [w \in Workers |-> "loop"]
  /\ UNCHANGED <<mailbox, leaked, pos, held, step, sessionVars, frames,
                 posted, messages, terminated>>

(* Server::stop: networkThreadPool_.stop() has joined the network threads. *)
StopNetwork ==
  /\ ~terminated
  /\ server = "running"
  /\ server' = "net_stopped"
  /\ UNCHANGED <<mailbox, leaked, running, workerVars, sessionVars, frames,
                 posted, messages, terminated>>

(* ActorSystem::stop: running_.exchange(false) *)
StopActors ==
  /\ ~terminated
  /\ server = "net_stopped"
  /\ server' = "joining"
  /\ running' = FALSE
  /\ UNCHANGED <<mailbox, leaked, workerVars, sessionVars, frames, posted,
                 messages, terminated>>

(* Fault: the first worker that is joined ends the wait. *)
SomeExited == \E w \in Workers : pc[w] = "exited"

AllExited == \A w \in Workers : pc[w] = "exited"

(* ActorSystem::stop has joined every worker. *)
Joined ==
  /\ ~terminated
  /\ server = "joining"
  /\ AllExited
  /\ server' = "stopped"
  /\ UNCHANGED <<mailbox, leaked, running, workerVars, sessionVars, frames,
                 posted, messages, terminated>>

Next ==
  \/ ServerRun \/ StopNetwork \/ StopActors \/ Joined
  \/ Network
  \/ \E w \in Workers : Worker(w)

Spec == Init /\ [][Next]_vars

(***************************************************************************)
(* Threads are scheduled: a worker that can take a step takes one, and a   *)
(* stop that was begun goes on.  Nothing is assumed of the network and of  *)
(* the clients: no connection, handshake or frame need ever come.          *)
(***************************************************************************)
Fairness ==
  /\ \A w \in Workers : WF_vars(Worker(w))
  /\ WF_vars(StopActors)
  /\ WF_vars(Joined)

FairSpec == Spec /\ Fairness
----------------------------------------------------------------------------
(***************************************************************************)
(* What becomes of a send_message frame i: it has to be stored, echoed to  *)
(* its sender and shown to its recipient.  An envelope still owes one of   *)
(* these three when it is the envelope of that purpose, or when it is a    *)
(* SendMessageEvent whose handler has not come to that send (n is the next *)
(* send of the handler).                                                   *)
(***************************************************************************)
Purpose == {"persist"} \cup OutgoingKind

SendOf == [persist |-> 1, message_delivered |-> 2, incoming_message |-> 3]

Owes(e, n, i, k) ==
  /\ e.id = i
  /\ \/ e.kind = k
     \/ e.kind = "send" /\ (e.dest = "message" \/ n <= SendOf[k])

(* Every place where purpose k of frame i is pending, done or lost. *)
Places(i, k) ==
  (UNION {{<<"mailbox", t, j>> :
             j \in {n \in DOMAIN mailbox[t] : Owes(mailbox[t][n], 1, i, k)}}
          : t \in ActorType})
  \cup {<<"worker", w>> : w \in {v \in Workers : Owes(held[v], step[v], i, k)}}
  \cup {<<"leaked", e>> : e \in {l \in leaked : Owes(l, 1, i, k)}}
  \cup {<<"row", j>> :
          j \in {n \in DOMAIN messages : k = "persist" /\ messages[n] = i}}
  \cup (UNION {{<<"posted", s, j>> :
                  j \in {n \in DOMAIN posted[s] : posted[s][n] = <<i, k>>}}
               : s \in Sessions})

Submitted == {i \in DOMAIN frames : frames[i].type = "send_message"}

(***************************************************************************)
(* No message is duplicated or forgotten on its way to the table, however  *)
(* many workers share the mailboxes: the duty to store a send_message      *)
(* frame is in exactly one place, and that is a mailbox, a handler, a row, *)
(* or the set of envelopes a full mailbox refused.                         *)
(***************************************************************************)
StoredExactlyOnceOrRefused ==
  \A i \in Submitted :
    \E p \in Places(i, "persist") : Places(i, "persist") = {p}

(***************************************************************************)
(* Neither the echo nor the recipient's copy of a message can be posted    *)
(* twice, although several workers run SessionActor::handle at once.       *)
(***************************************************************************)
ShownAtMostOnce ==
  \A i \in Submitted, k \in OutgoingKind :
    \A p, q \in Places(i, k) : p = q

(***************************************************************************)
(* An actor is only ever handed payloads of its own: each envelope is in   *)
(* the mailbox it is addressed to, and has a kind that actor handles; none *)
(* ends in the silent fall-through of a handler.                           *)
(***************************************************************************)
KindsOf == [session |-> {"auth"} \cup OutgoingKind, chat |-> {"send"},
            message |-> {"send", "typing", "read"}, storage |-> {"persist"}]

AtHome ==
  /\ \A t \in ActorType : \A e \in Range(mailbox[t]) :
       e.dest = t /\ e.kind \in KindsOf[t]
  /\ \A w \in Workers :
       IF pc[w] = "handle"
         THEN /\ held[w] \in Envelope
              /\ held[w].dest = Order[pos[w]]
              /\ held[w].kind \in KindsOf[held[w].dest]
              /\ held[w].dest = "chat" \/ step[w] = 1
         ELSE held[w] = NoEnvelope /\ step[w] = 1

(***************************************************************************)
(* ChatActor::handle sends the persist envelope before it tells anyone: as *)
(* soon as an echo or an incoming_message of frame i exists, its persist   *)
(* envelope is with the storage actor, stored, or refused.  (That it is    *)
(* stored by then, or ever will be, is not implied.)                       *)
(***************************************************************************)
Told(i) ==
  \/ \E e \in Range(mailbox["session"]) : e.id = i /\ e.kind \in OutgoingKind
  \/ \E w \in Workers : held[w].id = i /\ held[w].kind \in OutgoingKind
  \/ \E s \in Sessions : \E p \in Range(posted[s]) : p[1] = i

HandedToStorage(i) ==
  \/ \E e \in Range(mailbox["storage"]) : e.id = i
  \/ \E w \in Workers : held[w].id = i /\ held[w].kind = "persist"
  \/ i \in Range(messages)
  \/ \E e \in leaked : e.id = i /\ e.kind = "persist"

ToldAfterHandedToStorage == \A i \in Ids : Told(i) => HandedToStorage(i)

(* Its inductive form: the handler that is about to tell has handed over. *)
AboutToTell(i) ==
  \E w \in Workers : held[w].id = i /\ held[w].dest = "chat" /\ step[w] > 1

ToldInv == \A i \in Ids : Told(i) \/ AboutToTell(i) => HandedToStorage(i)

(***************************************************************************)
(* A payload is posted only to the session whose frame it echoes or to the *)
(* session that frame names, through all the hops between the actors.      *)
(***************************************************************************)
RightSession(f, k) ==
  IF k = "message_delivered" THEN f.session ELSE f.recipient

PostedToTheRightSession ==
  \A s \in Sessions : \A p \in Range(posted[s]) :
    p[1] \in Submitted /\ s = RightSession(frames[p[1]], p[2])

(***************************************************************************)
(* Its inductive form: an envelope in a mailbox or a handler carries the   *)
(* sessions of the frame it descends from.                                 *)
(***************************************************************************)
Genuine(fs, e) ==
  /\ e.kind \in {"send"} \cup OutgoingKind =>
       e.id \in DOMAIN fs /\ fs[e.id].type = "send_message"
  /\ e.kind = "send" => /\ e.session = fs[e.id].session
                        /\ e.recipient = fs[e.id].recipient
  /\ e.kind \in OutgoingKind => e.session = RightSession(fs[e.id], e.kind)

OriginInv ==
  /\ \A t \in ActorType : \A e \in Range(mailbox[t]) : Genuine(frames, e)
  /\ \A w \in Workers : Genuine(frames, held[w])
  /\ PostedToTheRightSession

(***************************************************************************)
(* With a single worker thread the pipeline is a chain of FIFO queues:     *)
(* rows are written, and payloads posted to each session, in the order the *)
(* frames were read.  (With two workers neither holds.)                    *)
(***************************************************************************)
SingleWorker == \E w \in Workers : Workers = {w}

SingleWorkerInOrder ==
  SingleWorker =>
    /\ \A m, n \in DOMAIN messages : m < n => messages[m] < messages[n]
    /\ \A s \in Sessions : \A m, n \in DOMAIN posted[s] :
         m < n => posted[s][m][1] <= posted[s][n][1]

(***************************************************************************)
(* The pipeline as its clients see it: the actors, mailboxes and workers   *)
(* implement MessageLife.                                                  *)
(***************************************************************************)
WithStorage ==
  {i \in Ids : \/ \E e \in Range(mailbox["storage"]) : e.id = i
               \/ \E w \in Workers : held[w].id = i /\ held[w].kind = "persist"
               \/ i \in Range(messages)}

RefusedIds ==
  {i \in Ids : \E e \in leaked : e.id = i /\ e.kind \in {"send", "persist"}}

ToldOf == {p \in Ids \X OutgoingKind : \E s \in Sessions : p \in Range(posted[s])}

Halted == terminated \/ server = "stopped"

Life == INSTANCE MessageLife
          WITH Id <- Ids, Notice <- OutgoingKind, read <- Submitted,
               handed <- WithStorage, refused <- RefusedIds, rows <- messages,
               told <- ToldOf, halted <- Halted

(***************************************************************************)
(* Every step of the code is one step in the life of one message, or none  *)
(* that a client could see, however many workers share the mailboxes.      *)
(***************************************************************************)
ImplementsLife == Life!Spec

(***************************************************************************)
(* A session that was bound and then unbound by a failed read or write     *)
(* stays so: ids are never handed out twice, and no late handshake binds   *)
(* it.  No worker posts to it any more, whatever is still in the           *)
(* mailboxes.                                                              *)
(***************************************************************************)
UnboundForGood ==
  [][\A s \in broken : s \notin transports' /\ posted'[s] = posted[s]]_vars

(***************************************************************************)
(* The echo of a message is pending, posted or refused by a full mailbox,  *)
(* or else the read or the write of its session has failed: SessionActor   *)
(* never misses the sender, whose frames are read only after it was bound. *)
(* (A recipient is missed also while its handshake lasts.)                 *)
(***************************************************************************)
EchoedUnlessBroken ==
  \A i \in Submitted :
    Places(i, "message_delivered") = {} => frames[i].session \in broken

(***************************************************************************)
(* Its inductive form, and that of the property before it: ids are handed  *)
(* out in order, only a session that was bound is read from or breaks, and *)
(* it is in one of these states at a time.                                 *)
(***************************************************************************)
SessionInv ==
  /\ handshaking \cup transports \cup broken \subseteq 1..accepted
  /\ handshaking \cap (transports \cup broken) = {}
  /\ broken \cap transports = {}
  /\ reading \subseteq transports \cup broken
  /\ \A i \in DOMAIN frames : frames[i].session \in transports \cup broken

(***************************************************************************)
(* When Server::stop has returned nothing touches the actors any more, so  *)
(* that ~Server may destroy them.                                          *)
(***************************************************************************)
StillAfterStop == [][server # "stopped"]_vars

(***************************************************************************)
(* A message read while the server is up is stored, or refused on its way  *)
(* by a full mailbox, unless the server stops or terminates first: no      *)
(* worker skips a mailbox for ever.                                        *)
(***************************************************************************)
Settled(i) ==
  \/ i \in Range(messages)
  \/ \E e \in leaked : e.id = i /\ e.kind \in {"send", "persist"}

EventuallySettled ==
  \A i \in Ids : (i \in Submitted) ~>
                   (Settled(i) \/ terminated \/ server # "running")

(***************************************************************************)
(* Once the network threads are joined ActorSystem::stop returns: every    *)
(* worker leaves its loop and is joined.                                   *)
(***************************************************************************)
StopReturns == (server = "net_stopped") ~> (server = "stopped" \/ terminated)

(***************************************************************************)
(* What README.md says of StorageActor: it persists the messages of the    *)
(* pipeline.  Read by a client: a message reported as message_delivered is *)
(* stored in the end, unless the server stops or terminates.  The code     *)
(* drops the persist envelope when the storage mailbox is full.            *)
(***************************************************************************)
DeliveredIsStored ==
  \A i \in Ids :
    (\E s \in Sessions : <<i, "message_delivered">> \in Range(posted[s]))
    ~> ((i \in Range(messages))
        \/ terminated \/ server # "running")

(***************************************************************************)
(* What the error branch of StorageActor::handle says: a message that      *)
(* cannot be persisted is logged and the server goes on.  create has no    *)
(* result but true; every failure is an exception that nobody catches.     *)
(***************************************************************************)
FailedPersistIsSurvived ==
  [][terminated' => terminated \/ \A w \in Workers : held[w].kind # "persist"]_vars
============================================================================
