--------------------------- MODULE SessionManager --------------------------
(***************************************************************************)
(* The direct delivery path of infrastructure/websocket: sessions that     *)
(* authenticate enter the directory SessionManager under the name of their *)
(* user; MessageDispatcher stores a message and hands it to the session it *)
(* finds there.  The directory holds weak pointers.  Each session runs its *)
(* handlers on a strand of its own; the strands run in parallel and meet   *)
(* in the directory only, so a handler is cut at each access to it.        *)
(*                                                                         *)
(* The outgoing queue of a session is the one of WebSocketSession, where   *)
(* its order is examined.  Here the queues are reduced to their lengths.   *)
(***************************************************************************)
EXTENDS Naturals, Sequences

CONSTANTS
  Sessions,   \* the WebSocket connections
  Users,      \* user ids
  NoSession,  \* nullptr
  NoUser,     \* the empty user id
  MaxFrames   \* bound: client frames that are answered or acted on

ASSUME DirectoryAssumption ==
  /\ NoSession \notin Sessions
  /\ NoUser \notin Users
  /\ MaxFrames \in Nat

VARIABLES
  sessions,    \* SessionManager::sessions_, which session is user's
  userId,      \* userId_ of each session
  reader,      \* where the read side of each session is
  held,        \* the message its handler works on
  found,       \* the recipient its handler holds a shared_ptr to
  posted,      \* functions posted to its strand by sendText
  writeQueue,  \* length of writeQueue_
  writing,     \* an async_write is outstanding
  frames,      \* frames read so far
  sent,        \* history: sender session and addressee of each message
  messages,    \* the messages that are stored
  everAs,      \* history: the users each session authenticated as
  shown,       \* history: the messages posted to each session
  crashed      \* an exception left a handler

directory == <<sessions, userId, everAs>>
outgoing == <<posted, writeQueue, writing>>
traffic == <<sent, messages, shown>>
handler == <<held, found>>
vars == <<directory, outgoing, traffic, handler, reader, frames, crashed>>

Ids == 1..MaxFrames
InHandler == {"finding", "found"}

Init ==
  /\ sessions = [u \in Users |-> NoSession]
  /\ userId = [s \in Sessions |-> NoUser]
  /\ everAs = [s \in Sessions |-> {}]
  /\ posted = [s \in Sessions |-> 0]
  /\ writeQueue = [s \in Sessions |-> 0]
  /\ writing = [s \in Sessions |-> FALSE]
  /\ sent = <<>>
  /\ messages = {}
  /\ shown = [s \in Sessions |-> {}]
  /\ held = [s \in Sessions |-> 0]
  /\ found = [s \in Sessions |-> NoSession]
  /\ reader = [s \in Sessions |-> "none"]
  /\ frames = 0
  /\ crashed = FALSE

(***************************************************************************)
(* A session lives as long as a handler of its own holds shared_from_this, *)
(* pending or running, or another handler holds what findSession returned. *)
(***************************************************************************)
Alive(s) ==
  \/ reader[s] \in {"accepting", "reading"} \cup InHandler
  \/ writing[s]
  \/ posted[s] > 0
  \/ \E t \in Sessions : found[t] = s

(* Its strand is not busy with dispatchMessage. *)
StrandFree(s) == ~crashed /\ reader[s] \notin InHandler
----------------------------------------------------------------------------
(* WebSocketListener::onAccept, WebSocketSession::run *)
Accept(s) ==
  /\ ~crashed
  /\ reader[s] = "none"
  /\ reader' = [reader EXCEPT ![s] = "accepting"]
  /\ UNCHANGED <<directory, outgoing, traffic, handler, frames, crashed>>

(* The handshake; onAccept with an error returns without close. *)
OnAccept(s) ==
  /\ ~crashed
  /\ reader[s] = "accepting"
  /\ reader' \in {[reader EXCEPT ![s] = "reading"], [reader EXCEPT ![s] = "closed"]}
  /\ UNCHANGED <<directory, outgoing, traffic, handler, frames, crashed>>

(* Fault: the session is registered before it knows its user. *)
RegisterSessionFirst(u, s) ==
  sessions' = IF userId[s] = NoUser THEN sessions ELSE [sessions EXCEPT ![userId[s]] = s]

(* SessionManager::registerSession, removeSession *)
RegisterSession(u, s) == sessions' = [sessions EXCEPT ![u] = s]
RemoveSession(u) == sessions' = [sessions EXCEPT ![u] = NoSession]

(* Fault: the message may not be stored, and nobody looks. *)
ExecuteUnchecked(n) == messages' \in {messages, messages \cup {n}}

(* SendMessageUseCase::execute with a text: create returns true or throws *)
Execute(n) == messages' = messages \cup {n}

(* sendText *)
SendText(s) == posted' = [posted EXCEPT ![s] = @ + 1]

(* onRead has a frame, which it gives to dispatchMessage. *)
Reads(s) ==
  /\ ~crashed
  /\ reader[s] = "reading"
  /\ frames < MaxFrames
  /\ frames' = frames + 1

(***************************************************************************)
(* One reply and nothing else: invalid JSON, ping, an unsupported type,    *)
(* auth without user_id, send_message without chat_id or text, and every   *)
(* send_message of a session that did not authenticate.                    *)
(***************************************************************************)
OnReadReply(s) ==
  /\ Reads(s)
  /\ SendText(s)
  /\ UNCHANGED <<directory, writeQueue, writing, traffic, handler, reader, crashed>>

(* typing and message_read are only logged. *)
OnReadLogged(s) ==
  /\ Reads(s)
  /\ UNCHANGED <<directory, outgoing, traffic, handler, reader, crashed>>

(***************************************************************************)
(* A frame that is no JSON object or has a field of the wrong type, an id  *)
(* that is not a UUID, and a failed insert throw through onRead.           *)
(***************************************************************************)
OnReadThrows(s) ==
  /\ Reads(s)
  /\ crashed' = TRUE
  /\ UNCHANGED <<directory, outgoing, traffic, handler, reader>>

(* handleAuth: setUserId, registerSession, auth_ok *)
HandleAuth(s, u) ==
  /\ Reads(s)
  /\ userId' = [userId EXCEPT ![s] = u]
  /\ RegisterSession(u, s)
  /\ everAs' = [everAs EXCEPT ![s] = @ \cup {u}]
  /\ SendText(s)
  /\ UNCHANGED <<writeQueue, writing, traffic, handler, reader, crashed>>
----------------------------------------------------------------------------
(***************************************************************************)
(* handleSendMessage up to findSession: the message is stored and          *)
(* message_delivered is sent to the sender.  The answer "message not       *)
(* stored" is never given: the text is not empty here.                     *)
(***************************************************************************)
HandleSendMessage(s, to) ==
  LET n == Len(sent) + 1 IN
  /\ Reads(s)
  /\ userId[s] # NoUser
  /\ sent' = Append(sent, [session |-> s, to |-> to])
  /\ Execute(n)
  /\ SendText(s)
  /\ shown' = [shown EXCEPT ![s] = @ \cup {n}]
  /\ held' = [held EXCEPT ![s] = n]
  /\ reader' = [reader EXCEPT ![s] = IF to = NoUser THEN @ ELSE "finding"]
  /\ UNCHANGED <<directory, writeQueue, writing, found, crashed>>

(* Fault: the directory is searched for the sender. *)
RecipientIsSender(s) == userId[s]

Recipient(s) == sent[held[s]].to

(* Fault: the directory holds plain pointers. *)
LocksDangling(r) == r # NoSession

(* weak_ptr::lock *)
Locks(r) == r # NoSession /\ Alive(r)

(* SessionManager::findSession: the entry, if its weak_ptr can be locked *)
FindSession(s) ==
  LET r == sessions[Recipient(s)] IN
  /\ ~crashed
  /\ reader[s] = "finding"
  /\ IF Locks(r)
       THEN /\ found' = [found EXCEPT ![s] = r]
            /\ reader' = [reader EXCEPT ![s] = "found"]
       ELSE /\ reader' = [reader EXCEPT ![s] = "reading"]
            /\ UNCHANGED found
  /\ UNCHANGED <<directory, outgoing, traffic, held, frames, crashed>>

(* recipient->sendText, and the next doRead *)
SendToRecipient(s) ==
  /\ ~crashed
  /\ reader[s] = "found"
  /\ SendText(found[s])
  /\ shown' = [shown EXCEPT ![found[s]] = @ \cup {held[s]}]
  /\ found' = [found EXCEPT ![s] = NoSession]
  /\ reader' = [reader EXCEPT ![s] = "reading"]
  /\ UNCHANGED <<directory, writeQueue, writing, sent, messages, held, frames, crashed>>
----------------------------------------------------------------------------
(* Fault: the entry is not removed. *)
CloseOnly(s) == UNCHANGED sessions

(* close: removeSession, whichever session is registered for the user *)
Close(s) ==
  IF userId[s] = NoUser THEN UNCHANGED sessions ELSE RemoveSession(userId[s])

(* onRead with an error or after the closing handshake: no further read *)
OnReadError(s) ==
  /\ ~crashed
  /\ reader[s] = "reading"
  /\ Close(s)
  /\ reader' = [reader EXCEPT ![s] = "closed"]
  /\ UNCHANGED <<userId, everAs, outgoing, traffic, handler, frames, crashed>>

(* The function posted by sendText: a write is started if none is queued. *)
RunPosted(s) ==
  /\ StrandFree(s)
  /\ posted[s] > 0
  /\ posted' = [posted EXCEPT ![s] = @ - 1]
  /\ writeQueue' = [writeQueue EXCEPT ![s] = @ + 1]
  /\ writing' = [writing EXCEPT ![s] = @ \/ writeQueue[s] = 0]
  /\ UNCHANGED <<directory, traffic, handler, reader, frames, crashed>>

WritesOn(s) == writeQueue[s] > 1

(* onWrite *)
OnWrite(s) ==
  /\ StrandFree(s)
  /\ writing[s]
  /\ writeQueue' = [writeQueue EXCEPT ![s] = @ - 1]
  /\ writing' = [writing EXCEPT ![s] = WritesOn(s)]
  /\ UNCHANGED <<directory, posted, traffic, handler, reader, frames, crashed>>

(* onWrite with an error: close, but the read goes on *)
OnWriteError(s) ==
  /\ StrandFree(s)
  /\ writing[s]
  /\ writing' = [writing EXCEPT ![s] = FALSE]
  /\ Close(s)
  /\ UNCHANGED <<userId, everAs, posted, writeQueue, traffic, handler, reader, frames, crashed>>

Next ==
  \E s \in Sessions :
    \/ Accept(s) \/ OnAccept(s)
    \/ OnReadReply(s) \/ OnReadLogged(s) \/ OnReadThrows(s) \/ OnReadError(s)
    \/ \E u \in Users : HandleAuth(s, u)
    \/ \E to \in Users \cup {NoUser} : HandleSendMessage(s, to)
    \/ FindSession(s) \/ SendToRecipient(s)
    \/ RunPosted(s) \/ OnWrite(s) \/ OnWriteError(s)

Spec == Init /\ [][Next]_vars
----------------------------------------------------------------------------
(***************************************************************************)
(* Types; and an async_write is outstanding only while its buffer, the     *)
(* front of writeQueue_, exists.                                           *)
(***************************************************************************)
TypeOK ==
  /\ sessions \in [Users -> Sessions \cup {NoSession}]
  /\ userId \in [Sessions -> Users \cup {NoUser}]
  /\ everAs \in [Sessions -> SUBSET Users]
  /\ posted \in [Sessions -> Nat]
  /\ writeQueue \in [Sessions -> Nat]
  /\ writing \in [Sessions -> BOOLEAN]
  /\ \A s \in Sessions : writing[s] => writeQueue[s] > 0
  /\ sent \in Seq([session : Sessions, to : Users \cup {NoUser}])
  /\ messages \in SUBSET Ids
  /\ shown \in [Sessions -> SUBSET Ids]
  /\ held \in [Sessions -> Ids \cup {0}]
  /\ found \in [Sessions -> Sessions \cup {NoSession}]
  /\ reader \in [Sessions -> {"none", "accepting", "reading", "closed"} \cup InHandler]
  /\ frames \in 0..MaxFrames
  /\ crashed \in BOOLEAN

(* handleSendMessage shows a message to nobody before it is stored. *)
ShownIsStored == \A s \in Sessions : shown[s] \subseteq messages

(***************************************************************************)
(* A message goes to the session that sent it and to sessions that         *)
(* authenticated as its addressee, however sessions of one user replace    *)
(* each other, change their user and close while findSession looks.        *)
(***************************************************************************)
ShownToItsUser ==
  \A s \in Sessions : \A n \in shown[s] :
    sent[n].session = s \/ sent[n].to \in everAs[s]

(* A session that stopped reading is not in the directory under its user. *)
ClosedIsForgotten ==
  \A s \in Sessions :
    reader[s] = "closed" /\ userId[s] # NoUser => sessions[userId[s]] # s

(* The session was not closed: it reads, and no write of it failed. *)
Working(s) == reader[s] # "closed" /\ (writing[s] \/ writeQueue[s] = 0)

(***************************************************************************)
(* A user who has a working session is found, and at a session of their    *)
(* own, however their sessions replace each other and change their user.   *)
(* The one exception: another session that authenticated as the user was   *)
(* closed, since close removes the entry also when it is not its own.      *)
(***************************************************************************)
FoundUnlessAnotherClosed ==
  \A u \in Users, s \in Sessions : u \in everAs[s] /\ Working(s) =>
    \E t \in Sessions : u \in everAs[t] /\ (sessions[u] = t \/ ~Working(t))

(* Nothing happens to a session that was destroyed. *)
Freed(s) == reader[s] = "closed" /\ ~Alive(s)
FreedForGood == [][\A s \in Sessions : Freed(s) => Freed(s)']_vars
============================================================================
