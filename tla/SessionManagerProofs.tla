------------------------ MODULE SessionManagerProofs -----------------------
(***************************************************************************)
(* Proofs about SessionManager, for any sessions, users and frames.  The   *)
(* properties of the directory and of the messages shown are proved from   *)
(* one inductive invariant; that a destroyed session is left alone is a    *)
(* property of single steps.                                               *)
(***************************************************************************)
EXTENDS SessionManager, TLAPS

(* The abbreviations that every proof sees through. *)
USE DEF RegisterSession, RemoveSession, Execute, SendText, Recipient, Locks, WritesOn

(***************************************************************************)
(* Whom the directory knows: a session is entered only under users that it *)
(* authenticated as, and not before it reads.                              *)
(***************************************************************************)
EntryInv ==
  /\ \A s \in Sessions : userId[s] # NoUser => userId[s] \in everAs[s]
  /\ \A u \in Users : sessions[u] # NoSession => u \in everAs[sessions[u]]
  /\ \A s \in Sessions : reader[s] \in {"none", "accepting"} => userId[s] = NoUser

(***************************************************************************)
(* What a handler works on: a message that is stored and has an addressee, *)
(* and in the end a session that authenticated as that addressee.          *)
(***************************************************************************)
HandlerInv ==
  /\ \A s \in Sessions : reader[s] \in InHandler =>
       held[s] \in messages /\ held[s] \in DOMAIN sent /\ sent[held[s]].to \in Users
  /\ \A s \in Sessions : reader[s] = "found" =>
       found[s] \in Sessions /\ sent[held[s]].to \in everAs[found[s]]
  /\ \A s \in Sessions : shown[s] \subseteq DOMAIN sent

DirectoryInv ==
  /\ TypeOK /\ Len(sent) <= frames
  /\ EntryInv /\ HandlerInv
  /\ ShownIsStored /\ ShownToItsUser /\ ClosedIsForgotten /\ FoundUnlessAnotherClosed

(* The initial state: nobody is connected. *)
LEMMA InitDirectory == Init => DirectoryInv
<1>. SUFFICES ASSUME Init PROVE DirectoryInv OBVIOUS
<1>1. TypeOK /\ Len(sent) <= frames
  <2>1. /\ sent \in Seq([session : Sessions, to : Users \cup {NoUser}]) /\ Len(sent) = 0
        /\ frames = 0 /\ frames \in 0..MaxFrames
    BY DirectoryAssumption DEF Init
  <2>2. /\ everAs \in [Sessions -> SUBSET Users] /\ shown \in [Sessions -> SUBSET Ids]
        /\ messages \in SUBSET Ids
    BY DEF Init
  <2>3. /\ sessions \in [Users -> Sessions \cup {NoSession}]
        /\ userId \in [Sessions -> Users \cup {NoUser}]
        /\ found \in [Sessions -> Sessions \cup {NoSession}]
        /\ held \in [Sessions -> Ids \cup {0}]
        /\ posted \in [Sessions -> Nat] /\ writeQueue \in [Sessions -> Nat]
    BY DEF Init
  <2>4. /\ writing \in [Sessions -> BOOLEAN] /\ crashed \in BOOLEAN
        /\ \A s \in Sessions : writing[s] => writeQueue[s] > 0
        /\ reader \in [Sessions -> {"none", "accepting", "reading", "closed"} \cup InHandler]
    BY DEF Init, InHandler
  <2>. QED BY <2>1, <2>2, <2>3, <2>4 DEF TypeOK
<1>2. EntryInv /\ HandlerInv BY DEF Init, EntryInv, HandlerInv, InHandler
<1>3. ShownIsStored /\ ShownToItsUser BY DEF Init, ShownIsStored, ShownToItsUser
<1>4. ClosedIsForgotten /\ FoundUnlessAnotherClosed
  BY DEF Init, ClosedIsForgotten, FoundUnlessAnotherClosed
<1>. QED BY <1>1, <1>2, <1>3, <1>4 DEF DirectoryInv

(* A step that keeps the directory and repairs no session. *)
LEMMA FoundIsKept ==
  ASSUME FoundUnlessAnotherClosed, UNCHANGED <<sessions, everAs>>,
         \A t \in Sessions : Working(t)' => Working(t)
  PROVE  FoundUnlessAnotherClosed'
<1>. SUFFICES ASSUME NEW u \in Users, NEW s \in Sessions, u \in everAs'[s], Working(s)'
              PROVE  \E t \in Sessions :
                       u \in everAs'[t] /\ (sessions'[u] = t \/ ~Working(t)')
  BY Zenon DEF FoundUnlessAnotherClosed
<1>1. u \in everAs[s] /\ Working(s) OBVIOUS
<1>2. PICK t \in Sessions : u \in everAs[t] /\ (sessions[u] = t \/ ~Working(t))
  BY <1>1, Zenon DEF FoundUnlessAnotherClosed
<1>. QED BY <1>2

(* A session is accepted. *)
LEMMA AcceptStep ==
  ASSUME DirectoryInv, NEW s \in Sessions, Accept(s) \/ OnAccept(s)
  PROVE  DirectoryInv'
<1>. USE DirectoryAssumption
     DEF DirectoryInv, TypeOK, InHandler, directory, outgoing, traffic, handler,
         Accept, OnAccept
<1>1. TypeOK' OBVIOUS
<1>2. (Len(sent) <= frames)' OBVIOUS
<1>3. EntryInv' BY DEF EntryInv
<1>4. HandlerInv' BY DEF HandlerInv
<1>5. ShownIsStored' BY DEF ShownIsStored, HandlerInv
<1>6. ShownToItsUser' BY DEF ShownToItsUser, HandlerInv
<1>7. ClosedIsForgotten' BY DEF ClosedIsForgotten, EntryInv
<1>8. FoundUnlessAnotherClosed'
  <2>1. \A t \in Sessions : Working(t)' => Working(t) BY DEF Working
  <2>. QED BY <2>1, FoundIsKept
<1>. QED BY <1>1, <1>2, <1>3, <1>4, <1>5, <1>6, <1>7, <1>8

(* A frame that changes neither the directory nor the messages. *)
LEMMA ReplyStep ==
  ASSUME DirectoryInv, NEW s \in Sessions, OnReadReply(s) \/ OnReadLogged(s) \/ OnReadThrows(s)
  PROVE  DirectoryInv'
<1>. USE DirectoryAssumption
     DEF DirectoryInv, TypeOK, InHandler, directory, outgoing, traffic, handler,
         OnReadReply, OnReadLogged, OnReadThrows, Reads
<1>1. TypeOK'
  <2>1. frames' \in 0..MaxFrames OBVIOUS
  <2>2. posted' \in [Sessions -> Nat] OBVIOUS
  <2>3. crashed' \in BOOLEAN OBVIOUS
  <2>. QED BY <2>1, <2>2, <2>3
<1>2. (Len(sent) <= frames)' OBVIOUS
<1>3. EntryInv' BY DEF EntryInv
<1>4. HandlerInv' BY DEF HandlerInv
<1>5. ShownIsStored' BY DEF ShownIsStored, HandlerInv
<1>6. ShownToItsUser' BY DEF ShownToItsUser, HandlerInv
<1>7. ClosedIsForgotten' BY DEF ClosedIsForgotten, EntryInv
<1>8. FoundUnlessAnotherClosed'
  <2>1. \A t \in Sessions : Working(t)' => Working(t) BY DEF Working
  <2>. QED BY <2>1, FoundIsKept
<1>. QED BY <1>1, <1>2, <1>3, <1>4, <1>5, <1>6, <1>7, <1>8

(* handleAuth enters the session under its new user. *)
LEMMA AuthStep ==
  ASSUME DirectoryInv, NEW s \in Sessions, NEW u \in Users, HandleAuth(s, u)
  PROVE  DirectoryInv'
<1>. USE DirectoryAssumption
     DEF DirectoryInv, TypeOK, InHandler, directory, outgoing, traffic, handler,
         HandleAuth, Reads
<1>1. TypeOK' OBVIOUS
<1>2. (Len(sent) <= frames)' OBVIOUS
<1>3. EntryInv' BY DEF EntryInv
<1>4. HandlerInv' BY DEF HandlerInv
<1>5. ShownIsStored' BY DEF ShownIsStored, HandlerInv
<1>6. ShownToItsUser' BY DEF ShownToItsUser, HandlerInv
<1>7. ClosedIsForgotten' BY DEF ClosedIsForgotten, EntryInv
<1>8. FoundUnlessAnotherClosed'
  <2>. SUFFICES ASSUME NEW v \in Users, NEW t \in Sessions, v \in everAs'[t], Working(t)'
                PROVE  \E r \in Sessions :
                         v \in everAs'[r] /\ (sessions'[v] = r \/ ~Working(r)')
    BY Zenon DEF FoundUnlessAnotherClosed
  <2>1. CASE v = u
    <3>1. v \in everAs'[s] /\ sessions'[v] = s BY <2>1
    <3>. QED BY <3>1
  <2>2. CASE v # u
    <3>1. \A r \in Sessions : v \in everAs[r] <=> v \in everAs'[r] BY <2>2
    <3>2. \A r \in Sessions : Working(r)' <=> Working(r) BY DEF Working
    <3>3. PICK r \in Sessions : v \in everAs[r] /\ (sessions[v] = r \/ ~Working(r))
      BY <3>1, <3>2, Zenon DEF FoundUnlessAnotherClosed
    <3>4. sessions'[v] = sessions[v] BY <2>2
    <3>. QED BY <3>1, <3>2, <3>3, <3>4, Zenon
  <2>. QED BY <2>1, <2>2
<1>. QED BY <1>1, <1>2, <1>3, <1>4, <1>5, <1>6, <1>7, <1>8

(* findSession gives a session of the addressee, or none. *)
LEMMA FindStep ==
  ASSUME DirectoryInv, NEW s \in Sessions, FindSession(s)
  PROVE  DirectoryInv'
<1>. USE DirectoryAssumption
     DEF DirectoryInv, TypeOK, InHandler, directory, outgoing, traffic, handler,
         FindSession
<1>0. /\ reader[s] = "finding" /\ held[s] \in DOMAIN sent /\ sent[held[s]].to \in Users
      /\ sessions[sent[held[s]].to] \in Sessions \cup {NoSession}
  BY DEF HandlerInv
<1>1. TypeOK'
  <2>1. found' \in [Sessions -> Sessions \cup {NoSession}] BY <1>0
  <2>2. \/ reader' = [reader EXCEPT ![s] = "found"]
        \/ reader' = [reader EXCEPT ![s] = "reading"]
    OBVIOUS
  <2>3. reader' \in [Sessions -> {"none", "accepting", "reading", "closed"} \cup InHandler]
    BY <2>2, ZenonT(60)
  <2>. QED BY <2>1, <2>3
<1>2. (Len(sent) <= frames)' OBVIOUS
<1>3. EntryInv' BY DEF EntryInv
<1>4. HandlerInv'
  <2>1. \A t \in Sessions : reader'[t] \in InHandler => reader[t] \in InHandler OBVIOUS
  <2>2. ASSUME NEW t \in Sessions, reader'[t] = "found"
        PROVE  found'[t] \in Sessions /\ sent[held[t]].to \in everAs[found'[t]]
    <3>1. CASE t = s
      <4>1. found'[s] = sessions[sent[held[s]].to] /\ found'[s] # NoSession BY <2>2, <3>1, <1>0
      <4>. QED BY <1>0, <3>1, <4>1 DEF EntryInv
    <3>2. CASE t # s
      <4>1. reader[t] = "found" /\ found'[t] = found[t] BY <2>2, <3>2
      <4>. QED BY <4>1 DEF HandlerInv
    <3>. QED BY <3>1, <3>2
  <2>. QED BY <2>1, <2>2 DEF HandlerInv
<1>5. ShownIsStored' BY DEF ShownIsStored, HandlerInv
<1>6. ShownToItsUser' BY DEF ShownToItsUser, HandlerInv
<1>7. ClosedIsForgotten' BY DEF ClosedIsForgotten, EntryInv
<1>8. FoundUnlessAnotherClosed'
  <2>1. \A t \in Sessions : Working(t)' => Working(t) BY DEF Working
  <2>. QED BY <2>1, FoundIsKept
<1>. QED BY <1>1, <1>2, <1>3, <1>4, <1>5, <1>6, <1>7, <1>8

(* The write side of a session starts no write of an empty queue. *)
LEMMA WriteEffect ==
  ASSUME TypeOK, NEW s \in Sessions, RunPosted(s) \/ OnWrite(s)
  PROVE  \E b \in BOOLEAN, q \in Nat, p \in Nat :
           /\ posted' = [posted EXCEPT ![s] = p]
           /\ writeQueue' = [writeQueue EXCEPT ![s] = q]
           /\ writing' = [writing EXCEPT ![s] = b]
           /\ b => q > 0
           /\ b \/ q = 0 => writing[s] \/ writeQueue[s] = 0
<1>0. /\ writeQueue[s] \in Nat /\ posted[s] \in Nat
      /\ posted = [posted EXCEPT ![s] = posted[s]]
  BY DEF TypeOK
<1>1. CASE RunPosted(s)
  <2>. DEFINE b == writing[s] \/ writeQueue[s] = 0
              q == writeQueue[s] + 1
              p == posted[s] - 1
  <2>1. b \in BOOLEAN OBVIOUS
  <2>2. p \in Nat /\ q \in Nat /\ q > 0 BY <1>0, <1>1 DEF RunPosted
  <2>3. /\ posted' = [posted EXCEPT ![s] = p]
        /\ writeQueue' = [writeQueue EXCEPT ![s] = q]
        /\ writing' = [writing EXCEPT ![s] = b]
    BY <1>1, Zenon DEF RunPosted
  <2>4. q # 0 BY <1>0
  <2>5. b \/ q = 0 => writing[s] \/ writeQueue[s] = 0 BY <2>4
  <2>. HIDE DEF b, q, p
  <2>. QED BY <2>1, <2>2, <2>3, <2>5
<1>2. CASE OnWrite(s)
  <2>. DEFINE b == writeQueue[s] > 1
              q == writeQueue[s] - 1
  <2>0. writing[s] BY <1>2 DEF OnWrite
  <2>1. b \in BOOLEAN OBVIOUS
  <2>2. writeQueue[s] > 0 BY <2>0 DEF TypeOK
  <2>3. q \in Nat /\ (b => q > 0) BY <1>0, <2>2
  <2>4. /\ posted' = posted
        /\ writeQueue' = [writeQueue EXCEPT ![s] = q]
        /\ writing' = [writing EXCEPT ![s] = b]
    BY <1>2, Zenon DEF OnWrite
  <2>. HIDE DEF b, q
  <2>. QED BY <1>0, <2>0, <2>1, <2>3, <2>4
<1>. QED BY <1>1, <1>2

(* The write side of a session. *)
LEMMA WriteStep ==
  ASSUME DirectoryInv, NEW s \in Sessions, RunPosted(s) \/ OnWrite(s)
  PROVE  DirectoryInv'
<1>. USE DirectoryAssumption
     DEF DirectoryInv, TypeOK, InHandler, directory, outgoing, traffic, handler,
         RunPosted, OnWrite, StrandFree
<1>0. /\ UNCHANGED <<sessions, userId, everAs, sent, messages, shown, held, found>>
      /\ UNCHANGED <<reader, frames, crashed>>
  OBVIOUS
<1>a. PICK b \in BOOLEAN, q \in Nat, p \in Nat :
           /\ posted' = [posted EXCEPT ![s] = p]
           /\ writeQueue' = [writeQueue EXCEPT ![s] = q]
           /\ writing' = [writing EXCEPT ![s] = b]
           /\ b => q > 0
           /\ b \/ q = 0 => writing[s] \/ writeQueue[s] = 0
  BY WriteEffect
<1>. HIDE DEF RunPosted, OnWrite
<1>1. TypeOK'
  <2>1. posted' \in [Sessions -> Nat] /\ writeQueue' \in [Sessions -> Nat] BY <1>a
  <2>2. writing' \in [Sessions -> BOOLEAN] BY <1>a
  <2>3. ASSUME NEW t \in Sessions, writing'[t] PROVE writeQueue'[t] > 0
    <3>1. CASE t = s BY <1>a, <2>3, <3>1
    <3>2. CASE t # s BY <1>a, <2>3, <3>2
    <3>. QED BY <3>1, <3>2
  <2>. QED BY <1>0, <2>1, <2>2, <2>3
<1>2. (Len(sent) <= frames)' BY <1>0
<1>3. EntryInv' BY <1>0 DEF EntryInv
<1>4. HandlerInv' BY <1>0 DEF HandlerInv
<1>5. ShownIsStored' BY <1>0 DEF ShownIsStored, HandlerInv
<1>6. ShownToItsUser' BY <1>0 DEF ShownToItsUser, HandlerInv
<1>7. ClosedIsForgotten' BY <1>0 DEF ClosedIsForgotten, EntryInv
<1>8. FoundUnlessAnotherClosed'
  <2>1. ASSUME NEW t \in Sessions, Working(t)' PROVE Working(t)
    <3>1. writing'[t] \/ writeQueue'[t] = 0 BY <2>1, Zenon DEF Working
    <3>2. writing[t] \/ writeQueue[t] = 0
      <4>1. CASE t = s BY <1>a, <3>1, <4>1
      <4>2. CASE t # s BY <1>a, <3>1, <4>2
      <4>. QED BY <4>1, <4>2
    <3>. QED BY <1>0, <2>1, <3>2 DEF Working
  <2>. QED BY <1>0, <2>1, FoundIsKept
<1>. QED BY <1>1, <1>2, <1>3, <1>4, <1>5, <1>6, <1>7, <1>8

(* A failed read or write removes the entry of the user. *)
LEMMA CloseStep ==
  ASSUME DirectoryInv, NEW s \in Sessions, OnReadError(s) \/ OnWriteError(s)
  PROVE  DirectoryInv'
<1>. USE DirectoryAssumption
     DEF DirectoryInv, TypeOK, InHandler, directory, outgoing, traffic, handler,
         OnReadError, OnWriteError, StrandFree, Close
<1>1. TypeOK' OBVIOUS
<1>2. (Len(sent) <= frames)' OBVIOUS
<1>0. /\ sessions' = IF userId[s] = NoUser THEN sessions
                      ELSE [sessions EXCEPT ![userId[s]] = NoSession]
      /\ UNCHANGED <<userId, everAs>>
  OBVIOUS
<1>a. \A u \in Users : sessions'[u] # NoSession => sessions'[u] = sessions[u] BY <1>0
<1>3. EntryInv'
  <2>1. \A t \in Sessions : reader'[t] \in {"none", "accepting"} => reader[t] = reader'[t] OBVIOUS
  <2>. QED BY <1>0, <1>a, <2>1 DEF EntryInv
<1>4. HandlerInv' BY DEF HandlerInv
<1>5. ShownIsStored' BY DEF ShownIsStored, HandlerInv
<1>6. ShownToItsUser' BY DEF ShownToItsUser, HandlerInv
<1>7. ClosedIsForgotten'
  <2>. SUFFICES ASSUME NEW t \in Sessions, reader'[t] = "closed", userId[t] # NoUser,
                       sessions'[userId[t]] = t
                PROVE  FALSE
    BY DEF ClosedIsForgotten
  <2>1. sessions[userId[t]] = t BY <1>a
  <2>2. reader[t] # "closed" BY <2>1 DEF ClosedIsForgotten
  <2>3. t = s BY <2>2
  <2>. QED BY <1>0, <2>3
<1>8. FoundUnlessAnotherClosed'
  <2>. SUFFICES ASSUME NEW u \in Users, NEW t \in Sessions, u \in everAs[t], Working(t)'
                PROVE  \E r \in Sessions :
                         u \in everAs[r] /\ (sessions'[u] = r \/ ~Working(r)')
    BY <1>0, Zenon DEF FoundUnlessAnotherClosed
  <2>1. ~Working(s)' BY DEF Working
  <2>2. \A r \in Sessions : r # s => (Working(r)' <=> Working(r)) BY DEF Working
  <2>3. PICK r \in Sessions : u \in everAs[r] /\ (sessions[u] = r \/ ~Working(r))
    BY <2>1, <2>2, Zenon DEF FoundUnlessAnotherClosed
  <2>4. CASE userId[s] = u
    <3>1. u \in everAs[s] BY <2>4 DEF EntryInv
    <3>. QED BY <2>1, <3>1
  <2>5. CASE userId[s] # u
    <3>1. sessions'[u] = sessions[u] BY <1>0, <2>5
    <3>. QED BY <2>1, <2>2, <2>3, <3>1, Zenon
  <2>. QED BY <2>4, <2>5
<1>. QED BY <1>1, <1>2, <1>3, <1>4, <1>5, <1>6, <1>7, <1>8

(* handleSendMessage stores the message before it shows it. *)
LEMMA SendStep ==
  ASSUME DirectoryInv, NEW s \in Sessions, NEW to \in Users \cup {NoUser}, HandleSendMessage(s, to)
  PROVE  DirectoryInv'
<1>. USE DirectoryAssumption
     DEF DirectoryInv, TypeOK, InHandler, directory, outgoing, traffic, handler,
         HandleSendMessage, Reads
<1>0. LET n == Len(sent) + 1 IN
      /\ n \in Ids /\ sent' \in Seq([session : Sessions, to : Users \cup {NoUser}])
      /\ Len(sent') = n /\ sent'[n] = [session |-> s, to |-> to]
      /\ \A i \in DOMAIN sent : i \in DOMAIN sent' /\ sent'[i] = sent[i]
      /\ n \in DOMAIN sent'
  BY SMTT(30) DEF Ids
<1>1. TypeOK'
  <2>1. messages' \in SUBSET Ids BY <1>0
  <2>2. posted' \in [Sessions -> Nat] OBVIOUS
  <2>3. shown' \in [Sessions -> SUBSET Ids] BY <1>0
  <2>4. held' \in [Sessions -> Ids \cup {0}] BY <1>0
  <2>5. frames' \in 0..MaxFrames OBVIOUS
  <2>6. reader' \in [Sessions -> {"none", "accepting", "reading", "closed"} \cup InHandler]
    OBVIOUS
  <2>. QED BY <1>0, <2>1, <2>2, <2>3, <2>4, <2>5, <2>6
<1>2. (Len(sent) <= frames)' BY <1>0
<1>3. EntryInv' BY DEF EntryInv
<1>4. HandlerInv'
  <2>1. ASSUME NEW t \in Sessions, reader'[t] \in InHandler
        PROVE  held'[t] \in messages' /\ held'[t] \in DOMAIN sent' /\ sent'[held'[t]].to \in Users
    <3>1. CASE t = s
      <4>1. to # NoUser /\ held'[s] = Len(sent) + 1 BY <2>1, <3>1
      <4>. QED BY <1>0, <3>1, <4>1
    <3>2. CASE t # s
      <4>1. reader[t] \in InHandler /\ held'[t] = held[t] BY <2>1, <3>2
      <4>. QED BY <1>0, <4>1 DEF HandlerInv
    <3>. QED BY <3>1, <3>2
  <2>2. ASSUME NEW t \in Sessions, reader'[t] = "found"
        PROVE  found[t] \in Sessions /\ sent'[held'[t]].to \in everAs[found[t]]
    <3>1. t # s /\ reader[t] = "found" /\ held'[t] = held[t] BY <2>2
    <3>2. held[t] \in DOMAIN sent BY <3>1 DEF HandlerInv
    <3>. QED BY <1>0, <3>1, <3>2 DEF HandlerInv
  <2>3. ASSUME NEW t \in Sessions, NEW i \in shown'[t] PROVE i \in DOMAIN sent'
    <3>1. i \in shown[t] \/ i = Len(sent) + 1 OBVIOUS
    <3>. QED BY <1>0, <3>1 DEF HandlerInv
  <2>. QED BY <2>1, <2>2, <2>3 DEF HandlerInv
<1>5. ShownIsStored' BY DEF ShownIsStored, HandlerInv
<1>6. ShownToItsUser'
  <2>. SUFFICES ASSUME NEW t \in Sessions, NEW i \in shown'[t]
                PROVE  sent'[i].session = t \/ sent'[i].to \in everAs[t]
    BY DEF ShownToItsUser
  <2>1. CASE i \in shown[t]
    <3>1. sent'[i] = sent[i] BY <1>0, <2>1 DEF HandlerInv
    <3>. QED BY <2>1, <3>1 DEF ShownToItsUser
  <2>2. CASE i \notin shown[t]
    <3>1. t = s /\ i = Len(sent) + 1 BY <2>2
    <3>. QED BY <1>0, <3>1
  <2>. QED BY <2>1, <2>2
<1>7. ClosedIsForgotten' BY DEF ClosedIsForgotten, EntryInv
<1>8. FoundUnlessAnotherClosed'
  <2>1. \A t \in Sessions : Working(t)' => Working(t) BY DEF Working
  <2>. QED BY <2>1, FoundIsKept
<1>. QED BY <1>1, <1>2, <1>3, <1>4, <1>5, <1>6, <1>7, <1>8

(* The recipient is shown the message. *)
LEMMA RecipientStep ==
  ASSUME DirectoryInv, NEW s \in Sessions, SendToRecipient(s)
  PROVE  DirectoryInv'
<1>. USE DirectoryAssumption
     DEF DirectoryInv, TypeOK, InHandler, directory, outgoing, traffic, handler,
         SendToRecipient
<1>0. /\ found[s] \in Sessions /\ held[s] \in messages /\ held[s] \in DOMAIN sent
      /\ sent[held[s]].to \in everAs[found[s]]
  BY DEF HandlerInv
<1>1. TypeOK'
  <2>1. posted' \in [Sessions -> Nat] BY <1>0
  <2>2. shown' \in [Sessions -> SUBSET Ids] BY <1>0
  <2>3. found' \in [Sessions -> Sessions \cup {NoSession}] OBVIOUS
  <2>4. reader' \in [Sessions -> {"none", "accepting", "reading", "closed"} \cup InHandler]
    OBVIOUS
  <2>. QED BY <2>1, <2>2, <2>3, <2>4
<1>2. (Len(sent) <= frames)' OBVIOUS
<1>3. EntryInv' BY DEF EntryInv
<1>4. HandlerInv' BY <1>0 DEF HandlerInv
<1>5. ShownIsStored' BY <1>0 DEF ShownIsStored
<1>6. ShownToItsUser' BY <1>0 DEF ShownToItsUser
<1>7. ClosedIsForgotten' BY DEF ClosedIsForgotten, EntryInv
<1>8. FoundUnlessAnotherClosed'
  <2>1. \A t \in Sessions : Working(t)' => Working(t) BY DEF Working
  <2>. QED BY <2>1, FoundIsKept
<1>. QED BY <1>1, <1>2, <1>3, <1>4, <1>5, <1>6, <1>7, <1>8

(* Every step of every session keeps the invariant. *)
LEMMA NextDirectory == DirectoryInv /\ [Next]_vars => DirectoryInv'
<1>. SUFFICES ASSUME DirectoryInv, [Next]_vars PROVE DirectoryInv' OBVIOUS
<1>1. CASE UNCHANGED vars
  BY <1>1 DEF vars, directory, outgoing, traffic, handler, DirectoryInv, TypeOK, EntryInv,
              HandlerInv, ShownIsStored, ShownToItsUser, ClosedIsForgotten,
              FoundUnlessAnotherClosed, Working
<1>. QED BY <1>1, AcceptStep, ReplyStep, AuthStep, FindStep, WriteStep, CloseStep, SendStep,
            RecipientStep DEF Next

(* The inductive invariant holds for any sessions, users and frames. *)
THEOREM AlwaysDirectoryInv == Spec => []DirectoryInv
BY InitDirectory, NextDirectory, PTL DEF Spec

(* The state is of its type, and a write is of a buffer that exists. *)
THEOREM TypeCorrect == Spec => []TypeOK
<1>1. DirectoryInv => TypeOK BY DEF DirectoryInv
<1>. QED BY <1>1, AlwaysDirectoryInv, PTL

(* handleSendMessage shows a message to nobody before it is stored. *)
THEOREM StoredBeforeShown == Spec => []ShownIsStored
<1>1. DirectoryInv => ShownIsStored BY DEF DirectoryInv
<1>. QED BY <1>1, AlwaysDirectoryInv, PTL

(***************************************************************************)
(* A message is shown to the session that sent it and to sessions that     *)
(* authenticated as its addressee, whatever the directory does meanwhile.  *)
(***************************************************************************)
THEOREM ShownToAddressee == Spec => []ShownToItsUser
<1>1. DirectoryInv => ShownToItsUser BY DEF DirectoryInv
<1>. QED BY <1>1, AlwaysDirectoryInv, PTL

(* A session that stopped reading is not found under its user any more. *)
THEOREM ClosedIsRemoved == Spec => []ClosedIsForgotten
<1>1. DirectoryInv => ClosedIsForgotten BY DEF DirectoryInv
<1>. QED BY <1>1, AlwaysDirectoryInv, PTL

(***************************************************************************)
(* A user who has a working session is found at a session of their own,    *)
(* unless another session of theirs was closed.                            *)
(***************************************************************************)
THEOREM UserIsFound == Spec => []FoundUnlessAnotherClosed
<1>1. DirectoryInv => FoundUnlessAnotherClosed BY DEF DirectoryInv
<1>. QED BY <1>1, AlwaysDirectoryInv, PTL

(* A step revives no session whose last handler is gone. *)
LEMMA FreedStep ==
  ASSUME DirectoryInv, Next, NEW f \in Sessions, Freed(f)
  PROVE  Freed(f)'
<1>. USE DEF DirectoryInv, TypeOK, InHandler, directory, outgoing, traffic, handler
<1>0. /\ reader[f] = "closed" /\ ~writing[f] /\ ~(posted[f] > 0)
      /\ \A t \in Sessions : found[t] # f
  BY DEF Freed, Alive
<1>. DEFINE Left == /\ reader'[f] = "closed" /\ writing'[f] = writing[f]
                    /\ posted'[f] = posted[f] /\ \A t \in Sessions : found'[t] # f
<1>. SUFFICES Left
  <2>1. ASSUME Left PROVE ~Alive(f)'
    BY <1>0, <2>1, Zenon DEF Alive
  <2>. QED BY <2>1 DEF Freed
<1>1. PICK s \in Sessions :
        \/ Accept(s) \/ OnAccept(s)
        \/ OnReadReply(s) \/ OnReadLogged(s) \/ OnReadThrows(s) \/ OnReadError(s)
        \/ \E u \in Users : HandleAuth(s, u)
        \/ \E to \in Users \cup {NoUser} : HandleSendMessage(s, to)
        \/ FindSession(s) \/ SendToRecipient(s)
        \/ RunPosted(s) \/ OnWrite(s) \/ OnWriteError(s)
  BY DEF Next
<1>2. CASE Accept(s) \/ OnAccept(s) BY <1>0, <1>2 DEF Accept, OnAccept
<1>3. CASE OnReadReply(s) \/ OnReadLogged(s) \/ OnReadThrows(s) \/ OnReadError(s)
  BY <1>0, <1>3 DEF OnReadReply, OnReadLogged, OnReadThrows, OnReadError, Reads
<1>4. CASE \E u \in Users : HandleAuth(s, u) BY <1>0, <1>4 DEF HandleAuth, Reads
<1>5. CASE \E to \in Users \cup {NoUser} : HandleSendMessage(s, to)
  BY <1>0, <1>5 DEF HandleSendMessage, Reads
<1>6. CASE FindSession(s)
  <2>1. reader[s] = "finding" /\ s # f BY <1>0, <1>6 DEF FindSession
  <2>2. ~Alive(f) BY DEF Freed
  <2>3. \A t \in Sessions : found'[t] # f BY <1>0, <1>6, <2>2 DEF FindSession
  <2>4. reader'[f] = "closed" BY <1>0, <1>6, <2>1 DEF FindSession
  <2>. QED BY <1>6, <2>3, <2>4 DEF FindSession
<1>7. CASE SendToRecipient(s)
  <2>1. found[s] \in Sessions BY <1>7 DEF SendToRecipient, HandlerInv
  <2>. QED BY <1>0, <1>7, <2>1, DirectoryAssumption DEF SendToRecipient
<1>8. CASE RunPosted(s) BY <1>0, <1>8 DEF RunPosted
<1>9. CASE OnWrite(s) \/ OnWriteError(s) BY <1>0, <1>9 DEF OnWrite, OnWriteError
<1>. QED BY <1>1, <1>2, <1>3, <1>4, <1>5, <1>6, <1>7, <1>8, <1>9

(***************************************************************************)
(* Nothing happens to a destroyed session: whoever would write to it has   *)
(* locked its weak_ptr before, and so has kept it alive.                   *)
(***************************************************************************)
THEOREM FreedIsFinal == Spec => FreedForGood
<1>1. DirectoryInv /\ [Next]_vars => [\A s \in Sessions : Freed(s) => Freed(s)']_vars
  BY FreedStep
<1>. QED BY <1>1, AlwaysDirectoryInv, PTL DEF Spec, FreedForGood
============================================================================
