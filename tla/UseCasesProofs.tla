--------------------------- MODULE UseCasesProofs --------------------------
(***************************************************************************)
(* Proofs about UseCases, for any number of calls, names, hashes, chats    *)
(* and limits.                                                             *)
(***************************************************************************)
EXTENDS UseCases, FiniteSetTheorems, TLAPS

Creating == {"register", "create_chat", "send_message"}

(* What the calls that ended before another one are, and which call is where. *)
CallsInv ==
  /\ \A i \in Ids : i > made => state[i] = "none"
  /\ \A i, j \in Ids : j \in before[i] => state[j] \in Finished
  /\ \A i \in Ids :
       /\ state[i] = "look" => calls[i].op \in {"register", "login"}
       /\ state[i] \in {"create", "commit", "in_doubt"} => calls[i].op \in Creating
       /\ state[i] \in {"select", "page"} => calls[i].op = "history"
       /\ i \in users => calls[i].op = "register"
       /\ i \in messages => calls[i].op = "send_message"

(***************************************************************************)
(* A registration that found its name free began before every row of the   *)
(* name was there, except for the ones in doubt.                           *)
(***************************************************************************)
FreeInv ==
  \A i \in Ids, u \in users :
    /\ state[i] \in {"create", "commit", "in_doubt", "true"}
    /\ calls[i].op = "register"
    /\ u # i /\ calls[u].name = calls[i].name
    => ~Precedes(u, i)

(***************************************************************************)
(* created_at follows the clock: a call whose transaction has begun is not *)
(* older than any call that had ended when it began.                       *)
(***************************************************************************)
StampInv ==
  /\ \A i \in Ids : stamp[i] <= clock
  /\ \A i, j \in Ids :
       /\ j \in before[i]
       /\ state[i] \in {"commit", "in_doubt", "true"} /\ calls[i].op \in Creating
       => stamp[j] <= stamp[i]

(* A page lists rows of messages, the newer ones first. *)
PagesInv ==
  \A h \in Ids :
    /\ \A k \in DOMAIN pages[h] : pages[h][k] \in messages
    /\ \A j, k \in DOMAIN pages[h] :
         j < k => stamp[pages[h][j]] >= stamp[pages[h][k]]

IInv ==
  /\ TypeOK /\ CallsInv /\ AnswersAreTrue /\ FreeInv /\ DuplicatesOverlapped
  /\ StampInv /\ PagesInv /\ RegisteredCanLogin /\ SentIsListed
----------------------------------------------------------------------------
(* What the first step of a call leaves it in. *)
Fits(call, s) ==
  \/ s = "look" /\ call.op \in {"register", "login"}
  \/ s = "create" /\ call.op \in {"create_chat", "send_message"}
  \/ s = "select" /\ call.op = "history"
  \/ s = "false" /\ call.op = "send_message"
  \/ s = "false" /\ call.op = "register" /\ None \in {call.name, call.hash}

Begins == \E call \in Call : \E s \in Running \cup Finished : Begin(call, s) /\ Fits(call, s)

Advances(i) ==
  \/ LookForName(i) \/ LookForUser(i) \/ BeginCreate(i) \/ CommitCreate(i)
  \/ GetByChat(i) \/ Throws(i) \/ LateCommit(i)

(* Every use case begins as Begin says, with a call and a state that fit. *)
LEMMA NextCases == Next => Begins \/ \E i \in Ids : Advances(i)
<1>. USE UseCasesAssumption DEF Running, Finished, Invoke, Call, Op, Fits
<1>1. ASSUME NEW n \in Names \cup {None}, NEW h \in Hashes \cup {None}, RegisterUser(n, h)
      PROVE  Begins
  <2>. DEFINE c == Invoke("register", n, h, None, 0)
  <2>1. c \in Call /\ c.op = "register" /\ c.name = n /\ c.hash = h
    OBVIOUS
  <2>2. CASE n = None \/ h = None
    <3>1. Begin(c, "false") BY <1>1, <2>2 DEF RegisterUser
    <3>. HIDE DEF c
    <3>. QED BY <2>1, <2>2, <3>1 DEF Begins
  <2>3. CASE ~(n = None \/ h = None)
    <3>1. Begin(c, "look") BY <1>1, <2>3 DEF RegisterUser
    <3>. HIDE DEF c
    <3>. QED BY <2>1, <3>1 DEF Begins
  <2>. QED BY <2>2, <2>3
<1>2. ASSUME NEW n \in Names \cup {None}, NEW h \in Hashes \cup {None}, LoginUser(n, h)
      PROVE  Begins
  <2>. DEFINE c == Invoke("login", n, h, None, 0)
  <2>1. c \in Call /\ c.op = "login" /\ Begin(c, "look") BY <1>2 DEF LoginUser
  <2>. HIDE DEF c
  <2>. QED BY <2>1 DEF Begins
<1>3. ASSUME CreateChat PROVE Begins
  <2>. DEFINE c == Invoke("create_chat", None, None, None, 0)
  <2>1. c \in Call /\ c.op = "create_chat" /\ Begin(c, "create") BY <1>3 DEF CreateChat
  <2>. HIDE DEF c
  <2>. QED BY <2>1 DEF Begins
<1>4. ASSUME NEW d \in Chats, NEW empty \in BOOLEAN, SendMessage(d, empty) PROVE Begins
  <2>. DEFINE c == Invoke("send_message", None, None, d, 0)
  <2>1. c \in Call /\ c.op = "send_message" OBVIOUS
  <2>2. Begin(c, "false") \/ Begin(c, "create") BY <1>4 DEF SendMessage
  <2>. HIDE DEF c
  <2>. QED BY <2>1, <2>2 DEF Begins
<1>5. ASSUME NEW d \in Chats, NEW limit \in Limits, GetChatHistory(d, limit) PROVE Begins
  <2>. DEFINE c == Invoke("history", None, None, d, limit)
  <2>1. c \in Call /\ c.op = "history" /\ Begin(c, "select") BY <1>5 DEF GetChatHistory
  <2>. HIDE DEF c
  <2>. QED BY <2>1 DEF Begins
<1>. QED BY <1>1, <1>2, <1>3, <1>4, <1>5 DEF Next, Advances
(* The invariant holds before any call is made. *)
LEMMA InitIInv == Init => IInv
<1>. SUFFICES ASSUME Init PROVE IInv OBVIOUS
<1>1. TypeOK
  BY UseCasesAssumption DEF Init, TypeOK, Call, Invoke, Ids
<1>2. CallsInv /\ AnswersAreTrue /\ FreeInv /\ DuplicatesOverlapped /\ StampInv /\ PagesInv
  BY DEF Init, CallsInv, AnswersAreTrue, FreeInv, DuplicatesOverlapped, StampInv, PagesInv,
         Running, Finished
<1>3. RegisteredCanLogin /\ SentIsListed
  BY DEF Init, RegisteredCanLogin, SentIsListed
<1>. QED BY <1>1, <1>2, <1>3 DEF IInv

(* The beginning of a call preserves the invariant: nothing refers to it yet. *)
LEMMA BeginStep == IInv /\ Begins => IInv'
<1>. SUFFICES ASSUME IInv, Begins PROVE IInv' OBVIOUS
<1>. USE DEF Running, Finished
<1>1. PICK call \in Call, s \in Running \cup Finished : Begin(call, s) /\ Fits(call, s)
  BY DEF Begins
<1>. DEFINE n == made + 1
<1>2. /\ n \in Ids
      /\ made' = n
      /\ state[n] = "none"
      /\ calls' = [calls EXCEPT ![n] = call]
      /\ state' = [state EXCEPT ![n] = s]
      /\ before' = [before EXCEPT ![n] = Ended]
      /\ UNCHANGED <<mix, unique, stamp, pages, users, chats, messages, clock>>
  BY <1>1, UseCasesAssumption DEF Begin, rows, IInv, TypeOK, CallsInv, Ids
<1>3. n \notin users \cup chats \cup messages
  BY <1>2 DEF IInv, AnswersAreTrue
<1>4. \A i \in Ids : n \notin before[i]
  BY <1>2 DEF IInv, CallsInv
<1>5. /\ calls'[n] = call /\ state'[n] = s /\ before'[n] = Ended
      /\ \A i \in Ids \ {n} : /\ calls'[i] = calls[i] /\ state'[i] = state[i]
                             /\ before'[i] = before[i]
  BY <1>2 DEF IInv, TypeOK
<1>6. s \in {"look", "create", "select", "false"}
  BY <1>1 DEF Fits
<1>7. TypeOK'
  <2>1. made' \in 0..MaxCalls BY <1>2, UseCasesAssumption DEF IInv, TypeOK, Ids
  <2>2. Ended \in SUBSET Ids BY DEF Ended
  <2>. HIDE DEF n
  <2>. QED BY <1>2, <2>1, <2>2 DEF IInv, TypeOK
<1>. HIDE DEF n
<1>8. CallsInv'
  <2>1. \A i \in Ids : i > made' => state'[i] = "none"
    BY <1>2, <1>5, UseCasesAssumption DEF IInv, CallsInv, TypeOK, Ids, n
  <2>2. \A i, j \in Ids : j \in before'[i] => state'[j] \in Finished
    BY <1>2, <1>4, <1>5 DEF IInv, CallsInv, Ended
  <2>3. \A i \in Ids :
           /\ state'[i] = "look" => calls'[i].op \in {"register", "login"}
           /\ state'[i] \in {"create", "commit", "in_doubt"} => calls'[i].op \in Creating
           /\ state'[i] \in {"select", "page"} => calls'[i].op = "history"
           /\ i \in users' => calls'[i].op = "register"
           /\ i \in messages' => calls'[i].op = "send_message"
    BY <1>1, <1>2, <1>3, <1>5, <1>6 DEF IInv, CallsInv, Creating, Fits
  <2>. QED BY <2>1, <2>2, <2>3 DEF CallsInv
<1>9. AnswersAreTrue'
  <2>. SUFFICES ASSUME NEW i \in Ids
                PROVE  (AnswersAreTrue!(i))'
    BY DEF AnswersAreTrue
  <2>1. CASE i = n
    BY <1>1, <1>2, <1>3, <1>5, <1>6, <2>1 DEF Fits
  <2>2. CASE i # n
    <3>1. AnswersAreTrue!(i) BY DEF IInv, AnswersAreTrue
    <3>2. \A u \in users : calls'[u] = calls[u]
      BY <1>3, <1>5 DEF IInv, TypeOK
    <3>3. UNCHANGED <<calls[i], state[i], users, chats, messages>>
      BY <1>2, <1>5, <2>2
    <3>4. Matches(i) # {} => Matches(i)' # {}
      BY <3>2, <3>3 DEF Matches
    <3>5. (\E u \in users : calls[u].name = calls[i].name /\ HashMatches(u, i)) =>
            (\E u \in users : calls[u].name = calls[i].name /\ HashMatches(u, i))'
      BY <3>2, <3>3 DEF HashMatches
    <3>. QED BY <3>1, <3>3, <3>4, <3>5
  <2>. QED BY <2>1, <2>2
<1>10. FreeInv'
  BY <1>1, <1>2, <1>3, <1>5, <1>6 DEF IInv, FreeInv, Fits, Precedes, TypeOK
<1>11. DuplicatesOverlapped'
  BY <1>2, <1>3, <1>5 DEF IInv, DuplicatesOverlapped, Precedes, TypeOK
<1>12. StampInv'
  BY <1>1, <1>2, <1>5, <1>6 DEF IInv, StampInv, Fits
<1>13. PagesInv'
  BY <1>2 DEF IInv, PagesInv
<1>14. RegisteredCanLogin'
  <2>. SUFFICES ASSUME NEW i \in Ids, NEW l \in Ids, RegisteredCanLogin!(i, l)!1'
                PROVE  RegisteredCanLogin!(i, l)!2'
    BY DEF RegisteredCanLogin
  <2>1. i # n /\ l # n
    BY <1>1, <1>5, <1>6 DEF Fits
  <2>2. PICK j \in users \ {i} :
          calls[j].name = calls[i].name /\ i \notin before[j] /\ ~Precedes(j, i)
    BY <1>5, <2>1 DEF IInv, RegisteredCanLogin
  <2>3. j \in Ids \ {n} BY <1>3, <2>2 DEF IInv, TypeOK
  <2>4. j \in users' \ {i} BY <1>2, <2>2
  <2>5. UNCHANGED <<calls[i], calls[j], before[i], before[j], state[j]>> BY <1>5, <2>1, <2>3
  <2>. QED BY <2>2, <2>4, <2>5 DEF Precedes
<1>15. SentIsListed'
  BY <1>1, <1>2, <1>5, <1>6 DEF IInv, SentIsListed
<1>. QED BY <1>7, <1>8, <1>9, <1>10, <1>11, <1>12, <1>13, <1>14, <1>15 DEF IInv
(***************************************************************************)
(* What the steps of a call that has begun have in common: its arguments   *)
(* and what went before stay, and rows are added but never taken away.     *)
(***************************************************************************)
Step(i) ==
  /\ UNCHANGED <<mix, unique, made, calls, before>>
  /\ \A j \in Ids \ {i} : state'[j] = state[j]
  /\ users \subseteq users' /\ chats \subseteq chats' /\ messages \subseteq messages'
  /\ users' \subseteq users \cup {i} /\ chats' \subseteq chats \cup {i}
  /\ messages' \subseteq messages \cup {i}

(* What getByChat is given: a chat with finitely many rows, and a limit. *)
LEMMA QueryTypes ==
  ASSUME TypeOK, NEW i \in Ids
  PROVE  IsFiniteSet(InChat(calls[i].chat)) /\ calls[i].limit \in Nat
<1>1. IsFiniteSet(Ids) BY FS_Interval, UseCasesAssumption DEF Ids
<1>2. InChat(calls[i].chat) \subseteq Ids BY DEF InChat, TypeOK
<1>3. calls[i] \in Call BY DEF TypeOK
<1>4. calls[i].limit \in Limits \cup {0} BY <1>3 DEF Call
<1>5. Limits \cup {0} \subseteq Nat BY UseCasesAssumption
<1>6. calls[i].limit \in Nat BY <1>4, <1>5
<1>. QED BY <1>1, <1>2, <1>6, FS_Subset

(* Such a step has the common effect, and the types are kept. *)
LEMMA StepEffect ==
  ASSUME TypeOK, NEW i \in Ids, Advances(i)
  PROVE  TypeOK' /\ Step(i)
<1>. USE DEF Running, Finished
<1>1. CASE LookForName(i) BY <1>1 DEF LookForName, rows, TypeOK, Step
<1>2. CASE LookForUser(i)
  <2>1. PICK x \in {"true", "false"} : state' = [state EXCEPT ![i] = x]
    BY <1>2 DEF LookForUser
  <2>. QED BY <1>2, <2>1 DEF LookForUser, rows, TypeOK, Step
<1>3. CASE BeginCreate(i)
  <2>1. clock' \in Nat BY <1>3 DEF BeginCreate, TypeOK
  <2>. QED BY <1>3, <2>1 DEF BeginCreate, rows, TypeOK, Step
<1>4. CASE CommitCreate(i) BY <1>4 DEF CommitCreate, Insert, TypeOK, Step
<1>5. CASE GetByChat(i)
  <2>1. PICK p \in Pages(InChat(calls[i].chat), calls[i].limit) :
           pages' = [pages EXCEPT ![i] = p]
    BY <1>5 DEF GetByChat
  <2>. DEFINE S == InChat(calls[i].chat)
              n == PageSize(S, calls[i].limit)
  <2>2. IsFiniteSet(S) /\ calls[i].limit \in Nat BY QueryTypes
  <2>3. n \in Nat
    <3>1. Cardinality(S) \in Nat BY <2>2, FS_CardinalityType
    <3>. HIDE DEF S
    <3>. QED BY <2>2, <3>1 DEF PageSize
  <2>4. p \in [1..n -> Ids] BY <2>1 DEF Pages, InChat, TypeOK
  <2>. HIDE DEF n
  <2>5. p \in Seq(Ids) BY <2>3, <2>4
  <2>. QED BY <1>5, <2>1, <2>5 DEF GetByChat, rows, TypeOK, Step
<1>6. CASE Throws(i)
  <2>1. PICK x \in {"threw", "in_doubt"} : state' = [state EXCEPT ![i] = x]
    BY <1>6 DEF Throws
  <2>. QED BY <1>6, <2>1 DEF Throws, rows, TypeOK, Step
<1>7. CASE LateCommit(i) BY <1>7 DEF LateCommit, Insert, TypeOK, Step
<1>. QED BY <1>1, <1>2, <1>3, <1>4, <1>5, <1>6, <1>7 DEF Advances
(* What each step does to the call that takes it, and to the rows. *)
Effect(i) ==
  \/ /\ LookForName(i) /\ state[i] = "look" /\ state'[i] \in {"false", "create"}
     /\ UNCHANGED <<users, chats, messages, stamp, pages, clock>>
  \/ /\ LookForUser(i) /\ state[i] = "look" /\ state'[i] \in {"false", "true"}
     /\ UNCHANGED <<users, chats, messages, stamp, pages, clock>>
  \/ /\ BeginCreate(i) /\ state[i] = "create" /\ state'[i] = "commit"
     /\ UNCHANGED <<users, chats, messages, pages>>
  \/ /\ CommitCreate(i) /\ state[i] = "commit" /\ state'[i] = "true"
     /\ Insert(i) /\ UNCHANGED <<stamp, pages, clock>>
  \/ /\ GetByChat(i) /\ state[i] = "select" /\ state'[i] = "page"
     /\ UNCHANGED <<users, chats, messages, stamp, clock>>
  \/ /\ Throws(i) /\ state[i] \in Running
     /\ state'[i] = (IF state[i] = "commit" THEN "in_doubt" ELSE "threw")
     /\ UNCHANGED <<users, chats, messages, stamp, pages, clock>>
  \/ /\ LateCommit(i) /\ state[i] = "in_doubt" /\ state'[i] = "in_doubt"
     /\ Insert(i) /\ UNCHANGED <<stamp, pages, clock>>

(* Every step has one of these effects. *)
LEMMA StepState ==
  ASSUME TypeOK, NEW i \in Ids, Advances(i)
  PROVE  Effect(i)
<1>. USE DEF Effect
<1>. USE DEF TypeOK, rows
<1>1. CASE LookForName(i) BY <1>1 DEF LookForName
<1>2. CASE LookForUser(i)
  <2>1. PICK x \in {"true", "false"} : state' = [state EXCEPT ![i] = x]
    BY <1>2 DEF LookForUser
  <2>. QED BY <1>2, <2>1 DEF LookForUser
<1>3. CASE BeginCreate(i) BY <1>3 DEF BeginCreate
<1>4. CASE CommitCreate(i) BY <1>4 DEF CommitCreate
<1>5. CASE GetByChat(i) BY <1>5 DEF GetByChat
<1>6. CASE Throws(i) BY <1>6 DEF Throws
<1>7. CASE LateCommit(i) BY <1>7 DEF LateCommit
<1>. QED BY <1>1, <1>2, <1>3, <1>4, <1>5, <1>6, <1>7 DEF Advances
(***************************************************************************)
(* A page from which a row of the chat is missing has as many rows as the  *)
(* limit allows: there is no room on it (by the pigeonhole principle).     *)
(***************************************************************************)
LEMMA PageIsFull ==
  ASSUME NEW S, IsFiniteSet(S), NEW limit \in Nat, NEW p \in Pages(S, limit),
         NEW m \in S, \A k \in DOMAIN p : p[k] # m
  PROVE  p \in Seq(S) /\ Len(p) = limit
<1>. DEFINE n == PageSize(S, limit)
<1>1. Cardinality(S) \in Nat BY FS_CardinalityType
<1>2. n \in Nat /\ (n = limit \/ n = Cardinality(S)) BY <1>1 DEF PageSize
<1>3. p \in [1..n -> S] BY DEF Pages
<1>4. \A j, k \in 1..n : j < k => p[j] # p[k] BY <1>3 DEF Pages, SortedRows
<1>. HIDE DEF n
<1>5. p \in [1..n -> S \ {m}] BY <1>3
<1>6. IsFiniteSet(S \ {m}) /\ Cardinality(S \ {m}) = Cardinality(S) - 1
  BY FS_RemoveElement
<1>7. IsFiniteSet(1..n) /\ Cardinality(1..n) = n
  BY <1>2, FS_Interval
<1>8. ~(Cardinality(S \ {m}) < Cardinality(1..n))
  <2>. SUFFICES ASSUME Cardinality(S \ {m}) < Cardinality(1..n) PROVE FALSE OBVIOUS
  <2>. DEFINE T == S \ {m}
              N == 1..n
  <2>0. p \in [N -> T] /\ IsFiniteSet(N) /\ IsFiniteSet(T) /\ Cardinality(T) < Cardinality(N)
    BY <1>5, <1>6, <1>7
  <2>. HIDE DEF N, T
  <2>1. PICK j \in N, k \in N : j # k /\ p[j] = p[k]
    BY <2>0, FS_PigeonHole
  <2>. USE DEF N
  <2>. QED BY <1>2, <1>4, <2>1
<1>9. n # Cardinality(S) BY <1>1, <1>6, <1>7, <1>8
<1>. QED BY <1>2, <1>3, <1>9

(* A step of a call that has begun preserves the invariant. *)
LEMMA AdvanceStep ==
  ASSUME IInv, NEW i \in Ids, Advances(i)
  PROVE  IInv'
<1>. USE DEF Running, Finished
<1>1. TypeOK' /\ Step(i) BY StepEffect DEF IInv
<1>2. Effect(i) BY StepState DEF IInv
<1>3. CallsInv'
  <2>1. \A j \in Ids : j > made' => state'[j] = "none"
    BY <1>1, <1>2 DEF IInv, CallsInv, Step, Effect
  <2>2. \A j, k \in Ids : k \in before'[j] => state'[k] \in Finished
    BY <1>1, <1>2 DEF IInv, CallsInv, Step, Effect
  <2>3. CallsInv!3!(i)'
    BY <1>1, <1>2 DEF IInv, CallsInv, Step, Effect, Insert, Creating, LookForName
  <2>4. \A j \in Ids \ {i} : CallsInv!3!(j)'
    BY <1>1 DEF IInv, CallsInv, Step
  <2>. QED BY <2>1, <2>2, <2>3, <2>4 DEF CallsInv
<1>4. AnswersAreTrue'
  <2>. SUFFICES ASSUME NEW j \in Ids
                PROVE  (AnswersAreTrue!(j))'
    BY DEF AnswersAreTrue
  <2>1. AnswersAreTrue!(j) BY DEF IInv, AnswersAreTrue
  <2>2. Matches(j) \subseteq Matches(j)'
    BY <1>1 DEF Matches, Step
  <2>3. CASE j # i
    BY <1>1, <2>1, <2>2, <2>3 DEF Step, HashMatches
  <2>4. CASE j = i
    <3>1. CASE LookForName(i)
      BY <1>1, <2>1, <2>2, <2>4, <3>1 DEF LookForName, Taken, rows, IInv, TypeOK
    <3>2. CASE LookForUser(i)
      <4>1. state'[i] = "true" =>
              \E u \in users : calls[u].name = calls[i].name /\ calls[u].hash = calls[i].hash
        BY <3>2 DEF LookForUser, Matches, HashMatches, IInv, TypeOK
      <4>. QED BY <1>1, <2>1, <2>4, <3>2, <4>1 DEF LookForUser, rows, Step, HashMatches
    <3>3. CASE Insert(i) /\ state'[i] \in {"true", "in_doubt"} /\ state[i] \in {"commit", "in_doubt"}
      BY <1>1, <2>4, <3>3 DEF Insert, IInv, CallsInv, Creating, Step
    <3>4. CASE UNCHANGED <<users, chats, messages>> /\ state'[i] \notin {"true", "false"}
      BY <1>1, <1>2, <2>1, <2>4, <3>4 DEF Step, Effect
    <3>. QED BY <1>2, <3>1, <3>2, <3>3, <3>4 DEF Effect
  <2>. QED BY <2>3, <2>4
<1>5. \A k \in Ids : state[i] \in Running => i \notin before[k]
  BY DEF IInv, CallsInv
<1>6. FreeInv'
  <2>. SUFFICES ASSUME NEW k \in Ids, NEW u \in users',
                       state'[k] \in {"create", "commit", "in_doubt", "true"},
                       calls[k].op = "register",
                       u # k, calls[u].name = calls[k].name,
                       u \in before[k], state'[u] # "in_doubt"
                PROVE  FALSE
    BY <1>1 DEF FreeInv, Precedes, Step
  <2>1. u # i
    BY <1>1, <1>2, <1>5 DEF Effect, IInv, AnswersAreTrue, Step
  <2>2. u \in users /\ state[u] # "in_doubt"
    BY <1>1, <2>1 DEF Step, TypeOK
  <2>3. state[k] \notin {"create", "commit", "in_doubt", "true"}
    BY <2>2 DEF IInv, FreeInv, Precedes
  <2>4. k = i /\ LookForName(i)
    BY <1>1, <1>2, <2>3 DEF Effect, Step, IInv, TypeOK, LookForUser
  <2>. QED BY <1>1, <2>2, <2>4 DEF LookForName, Taken, Matches, IInv, TypeOK
<1>7. DuplicatesOverlapped'
  <2>. SUFFICES ASSUME NEW j \in users', NEW k \in users', j # k,
                       calls[j].name = calls[k].name
                PROVE  ~unique /\ ~Precedes(j, k)'
    BY <1>1 DEF DuplicatesOverlapped, Step
  <2>1. ~Precedes(j, k)'
    <3>1. k \in Ids /\ state'[k] \in {"true", "in_doubt"} /\ calls'[k].op = "register"
      BY <1>1, <1>3, <1>4 DEF AnswersAreTrue, CallsInv, TypeOK
    <3>2. calls'[j].name = calls'[k].name BY <1>1 DEF Step
    <3>. QED BY <1>6, <3>1, <3>2 DEF FreeInv
  <2>2. CASE j \in users /\ k \in users
    BY <1>1, <2>1, <2>2 DEF IInv, DuplicatesOverlapped
  <2>3. CASE ~(j \in users /\ k \in users)
    <3>1. PICK u \in users : calls[u].name = calls[i].name
      BY <1>1, <2>3 DEF Step
    <3>2. Allowed(i) /\ calls[i].op = "register"
      BY <1>1, <1>2, <2>3 DEF Effect, CommitCreate, LateCommit, Step, Insert
    <3>. QED BY <2>1, <3>1, <3>2 DEF Allowed, Matches
  <2>. QED BY <2>2, <2>3
<1>8. StampInv'
  <2>1. CASE BeginCreate(i)
    <3>1. clock' \in Nat /\ clock <= clock'
      BY <2>1 DEF BeginCreate, IInv, TypeOK
    <3>2. stamp'[i] = clock' /\ \A j \in Ids \ {i} : stamp'[j] = stamp[j]
      BY <2>1 DEF BeginCreate, IInv, TypeOK
    <3>3. \A j \in Ids : stamp[j] \in Nat /\ stamp[j] <= clock
      BY DEF IInv, TypeOK, StampInv
    <3>4. \A j \in Ids : stamp'[j] \in Nat /\ stamp'[j] <= clock'
      BY <3>1, <3>2, <3>3 DEF IInv, TypeOK
    <3>5. \A k \in Ids : i \notin before[k]
      BY <1>5, <2>1 DEF BeginCreate
    <3>. QED BY <1>1, <3>2, <3>4, <3>5 DEF StampInv, Step, IInv, TypeOK
  <2>2. CASE ~BeginCreate(i)
    <3>1. UNCHANGED <<stamp, clock>> BY <1>2, <2>2 DEF Effect
    <3>2. state'[i] \in {"commit", "in_doubt", "true"} /\ calls[i].op \in Creating =>
            state[i] \in {"commit", "in_doubt"}
      BY <1>2, <2>2 DEF Effect, LookForUser, Creating
    <3>. QED BY <1>1, <3>1, <3>2 DEF StampInv, Step, IInv
  <2>. QED BY <2>1, <2>2
<1>9. PagesInv'
  <2>1. CASE GetByChat(i)
    <3>1. PICK p \in Pages(InChat(calls[i].chat), calls[i].limit) :
             pages' = [pages EXCEPT ![i] = p]
      BY <2>1 DEF GetByChat
    <3>2. /\ \A k \in DOMAIN p : p[k] \in messages
          /\ \A j, k \in DOMAIN p : j < k => stamp[p[j]] >= stamp[p[k]]
      BY <3>1 DEF Pages, SortedRows, InChat
    <3>3. UNCHANGED <<messages, stamp>> BY <2>1 DEF GetByChat, rows
    <3>4. pages'[i] = p /\ \A h \in Ids \ {i} : pages'[h] = pages[h]
      BY <3>1 DEF IInv, TypeOK
    <3>. QED BY <3>2, <3>3, <3>4 DEF IInv, PagesInv
  <2>2. CASE ~GetByChat(i)
    <3>1. UNCHANGED pages BY <1>2, <2>2 DEF Effect
    <3>2. \A m \in messages : m \in messages' /\ stamp'[m] = stamp[m]
      BY <1>1, <1>2 DEF Effect, Step, BeginCreate, IInv, AnswersAreTrue, TypeOK
    <3>. QED BY <3>1, <3>2 DEF IInv, PagesInv
  <2>. QED BY <2>1, <2>2
<1>10. RegisteredCanLogin'
  <2>. SUFFICES ASSUME NEW r \in Ids, NEW l \in Ids, RegisteredCanLogin!(r, l)!1'
                PROVE  RegisteredCanLogin!(r, l)!2'
    BY DEF RegisteredCanLogin
  <2>1. r \in before[l] /\ calls[r].op = "register" /\ state[r] = "true"
    <3>1. r \in before[l] /\ calls[r].op = "register" BY <1>1 DEF Step
    <3>2. CASE r = i BY <1>2, <1>5, <3>1, <3>2 DEF Effect
    <3>3. CASE r # i BY <1>1, <3>1, <3>3 DEF Step
    <3>. QED BY <3>1, <3>2, <3>3
  <2>2. r \in users BY <2>1 DEF IInv, AnswersAreTrue
  <2>3. PICK j \in users \ {r} :
          calls[j].name = calls[r].name /\ r \notin before[j] /\ ~Precedes(j, r)
    <3>1. CASE state[l] = "false"
      BY <1>1, <2>1, <3>1 DEF IInv, RegisteredCanLogin, Step
    <3>2. CASE state[l] # "false"
      <4>1. l = i /\ LookForUser(l)
        BY <1>1, <1>2, <3>2 DEF Step, Effect, LookForName
      <4>2. r \in Matches(l) BY <1>1, <2>2 DEF Matches, Step
      <4>3. PICK j \in Matches(l) : ~HashMatches(j, l)
        BY <4>1, <4>2 DEF LookForUser, IInv, TypeOK
      <4>4. j \in users \ {r} /\ calls[j].name = calls[r].name
        BY <1>1, <4>3 DEF Matches, HashMatches, Step
      <4>. QED BY <2>1, <2>2, <4>4 DEF IInv, DuplicatesOverlapped, Precedes
    <3>. QED BY <3>1, <3>2
  <2>4. state[j] = "in_doubt" => state'[j] = "in_doubt"
    BY <1>1, <1>2, <2>3 DEF Step, Effect, IInv, TypeOK
  <2>. QED BY <1>1, <2>3, <2>4 DEF Precedes, Step
<1>11. SentIsListed'
  <2>. SUFFICES ASSUME NEW m \in Ids, NEW h \in Ids, SentIsListed!(m, h)!1'
                PROVE  SentIsListed!(m, h)!2'
    BY DEF SentIsListed
  <2>1. m \in before[h] /\ calls[m].op = "send_message" /\ state[m] = "true"
    <3>1. m \in before[h] /\ calls[m].op = "send_message" BY <1>1 DEF Step
    <3>2. CASE m = i BY <1>2, <1>5, <3>1, <3>2 DEF Effect
    <3>3. CASE m # i BY <1>1, <3>1, <3>3 DEF Step
    <3>. QED BY <3>1, <3>2, <3>3
  <2>2. m \in messages BY <2>1 DEF IInv, AnswersAreTrue
  <2>3. CASE h = i /\ GetByChat(i)
    <3>. DEFINE S == InChat(calls[i].chat)
    <3>1. PICK p \in Pages(S, calls[i].limit) : pages' = [pages EXCEPT ![i] = p]
      BY <2>3 DEF GetByChat
    <3>2. pages'[h] = p /\ UNCHANGED <<calls, stamp>>
      BY <2>3, <3>1 DEF GetByChat, IInv, TypeOK
    <3>3. m \in S BY <1>1, <2>2, <2>3 DEF InChat, Step
    <3>4. CASE \E k \in DOMAIN p : p[k] = m BY <3>2, <3>4
    <3>5. CASE \A k \in DOMAIN p : p[k] # m
      <4>1. IsFiniteSet(S) /\ calls[i].limit \in Nat BY QueryTypes DEF IInv
      <4>3. \A k \in DOMAIN p : stamp[p[k]] >= stamp[m]
        BY <3>3, <3>5 DEF Pages, KeepsNewest
      <4>. HIDE DEF S
      <4>4. Len(p) = calls[i].limit BY <3>3, <3>5, <4>1, PageIsFull
      <4>. QED BY <2>3, <3>2, <4>3, <4>4
    <3>. QED BY <3>4, <3>5
  <2>4. CASE ~(h = i /\ GetByChat(i))
    <3>1. state[h] = "page" /\ UNCHANGED <<pages[h], calls[h]>>
      BY <1>1, <1>2, <2>4 DEF Step, Effect, GetByChat, IInv, TypeOK
    <3>2. \A x \in messages : stamp'[x] = stamp[x]
      <4>1. state[i] = "create" => i \notin messages BY DEF IInv, AnswersAreTrue
      <4>2. CASE BeginCreate(i)
        BY <4>1, <4>2 DEF BeginCreate, IInv, TypeOK
      <4>3. CASE ~BeginCreate(i) BY <1>2, <4>3 DEF Effect
      <4>. QED BY <4>2, <4>3
    <3>3. \A k \in DOMAIN pages[h] : pages[h][k] \in messages
      BY DEF IInv, PagesInv
    <3>4. SentIsListed!(m, h)!2
      BY <1>1, <2>1, <3>1 DEF IInv, SentIsListed, Step
    <3>5. \A k \in DOMAIN pages[h] : stamp'[pages[h][k]] = stamp[pages[h][k]]
      BY <3>2, <3>3
    <3>6. stamp'[m] = stamp[m] BY <2>2, <3>2
    <3>. QED BY <3>1, <3>4, <3>5, <3>6
  <2>. QED BY <2>3, <2>4
<1>. QED BY <1>1, <1>3, <1>4, <1>6, <1>7, <1>8, <1>9, <1>10, <1>11 DEF IInv

(* The invariant is inductive. *)
LEMMA NextIInv == IInv /\ [Next]_vars => IInv'
<1>. SUFFICES ASSUME IInv, [Next]_vars PROVE IInv' OBVIOUS
<1>1. CASE Begins BY <1>1, BeginStep
<1>2. CASE \E i \in Ids : Advances(i) BY <1>2, AdvanceStep
<1>3. CASE UNCHANGED vars
  <2>. USE <1>3 DEF vars
  <2>1. TypeOK' BY DEF IInv, TypeOK
  <2>2. CallsInv' BY DEF IInv, CallsInv
  <2>3. AnswersAreTrue' BY DEF IInv, AnswersAreTrue, Matches, HashMatches
  <2>4. FreeInv' BY DEF IInv, FreeInv, Precedes
  <2>5. DuplicatesOverlapped' BY DEF IInv, DuplicatesOverlapped, Precedes
  <2>6. StampInv' BY DEF IInv, StampInv
  <2>7. PagesInv' BY DEF IInv, PagesInv
  <2>8. RegisteredCanLogin'
    BY DEF IInv, RegisteredCanLogin, Precedes, Matches, HashMatches
  <2>9. SentIsListed' BY DEF IInv, SentIsListed
  <2>. QED BY <2>1, <2>2, <2>3, <2>4, <2>5, <2>6, <2>7, <2>8, <2>9 DEF IInv
<1>. QED BY <1>1, <1>2, <1>3, NextCases
----------------------------------------------------------------------------
(* The invariant holds in every state. *)
THEOREM AlwaysIInv == Spec => []IInv
BY InitIInv, NextIInv, PTL DEF Spec

(***************************************************************************)
(* Rows of users with the same name come from registrations that           *)
(* overlapped or from a commit in doubt, and there are none when the       *)
(* schema forbids them: for any number of concurrent calls of execute.     *)
(***************************************************************************)
THEOREM RegistrationRace == Spec => []DuplicatesOverlapped
<1>1. IInv => DuplicatesOverlapped BY DEF IInv
<1>. QED BY <1>1, AlwaysIInv, PTL

(* What execute returns agrees with the rows of the tables. *)
THEOREM TrueAnswers == Spec => []AnswersAreTrue
<1>1. IInv => AnswersAreTrue BY DEF IInv
<1>. QED BY <1>1, AlwaysIInv, PTL

(***************************************************************************)
(* A registered user can log in.  The look-up of the login sees the row of *)
(* the registration, so a login that fails was given another row of the    *)
(* name, and DuplicatesOverlapped says where that comes from.              *)
(***************************************************************************)
THEOREM LoginAfterRegistration == Spec => []RegisteredCanLogin
<1>1. IInv => RegisteredCanLogin BY DEF IInv
<1>. QED BY <1>1, AlwaysIInv, PTL

(***************************************************************************)
(* A history shows every message whose sending returned before it was      *)
(* asked for, up to its limit, whatever is being sent meanwhile.           *)
(***************************************************************************)
THEOREM HistoryIsComplete == Spec => []SentIsListed
<1>1. IInv => SentIsListed BY DEF IInv
<1>. QED BY <1>1, AlwaysIInv, PTL

(***************************************************************************)
(* A history shows messages sent one after the other in that order:        *)
(* created_at never goes back between them, and the page is sorted by it.  *)
(***************************************************************************)
THEOREM HistoryIsOrdered == Spec => []ListedInOrder
<1>1. IInv => ListedInOrder
  <2>. SUFFICES ASSUME IInv, NEW h \in Ids,
                       NEW j \in DOMAIN pages[h], NEW k \in DOMAIN pages[h],
                       pages[h][j] \in before[pages[h][k]], ~(k < j)
                PROVE  stamp[pages[h][j]] = stamp[pages[h][k]]
    BY DEF ListedInOrder
  <2>. DEFINE m == pages[h][j]
              n == pages[h][k]
  <2>1. m \in messages /\ n \in messages BY DEF IInv, PagesInv
  <2>2. m \in Ids /\ n \in Ids /\ stamp[m] \in Nat /\ stamp[n] \in Nat
    BY <2>1 DEF IInv, TypeOK
  <2>3. stamp[m] <= stamp[n]
    <3>1. state[n] \in {"true", "in_doubt"}
      BY <2>1, <2>2 DEF IInv, AnswersAreTrue
    <3>2. calls[n].op \in Creating
      BY <2>1, <2>2 DEF IInv, CallsInv, Creating
    <3>. QED BY <2>2, <3>1, <3>2 DEF IInv, StampInv
  <2>4. j = k \/ j < k
    BY DEF IInv, TypeOK
  <2>5. j < k => stamp[m] >= stamp[n] BY DEF IInv, PagesInv
  <2>. QED BY <2>2, <2>3, <2>4, <2>5
<1>. QED BY <1>1, AlwaysIInv, PTL

(* The rows and the pages are those of calls that were made. *)
THEOREM TypeCorrect == Spec => []TypeOK
<1>1. IInv => TypeOK BY DEF IInv
<1>. QED BY <1>1, AlwaysIInv, PTL
============================================================================
