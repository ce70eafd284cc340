------------------------------ MODULE UseCases -----------------------------
(***************************************************************************)
(* The use cases (application/use_cases) and the repositories they call    *)
(* (infrastructure/repositories).  A use case is stateless: all its state  *)
(* is that of the call, so the processes here are the calls, numbered in   *)
(* the order in which they begin.  The controllers of presentation only    *)
(* forward to them.                                                        *)
(*                                                                         *)
(* Each repository function is a transaction of its own, so the look-up    *)
(* and the insert of a registration are two, and other calls run between.  *)
(* A random UUID is fresh: the row a call inserts is named by the call.    *)
(***************************************************************************)
EXTENDS Naturals, Sequences, FiniteSets

CONSTANTS
  Names,      \* user names
  Hashes,     \* password hashes
  Chats,      \* chat ids
  None,       \* an argument the call does not have; an empty string
  Limits,     \* the limits of a history
  MaxCalls,   \* bound: calls made
  Mixes       \* bound: which operations are called in one behaviour

Op == {"register", "login", "create_chat", "send_message", "history"}

ASSUME UseCasesAssumption ==
  /\ None \notin Names \cup Hashes \cup Chats
  /\ Limits \subseteq Nat
  /\ MaxCalls \in Nat
  /\ Mixes \subseteq SUBSET Op

Ids == 1..MaxCalls
Running == {"look", "create", "commit", "select"}
Finished == {"true", "false", "page", "threw", "in_doubt"}

VARIABLES
  mix,       \* the operations called
  unique,    \* the schema, which is not in the repository: is username unique?
  made,      \* how many calls were made
  calls,     \* the calls: operation and arguments
  state,     \* where each call is, or how it ended
  before,    \* history: the calls that had ended when it began
  stamp,     \* created_at of the row it inserts: NOW() of its transaction
  pages,     \* what a history returned
  users,     \* rows of users, by the call that inserted them
  chats,     \* rows of chats
  messages,  \* rows of messages
  clock      \* the time of the database server

rows == <<users, chats, messages>>
vars == <<mix, unique, made, calls, state, before, stamp, pages, users, chats,
          messages, clock>>

Call == [op : Op \cup {"none"}, name : Names \cup {None}, hash : Hashes \cup {None},
         chat : Chats \cup {None}, limit : Limits \cup {0}]

Invoke(op, n, h, c, limit) ==
  [op |-> op, name |-> n, hash |-> h, chat |-> c, limit |-> limit]

(* Each variable has its type; the rows and the pages are those of calls. *)
TypeOK ==
  /\ mix \in Mixes
  /\ unique \in BOOLEAN
  /\ made \in 0..MaxCalls
  /\ calls \in [Ids -> Call]
  /\ state \in [Ids -> {"none"} \cup Running \cup Finished]
  /\ before \in [Ids -> SUBSET Ids]
  /\ stamp \in [Ids -> Nat]
  /\ pages \in [Ids -> Seq(Ids)]
  /\ users \subseteq Ids /\ chats \subseteq Ids /\ messages \subseteq Ids
  /\ clock \in Nat

Init ==
  /\ mix \in Mixes
  /\ unique \in BOOLEAN
  /\ made = 0
  /\ calls = [i \in Ids |-> Invoke("none", None, None, None, 0)]
  /\ state = [i \in Ids |-> "none"]
  /\ before = [i \in Ids |-> {}]
  /\ stamp = [i \in Ids |-> 0]
  /\ pages = [i \in Ids |-> <<>>]
  /\ users = {} /\ chats = {} /\ messages = {}
  /\ clock = 0
----------------------------------------------------------------------------
Ended == {i \in Ids : state[i] \in Finished}

Begin(call, s) ==
  /\ call.op \in mix
  /\ made < MaxCalls
  /\ made' = made + 1
  /\ calls' = [calls EXCEPT ![made + 1] = call]
  /\ state' = [state EXCEPT ![made + 1] = s]
  /\ before' = [before EXCEPT ![made + 1] = Ended]
  /\ UNCHANGED <<mix, unique, stamp, pages, rows, clock>>

(* RegisterUserUseCase::execute, up to its call of findByUsername *)
RegisterUser(n, h) ==
  Begin(Invoke("register", n, h, None, 0),
        IF n = None \/ h = None THEN "false" ELSE "look")

(* LoginUserUseCase::execute *)
LoginUser(n, h) == Begin(Invoke("login", n, h, None, 0), "look")

(* CreateChatUseCase::execute *)
CreateChat == Begin(Invoke("create_chat", None, None, None, 0), "create")

(* SendMessageUseCase::execute with a content that is empty or not *)
SendMessage(c, empty) ==
  Begin(Invoke("send_message", None, None, c, 0),
        IF empty THEN "false" ELSE "create")

(* GetChatHistoryUseCase::execute *)
GetChatHistory(c, limit) ==
  Begin(Invoke("history", None, None, c, limit), "select")
----------------------------------------------------------------------------
(* The rows of users that have the name of call i. *)
Matches(i) == {u \in users : calls[u].name = calls[i].name}

(* Fault: a row of the name with another hash is overlooked. *)
TakenWithHash(i) == \E u \in Matches(i) : calls[u].hash = calls[i].hash

(* findByUsername in a registration: has_value() *)
Taken(i) == Matches(i) # {}

(* A name that is taken is refused. *)
LookForName(i) ==
  /\ state[i] = "look"
  /\ calls[i].op = "register"
  /\ state' = [state EXCEPT ![i] = IF Taken(i) THEN "false" ELSE "create"]
  /\ UNCHANGED <<mix, unique, made, calls, before, stamp, pages, rows, clock>>

(* Fault: the hash is compared with the wrong column. *)
HashIsName(u, i) == calls[u].name = calls[i].hash

(* getPasswordHash() == passwordHash *)
HashMatches(u, i) == calls[u].hash = calls[i].hash

(* findByUsername in a login: result[0] is any of the matching rows. *)
LookForUser(i) ==
  /\ state[i] = "look"
  /\ calls[i].op = "login"
  /\ \/ /\ Matches(i) = {}
        /\ state' = [state EXCEPT ![i] = "false"]
     \/ \E u \in Matches(i) :
          state' = [state EXCEPT ![i] =
                      IF HashMatches(u, i) THEN "true" ELSE "false"]
  /\ UNCHANGED <<mix, unique, made, calls, before, stamp, pages, rows, clock>>

(* create of a repository: the transaction begins, which is what NOW() says *)
BeginCreate(i) ==
  /\ state[i] = "create"
  /\ clock' \in {clock, clock + 1}
  /\ stamp' = [stamp EXCEPT ![i] = clock']
  /\ state' = [state EXCEPT ![i] = "commit"]
  /\ UNCHANGED <<mix, unique, made, calls, before, pages, rows>>

(* Fault: create does not commit, so its transaction is aborted. *)
InsertUncommitted(i) == UNCHANGED rows

(* INSERT and commit: the table of the operation has the row of call i. *)
Insert(i) ==
  /\ users' = IF calls[i].op = "register" THEN users \cup {i} ELSE users
  /\ chats' = IF calls[i].op = "create_chat" THEN chats \cup {i} ELSE chats
  /\ messages' = IF calls[i].op = "send_message" THEN messages \cup {i} ELSE messages

(* A unique index lets no second row of a name in: the statement throws. *)
Allowed(i) == calls[i].op = "register" /\ unique => Matches(i) = {}

(* create returns true. *)
CommitCreate(i) ==
  /\ state[i] = "commit"
  /\ Allowed(i)
  /\ Insert(i)
  /\ state' = [state EXCEPT ![i] = "true"]
  /\ UNCHANGED <<mix, unique, made, calls, before, stamp, pages, clock>>

(***************************************************************************)
(* getByChat: ORDER BY created_at DESC LIMIT.  Rows of the same time come  *)
(* in any order.                                                           *)
(***************************************************************************)
InChat(c) == {m \in messages : calls[m].chat = c}

PageSize(S, limit) ==
  IF Cardinality(S) < limit THEN Cardinality(S) ELSE limit

(* Fault: the rows are the newest ones, but their order is lost. *)
UnsortedRows(p) == \A j, k \in DOMAIN p : j < k => p[j] # p[k]

(* ORDER BY created_at DESC *)
SortedRows(p) ==
  \A j, k \in DOMAIN p : j < k => p[j] # p[k] /\ stamp[p[j]] >= stamp[p[k]]

(* Fault: the first rows of the chat are taken, not the last ones. *)
KeepsOldest(p, S) ==
  \A j \in DOMAIN p, m \in S :
    (\A k \in DOMAIN p : p[k] # m) => stamp[p[j]] <= stamp[m]

(* LIMIT leaves out no row newer than one it keeps. *)
KeepsNewest(p, S) ==
  \A j \in DOMAIN p, m \in S :
    (\A k \in DOMAIN p : p[k] # m) => stamp[p[j]] >= stamp[m]

Pages(S, limit) ==
  {p \in [1..PageSize(S, limit) -> S] : SortedRows(p) /\ KeepsNewest(p, S)}

GetByChat(i) ==
  /\ state[i] = "select"
  /\ \E p \in Pages(InChat(calls[i].chat), calls[i].limit) :
       pages' = [pages EXCEPT ![i] = p]
  /\ state' = [state EXCEPT ![i] = "page"]
  /\ UNCHANGED <<mix, unique, made, calls, before, stamp, rows, clock>>

(* acquire, pqxx::work or a statement throws, or commit does. *)
Throws(i) ==
  /\ state[i] \in Running
  /\ state' = [state EXCEPT ![i] = IF @ = "commit" THEN "in_doubt" ELSE "threw"]
  /\ UNCHANGED <<mix, unique, made, calls, before, stamp, pages, rows, clock>>

(* The connection was lost in commit, and the server commits all the same. *)
LateCommit(i) ==
  /\ state[i] = "in_doubt"
  /\ i \notin users \cup chats \cup messages
  /\ Allowed(i)
  /\ Insert(i)
  /\ UNCHANGED <<mix, unique, made, calls, state, before, stamp, pages, clock>>

Next ==
  \/ \E n \in Names \cup {None}, h \in Hashes \cup {None} :
       RegisterUser(n, h) \/ LoginUser(n, h)
  \/ CreateChat
  \/ \E c \in Chats, empty \in BOOLEAN : SendMessage(c, empty)
  \/ \E c \in Chats, limit \in Limits : GetChatHistory(c, limit)
  \/ \E i \in Ids :
       \/ LookForName(i) \/ LookForUser(i)
       \/ BeginCreate(i) \/ CommitCreate(i) \/ GetByChat(i)
       \/ Throws(i) \/ LateCommit(i)

Spec == Init /\ [][Next]_vars
----------------------------------------------------------------------------
(* i had returned or thrown when j began, and is not a commit in doubt. *)
Precedes(i, j) == i \in before[j] /\ state[i] # "in_doubt"

(***************************************************************************)
(* What a registration is worth without a lock between its look-up and its *)
(* insert: two rows of users have the same name only if the registrations  *)
(* overlapped, or the commit of the earlier one was in doubt; and never if *)
(* the schema forbids it.                                                  *)
(***************************************************************************)
DuplicatesOverlapped ==
  \A i, j \in users :
    i # j /\ calls[i].name = calls[j].name =>
      ~unique /\ ~Precedes(i, j) /\ ~Precedes(j, i)

(***************************************************************************)
(* A call that returned true did what it says, one that returned false,    *)
(* threw before its commit or is still running has stored nothing, and a   *)
(* registration was refused because of what it was given or was found.     *)
(***************************************************************************)
AnswersAreTrue ==
  \A i \in Ids :
    /\ state[i] = "true" =>
         /\ calls[i].op = "register" => i \in users
         /\ calls[i].op = "create_chat" => i \in chats
         /\ calls[i].op = "send_message" => i \in messages
         /\ calls[i].op = "login" =>
              \E u \in users : calls[u].name = calls[i].name /\ HashMatches(u, i)
    /\ state[i] \notin {"true", "in_doubt"} => i \notin users \cup chats \cup messages
    /\ calls[i].op = "register" /\ state[i] = "false" =>
         None \in {calls[i].name, calls[i].hash} \/ Matches(i) # {}

(***************************************************************************)
(* A user whose registration returned true can log in from then on: a      *)
(* later login with the same name and hash returns false only if there is  *)
(* a second row of the name, from a registration that overlapped or was in *)
(* doubt.                                                                  *)
(***************************************************************************)
RegisteredCanLogin ==
  \A i, l \in Ids :
    /\ calls[i].op = "register" /\ state[i] = "true"
    /\ calls[l].op = "login" /\ state[l] = "false"
    /\ calls[l].name = calls[i].name /\ calls[l].hash = calls[i].hash
    /\ i \in before[l]
    => \E j \in users \ {i} :
         calls[j].name = calls[i].name /\ i \notin before[j] /\ ~Precedes(j, i)

(***************************************************************************)
(* A message whose sending returned true before a history was asked for is *)
(* on the page, unless the page is full of messages that are not older.    *)
(* created_at is when the transaction of a message began, so a message can *)
(* still appear below ones that an earlier page showed, but only one that  *)
(* was being sent while that page was read.                                *)
(***************************************************************************)
SentIsListed ==
  \A m, h \in Ids :
    /\ calls[m].op = "send_message" /\ state[m] = "true"
    /\ state[h] = "page" /\ calls[h].chat = calls[m].chat
    /\ m \in before[h]
    => \/ \E k \in DOMAIN pages[h] : pages[h][k] = m
       \/ /\ Len(pages[h]) = calls[h].limit
          /\ \A k \in DOMAIN pages[h] : stamp[pages[h][k]] >= stamp[m]

(***************************************************************************)
(* A page lists a message above every message that had been sent before    *)
(* its own sending began, unless the two have the same time.               *)
(***************************************************************************)
ListedInOrder ==
  \A h \in Ids : \A j, k \in DOMAIN pages[h] :
    pages[h][j] \in before[pages[h][k]] =>
      k < j \/ stamp[pages[h][j]] = stamp[pages[h][k]]
============================================================================
