----------------------------- MODULE HttpServer ----------------------------
(***************************************************************************)
(* The HTTP side (infrastructure/network/http) composed with the token     *)
(* service and with the connection pool: HttpSession reads a request,      *)
(* HttpRouter::route makes the response on the same network thread, and a  *)
(* history request runs a query there while the actor workers store        *)
(* messages through the same pool.  The storage mailbox is reduced to the  *)
(* number of its envelopes.                                                *)
(***************************************************************************)
EXTENDS PostgresPool, JwtService

CONSTANTS
  Clients,      \* HTTP clients, each with one connection at a time
  Requests,     \* the requests the clients make
  Words,        \* the pieces of which user ids are made
  UserIds,      \* the user ids they log in with
  Nobody        \* no connection

(***************************************************************************)
(* What route tells apart.  "bearer", "bare" and "no_token" are requests   *)
(* to refresh: the Authorization field has a scheme and the client's       *)
(* token, only the token, or is missing.  "bad_login" has a body that is   *)
(* not a JSON object or a user_id that is not a string, "bad_user" an id   *)
(* that dump cannot write as it is not UTF-8, "bad_history" a chat id that *)
(* is not a UUID (also the target /chat/messages, whose length underflows  *)
(* in substr): route throws.                                               *)
(***************************************************************************)
Throwing == {"bad_login", "bad_user", "bad_history"}
Refreshing == {"bearer", "bare", "no_token"}
Plain == {"register", "user", "post_message", "unknown"}
Request == Plain \cup Throwing \cup Refreshing \cup {"login", "history"}

(* Quotes and braces in a user id are escaped in the payload. *)
ASSUME HttpAssumption ==
  /\ Requests \subseteq Request
  /\ Words \cap {Open, Close} = {}
  /\ UserIds \subseteq Seq(Words)
  /\ Nobody \notin Clients

VARIABLES
  http,      \* the HttpSession of each client: what it waits for
  request,   \* request_: what it read
  status,    \* the status code of the response being written
  token,     \* history: the last access_token its client was given
  user,      \* history: the user id its client last logged in with
  serving,   \* the session whose history query a network thread runs
  backlog    \* envelopes in the mailbox of the storage actor

httpVars == <<http, request, status, token, user, serving, backlog>>
allVars == <<vars, httpVars>>

(* Each variable has its type; backlog is never negative. *)
HttpTypeOK ==
  /\ http \in [Clients -> {"none", "reading", "routing", "writing"}]
  /\ request \in [Clients -> Requests \cup {"none"}]
  /\ status \in [Clients -> {0, 200, 202, 401, 404}]
  /\ DOMAIN token = Clients
  /\ user \in [Clients -> UserIds \cup {<<>>}]
  /\ serving \in [NetThreads -> Clients \cup {Nobody}]
  /\ backlog \in Nat

HttpInit ==
  /\ Init
  /\ http = [c \in Clients |-> "none"]
  /\ request = [c \in Clients |-> "none"]
  /\ status = [c \in Clients |-> 0]
  /\ token = [c \in Clients |-> <<>>]
  /\ user = [c \in Clients |-> <<>>]
  /\ serving = [n \in NetThreads |-> Nobody]
  /\ backlog = 0
----------------------------------------------------------------------------
(* The status of a response that depends on nothing but the target. *)
Status(r) ==
  CASE r \in {"register", "login", "user", "history"} -> 200
    [] r = "post_message" -> 202
    [] OTHER -> 404

(* The Authorization field of a request to refresh. *)
Authorization(c, r) ==
  CASE r = "bearer" -> <<Piece("Bearer"), Blank>> \o token[c]
    [] r = "bare" -> token[c]
    [] OTHER -> <<>>

(* Fault: the text after the last blank is taken. *)
TokenAfterLast(auth) == SubSeq(auth, RFind(auth, Blank) + 1, Len(auth))

(* auth.substr(auth.find(' ') + 1) *)
TokenOf(auth) == SubSeq(auth, Find(auth, Blank) + 1, Len(auth))

(* HttpSession::doRead *)
DoRead(c) ==
  /\ http' = [http EXCEPT ![c] = "reading"]
  /\ request' = [request EXCEPT ![c] = "none"]

(* HttpListener::onAccept, HttpSession::run; a client may come back *)
Accept(c) ==
  /\ ~terminated
  /\ http[c] = "none"
  /\ DoRead(c)
  /\ UNCHANGED <<vars, status, token, user, serving, backlog>>

(* HttpSession::onRead with a request; n runs the handler *)
Reads(n, c, r) ==
  /\ ~terminated
  /\ r \in Requests
  /\ http[c] = "reading"
  /\ serving[n] = Nobody
  /\ request' = [request EXCEPT ![c] = r]

(* Fault: the write of the response is not started. *)
RespondUnwritten(c, code) ==
  /\ status' = [status EXCEPT ![c] = code]
  /\ UNCHANGED http

(* route has made the response, and its write is started. *)
Respond(c, code) ==
  /\ status' = [status EXCEPT ![c] = code]
  /\ http' = [http EXCEPT ![c] = "writing"]

(* A request that route answers by itself. *)
OnRead(n, c, r) ==
  /\ r \in Plain
  /\ Reads(n, c, r)
  /\ Respond(c, Status(r))
  /\ UNCHANGED <<vars, token, user, serving, backlog>>

(* POST /login *)
OnLogin(n, c, u) ==
  /\ Reads(n, c, "login")
  /\ token' = [token EXCEPT ![c] = issueToken(u)]
  /\ user' = [user EXCEPT ![c] = u]
  /\ Respond(c, Status("login"))
  /\ UNCHANGED <<vars, serving, backlog>>

(* POST /refresh; a client that has no token sends none *)
OnRefresh(n, c, r) ==
  /\ r \in Refreshing
  /\ r # "no_token" => token[c] # <<>>
  /\ Reads(n, c, r)
  /\ LET t == TokenOf(Authorization(c, r)) IN
     \/ /\ validateToken(t)
        /\ token' = [token EXCEPT ![c] = issueToken(extractUserId(t))]
        /\ Respond(c, 200)
     \/ /\ ~validateToken(t)
        /\ Respond(c, 401)
        /\ UNCHANGED token
  /\ UNCHANGED <<vars, user, serving, backlog>>

(* route throws out of io_context::run and of the network thread. *)
OnReadThrows(n, c, r) ==
  /\ r \in Throwing
  /\ Reads(n, c, r)
  /\ terminated' = TRUE
  /\ UNCHANGED <<next, acquires, pc, connection, ticket, registered,
                 http, status, token, user, serving, backlog>>

(* Fault: the next read is started before the query is done. *)
KeepsReading(c) == UNCHANGED http

(* onRead starts no other operation while route runs. *)
Routing(c) == http' = [http EXCEPT ![c] = "routing"]

(* GET /chat/{id}/messages: getByChat, on this thread *)
OnReadHistory(n, c) ==
  /\ Reads(n, c, "history")
  /\ Acquire(n)
  /\ serving' = [serving EXCEPT ![n] = c]
  /\ Routing(c)
  /\ UNCHANGED <<status, token, user, backlog>>

(* getByChat returns and the response is written. *)
AnswerHistory(n, c) ==
  /\ serving[n] = c
  /\ Finish(n)
  /\ serving' = [serving EXCEPT ![n] = Nobody]
  /\ Respond(c, Status("history"))
  /\ UNCHANGED <<request, token, user, backlog>>

(* The session is destroyed with its last handler. *)
Destroy(c) ==
  /\ http' = [http EXCEPT ![c] = "none"]
  /\ request' = [request EXCEPT ![c] = "none"]

(* onRead with an error or the end of the stream *)
OnReadError(c) ==
  /\ ~terminated
  /\ http[c] = "reading"
  /\ Destroy(c)
  /\ UNCHANGED <<vars, status, token, user, serving, backlog>>

(* onWrite: with an error or need_eof the session ends, else it reads on *)
OnWrite(c) ==
  /\ ~terminated
  /\ http[c] = "writing"
  /\ DoRead(c) \/ Destroy(c)
  /\ status' = [status EXCEPT ![c] = 0]
  /\ UNCHANGED <<vars, token, user, serving, backlog>>
----------------------------------------------------------------------------
(* The actors: a message that came by WebSocket is to be stored. *)
Enqueue ==
  /\ ~terminated
  /\ backlog < MaxAcquires
  /\ backlog' = backlog + 1
  /\ UNCHANGED <<vars, http, request, status, token, user, serving>>

(* Mailbox::pop gives an envelope. *)
Pops == backlog > 0

(* StorageActor::handle calls create. *)
StoreMessage(w) ==
  /\ Pops
  /\ Acquire(w)
  /\ backlog' = backlog - 1
  /\ UNCHANGED <<http, request, status, token, user, serving>>

StoreDone(w) ==
  /\ Finish(w)
  /\ UNCHANGED httpVars

(* The steps of pqxx::work and the failures, as in PostgresPool. *)
Transaction(t) ==
  /\ BeginWork(t) \/ BeginWorkThrows(t) \/ Register(t) \/ FinishThrows(t)
  /\ UNCHANGED httpVars

Serve(n) ==
  \/ Transaction(n)
  \/ \E c \in Clients : AnswerHistory(n, c)

HttpNext ==
  \/ \E c \in Clients : Accept(c) \/ OnReadError(c) \/ OnWrite(c)
  \/ \E n \in NetThreads, c \in Clients :
       \/ \E r \in Requests : OnRead(n, c, r) \/ OnRefresh(n, c, r) \/ OnReadThrows(n, c, r)
       \/ \E u \in UserIds : OnLogin(n, c, u)
       \/ OnReadHistory(n, c)
  \/ \E n \in NetThreads : Serve(n)
  \/ Enqueue
  \/ \E w \in Workers : StoreMessage(w) \/ StoreDone(w) \/ Transaction(w)

HttpSpec == HttpInit /\ [][HttpNext]_allVars

(* A query that was begun is worked on; clients need not send or read. *)
HttpFairSpec == HttpSpec /\ \A n \in NetThreads : WF_allVars(Serve(n))
----------------------------------------------------------------------------
(***************************************************************************)
(* A session writes the answer to the request it read last, also when      *)
(* several network threads serve it in turn: HttpSession has no strand,    *)
(* only the rule that it starts one operation at a time.                   *)
(***************************************************************************)
AnswersItsRequest ==
  \A c \in Clients :
    http[c] = "writing" /\ request[c] \notin Refreshing => status[c] = Status(request[c])

(* The handlers of one HttpSession never run on two threads at a time. *)
OneThreadPerSession ==
  \A m, n \in NetThreads :
    serving[m] # Nobody /\ serving[m] = serving[n] => m = n

(***************************************************************************)
(* However often it is refreshed, a token is one that validateToken takes  *)
(* and from which extractUserId gets the user id of the login, though the  *)
(* id itself may have dots and blanks in it.                               *)
(***************************************************************************)
TokenNamesUser ==
  \A c \in Clients :
    token[c] # <<>> => validateToken(token[c]) /\ extractUserId(token[c]) = user[c]

(***************************************************************************)
(* The token of a client is taken when it comes after a scheme.  Without   *)
(* one, find returns npos and npos + 1 is 0: the token is taken as well,   *)
(* unless the user id has a blank, at which it is then cut.                *)
(***************************************************************************)
RefreshIsGranted ==
  \A c \in Clients :
    http[c] = "writing" /\ request[c] \in Refreshing =>
      (status[c] = 200) <=>
        \/ request[c] = "bearer"
        \/ request[c] = "bare" /\ Places(user[c], Blank) = {}

(***************************************************************************)
(* The history query of a connection ends: it is answered, or an exception *)
(* ends the process, whatever the workers do with the pool meanwhile.      *)
(***************************************************************************)
HistoryIsAnswered ==
  \A c \in Clients :
    (http[c] = "routing") ~> (http[c] = "writing" \/ terminated)

(***************************************************************************)
(* README.md: the networking threads never execute storage logic.  The     *)
(* code runs the history query in the handler of the request.              *)
(***************************************************************************)
NetworkThreadsDoNotStore == \A n \in NetThreads : pc[n] # "work"
============================================================================
