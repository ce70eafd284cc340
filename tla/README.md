# A TLA+ model of the Svitock backend

Svitock is a messenger backend in C++20: clients talk to it over WebSocket and
HTTP, a small actor system moves their messages, PostgreSQL keeps them. This
directory holds TLA+ modules for its concurrent parts, TLC configurations, and
TLAPS proofs. Paths below are relative to `src/src/`.

## The system

| Part | Code | Modules | State of the model |
|---|---|---|---|
| actor runtime: mailboxes, workers, start and stop | `core/actor` | `ActorSystem`, `MessageLife` | modelled |
| the four actors | `infrastructure/actors` | `ActorSystem`, `MessageLife` | modelled |
| dispatcher of client frames | `infrastructure/dispatcher` | `ActorSystem` | modelled |
| WebSocket session | `infrastructure/network/websocket` | `WebSocketSession`, `OutgoingChannel` | modelled |
| WebSocket listener | the same | `ActorSystem` (`Accept`) | partly: no start-up errors |
| HTTP listener, session, router | `infrastructure/network/http` | `HttpServer` | modelled, without bodies |
| token service | `core/security` | `JwtService`, used by `HttpServer` | modelled |
| connection pool | `infrastructure/database` | `PostgresPool`, `HttpServer` | modelled |
| repositories | `infrastructure/repositories` | `UseCases`, `PostgresPool` | modelled |
| use cases | `application/use_cases` | `UseCases`, `SessionManager` | modelled |
| server, thread pool, main, signal handler | `infrastructure/network/server.cpp`, `core/threading`, `main.cpp` | `ActorSystem`, `Shutdown` | modelled |
| direct delivery path: session directory, session, dispatcher | `infrastructure/websocket` | `SessionManager` | modelled (not in the build) |
| domain entities, configuration, logging, presentation, stubs | | | not modelled, see the end |

How they interact. A network thread reads a frame, and the dispatcher turns it
into an envelope for the session actor or the message actor. Any worker may pop
any mailbox. The message actor passes a message to the chat actor, which sends
it to the storage actor, an echo to the sender's session, and a copy to the
recipient's. The session actor posts payloads to the strand of the WebSocket
session, which writes them one at a time. The storage actor inserts rows through
the pool. HTTP requests are answered by the router on the network thread; the
history request queries the database there, through the same pool. `main` waits
for a signal and stops network and workers in this order.

## The modules

**`ActorSystem`** (instantiated by `MCActorSystem`). `mailbox` is the queue of
each actor, `leaked` the envelopes that `Mailbox::push` released and
`bounded_push` refused, `pc`, `pos`, `held`, `step` the position of each worker
in `workerLoop` and in a handler. A handler is cut at each of its sends
(`Forward`), because another worker may run between two of them; `Deliver`,
`Store`, `StoreThrows` and `Ignore` are the handlers that end without a send.
`Store` may end the process although the row is there: the answer to a commit
can be lost, and `commit` throws then. `Accept` is the listener's handler, which
numbers the session and starts its handshake; the session is bound and reads
only when the handshake is done (`OnAccept`), so sessions are bound in any order,
some never, and workers look for them meanwhile. `broken` remembers the sessions
whose read or write has failed. `OnRead` is the read handler with the whole of `MessageDispatcher::dispatch`.
Texts and ids are replaced by the arrival number of the frame; what remains of a
frame is its type, its session, the recipient, and whether its ids parse.
`frames`, `broken`, and the order and number of what is in `posted` and
`messages`, are history. `Order` is the unknown iteration order of `actors_`.

**`MessageLife`** is what that pipeline promises, without workers, mailboxes or
handlers: a message that was read is handed to storage or refused, never both
and never twice; what was handed over becomes at most one row, and rows are only
added; sender and recipient are each told at most once and not before the
hand-over was tried; nothing happens after the halt, which may come with the
step that adds a row. In the refinement `handed`
is the set of frames whose persist envelope is in the storage mailbox, in the
hands of a worker or stored (`WithStorage`), `refused` those whose envelope was
refused on the way there (`RefusedIds`), `rows` is `messages`, `told` what was
posted (`ToldOf`), and `halted` that the process was terminated or
`Server::stop` has returned (`Halted`).

**`WebSocketSession`** is one session of that pipeline in detail: handshake,
reads, the functions posted by `send`, `writeQueue_`, the outstanding
`async_write`, errors, lifetime by `shared_ptr`. **`OutgoingChannel`** is what it
promises: payloads arrive in order, none twice or skipped, until the channel is
cut. The refinement maps `delivered` to `wire` and `cut` to `writeFailed`.

**`PostgresPool`** has the round robin of `acquire` with the wrap of its counter,
and the transaction of a repository call. What `pqxx::work` does with the
connection is external, taken from how the code uses it: it looks at the one slot
in which the connection keeps its transaction, throws if that is taken, and else
takes it, in two steps between which other threads may come. So two threads can
both find the slot free, the later overwrites the earlier, and a transaction that
ends may or may not clear the slot of the other one (`Unregistered`).

**`JwtService`** has `issueToken`, `validateToken` and `extractUserId` as
functions on texts. A text is a sequence of pieces; dots and blanks are pieces
of their own because the code looks for them, and a user id may have both in it.
`sign` differs on texts that differ. `exp` is written and never read, so time is
left out.

**`HttpServer`** (instantiated by `MCHttpServer`) extends `PostgresPool` and
`JwtService`: network threads serve HTTP connections, hand out and refresh
tokens and run the history query, workers store messages, all over one pool. The
storage mailbox is reduced to a count. Requests are told apart by route, by
whether the route throws, and by the form of the Authorization field.

**`UseCases`** has the five use cases and the three repositories as overlapping
calls. Each repository function is a transaction of its own, so other calls come
between the look-up and the insert of a registration; every transaction may
throw, and a commit that threw may take effect later (`LateCommit`). The schema
is not in the repository: `unique`, chosen in `Init`, says whether user names
have a unique index. `stamp` is `created_at`, the time at which the transaction
began. `mix`, also chosen in `Init`, bounds which operations one behaviour calls.

**`Shutdown`** has `main`, `onSignal` on any thread and nested once (two signals
share the handler), the mutex, the condition variable with spurious wake-ups,
and the joins. What an interrupted `std::mutex` call may do inside the library
is not modelled; a lock is one step.

**`SessionManager`** (instantiated by `MCSessionManager`) is the direct path of
`infrastructure/websocket`, which `CMakeLists.txt` leaves out: sessions
authenticate, the directory keeps a weak pointer for each user, a message is
stored and then handed to the session found. Handlers are cut at each access to
the directory. The outgoing queue, whose code is that of `WebSocketSession`, is
reduced to lengths.

Operators whose comment starts with *Fault:* are variants of the definition that
follows them, with a mistake such code could have. Each property is violated
when the named definition is replaced by such a variant (`mutants` in
`PROJECT.json`).

## The runs

`tlc -config <cfg> <module>`; states are distinct states.

| Run | Configuration | Shows | States |
|---|---|---|---|
| `pipeline_safety` | `ActorSystem_safety` | two workers, mailboxes of one envelope, two clients: `StoredExactlyOnceOrRefused`, `ShownAtMostOnce`, `ToldAfterHandedToStorage`, `PostedToTheRightSession`, `EchoedUnlessBroken`, `UnboundForGood` | 2.4 million |
| `pipeline_one_worker` | `ActorSystem_one_worker` | with one worker rows and payloads keep the order of the frames (`SingleWorkerInOrder`); the two conjuncts without their premise are both violated by the same instance with two workers | 1.4 million |
| `pipeline_lifecycle` | `ActorSystem_lifecycle` | one client that connects, sends valid and invalid frames and leaves, and a stop at any time: `ImplementsLife` (the pipeline refines `MessageLife`), `AtHome`, `StillAfterStop`, and under fairness `EventuallySettled`, `StopReturns` (from the moment the network threads are joined) | 420 000 |
| `pipeline_delivered` | `ActorSystem_delivered` | **violated**: `DeliveredIsStored` | |
| `pipeline_persist_failure` | `ActorSystem_persist_failure` | **violated**: `FailedPersistIsSurvived` | |
| `session` | `WebSocketSession` | `OneWriteOfTheFront`, `FailedWriteBlocksQueue`, `Conserved`, `BoundIsAlive`, `ImplementsChannel`, `PostedIsWritten`, `DeadPeerIsFreed` | 1 400 |
| `pool_safety` | `PostgresPool_safety` | `SharedOnlyAfterFullRound`, `ThrowsOnlyAfterFullRound` over the wrap of the counter | 37 000 |
| `http` | `HttpServer` | `AnswersItsRequest`, `TokenNamesUser`, `RefreshIsGranted`, `OneThreadPerSession`, `HistoryIsAnswered` | 381 000 |
| `http_network` | `HttpServer_network` | **violated**: `NetworkThreadsDoNotStore` | |
| `shutdown` | `Shutdown` | `NoLostWakeup`, `TestIsNotStale`, `ReturnsAlone`, `SignalEndsProcess` | 2 600 |
| `directory` | `SessionManager` | `ShownIsStored`, `ShownToItsUser`, `ClosedIsForgotten`, `FoundUnlessAnotherClosed`, `FreedForGood` | 517 000 |
| `use_cases` | `UseCases` | `DuplicatesOverlapped`, `AnswersAreTrue`, `RegisteredCanLogin`, `SentIsListed`, `ListedInOrder` | 4.4 million |

The module of a run is `MC` and the name of the component where there is such a
module, and the component itself otherwise.

The three violated properties are statements of the README or of a log line that
the code does not keep:

- *delivered is not stored.* `ChatActor::handle` discards the result of the send
  to the storage actor. With its mailbox full the message is lost, and the
  sender is still sent `message_delivered`.
- *a failed insert ends the process.* `StorageActor::handle` has a branch that
  logs the failure, but `create` throws, and `workerLoop` catches nothing.
- *network threads run queries.* The history route does so.

What the passing runs say of the places that are easy to get wrong:

- *registration* has no lock between look-up and insert. Two rows of one name
  come only from registrations that overlapped, or when the commit of the
  earlier one was in doubt, and never with a unique index. A user who was told
  "registered" can log in afterwards, with the same exception.
- *history* is ordered by the begin of transactions, not by their commits. A
  message that was sent before a page was asked for is on it, or the page is full
  of messages that are not older; two messages sent one after the other are
  listed in that order, unless their times are equal.
- *tokens* are cut at the first and last dot, so a user id with dots survives any
  number of refreshes. A token sent without a scheme is accepted too, unless the
  user id has a blank in it (`RefreshIsGranted` says exactly when).
- *the pool* reserves nothing. `acquire` hands out a connection in use again
  after `pool_size` further calls, and not before, also over the wrap of the
  counter (`SharedOnlyAfterFullRound`). The slot of a shared connection is checked
  and taken without a lock, yet a thread is refused only for the transaction of
  a thread that is still at work and a whole round away; no slot stays taken by
  a call that has returned (`ThrowsOnlyAfterFullRound`).
- *sessions* can be named before they are bound and after they were unbound. A
  session that has broken is never bound or posted to again (`UnboundForGood`).
  The echo of a message is not lost to this: its sender was bound before its
  first read was started, so an echo that finds nobody belongs to a session that
  has broken (`EchoedUnlessBroken`). A recipient has no such promise: a copy sent
  while its handshake goes on is dropped.
- *the directory* of the direct path has one entry for a user, and a session that
  closes erases it also when it is that of a newer session. A user whose session
  works is not found only if another session of that user has closed
  (`FoundUnlessAnotherClosed`).

Two more facts can be read off the actions of the models; no run has them as a
property, and they contradict no text: the answer
"queued" of `POST /chat/{id}/message` queues nothing (`OnRead` of `HttpServer`
leaves `backlog` alone), and `onSignal` can block for ever on the mutex `main`
holds while it joins (the exception `SignalEndsProcess` names).

### Bounds

Every bound is a constant. Two workers are the fewest that overlap in a
handler. A mailbox of one envelope is full as soon as two meet, and two frames
are what that takes; three frames are used where order is the question. Two
sessions give a sender, a recipient, and a session that is both;
`pipeline_delivered` needs one, and `pipeline_lifecycle`, which checks liveness,
has one and the six frames of `OneClient`; `typing` and frames that are no
object occur in `pipeline_one_worker` only.

`http` has six of the twelve kinds of request: login, a refresh with and without
a scheme, a history, a history that throws, and a message. The other six are in
`http_network` only, which ends at its violation, so no run explores them in
full; in the model they differ in the status of their answer, or throw like
`bad_history`. One user id has a dot and one a blank (`MCUserIds`); with them a
search that stops at the wrong dot or blank gives another text. Three calls of
`acquire` (`MaxAcquires`) are one more than there are connections.

The counter of the pool has 4 values for 2 connections and 7 calls, so it wraps.
Three sessions of two users and four frames give two sessions of one user, a
third that writes to them, and its message. Three signals are one that ends the
process, one nested in it, and one late.

Three calls (`MaxCalls`) of `UseCases` are two that race and one that observes
them. `Mixes` has registration with login, and chats, messages and histories;
the two groups touch different tables. Two names, hashes and chats tell the same
from another; a limit of 1 cuts a page, a limit of 2 does not.

Clients and deadlock: clients may fall silent, the process may exit or be
terminated and calls may be used up, so all configurations allow a state without
a successor.

### Fairness

Weak fairness of each worker, of the stop that was begun, of the handlers on the
strand, of handlers of signals, and of a network thread inside a query: threads
that can run are scheduled, and Asio runs handlers that are ready. No client is
assumed to connect, to send or to stay. One thing is assumed in
`WebSocketSession`: a client that is up takes what it is sent, so that a write
completes. A client that keeps sending, which holds off the time-out for idle
peers, and never reads is left out; its session would keep a payload in the
queue for ever. An operation of a WebSocket session whose peer went away
completes with an error, because `WebSocketSession::run` sets the suggested
time-outs of Beast; while the peer is up a read may wait for ever. Safety needs
no fairness.

## The proofs

Proved with TLAPS for every number of workers, sessions, frames, payloads,
connections, threads, signals and calls, and for every user id.

**`ActorSystemProofs`**: `TypeCorrect`, `EnvelopesAreAtHome`, `StorageComesFirst`,
`PayloadsReachTheirSession`, `UnboundSessionsStayUnbound`, `NothingAfterStop`,
from `ConstantsAssumption` and `OrderAssumption`. Lemmas state what a send, a
pop, a forward and a dispatch do to the *set* of envelopes of a mailbox; the
invariants speak of these sets. `AtHome` is inductive with the types and with
the fact that workers do not run before `Server::run`. "Nobody is told before
storage was handed the message" is not inductive, because the chat handler that
has made its first send and not its second must be known to have handed over:
`ToldInv` adds that. `OriginInv` adds that each envelope carries the sessions of
the frame it descends from. `UnboundSessionsStayUnbound` rests on `SessionInv`: a
session has at most one of a handshake, a transport and a failure behind it, and
only the numbers given out so far occur, so that `OnAccept` never binds a session
that has broken.

**`PipelineProofs`**: `StoredOnce`, `ShownOnce` and `SenderIsTold`, that no message
is duplicated or forgotten. Sets of envelopes do not suffice here, so the proof is about the
*places* of a duty (`Places`): a position in a mailbox, a worker, a refused
envelope, a row, a posted payload. A step is `Fine` for a frame and a purpose
when it makes no place from nothing and no two of one, and the duty is `Kept` when
it has a place afterwards. Each action is shown to be fine: a forward, a delivery
and a store move at most one duty from the worker to one new place, a pop shifts
the places of one mailbox one to one, and the rest move nothing. Only a handler
that ignores its envelope loses a duty, and a forward to nobody that of a copy. The inductive invariant
`OnceInv` adds to the two properties that a frame that was not read yet has no
place, which makes the first place the only one; `AtHome` is needed because a
handler that ignores its envelope must not have held a duty to store. For an echo
it may have, and `EchoIgnored` shows whose: `OriginInv` says that the envelope
names the session of its frame, `SessionInv` that this session was bound, so it
has broken. With this `EchoedUnlessBroken` is inductive.

The refinement `PipelineIsALife` is proved in the same module from `OnceInv`,
`OriginInv`, `StorageComesFirst` and `NothingAfterStop`. Each action is shown to
be one action of `MessageLife` or none: the read of a `send_message` frame is `Read`; a forward is
`HandOver` when the storage mailbox takes the persist envelope, `Refuse` when a
mailbox refuses a message that was not handed over, and nothing otherwise; a
delivery is `Tell`, the insert is `Store`, and what ends the process (an
exception, or the return of `Server::stop`) is `Halt`. That a hand-over is the first one, and that a row or a notice is new,
is where `OnceInv` is needed: the worker that holds the duty is its only place
(`SoleDuty`, `SoleNotice`). A pop is the delicate stutter: the envelope leaves
the storage mailbox and enters the hand of a worker in one step, so `handed`
does not change.

**`FifoProofs`**: `OneWorkerIsFifo`, that a single worker keeps the order of the
frames, with no bound on anything else. `SingleWorkerInOrder` speaks of rows and
posted payloads only; the inductive invariant `FifoInv` speaks of everything on
the way to them. For storing, and for each session, the pipeline is a *line* of
queues: what is done, the mailbox of the actor that does it, the chat and the
message mailbox, and the frame that is read next, with the envelope in the
handler in front of its mailbox. `Sorted` says that along this line frame
numbers increase; it is strict for storing, and for showing it is not, because
the echo and the copy of one frame may go to one session. Every action moves an
entry from the front of a queue to the end of the next one (`LandsBehind`), or
removes one. That the scan of `workerLoop` handles an envelope to its end
before the next pop is what keeps a single entry between two queues.

**`WebSocketSessionProofs`**: `TypeCorrect`, `WritesAreSerial`, `NothingIsLost`,
`BoundSessionsLive`, `NoWriteAfterFailure`, and `SessionIsAChannel` (the
refinement). The inductive invariant `SessionInv` is the conjunction of types,
`OneWriteOfTheFront`, `FailedWriteBlocksQueue`, `Conserved` and `BoundIsAlive`.
They are proved together because some need others: a write in progress is of the
front of the queue only if a failed write leaves the queue blocked.

**`HttpServerProofs`**, first part, about `PostgresPool` alone: `TypeCorrect`,
`RoundRobin`, `ClashOnlyAfterFullRound`, `TicketsAreKept`. `TicketInv` says that a
connection is the ticket modulo the pool size; the arithmetic of remainders is in
lemmas. For `ClashOnlyAfterFullRound`, `RegisteredInv` adds that the slot of a
connection is free or names a thread that holds this connection and works, also
after one transaction has overwritten another. The assumption that the
pool size divides the number of counter values (`WordSizeAssumption`) is needed:
otherwise the round is uneven at the wrap. It holds for the shipped `pool_size`
of 16.

**`HttpServerProofs`**, second part: `RoundTrip` (a token is valid and gives back its user
id, whatever dots and blanks that has), `HttpTypes`, `RefreshedTokens`,
`RefreshRule`, `NoSharedSession`, `RightAnswer`, `RoundRobinForBoth`. Lemmas say
where the pieces of a token are and what the two searches find. The inductive
invariant `HttpInv` adds that a thread at work on a query has its session in
`route` (`ServingInv`) and that a token is the one issued for the user of its
login (`TokenInv`); `HttpAssumption` says that quotes and braces in a user id are
escaped. `RoundRobinForBoth` carries both promises of the pool over to the
composition: each step of `HttpServer` is a step of `PostgresPool`, or leaves its
variables alone, or terminates the process.

**`ShutdownProofs`**: `TypeCorrect`, `WakeupsArrive`, `MainReturnsLast`, `NoStaleTest`, from one
invariant (`ShutdownInv`) that adds to the types, `NoLostWakeup`,
`TestIsNotStale` and `ReturnsAlone` who owns the mutex (`MutexOwner`) and in
which order threads are joined (`JoinedInTurn`).

**`SessionManagerProofs`**: `TypeCorrect`, `StoredBeforeShown`,
`ShownToAddressee`, `ClosedIsRemoved`, `UserIsFound`, `FreedIsFinal`. The
inductive invariant `DirectoryInv` adds that the directory knows a session only
under users it authenticated as (`EntryInv`), and that a handler between two
accesses works on a stored message and on a session of its addressee
(`HandlerInv`). `FreedIsFinal` is a property of single steps.

**`UseCasesProofs`**: `TypeCorrect`, `RegistrationRace`, `TrueAnswers`,
`LoginAfterRegistration`, `HistoryIsComplete`, `HistoryIsOrdered`. The inductive
invariant `IInv` adds which calls are where (`CallsInv`), that a registration
which found its name free began before the rows of that name were certain
(`FreeInv`), that times follow the order of calls (`StampInv`), and that pages
are sorted (`PagesInv`).

Every invariant, action property and refinement of a passing run is proved.
Only model-checked is what needs fairness (`EventuallySettled`, `StopReturns`,
`PostedIsWritten`, `DeadPeerIsFreed`, `HistoryIsAnswered`, `SignalEndsProcess`),
since TLAPS as used here proves neither liveness nor `ENABLED`. Results by
induction over data and modules with `RECURSIVE` operators are out of the
prover's reach too; no property here needs either. The three violated properties
are refuted by TLC on one instance, which is enough.

The type invariants are proved (`TypeCorrect` of each module, `HttpTypes`) and
listed in no run. The leaves of the proofs that need no arithmetic name `Zenon`,
which is faster on them than the default.

## Not modelled

- Opening the acceptors and the connections, configuration and logging: I/O at
  start-up; its values are constants here.
- Bodies of HTTP responses and JSON formatting, but for the user id in a token.
- `exp` and `iat` of a token, which the code writes and never reads.
- `PostgresChatRepository::findById`, which changes nothing and is not called.
- The value classes of the domain, which are immutable.
- `presentation` and the two server stubs, which are not in the build:
  controllers forward to one use case each, the router and the stubs do nothing.
- The memory order of the lock-free queue and the cost of the busy loop of idle
  workers: below the level of these models.
- One composition of all parts. `HttpServer` composes pool, tokens and sessions;
  `ActorSystem` ends where a payload is posted, and `WebSocketSession` begins
  there, so that delivery is followed to the wire by two modules that share
  `posted` and `strand` as their border.
