------------------------------ MODULE Shutdown -----------------------------
(***************************************************************************)
(* main, its signal handler, and the joins of Server::stop (main.cpp,      *)
(* core/threading/thread_pool.cpp, core/actor/actor_system.cpp).           *)
(*                                                                         *)
(* A signal is handled by any one thread of the process; the handler runs  *)
(* on top of whatever that thread was doing, which does not go on until    *)
(* the handler returns.  SIGINT and SIGTERM have the same handler, and     *)
(* each is blocked only during its own: one can interrupt the handler of   *)
(* the other.  The handler takes the mutex that main waits with, and main  *)
(* keeps that mutex while it stops the server.                             *)
(***************************************************************************)
EXTENDS Naturals

CONSTANTS
  NetThreads,   \* network threads, in io_context::run
  Workers,      \* actor workers, in ActorSystem::workerLoop
  Main,         \* the thread that runs main
  Free,         \* no owner
  MaxSignals    \* bound: signals sent to the process

ASSUME ThreadsAssumption ==
  /\ NetThreads \cap Workers = {}
  /\ Main \notin NetThreads \cup Workers
  /\ Free \notin NetThreads \cup Workers \cup {Main}

ASSUME MaxSignalsAssumption == MaxSignals \in Nat

Pool == NetThreads \cup Workers
Threads == Pool \cup {Main}

VARIABLES
  pc,         \* where main is
  life,       \* the other threads
  handler,    \* where each thread is in onSignal
  under,      \* where it is in the call of onSignal this one interrupted
  mutex,      \* its owner
  stopped,    \* the flag main waits for
  notified,   \* main was woken in cv.wait
  ioStopped,  \* io_context::stop was called
  running,    \* ActorSystem::running_
  signals     \* history: signals handled so far

vars == <<pc, life, handler, under, mutex, stopped, notified, ioStopped,
          running, signals>>

TypeOK ==
  /\ pc \in {"run", "lock", "test", "wait", "waiting", "relock", "stop",
             "join_net", "stop_actors", "join_actors", "exited"}
  /\ life \in [Pool -> {"unborn", "alive", "exited"}]
  /\ handler \in [Threads -> {"none", "lock", "set", "notify"}]
  /\ under \in [Threads -> {"none", "lock", "set", "notify"}]
  /\ mutex \in Threads \cup {Free}
  /\ stopped \in BOOLEAN
  /\ notified \in BOOLEAN
  /\ ioStopped \in BOOLEAN
  /\ running \in BOOLEAN
  /\ signals \in 0..MaxSignals

(* Both signal handlers are installed, Server::run comes next. *)
Init ==
  /\ pc = "run"
  /\ life = [t \in Pool |-> "unborn"]
  /\ handler = [t \in Threads |-> "none"]
  /\ under = [t \in Threads |-> "none"]
  /\ mutex = Free
  /\ stopped = FALSE
  /\ notified = FALSE
  /\ ioStopped = FALSE
  /\ running = FALSE
  /\ signals = 0
----------------------------------------------------------------------------
(* onSignal, on thread t *)

Alive(t) == IF t = Main THEN pc # "exited" ELSE life[t] = "alive"

Signal(t) ==
  /\ Alive(t)
  /\ pc # "exited"
  /\ under[t] = "none"
  /\ signals < MaxSignals
  /\ signals' = signals + 1
  /\ under' = [under EXCEPT ![t] = handler[t]]
  /\ handler' = [handler EXCEPT ![t] = "lock"]
  /\ UNCHANGED <<pc, life, mutex, stopped, notified, ioStopped, running>>

(* Fault: the flag is set without the mutex. *)
TakesNothing(t) == UNCHANGED mutex

Takes(t) == mutex = Free /\ mutex' = t

(* scoped_lock: blocks as long as the mutex has an owner, main included. *)
HandlerLock(t) ==
  /\ handler[t] = "lock"
  /\ Takes(t)
  /\ handler' = [handler EXCEPT ![t] = "set"]
  /\ UNCHANGED <<pc, life, under, stopped, notified, ioStopped, running,
                 signals>>

(* stopped = true, and the lock goes out of scope *)
HandlerSet(t) ==
  /\ handler[t] = "set"
  /\ stopped' = TRUE
  /\ mutex' = Free
  /\ handler' = [handler EXCEPT ![t] = "notify"]
  /\ UNCHANGED <<pc, life, under, notified, ioStopped, running, signals>>

(* cv.notify_all; the handler returns to what it interrupted *)
HandlerNotify(t) ==
  /\ handler[t] = "notify"
  /\ notified' = (notified \/ pc = "waiting")
  /\ handler' = [handler EXCEPT ![t] = under[t]]
  /\ under' = [under EXCEPT ![t] = "none"]
  /\ UNCHANGED <<pc, life, mutex, stopped, ioStopped, running, signals>>

Handler(t) == HandlerLock(t) \/ HandlerSet(t) \/ HandlerNotify(t)
----------------------------------------------------------------------------
(* main; At(l): it is at l and no handler runs on top of it *)

At(l) == pc = l /\ handler[Main] = "none"

(* Server::run starts the workers and the network threads. *)
Run ==
  /\ At("run")
  /\ pc' = "lock"
  /\ running' = TRUE
  /\ life' = [t \in Pool |-> "alive"]
  /\ UNCHANGED <<handler, under, mutex, stopped, notified, ioStopped,
                 signals>>

(* unique_lock lock(mutex), and the same at the end of a wait *)
Lock ==
  /\ At("lock") \/ At("relock")
  /\ Takes(Main)
  /\ pc' = "test"
  /\ UNCHANGED <<life, handler, under, stopped, notified, ioStopped,
                 running, signals>>

(* cv.wait: the predicate *)
Test ==
  /\ At("test")
  /\ pc' = IF stopped THEN "stop" ELSE "wait"
  /\ UNCHANGED <<life, handler, under, mutex, stopped, notified, ioStopped,
                 running, signals>>

(* cv.wait: the mutex is released and main is on the wait list, at once *)
Wait ==
  /\ At("wait")
  /\ pc' = "waiting"
  /\ mutex' = Free
  /\ notified' = FALSE
  /\ UNCHANGED <<life, handler, under, stopped, ioStopped, running,
                 signals>>

Wake ==
  /\ At("waiting")
  /\ notified
  /\ pc' = "relock"
  /\ UNCHANGED <<life, handler, under, mutex, stopped, notified, ioStopped,
                 running, signals>>

(* a wait may also end without a notification *)
WakeSpuriously ==
  /\ At("waiting")
  /\ ~notified
  /\ pc' = "relock"
  /\ UNCHANGED <<life, handler, under, mutex, stopped, notified, ioStopped,
                 running, signals>>

(* Server::stop, ThreadPool::stop: io_context::stop *)
StopNetwork ==
  /\ At("stop")
  /\ ioStopped' = TRUE
  /\ pc' = "join_net"
  /\ UNCHANGED <<life, handler, under, mutex, stopped, notified, running,
                 signals>>

JoinNetwork ==
  /\ At("join_net")
  /\ \A t \in NetThreads : life[t] = "exited"
  /\ pc' = "stop_actors"
  /\ UNCHANGED <<life, handler, under, mutex, stopped, notified, ioStopped,
                 running, signals>>

(* Fault: the workers are joined before they are told to stop. *)
KeepsRunning == UNCHANGED running

StopsRunning == running' = FALSE

(* ActorSystem::stop: running_.exchange(false) *)
StopActors ==
  /\ At("stop_actors")
  /\ StopsRunning
  /\ pc' = "join_actors"
  /\ UNCHANGED <<life, handler, under, mutex, stopped, notified, ioStopped,
                 signals>>

(* Fault: main returns without having joined the workers. *)
JoinsNobody == TRUE

JoinsWorkers == \A t \in Workers : life[t] = "exited"

(* ActorSystem::stop has joined the workers; main unlocks and returns. *)
JoinActors ==
  /\ At("join_actors")
  /\ JoinsWorkers
  /\ mutex' = Free
  /\ pc' = "exited"
  /\ UNCHANGED <<life, handler, under, stopped, notified, ioStopped,
                 running, signals>>

MainStep ==
  \/ Run \/ Lock \/ Test \/ Wait \/ Wake
  \/ StopNetwork \/ JoinNetwork \/ StopActors \/ JoinActors
----------------------------------------------------------------------------
(* A network thread leaves io_context::run, a worker leaves its loop. *)
ThreadExits(t) ==
  /\ life[t] = "alive"
  /\ handler[t] = "none"
  /\ IF t \in NetThreads THEN ioStopped ELSE ~running
  /\ life' = [life EXCEPT ![t] = "exited"]
  /\ UNCHANGED <<pc, handler, under, mutex, stopped, notified, ioStopped,
                 running, signals>>

Next ==
  \/ MainStep \/ WakeSpuriously
  \/ \E t \in Threads : Signal(t) \/ Handler(t)
  \/ \E t \in Pool : ThreadExits(t)

Spec == Init /\ [][Next]_vars

(* Every thread that can run runs; signals need not come. *)
Fairness ==
  /\ WF_vars(MainStep)
  /\ \A t \in Threads : WF_vars(Handler(t))
  /\ \A t \in Pool : WF_vars(ThreadExits(t))

FairSpec == Spec /\ Fairness
----------------------------------------------------------------------------
(***************************************************************************)
(* No wake-up is lost: when the flag is set and main sleeps in cv.wait, a  *)
(* notification has reached it or is about to.  The handler may run before *)
(* main locks, between its test and its wait, or while it sleeps.          *)
(***************************************************************************)
NoLostWakeup ==
  pc = "waiting" /\ stopped =>
    notified \/ \E t \in Threads : "notify" \in {handler[t], under[t]}

(***************************************************************************)
(* The result of main's test of the flag is still true when main goes to   *)
(* sleep on it: the handler cannot set the flag in between.                *)
(***************************************************************************)
TestIsNotStale == pc = "wait" => ~stopped

(* main and the handler never own the mutex together. *)
MutexOwner ==
  /\ (mutex = Main /\ "set" \notin {handler[Main], under[Main]}) <=>
       pc \in {"test", "wait", "stop", "join_net", "stop_actors", "join_actors"}
  /\ \A t \in Threads :
       /\ "set" \in {handler[t], under[t]} => mutex = t
       /\ ~(handler[t] = "set" /\ under[t] = "set")
       /\ handler[t] = "none" => under[t] = "none"

(***************************************************************************)
(* main returns, and destroys the server, only when no other thread runs   *)
(* any more and no handler is still in the middle of its work on them.     *)
(***************************************************************************)
ReturnsAlone ==
  pc = "exited" =>
    /\ \A t \in Pool : life[t] = "exited"
    /\ \A t \in Threads : handler[t] = "none"

(***************************************************************************)
(* What ReturnsAlone rests on: a thread that has left its loop handles no  *)
(* signal, and the network threads are gone before the workers are told.   *)
(***************************************************************************)
JoinedInTurn ==
  /\ \A t \in Pool : life[t] = "exited" => handler[t] = "none"
  /\ pc \in {"stop_actors", "join_actors", "exited"} =>
       \A t \in NetThreads : life[t] = "exited"

(***************************************************************************)
(* A signal that was handled ends the process, with the exceptions the     *)
(* property states, in which a handler waits for the mutex for ever: main  *)
(* owns it, and joins the thread of that handler or is that thread; or the *)
(* handler interrupted the one that owns it.                               *)
(***************************************************************************)
Hung == \E t \in Threads : handler[t] = "lock" /\ mutex \in {Main, t}

SignalEndsProcess == (stopped ~> pc = "exited") \/ <>[]Hung
============================================================================
