---------------------------- MODULE PostgresPool ---------------------------
(***************************************************************************)
(* PostgresPool (infrastructure/database) and its user, the message        *)
(* repository (infrastructure/repositories).  acquire hands out the        *)
(* connections round robin and knows nothing of their return: a connection *)
(* that is still in a transaction can be handed to a second thread.        *)
(*                                                                         *)
(* The worker threads run PostgresMessageRepository::create (from          *)
(* StorageActor::handle), the network threads getByChat (from              *)
(* HttpRouter::route).                                                     *)
(***************************************************************************)
EXTENDS Integers, FiniteSets

CONSTANTS
  Workers,      \* actor worker threads
  NetThreads,   \* network threads
  PoolSize,     \* database.pool_size
  WordSize,     \* number of values of the std::size_t counter next_
  MaxAcquires   \* bound: calls of acquire

ASSUME ThreadsAssumption ==
  IsFiniteSet(Workers) /\ IsFiniteSet(NetThreads) /\ Workers \cap NetThreads = {}

(* The constructor throws unless poolSize > 0. *)
ASSUME PoolSizeAssumption == PoolSize \in Nat \ {0}

(***************************************************************************)
(* The counter wraps at WordSize.  The round robin goes on evenly over the *)
(* wrap because PoolSize divides WordSize: 16 connections and 2^64 values  *)
(* in the configuration that is shipped.                                   *)
(***************************************************************************)
ASSUME WordSizeAssumption ==
  WordSize \in Nat \ {0} /\ \E k \in 1..WordSize : WordSize = k * PoolSize

ASSUME MaxAcquiresAssumption == MaxAcquires \in Nat

Threads == Workers \cup NetThreads
Connections == 0..(PoolSize - 1)     \* the indices of pool_

VARIABLES
  next,        \* next_
  acquires,    \* history: how often acquire was called
  pc,          \* where each thread is in create or getByChat
  connection,  \* the connection it was given
  ticket,      \* history: the number of its call of acquire
  registered,  \* the transaction each connection has: {} or that of one thread
  terminated   \* an exception left a thread: std::terminate

vars == <<next, acquires, pc, connection, ticket, registered, terminated>>

TypeOK ==
  /\ next \in 0..(WordSize - 1)
  /\ acquires \in Nat
  /\ pc \in [Threads -> {"idle", "acquired", "checked", "work"}]
  /\ connection \in [Threads -> Connections]
  /\ ticket \in [Threads -> Nat]
  /\ registered \in [Connections -> SUBSET Threads]
  /\ terminated \in BOOLEAN

Init ==
  /\ next = 0
  /\ acquires = 0
  /\ pc = [t \in Threads |-> "idle"]
  /\ connection = [t \in Threads |-> 0]
  /\ ticket = [t \in Threads |-> 0]
  /\ registered = [c \in Connections |-> {}]
  /\ terminated = FALSE
----------------------------------------------------------------------------
(* Fault: every second call is given the connection of the call before. *)
IndexHalfSteps(n) == (n \div 2) % PoolSize

Index(n) == n % PoolSize

(* acquire: next_.fetch_add(1) % pool_.size() *)
Acquire(t) ==
  /\ ~terminated
  /\ pc[t] = "idle"
  /\ acquires < MaxAcquires
  /\ connection' = [connection EXCEPT ![t] = Index(next)]
  /\ next' = (next + 1) % WordSize
  /\ acquires' = acquires + 1
  /\ ticket' = [ticket EXCEPT ![t] = acquires]
  /\ pc' = [pc EXCEPT ![t] = "acquired"]
  /\ UNCHANGED <<registered, terminated>>

(***************************************************************************)
(* The constructor of pqxx::work.  A connection has room for the pointer   *)
(* to one transaction.  libpqxx looks whether there is one, throws         *)
(* usage_error if so, and puts the new one there otherwise.  Nothing       *)
(* orders the two steps against the same steps of another thread: the      *)
(* second of two threads that saw none replaces the transaction of the     *)
(* first, and both go on.  An exception leaves the thread.                 *)
(***************************************************************************)
BeginWork(t) ==
  /\ ~terminated
  /\ pc[t] = "acquired"
  /\ registered[connection[t]] = {}
  /\ pc' = [pc EXCEPT ![t] = "checked"]
  /\ UNCHANGED <<next, acquires, connection, ticket, registered, terminated>>

BeginWorkThrows(t) ==
  /\ ~terminated
  /\ pc[t] = "acquired"
  /\ registered[connection[t]] # {}
  /\ terminated' = TRUE
  /\ UNCHANGED <<next, acquires, pc, connection, ticket, registered>>

Register(t) ==
  /\ ~terminated
  /\ pc[t] = "checked"
  /\ registered' = [registered EXCEPT ![connection[t]] = {t}]
  /\ pc' = [pc EXCEPT ![t] = "work"]
  /\ UNCHANGED <<next, acquires, connection, ticket, terminated>>

(* Fault: the transaction object outlives the call. *)
UnregisteredNever(ts, t) == {ts}

(***************************************************************************)
(* What the destructor of pqxx::work leaves of the transaction ts that the *)
(* connection has.  If that is not its own, it is an error that is only    *)
(* reported; some versions of libpqxx forget the other transaction then.   *)
(***************************************************************************)
Unregistered(ts, t) == {{}, ts \ {t}}

(***************************************************************************)
(* The statement, the commit of create, and the destructor of the          *)
(* transaction.  getByChat does not commit: its transaction is aborted.    *)
(***************************************************************************)
Finish(t) ==
  /\ ~terminated
  /\ pc[t] = "work"
  /\ \E r \in Unregistered(registered[connection[t]], t) :
       registered' = [registered EXCEPT ![connection[t]] = r]
  /\ pc' = [pc EXCEPT ![t] = "idle"]
  /\ UNCHANGED <<next, acquires, connection, ticket, terminated>>

(***************************************************************************)
(* exec_params or commit throws: the connection is lost, the statement     *)
(* fails, or another thread uses the connection at the same time.          *)
(***************************************************************************)
FinishThrows(t) ==
  /\ ~terminated
  /\ pc[t] = "work"
  /\ terminated' = TRUE
  /\ UNCHANGED <<next, acquires, pc, connection, ticket, registered>>

Next ==
  \E t \in Threads :
    \/ Acquire(t) \/ BeginWork(t) \/ BeginWorkThrows(t) \/ Register(t)
    \/ Finish(t) \/ FinishThrows(t)

Spec == Init /\ [][Next]_vars
----------------------------------------------------------------------------
Holds(t, c) == pc[t] # "idle" /\ connection[t] = c

(***************************************************************************)
(* The inductive invariant behind the next property: the counter is the    *)
(* number of calls up to its wrap, a thread has the connection its ticket  *)
(* stands for, and no two threads have the same ticket.                    *)
(***************************************************************************)
TicketInv ==
  /\ next = acquires % WordSize
  /\ \A t \in Threads : pc[t] # "idle" =>
       /\ ticket[t] < acquires
       /\ connection[t] = ticket[t] % PoolSize
  /\ \A t, u \in Threads :
       pc[t] # "idle" /\ pc[u] # "idle" /\ t # u => ticket[t] # ticket[u]

(* At least PoolSize - 1 other calls of acquire lie between theirs. *)
RoundApart(t, u) ==
  ticket[t] + PoolSize <= ticket[u] \/ ticket[u] + PoolSize <= ticket[t]

(***************************************************************************)
(* What the round robin is worth: two threads have the same connection     *)
(* only if one of them was overtaken by a whole round of calls of acquire. *)
(* The wrap of the counter makes no difference.                            *)
(***************************************************************************)
SharedOnlyAfterFullRound ==
  \A t, u \in Threads : \A c \in Connections :
    t # u /\ Holds(t, c) /\ Holds(u, c) => RoundApart(t, u)

(***************************************************************************)
(* create or getByChat meets a transaction on its connection, which ends   *)
(* the process, only if that is the transaction of a call which is running *)
(* now and is a whole round older or younger.  No call leaves one behind,  *)
(* not even after two threads passed the test of pqxx::work together and   *)
(* one replaced the transaction of the other.                              *)
(***************************************************************************)
ThrowsOnlyAfterFullRound ==
  \A t, u \in Threads :
    pc[t] = "acquired" /\ u \in registered[connection[t]] =>
      pc[u] = "work" /\ Holds(u, connection[t]) /\ RoundApart(t, u)
============================================================================
