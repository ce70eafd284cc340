--------------------------- MODULE ShutdownProofs --------------------------
(***************************************************************************)
(* Proofs about Shutdown, for any sets of threads and any number of        *)
(* signals.  The five invariants are proved together with the type.        *)
(***************************************************************************)
EXTENDS Shutdown, TLAPS

(* The abbreviations that every proof sees through. *)
USE DEF Takes, StopsRunning, JoinsWorkers

ShutdownInv ==
  /\ TypeOK
  /\ MutexOwner
  /\ NoLostWakeup
  /\ TestIsNotStale
  /\ JoinedInTurn
  /\ ReturnsAlone

LEMMA ThreadSets ==
  /\ Main \in Threads
  /\ Main \notin Pool
  /\ Free \notin Threads
  /\ Pool \subseteq Threads
  /\ NetThreads \subseteq Pool
  /\ Workers \subseteq Pool
BY ThreadsAssumption DEF Pool, Threads

LEMMA InvInit == Init => ShutdownInv
<1> SUFFICES ASSUME Init PROVE ShutdownInv
  OBVIOUS
<1> USE DEF Init
<1>1. TypeOK
  <2>1. signals \in 0..MaxSignals /\ mutex \in Threads \cup {Free}
    BY MaxSignalsAssumption
  <2>2. /\ life \in [Pool -> {"unborn", "alive", "exited"}]
        /\ handler \in [Threads -> {"none", "lock", "set", "notify"}]
        /\ under \in [Threads -> {"none", "lock", "set", "notify"}]
    OBVIOUS
  <2> QED
    BY <2>1, <2>2 DEF TypeOK
<1>2. MutexOwner
  BY ThreadSets DEF MutexOwner
<1>3. NoLostWakeup /\ TestIsNotStale /\ ReturnsAlone
  BY DEF NoLostWakeup, TestIsNotStale, ReturnsAlone
<1>4. JoinedInTurn
  BY ThreadSets DEF JoinedInTurn
<1> QED
  BY <1>1, <1>2, <1>3, <1>4 DEF ShutdownInv

(* The steps of the signal handler, on any thread. *)
LEMMA HandlerSteps ==
  ASSUME ShutdownInv, NEW t \in Threads, Signal(t) \/ Handler(t)
  PROVE  ShutdownInv'
<1> USE ThreadSets DEF ShutdownInv, TypeOK
<1>1. CASE Signal(t)
  <2> USE <1>1 DEF Signal, Alive
  <2>1. TypeOK'
    BY MaxSignalsAssumption
  <2>2. MutexOwner'
    BY DEF MutexOwner
  <2>3. NoLostWakeup' /\ TestIsNotStale' /\ ReturnsAlone'
    BY DEF NoLostWakeup, TestIsNotStale, ReturnsAlone, MutexOwner
  <2>4. JoinedInTurn'
    BY DEF JoinedInTurn
  <2> QED
    BY <2>1, <2>2, <2>3, <2>4
<1>2. CASE HandlerLock(t)
  <2> USE <1>2 DEF HandlerLock
  <2>1. TypeOK'
    OBVIOUS
  <2>2. MutexOwner'
    BY DEF MutexOwner
  <2>3. NoLostWakeup' /\ TestIsNotStale' /\ ReturnsAlone'
    BY DEF NoLostWakeup, TestIsNotStale, ReturnsAlone, MutexOwner
  <2>4. JoinedInTurn'
    BY DEF JoinedInTurn
  <2> QED
    BY <2>1, <2>2, <2>3, <2>4
<1>3. CASE HandlerSet(t)
  <2> USE <1>3 DEF HandlerSet
  <2>1. TypeOK'
    OBVIOUS
  <2>2. MutexOwner'
    BY DEF MutexOwner
  <2>3. NoLostWakeup' /\ TestIsNotStale' /\ ReturnsAlone'
    BY DEF NoLostWakeup, TestIsNotStale, ReturnsAlone, MutexOwner
  <2>4. JoinedInTurn'
    BY DEF JoinedInTurn
  <2> QED
    BY <2>1, <2>2, <2>3, <2>4
<1>4. CASE HandlerNotify(t)
  <2> USE <1>4 DEF HandlerNotify
  <2>1. TypeOK'
    OBVIOUS
  <2>2. MutexOwner'
    BY DEF MutexOwner
  <2>3. NoLostWakeup' /\ TestIsNotStale' /\ ReturnsAlone'
    BY DEF NoLostWakeup, TestIsNotStale, ReturnsAlone, MutexOwner
  <2>4. JoinedInTurn'
    BY DEF JoinedInTurn
  <2> QED
    BY <2>1, <2>2, <2>3, <2>4
<1> QED
  BY <1>1, <1>2, <1>3, <1>4 DEF Handler

(* The steps of main before it has seen the flag. *)
LEMMA WaitingSteps ==
  ASSUME ShutdownInv, Run \/ Lock \/ Test \/ Wait \/ Wake \/ WakeSpuriously
  PROVE  ShutdownInv'
<1> USE ThreadSets DEF ShutdownInv, TypeOK, At, MutexOwner, NoLostWakeup,
                       TestIsNotStale, ReturnsAlone, JoinedInTurn
<1>1. CASE Run
  <2>1. life' \in [Pool -> {"unborn", "alive", "exited"}]
    BY <1>1 DEF Run
  <2>2. TypeOK'
    BY <1>1, <2>1 DEF Run
  <2>3. MutexOwner'
    BY <1>1 DEF Run
  <2>4. NoLostWakeup' /\ TestIsNotStale' /\ ReturnsAlone' /\ JoinedInTurn'
    BY <1>1 DEF Run
  <2> QED
    BY <2>2, <2>3, <2>4
<1>2. CASE Lock
  BY <1>2 DEF Lock
<1>3. CASE Test
  BY <1>3 DEF Test
<1>4. CASE Wait
  BY <1>4 DEF Wait
<1>5. CASE Wake \/ WakeSpuriously
  BY <1>5 DEF Wake, WakeSpuriously
<1> QED
  BY <1>1, <1>2, <1>3, <1>4, <1>5

(* The steps of Server::stop, and the threads it waits for. *)
LEMMA StoppingSteps ==
  ASSUME ShutdownInv,
         \/ StopNetwork \/ JoinNetwork \/ StopActors \/ JoinActors
         \/ \E t \in Pool : ThreadExits(t)
  PROVE  ShutdownInv'
<1> USE ThreadSets DEF ShutdownInv, TypeOK, At, MutexOwner, NoLostWakeup,
                       TestIsNotStale, ReturnsAlone, JoinedInTurn
<1>1. CASE StopNetwork
  BY <1>1 DEF StopNetwork
<1>2. CASE JoinNetwork
  BY <1>2 DEF JoinNetwork
<1>3. CASE StopActors
  BY <1>3 DEF StopActors
<1>4. CASE JoinActors
  BY <1>4 DEF JoinActors, Pool, Threads
<1>5. ASSUME NEW t \in Pool, ThreadExits(t) PROVE ShutdownInv'
  BY <1>5 DEF ThreadExits
<1> QED
  BY <1>1, <1>2, <1>3, <1>4, <1>5

LEMMA InvNext == ShutdownInv /\ [Next]_vars => ShutdownInv'
<1> SUFFICES ASSUME ShutdownInv, [Next]_vars PROVE ShutdownInv'
  OBVIOUS
<1>1. CASE UNCHANGED vars
  BY <1>1 DEF vars, ShutdownInv, TypeOK, MutexOwner, NoLostWakeup,
              TestIsNotStale, ReturnsAlone, JoinedInTurn
<1> QED
  BY <1>1, HandlerSteps, WaitingSteps, StoppingSteps DEF Next, MainStep

THEOREM ShutdownInvariant == Spec => []ShutdownInv
BY InvInit, InvNext, PTL DEF Spec

(* The state of Shutdown is always of its type. *)
THEOREM TypeCorrect == Spec => []TypeOK
<1>1. ShutdownInv => TypeOK
  BY DEF ShutdownInv
<1> QED
  BY <1>1, ShutdownInvariant, PTL

(***************************************************************************)
(* onSignal and cv.wait in main lose no wake-up, at whatever moment and on *)
(* whatever thread the signal is handled.                                  *)
(***************************************************************************)
THEOREM WakeupsArrive == Spec => []NoLostWakeup
<1>1. ShutdownInv => NoLostWakeup
  BY DEF ShutdownInv
<1> QED
  BY <1>1, ShutdownInvariant, PTL

(***************************************************************************)
(* main returns and destroys the server only after every network thread    *)
(* and every worker has ended and no signal handler is half-way through.   *)
(***************************************************************************)
THEOREM MainReturnsLast == Spec => []ReturnsAlone
<1>1. ShutdownInv => ReturnsAlone
  BY DEF ShutdownInv
<1> QED
  BY <1>1, ShutdownInvariant, PTL

(***************************************************************************)
(* The flag cannot be set between main's test of it and the wait that      *)
(* follows, so main never goes to sleep on a stale test.                   *)
(***************************************************************************)
THEOREM NoStaleTest == Spec => []TestIsNotStale
<1>1. ShutdownInv => TestIsNotStale
  BY DEF ShutdownInv
<1> QED
  BY <1>1, ShutdownInvariant, PTL
============================================================================
