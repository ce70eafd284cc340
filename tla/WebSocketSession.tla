-------------------------- MODULE WebSocketSession -------------------------
(***************************************************************************)
(* One WebSocketSession (infrastructure/network/websocket) between the     *)
(* worker threads that post payloads to it and the peer.  All handlers of  *)
(* the session run on its strand, one at a time; the strand runs posted    *)
(* functions in the order they were posted, completion handlers come at    *)
(* any time.  What a successful read dispatches is in module ActorSystem.  *)
(***************************************************************************)
EXTENDS Naturals, Sequences

CONSTANTS
  Payload,    \* the payloads the actors send
  MaxSends    \* bound: payloads posted to the session

ASSUME MaxSendsAssumption == MaxSends \in Nat

VARIABLES
  conn,        \* the WebSocket handshake: pending, done or failed
  bound,       \* transports_ of SessionActor has this session
  reading,     \* an async_read is outstanding
  strand,      \* functions posted by send and not yet run, by payload
  writeQueue,  \* writeQueue_
  writes,      \* the async_writes outstanding, by the buffer they were given
  writeFailed, \* history: onWrite was called with an error
  sent,        \* history: payloads posted
  wire,        \* history: payloads written
  peerUp,      \* the client is there and answers pings
  stopped      \* io_context::stop was called

vars == <<conn, bound, reading, strand, writeQueue, writes, writeFailed, sent,
          wire, peerUp, stopped>>

(***************************************************************************)
(* Every handler that is waiting holds a shared_ptr to the session, and    *)
(* nothing else does: the session lives as long as one of them waits.      *)
(***************************************************************************)
Alive ==
  conn = "handshake" \/ reading \/ strand # <<>> \/ writes # <<>>

TypeOK ==
  /\ conn \in {"handshake", "open", "refused"}
  /\ bound \in BOOLEAN
  /\ reading \in BOOLEAN
  /\ strand \in Seq(Payload)
  /\ writeQueue \in Seq(Payload)
  /\ writes \in Seq(Payload)
  /\ writeFailed \in BOOLEAN
  /\ sent \in Seq(Payload)
  /\ wire \in Seq(Payload)
  /\ peerUp \in BOOLEAN
  /\ stopped \in BOOLEAN

(* run: async_accept is started *)
Init ==
  /\ conn = "handshake"
  /\ bound = FALSE
  /\ reading = FALSE
  /\ strand = <<>>
  /\ writeQueue = <<>>
  /\ writes = <<>>
  /\ writeFailed = FALSE
  /\ sent = <<>>
  /\ wire = <<>>
  /\ peerUp = TRUE
  /\ stopped = FALSE
----------------------------------------------------------------------------
(* onAccept: the session is bound, then the first read is started. *)
OnAccept ==
  /\ ~stopped
  /\ conn = "handshake"
  /\ conn' = "open"
  /\ bound' = TRUE
  /\ reading' = TRUE
  /\ UNCHANGED <<strand, writeQueue, writes, writeFailed, sent, wire, peerUp,
                 stopped>>

OnAcceptError ==
  /\ ~stopped
  /\ conn = "handshake"
  /\ conn' = "refused"
  /\ UNCHANGED <<bound, reading, strand, writeQueue, writes, writeFailed, sent,
                 wire, peerUp, stopped>>

(* Fault: the entry of the session stays. *)
UnbindNothing == UNCHANGED bound

(* SessionActor::unbindTransport *)
Unbind == bound' = FALSE

(* onRead with an error: unbound; no further read is started. *)
OnReadError ==
  /\ ~stopped
  /\ reading
  /\ reading' = FALSE
  /\ Unbind
  /\ UNCHANGED <<conn, strand, writeQueue, writes, writeFailed, sent, wire,
                 peerUp, stopped>>

(***************************************************************************)
(* send, called by a worker in SessionActor::handle: under its lock the    *)
(* session is found, its weak_ptr locked, and a function posted.           *)
(***************************************************************************)
Send(p) ==
  /\ bound
  /\ Alive
  /\ Len(sent) < MaxSends
  /\ strand' = Append(strand, p)
  /\ sent' = Append(sent, p)
  /\ UNCHANGED <<conn, bound, reading, writeQueue, writes, writeFailed, wire,
                 peerUp, stopped>>

(* doWrite gives the front of the queue to async_write. *)
DoWrite(queue) == Append(writes, Head(queue))

(* Fault: a write is started although one is outstanding. *)
IdleAlways == TRUE

(* writeQueue_ was empty. *)
Idle == writeQueue = <<>>

(* The function send posted: queue the payload, write if none was queued. *)
RunPosted ==
  /\ ~stopped
  /\ strand # <<>>
  /\ strand' = Tail(strand)
  /\ writeQueue' = Append(writeQueue, Head(strand))
  /\ writes' = IF Idle THEN DoWrite(writeQueue') ELSE writes
  /\ UNCHANGED <<conn, bound, reading, writeFailed, sent, wire, peerUp, stopped>>

(* Fault: the written payload is not removed from the queue. *)
RemainingAll == writeQueue

Remaining == Tail(writeQueue)

(* Fault: the queue is not looked at again after a write. *)
FollowingNone(queue) == Tail(writes)

(* The writes after the first one completed: the next one if there is one. *)
Following(queue) ==
  IF queue = <<>> THEN Tail(writes) ELSE Append(Tail(writes), Head(queue))

(* onWrite: the payload is out; write the next one if there is one. *)
OnWrite ==
  /\ ~stopped
  /\ writes # <<>>
  /\ wire' = Append(wire, Head(writes))
  /\ writeQueue' = Remaining
  /\ writes' = Following(writeQueue')
  /\ UNCHANGED <<conn, bound, reading, strand, writeFailed, sent, peerUp, stopped>>

(* Fault: the queue loses its front before the error is looked at. *)
AfterErrorPopped == Tail(writeQueue)

AfterError == writeQueue

(***************************************************************************)
(* onWrite with an error: unbound.  The queue keeps its front, so that no  *)
(* function posted later starts a write.  The read goes on.                *)
(***************************************************************************)
OnWriteError ==
  /\ ~stopped
  /\ writes # <<>>
  /\ writes' = Tail(writes)
  /\ writeQueue' = AfterError
  /\ writeFailed' = TRUE
  /\ Unbind
  /\ UNCHANGED <<conn, reading, strand, sent, wire, peerUp, stopped>>
----------------------------------------------------------------------------
(* The environment: the client goes away; ThreadPool::stop is called. *)

PeerDies ==
  /\ peerUp
  /\ peerUp' = FALSE
  /\ UNCHANGED <<conn, bound, reading, strand, writeQueue, writes, writeFailed,
                 sent, wire, stopped>>

Stop ==
  /\ ~stopped
  /\ stopped' = TRUE
  /\ UNCHANGED <<conn, bound, reading, strand, writeQueue, writes, writeFailed,
                 sent, wire, peerUp>>

Next ==
  \/ OnAccept \/ OnAcceptError \/ OnReadError
  \/ \E p \in Payload : Send(p)
  \/ RunPosted \/ OnWrite \/ OnWriteError
  \/ PeerDies \/ Stop

Spec == Init /\ [][Next]_vars

(***************************************************************************)
(* The network threads run what is ready.  An operation that cannot go on  *)
(* completes with an error: run sets the suggested time-outs of Beast, 30  *)
(* seconds for the handshake, and 300 seconds and keep-alive pings for an  *)
(* idle peer.  While the peer is up a read may wait for ever.  Fairness of *)
(* the write is the one thing assumed of a client: one that is up takes    *)
(* what it is sent.  (A client that keeps sending, so that it is not idle, *)
(* and never reads can hold up a write for ever.)                          *)
(***************************************************************************)
Fairness ==
  /\ WF_vars(OnAccept \/ OnAcceptError)
  /\ WF_vars(RunPosted)
  /\ WF_vars(OnWrite \/ OnWriteError)
  /\ WF_vars(~peerUp /\ OnReadError)

FairSpec == Spec /\ Fairness
----------------------------------------------------------------------------
(***************************************************************************)
(* Beast allows one async_write at a time, and the buffer it was given     *)
(* must stay the front of writeQueue_ until the write completes.  A write  *)
(* is outstanding exactly when something is queued, until one has failed:  *)
(* no posted payload is left in the queue with nobody to write it.         *)
(***************************************************************************)
OneWriteOfTheFront ==
  IF writeQueue = <<>> \/ writeFailed
    THEN writes = <<>>
    ELSE writes = <<Head(writeQueue)>>

(***************************************************************************)
(* After a failed write the queue is never empty again.  This is what      *)
(* keeps the functions still on the strand from starting a write on the    *)
(* broken stream.                                                          *)
(***************************************************************************)
FailedWriteBlocksQueue == writeFailed => writeQueue # <<>>

(***************************************************************************)
(* Nothing is lost, doubled or overtaken between send and the wire: what   *)
(* was written, what is queued and what is still posted are, in this       *)
(* order, what was sent.                                                   *)
(***************************************************************************)
Conserved == sent = (wire \o writeQueue) \o strand

(***************************************************************************)
(* transports_ never holds a dead session: the weak_ptr that               *)
(* SessionActor::handle locks is never null, in particular not after a     *)
(* write error that leaves the read outstanding.                           *)
(***************************************************************************)
BoundIsAlive == bound => conn = "open" /\ reading

(* The session keeps the promise of OutgoingChannel. *)
Channel == INSTANCE OutgoingChannel WITH delivered <- wire, cut <- writeFailed

ImplementsChannel == Channel!Spec

(***************************************************************************)
(* A payload that was posted is written, unless a write fails or the       *)
(* server stops: the hand-over from one write to the next is never missed. *)
(***************************************************************************)
PostedIsWritten ==
  \A n \in 1..MaxSends :
    (Len(sent) >= n) ~> (Len(wire) >= n \/ writeFailed \/ stopped)

(***************************************************************************)
(* The session of a peer that went away is unbound and destroyed, with     *)
(* whatever was still queued.                                              *)
(***************************************************************************)
DeadPeerIsFreed == (~peerUp) ~> ((~bound /\ ~Alive) \/ stopped)
============================================================================
