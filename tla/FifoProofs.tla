----------------------------- MODULE FifoProofs ----------------------------
(***************************************************************************)
(* That a single worker keeps the order of the frames, for any number of   *)
(* sessions and frames, any mailbox capacity and any order of the scan.    *)
(*                                                                         *)
(* With one worker the pipeline is a line of queues.  The line of a        *)
(* purpose is, from its end: what is done (past), the mailbox of the actor *)
(* that does it, those of ChatActor and MessageActor, and the frame that   *)
(* will be read next.  An entry is a depth, a position there and a frame   *)
(* number; the envelope in the handler is in front of its mailbox.         *)
(***************************************************************************)
EXTENDS ActorSystemProofs

(* The abbreviations of ActorSystem that every proof sees through. *)
USE DEF Accepts, Pushed, Rest, Last, Continues, Bound, AllExited, Echo, Copy

Depth == [session |-> 1, storage |-> 2, chat |-> 3, message |-> 4]

Entry == (0..5) \X Nat \X Nat

Storing == {"send", "persist"}
Showing == {"send"} \cup OutgoingKind

IsDone(past, x) == x[1] = 0 /\ x[2] \in DOMAIN past /\ x[3] = past[x[2]]

InBox(mb, K, x) ==
  \E t \in ActorType : /\ x[1] = Depth[t] /\ x[2] \in DOMAIN mb[t]
                       /\ mb[t][x[2]].kind \in K /\ x[3] = mb[t][x[2]].id

(* ChatActor::handle sends the persist envelope first. *)
InHand(hd, st, K, x) ==
  \E w \in Workers : /\ hd[w].kind \in K /\ (K = Storing => st[w] = 1)
                     /\ x[1] = Depth[hd[w].dest] /\ x[2] = 0 /\ x[3] = hd[w].id

IsNext(fs, x) == x[1] = 5 /\ x[2] = 0 /\ x[3] = Len(fs) + 1

Line(mb, hd, st, fs, K, past) ==
  {x \in Entry : \/ IsDone(past, x) \/ InBox(mb, K, x)
                 \/ InHand(hd, st, K, x) \/ IsNext(fs, x)}

(* In the line of K the queue of depth e is the next one after that of d. *)
Follows(K, d, e) ==
  LET last == IF K = Storing THEN 2 ELSE 1
  IN  <<d, e>> \in {<<4, 3>>, <<3, last>>, <<last, 0>>}

Before(x, y) == x[1] < y[1] \/ (x[1] = y[1] /\ x[2] < y[2])

(***************************************************************************)
(* Entries nearer to the end stem from earlier frames.  Both payloads of a *)
(* frame may be for one session.                                           *)
(***************************************************************************)
Sorted(K, L) ==
  \A x, y \in L : Before(x, y) => x[3] < y[3] \/ (K # Storing /\ x[3] = y[3])

(* The frames of which something was posted to a session. *)
Origins(q) == [j \in DOMAIN q |-> q[j][1]]

FifoInv ==
  SingleWorker =>
    /\ Sorted(Storing, Line(mailbox, held, step, frames, Storing, messages))
    /\ \A s \in Sessions :
         Sorted(Showing, Line(mailbox, held, step, frames, Showing, Origins(posted[s])))

(* An entry moves to the end of a queue nearer to the end of the line. *)
LEMMA LandsBehind ==
  ASSUME NEW K, NEW L \in SUBSET Entry, NEW M, Sorted(K, L), NEW h \in L, NEW z \in Entry,
         h[2] = 0, z[3] = h[3], z[1] < h[1],
         \A y \in L : y[1] = z[1] => y[2] < z[2],
         \A y \in L : ~(z[1] < y[1] /\ y[1] < h[1]),
         \A y \in L : y[1] = h[1] /\ y[2] = 0 => y[3] = h[3],
         M \subseteq L \cup {z},
         K = Storing => \A y \in M : ~(y[1] = h[1] /\ y[2] = 0)
  PROVE  Sorted(K, M)
<1>. SUFFICES ASSUME NEW x \in M, NEW y \in M, Before(x, y)
              PROVE  x[3] < y[3] \/ (K # Storing /\ x[3] = y[3])
  BY DEF Sorted
<1>0. \A u \in Entry : u[1] \in Nat /\ u[2] \in Nat /\ u[3] \in Nat BY DEF Entry
<1>1. CASE x \in L /\ y \in L BY <1>1 DEF Sorted
<1>2. CASE x = z /\ y = z BY <1>0, <1>2 DEF Before
<1>3. CASE x = z /\ y \in L
  <2>1. y \in Entry /\ h \in Entry BY <1>3
  <2>2. y[1] >= h[1] BY <1>0, <1>3, <2>1 DEF Before
  <2>3. CASE Before(h, y) BY <1>3, <2>3 DEF Sorted
  <2>4. CASE ~Before(h, y)
    <3>1. y[1] = h[1] /\ y[2] = 0 BY <1>0, <2>1, <2>2, <2>4 DEF Before
    <3>. QED BY <1>0, <1>3, <3>1
  <2>. QED BY <2>3, <2>4
<1>4. CASE x \in L /\ y = z
  <2>1. x \in Entry /\ h \in Entry BY <1>4
  <2>2. Before(x, h) BY <1>0, <1>4, <2>1 DEF Before
  <2>. QED BY <1>4, <2>2 DEF Sorted
<1>. QED BY <1>1, <1>2, <1>3, <1>4

(* A queue moves up by one. *)
LEMMA MovesUp ==
  ASSUME NEW K, NEW L \in SUBSET Entry, NEW M \in SUBSET Entry, Sorted(K, L), NEW d \in Nat,
         \A x \in M : x[1] # d => x \in L,
         \A x \in M : x[1] = d => <<d, x[2] + 1, x[3]>> \in L
  PROVE  Sorted(K, M)
<1>. SUFFICES ASSUME NEW x \in M, NEW y \in M, Before(x, y)
              PROVE  x[3] < y[3] \/ (K # Storing /\ x[3] = y[3])
  BY DEF Sorted
<1>0. \A u \in Entry : u[1] \in Nat /\ u[2] \in Nat /\ u[3] \in Nat BY DEF Entry
<1>. DEFINE up(u) == IF u[1] = d THEN <<d, u[2] + 1, u[3]>> ELSE u
<1>1. up(x) \in L /\ up(y) \in L OBVIOUS
<1>2. Before(up(x), up(y)) BY <1>0 DEF Before
<1>3. up(x)[3] = x[3] /\ up(y)[3] = y[3] OBVIOUS
<1>. HIDE DEF up
<1>. QED BY <1>1, <1>2, <1>3 DEF Sorted

(* A frame is read, and perhaps enters the last queue. *)
LEMMA JoinsTheEnd ==
  ASSUME NEW K, NEW L \in SUBSET Entry, NEW M, Sorted(K, L), NEW n \in Nat, NEW k \in Nat,
         <<5, 0, n>> \in L,
         \A y \in L : y[1] = 5 => y[2] = 0,
         \A y \in L : y[1] = 4 => y[2] < k,
         \A x \in M : \/ x \in L /\ x[1] < 5
                      \/ x = <<4, k, n>>
                      \/ x = <<5, 0, n + 1>>
  PROVE  Sorted(K, M)
<1>. SUFFICES ASSUME NEW x \in M, NEW y \in M, Before(x, y)
              PROVE  x[3] < y[3] \/ (K # Storing /\ x[3] = y[3])
  BY DEF Sorted
<1>0. \A u \in L : u[1] \in Nat /\ u[2] \in Nat /\ u[3] \in Nat BY DEF Entry
<1>1. ASSUME NEW u \in L, u[1] < 5 PROVE u[3] < n \/ (K # Storing /\ u[3] = n)
  <2>1. Before(u, <<5, 0, n>>) BY <1>1 DEF Before
  <2>. QED BY <2>1 DEF Sorted
<1>2. CASE x \in L /\ y \in L BY <1>2 DEF Sorted
<1>3. CASE x \in L /\ x[1] < 5 /\ y \in {<<4, k, n>>, <<5, 0, n + 1>>} BY <1>0, <1>1, <1>3
<1>4. CASE x = <<4, k, n>> /\ y \in L /\ y[1] < 5
  <2>1. y[1] = 4 /\ k < y[2] BY <1>0, <1>4 DEF Before
  <2>. QED BY <1>0, <1>4, <2>1
<1>5. CASE x = <<5, 0, n + 1>> /\ y \in L /\ y[1] < 5 BY <1>0, <1>5 DEF Before
<1>6. CASE x \in {<<4, k, n>>, <<5, 0, n + 1>>} /\ y \in {<<4, k, n>>, <<5, 0, n + 1>>}
  BY <1>6 DEF Before
<1>. QED BY <1>2, <1>3, <1>4, <1>5, <1>6

(* Leaving the line changes no order. *)
LEMMA PartIsSorted ==
  ASSUME NEW K, NEW L, Sorted(K, L), NEW M \in SUBSET L
  PROVE  Sorted(K, M)
BY DEF Sorted

(* Each mailbox has its own depth. *)
LEMMA DepthOf ==
  /\ \A t \in ActorType : Depth[t] \in 1..4
  /\ \A t, u \in ActorType : Depth[t] = Depth[u] => t = u
  /\ Depth["session"] = 1 /\ Depth["storage"] = 2
  /\ Depth["chat"] = 3 /\ Depth["message"] = 4
BY DEF Depth, ActorType

(* What push adds to the entries in the mailboxes. *)
LEMMA BoxAfterSend ==
  ASSUME TypeOK, NEW e \in Envelope, Send(e), NEW K, NEW x, InBox(mailbox', K, x)
  PROVE  \/ InBox(mailbox, K, x)
         \/ /\ e.kind \in K /\ x[1] = Depth[e.dest]
            /\ x[2] = Len(mailbox[e.dest]) + 1 /\ x[3] = e.id
<1>. DEFINE d == e.dest
            n == Len(mailbox[d]) + 1
<1>1. mailbox \in [ActorType -> Seq(Envelope)] /\ d \in ActorType
  BY Zenon DEF TypeOK, Envelope
<1>2. CASE Len(mailbox[d]) < Capacity
  <2>1. mailbox' = [mailbox EXCEPT ![d] = Append(@, e)] BY <1>2 DEF Send
  <2>2. \A t \in ActorType : mailbox'[t] = IF t = d THEN Append(mailbox[t], e) ELSE mailbox[t]
    BY <1>1, <2>1
  <2>3. mailbox[d] \in Seq(Envelope) BY <1>1
  <2>4. /\ \A j : j \in DOMAIN Append(mailbox[d], e) <=> j \in DOMAIN mailbox[d] \/ j = n
        /\ \A j \in DOMAIN mailbox[d] : Append(mailbox[d], e)[j] = mailbox[d][j]
        /\ Append(mailbox[d], e)[n] = e
    BY <2>3, AppendAt
  <2>5. PICK t \in ActorType : /\ x[1] = Depth[t] /\ x[2] \in DOMAIN mailbox'[t]
                               /\ mailbox'[t][x[2]].kind \in K
                               /\ x[3] = mailbox'[t][x[2]].id
    BY Zenon DEF InBox
  <2>. HIDE DEF d, n
  <2>6. CASE t = d /\ x[2] = n BY <2>2, <2>4, <2>5, <2>6, Zenon DEF d, n
  <2>7. CASE t = d /\ x[2] # n
    <3>1. /\ x[2] \in DOMAIN mailbox[t]
          /\ mailbox'[t][x[2]] = mailbox[t][x[2]]
      BY <2>2, <2>4, <2>5, <2>7, Zenon
    <3>. QED BY <2>5, <3>1 DEF InBox
  <2>8. CASE t # d BY <2>2, <2>5, <2>8 DEF InBox
  <2>. QED BY <2>6, <2>7, <2>8
<1>3. CASE ~(Len(mailbox[d]) < Capacity) BY <1>3 DEF Send
<1>. QED BY <1>2, <1>3

(* The positions in a mailbox. *)
LEMMA BoxPosition ==
  ASSUME TypeOK, NEW K, NEW x, InBox(mailbox, K, x), NEW t \in ActorType, x[1] = Depth[t]
  PROVE  /\ x[2] \in 1..Len(mailbox[t]) /\ mailbox[t][x[2]].kind \in K
         /\ x[3] = mailbox[t][x[2]].id
<1>1. PICK u \in ActorType : /\ x[1] = Depth[u] /\ x[2] \in DOMAIN mailbox[u]
                             /\ mailbox[u][x[2]].kind \in K
                             /\ x[3] = mailbox[u][x[2]].id
  BY Zenon DEF InBox
<1>2. u = t BY <1>1, DepthOf, Zenon
<1>3. mailbox[t] \in Seq(Envelope) BY Zenon DEF TypeOK
<1>. QED BY <1>1, <1>2, <1>3

(* pop takes the first entry to the worker; those behind it move up. *)
LEMMA BoxAfterPop ==
  ASSUME TypeOK, NEW w \in Workers, Pop(w), NEW K, NEW x, InBox(mailbox', K, x),
         NEW y, NEW d, d = Depth[Order[pos[w]]]
  PROVE  /\ x[1] # d => InBox(mailbox, K, x)
         /\ x[1] = d /\ y = <<d, x[2] + 1, x[3]>> => InBox(mailbox, K, y)
<1>. DEFINE t == Order[pos[w]]
<1>1. t \in ActorType BY PopEffect, Zenon
<1>2. /\ mailbox[t] # <<>>
      /\ mailbox' = [mailbox EXCEPT ![t] = Tail(@)]
  BY DEF Pop
<1>3. mailbox \in [ActorType -> Seq(Envelope)] BY DEF TypeOK
<1>. HIDE DEF t
<1>4. \A u \in ActorType : mailbox'[u] = IF u = t THEN Tail(mailbox[u]) ELSE mailbox[u]
  BY <1>2, <1>3
<1>5. \A j : j \in DOMAIN Tail(mailbox[t]) =>
               j + 1 \in DOMAIN mailbox[t] /\ Tail(mailbox[t])[j] = mailbox[t][j + 1]
  <2>1. mailbox[t] \in Seq(Envelope) BY <1>1, <1>3
  <2>. QED BY <1>2, <2>1, TailAt
<1>6. PICK u \in ActorType : /\ x[1] = Depth[u] /\ x[2] \in DOMAIN mailbox'[u]
                             /\ mailbox'[u][x[2]].kind \in K
                             /\ x[3] = mailbox'[u][x[2]].id
  BY Zenon DEF InBox
<1>7. CASE u = t
  <2>1. x[1] = d BY <1>6, <1>7 DEF t
  <2>2. /\ x[2] + 1 \in DOMAIN mailbox[t] /\ mailbox[t][x[2] + 1].kind \in K
        /\ x[3] = mailbox[t][x[2] + 1].id
    BY <1>1, <1>4, <1>5, <1>6, <1>7, Zenon
  <2>. QED BY <1>1, <1>6, <1>7, <2>1, <2>2 DEF InBox
<1>8. CASE u # t
  <2>1. x[1] # d BY <1>1, <1>6, <1>8, DepthOf DEF t
  <2>. QED BY <1>4, <1>6, <1>8, <2>1, Zenon DEF InBox
<1>. QED BY <1>7, <1>8, Zenon

(* A sole worker that moves on has nothing in hand. *)
LEMMA HandsEmpty ==
  ASSUME TypeOK, NEW w \in Workers, \A v \in Workers : v = w, Advance(w),
         NEW K, "auth" \notin K
  PROVE  \A x : ~InHand(held', step', K, x)
<1>1. held'[w] = NoEnvelope BY AdvanceEffect
<1>. QED BY <1>1 DEF InHand, NoEnvelope

(* The purposes whose lines are considered. *)
Lines == {Storing, Showing}

(* An entry is in a line if it stands there. *)
LEMMA InLine ==
  ASSUME NEW mb, NEW hd, NEW st, NEW fs, NEW K, NEW past, NEW x
  PROVE  x \in Line(mb, hd, st, fs, K, past) <=>
           /\ x \in Entry
           /\ \/ IsDone(past, x) \/ InBox(mb, K, x)
              \/ InHand(hd, st, K, x) \/ IsNext(fs, x)
BY DEF Line

(* A handler that returns without a send, or finds no mail. *)
LEMMA ReturnKeepsOrder ==
  ASSUME TypeOK, NEW w \in Workers, \A v \in Workers : v = w, Advance(w),
         mailbox' = mailbox, frames' = frames, NEW K \in Lines, NEW past,
         Sorted(K, Line(mailbox, held, step, frames, K, past))
  PROVE  Sorted(K, Line(mailbox', held', step', frames', K, past))
<1>1. "auth" \notin K BY DEF Lines, Storing, Showing, OutgoingKind
<1>2. \A x : ~InHand(held', step', K, x) BY <1>1, HandsEmpty
<1>3. Line(mailbox', held', step', frames', K, past)
        \subseteq Line(mailbox, held, step, frames, K, past)
  BY <1>2, InLine
<1>. QED BY <1>3, PartIsSorted

(* Mailbox::pop keeps the order. *)
LEMMA PopKeepsOrder ==
  ASSUME TypeOK, AtHome, NEW w \in Workers, \A v \in Workers : v = w, Pop(w),
         NEW K \in Lines, NEW past, Sorted(K, Line(mailbox, held, step, frames, K, past))
  PROVE  Sorted(K, Line(mailbox', held', step', frames', K, past))
<1>. DEFINE L == Line(mailbox, held, step, frames, K, past)
            M == Line(mailbox', held', step', frames', K, past)
            t == Order[pos[w]]
            d == Depth[t]
<1>1. t \in ActorType /\ d \in 1..4 BY PopEffect, DepthOf, Zenon
<1>2. /\ held[w] = NoEnvelope /\ held' = [held EXCEPT ![w] = Head(mailbox[t])]
      /\ mailbox[t] # <<>> /\ frames' = frames
  BY Zenon DEF Pop, AtHome
<1>3. /\ held'[w] = Head(mailbox[t]) /\ held'[w].dest = t
      /\ 1 \in DOMAIN mailbox[t] /\ mailbox[t][1] = held'[w]
  <2>1. mailbox[t] \in Seq(Envelope) /\ held'[w] = Head(mailbox[t])
    BY <1>1, <1>2, Zenon DEF TypeOK
  <2>2. 1 \in DOMAIN mailbox[t] /\ mailbox[t][1] = Head(mailbox[t])
    BY <1>2, <2>1, TailAt, Zenon
  <2>3. held'[w] \in Range(mailbox[t]) BY <2>1, <2>2, Zenon DEF Range
  <2>4. held'[w].dest = t BY <1>1, <2>3 DEF AtHome
  <2>. QED BY <2>1, <2>2, <2>4, Zenon
<1>4. L \in SUBSET Entry /\ M \in SUBSET Entry BY Zenon DEF Line
<1>5. ASSUME NEW x \in M
      PROVE  /\ x[1] # d => x \in L
             /\ x[1] = d => <<d, x[2] + 1, x[3]>> \in L
  <2>1. /\ x \in Entry
        /\ \/ IsDone(past, x) \/ InBox(mailbox', K, x)
           \/ InHand(held', step', K, x) \/ IsNext(frames, x)
    BY <1>2, <1>5, InLine, Zenon
  <2>. DEFINE y == <<d, x[2] + 1, x[3]>>
  <2>2. x[1] = d => y \in Entry BY <1>1, <2>1 DEF Entry
  <2>3. CASE InBox(mailbox', K, x)
    <3>1. /\ x[1] # d => InBox(mailbox, K, x)
          /\ x[1] = d => InBox(mailbox, K, y)
      BY <2>3, BoxAfterPop, Zenon
    <3>. HIDE DEF y
    <3>2. (x[1] # d => x \in L) /\ (x[1] = d => y \in L) BY <2>1, <2>2, <3>1, InLine, Zenon
    <3>. QED BY <3>2, Zenon DEF y
  <2>4. CASE InHand(held', step', K, x)
    <3>1. x[1] = d /\ x[2] = 0 /\ x[3] = held'[w].id /\ held'[w].kind \in K
      BY <1>3, <2>4, Zenon DEF InHand
    <3>2. y[1] = d /\ y[2] = 1 /\ y[3] = held'[w].id BY <3>1
    <3>3. InBox(mailbox, K, y) BY <1>1, <1>3, <3>1, <3>2, Zenon DEF InBox
    <3>. HIDE DEF y
    <3>4. y \in L BY <2>2, <3>1, <3>3, InLine, Zenon
    <3>. QED BY <3>1, <3>4, Zenon DEF y
  <2>5. CASE IsDone(past, x) \/ IsNext(frames, x)
    <3>1. x[1] # d BY <1>1, <2>5 DEF IsDone, IsNext
    <3>2. x \in L BY <2>1, <2>5, InLine
    <3>. QED BY <3>1, <3>2, Zenon
  <2>. QED BY <2>1, <2>3, <2>4, <2>5, Zenon
<1>6. d \in Nat BY <1>1
<1>. HIDE DEF L, M, d
<1>. QED BY <1>4, <1>5, <1>6, MovesUp, ZenonT(30) DEF L, M

(* An envelope of these kinds can only be in these mailboxes. *)
LEMMA LineBoxes ==
  ASSUME TypeOK, AtHome, NEW K \in Lines, NEW x, InBox(mailbox, K, x)
  PROVE  /\ K = Storing => x[1] # 1
         /\ K = Showing => x[1] # 2
<1>1. /\ ActorType = {"session", "chat", "message", "storage"}
      /\ mailbox \in [ActorType -> Seq(Envelope)]
  BY DEF ActorType, TypeOK
<1>2. \A t \in ActorType : \A j \in DOMAIN mailbox[t] : mailbox[t][j].kind \in KindsOf[t]
  BY DEF AtHome, Range
<1>3. ASSUME K = Storing, x[1] = 1 PROVE FALSE
  <2>1. x[1] = Depth["session"] /\ "session" \in ActorType BY <1>1, <1>3, DepthOf
  <2>2. x[2] \in 1..Len(mailbox["session"]) /\ mailbox["session"][x[2]].kind \in K
    BY <2>1, BoxPosition
  <2>3. mailbox["session"][x[2]].kind \in KindsOf["session"] BY <1>1, <1>2, <2>1, <2>2
  <2>. QED BY <1>3, <2>2, <2>3 DEF KindsOf, Storing, OutgoingKind
<1>4. ASSUME K = Showing, x[1] = 2 PROVE FALSE
  <2>1. x[1] = Depth["storage"] /\ "storage" \in ActorType BY <1>1, <1>4, DepthOf, Zenon
  <2>2. x[2] \in 1..Len(mailbox["storage"]) /\ mailbox["storage"][x[2]].kind \in K
    BY <2>1, BoxPosition
  <2>3. mailbox["storage"][x[2]].kind \in KindsOf["storage"] BY <1>1, <1>2, <2>1, <2>2
  <2>. QED BY <1>4, <2>2, <2>3 DEF KindsOf, Showing, OutgoingKind
<1>. QED BY <1>3, <1>4

(***************************************************************************)
(* What a sole worker does with the envelope h in its hand: h goes to the  *)
(* end of the queue at depth z[1], which is the next one of its line.      *)
(***************************************************************************)
LEMMA HandLands ==
  ASSUME TypeOK, AtHome, NEW w \in Workers, \A v \in Workers : v = w,
         held[w] \in Envelope, NEW K \in Lines, held[w].kind \in K,
         K = Storing => step[w] = 1, NEW past,
         Sorted(K, Line(mailbox, held, step, frames, K, past)),
         NEW z \in Entry, z[3] = held[w].id,
         Follows(K, Depth[held[w].dest], z[1]),
         \A y : IsDone(past, y) \/ InBox(mailbox, K, y) => (y[1] = z[1] => y[2] < z[2]),
         NEW M \in SUBSET Entry,
         \A x \in M : \/ x = z \/ IsDone(past, x) \/ InBox(mailbox, K, x)
                      \/ IsNext(frames, x)
                      \/ K # Storing /\ InHand(held, step, K, x)
  PROVE  Sorted(K, M)
<1>. DEFINE L == Line(mailbox, held, step, frames, K, past)
            dh == Depth[held[w].dest]
            h == <<dh, 0, held[w].id>>
<1>1. held[w].dest \in ActorType /\ held[w].id \in Nat
  BY ConstantsAssumption DEF Envelope, Ids
<1>2. dh \in 1..4 BY <1>1, DepthOf, Zenon
<1>3. h \in Entry /\ h[1] = dh /\ h[2] = 0 /\ h[3] = held[w].id BY <1>1, <1>2 DEF Entry
<1>4. InHand(held, step, K, h) BY <1>3, Zenon DEF InHand
<1>5. \A y : InHand(held, step, K, y) => y[1] = dh /\ y[2] = 0 /\ y[3] = h[3]
  BY <1>3, Zenon DEF InHand
<1>6. \A y : IsNext(frames, y) => y[1] = 5 BY Zenon DEF IsNext
<1>. HIDE DEF h, dh, L
<1>7. h \in L BY <1>3, <1>4, InLine, Zenon DEF L
<1>8. L \in SUBSET Entry BY Zenon DEF L, Line
<1>9. \A y : y \in L <=> /\ y \in Entry
                         /\ \/ IsDone(past, y) \/ InBox(mailbox, K, y)
                            \/ InHand(held, step, K, y) \/ IsNext(frames, y)
  BY InLine, Zenon DEF L
<1>10. z[1] < dh /\ z[1] \in Nat BY DEF dh, Follows
<1>11. \A y \in L : y[1] = z[1] => y[2] < z[2]
  BY <1>2, <1>5, <1>6, <1>9, <1>10
<1>12. \A y \in L : ~(z[1] < y[1] /\ y[1] < h[1])
  <2>. SUFFICES ASSUME NEW y \in L, z[1] < y[1], y[1] < dh PROVE FALSE BY <1>3, Zenon
  <2>1. IsDone(past, y) \/ InBox(mailbox, K, y) BY <1>2, <1>5, <1>6, <1>9
  <2>2. y[1] # 0 BY <1>10
  <2>3. InBox(mailbox, K, y) BY <2>1, <2>2, Zenon DEF IsDone
  <2>4. (K = Storing => y[1] # 1) /\ (K = Showing => y[1] # 2) BY <2>3, LineBoxes, Zenon
  <2>5. PICK t \in ActorType : y[1] = Depth[t] BY <2>3, Zenon DEF InBox
  <2>6. y[1] \in 1..4 BY <2>5, DepthOf, Zenon
  <2>7. K = Storing \/ K = Showing BY Zenon DEF Lines
  <2>. QED BY <2>4, <2>6, <2>7 DEF dh, Follows
<1>13. ASSUME NEW y, y[1] = h[1], y[2] = 0
       PROVE  ~IsDone(past, y) /\ ~IsNext(frames, y) /\ ~InBox(mailbox, K, y)
  <2>1. ~IsDone(past, y) /\ ~IsNext(frames, y) BY <1>2, <1>3, <1>13 DEF IsDone, IsNext
  <2>2. ASSUME InBox(mailbox, K, y) PROVE FALSE
    <3>1. y[2] \in 1..Len(mailbox[held[w].dest])
      BY <1>1, <1>3, <1>13, <2>2, BoxPosition, Zenon DEF dh
    <3>. QED BY <1>13, <3>1
  <2>. QED BY <2>1, <2>2, Zenon
<1>14. \A y \in L : y[1] = h[1] /\ y[2] = 0 => y[3] = h[3] BY <1>5, <1>9, <1>13, Zenon
<1>15. z[3] = h[3] /\ z[1] < h[1] /\ h[2] = 0 BY <1>3, <1>10, Zenon
<1>16. M \subseteq L \cup {z} BY <1>9, Zenon
<1>17. K = Storing => \A y \in M : ~(y[1] = h[1] /\ y[2] = 0)
  <2>1. z[1] # h[1] BY <1>2, <1>3, <1>10
  <2>. QED BY <1>13, <2>1, Zenon
<1>18. Sorted(K, L) BY Zenon DEF L
<1>. QED BY <1>7, <1>8, <1>11, <1>12, <1>14, <1>15, <1>16, <1>17, <1>18, LandsBehind, Zenon

(* MessageActor::handle and ChatActor::handle keep the order. *)
LEMMA ForwardKeepsOrder ==
  ASSUME TypeOK, AtHome, NEW w \in Workers, \A v \in Workers : v = w, Forward(w),
         NEW K \in Lines, NEW past, Sorted(K, Line(mailbox, held, step, frames, K, past))
  PROVE  Sorted(K, Line(mailbox', held', step', frames', K, past))
<1>. DEFINE L == Line(mailbox, held, step, frames, K, past)
            M == Line(mailbox', held', step', frames', K, past)
            e == held[w]
            y == Sends(e)[step[w]]
            d == Depth[y.dest]
            z == <<d, Len(mailbox[y.dest]) + 1, e.id>>
<1>1. /\ e \in Envelope /\ step[w] \in 1..3 /\ step[w] <= Len(Sends(e)) /\ Send(y)
      /\ \/ Advance(w)
         \/ held' = held /\ step' = [step EXCEPT ![w] = @ + 1]
  BY ForwardEffect, Zenon
<1>2. frames' = frames BY Zenon DEF Forward
<1>3. /\ y \in Envelope /\ e.kind = "send" /\ y.id = e.id
      /\ \/ e.dest = "message" /\ y.dest = "chat" /\ y.kind = "send" /\ step[w] = 1
         \/ e.dest = "chat" /\ y.dest = "storage" /\ y.kind = "persist" /\ step[w] = 1
         \/ e.dest = "chat" /\ y.dest = "session" /\ y.kind \in OutgoingKind
  BY Forwarded
<1>4. "auth" \notin K /\ "send" \in K
  BY Zenon DEF Lines, Storing, Showing, OutgoingKind
<1>5. \A x : InHand(held', step', K, x) => K # Storing /\ InHand(held, step, K, x)
  <2>1. CASE Advance(w) BY <1>4, <2>1, HandsEmpty, Zenon
  <2>2. CASE held' = held /\ step' = [step EXCEPT ![w] = @ + 1]
    <3>1. step'[w] # 1 BY <1>1, <2>2 DEF TypeOK
    <3>. QED BY <2>2, <3>1, Zenon DEF InHand
  <2>. QED BY <1>1, <2>1, <2>2, Zenon
<1>6. y.dest \in ActorType /\ mailbox[y.dest] \in Seq(Envelope) /\ e.id \in Nat
  <2>. HIDE DEF y, e
  <2>1. y.dest \in ActorType /\ e.id \in Ids BY <1>1, <1>3 DEF Envelope
  <2>2. mailbox \in [ActorType -> Seq(Envelope)] BY Zenon DEF TypeOK
  <2>. QED BY <2>1, <2>2, ConstantsAssumption DEF Ids
<1>7. /\ d \in 1..4 /\ z \in Entry
      /\ z[1] = d /\ z[2] = Len(mailbox[y.dest]) + 1 /\ z[3] = e.id
  <2>1. d \in 1..4 /\ Len(mailbox[y.dest]) + 1 \in Nat BY <1>6, DepthOf
  <2>. HIDE DEF d
  <2>. QED BY <1>6, <2>1 DEF Entry
<1>8. \A x \in M : /\ x \in Entry
                  /\ \/ IsDone(past, x)
                     \/ InBox(mailbox', K, x)
                     \/ IsNext(frames, x)
                     \/ K # Storing /\ InHand(held, step, K, x)
  BY <1>2, <1>5, InLine, Zenon
<1>9. CASE y.kind \in K
  <2>. HIDE DEF M, z
  <2>1. ASSUME NEW x \in M, InBox(mailbox', K, x), x # z PROVE InBox(mailbox, K, x)
    <3>. SUFFICES ASSUME ~InBox(mailbox, K, x) PROVE x = z BY <2>1, Zenon
    <3>1. x[1] = d /\ x[2] = Len(mailbox[y.dest]) + 1 /\ x[3] = e.id
      BY <1>1, <1>3, <2>1, BoxAfterSend
    <3>. QED BY <1>7, <1>8, <3>1, SMTT(20) DEF Entry
  <2>2. \A x \in M : \/ x = z
                     \/ IsDone(past, x)
                     \/ InBox(mailbox, K, x)
                     \/ IsNext(frames, x)
                     \/ K # Storing /\ InHand(held, step, K, x)
    BY <1>8, <2>1, Zenon
  <2>3. Follows(K, Depth[e.dest], z[1]) /\ (K = Storing => step[w] = 1)
    <3>1. K = Storing <=> "persist" \in K BY Zenon DEF Lines, Storing, Showing, OutgoingKind
    <3>2. y.kind \in OutgoingKind => "persist" \notin K
      BY <1>9, SMTT(20) DEF Lines, Storing, Showing, OutgoingKind
    <3>. QED BY <1>3, <1>7, <1>9, <3>1, <3>2, DepthOf, Zenon DEF Follows
  <2>4. ASSUME NEW x, IsDone(past, x) \/ InBox(mailbox, K, x), x[1] = z[1]
        PROVE  x[2] < z[2]
    <3>1. InBox(mailbox, K, x) BY <1>7, <2>4 DEF IsDone
    <3>2. x[2] \in 1..Len(mailbox[y.dest]) BY <1>6, <1>7, <2>4, <3>1, BoxPosition, Zenon
    <3>. QED BY <1>6, <1>7, <3>2
  <2>5. e.kind \in K BY <1>3, <1>4, Zenon
  <2>6. M \in SUBSET Entry /\ z \in Entry /\ z[3] = e.id /\ e \in Envelope
    BY <1>1, <1>7, <1>8, Zenon
  <2>7. \A x : IsDone(past, x) \/ InBox(mailbox, K, x) => (x[1] = z[1] => x[2] < z[2])
    BY <2>4
  <2>8. Sorted(K, M) BY <2>2, <2>3, <2>5, <2>6, <2>7, HandLands, Zenon
  <2>. QED BY <2>8, Zenon DEF M
<1>10. CASE y.kind \notin K
  <2>1. \A x : InBox(mailbox', K, x) => InBox(mailbox, K, x)
    BY <1>1, <1>3, <1>10, BoxAfterSend
  <2>2. M \subseteq L BY <1>8, <2>1, InLine, Zenon
  <2>. QED BY <2>2, PartIsSorted, Zenon
<1>. QED BY <1>9, <1>10, Zenon

(***************************************************************************)
(* The handler at the end of a line does what it is for (past2 is past     *)
(* with the frame of its envelope at position n) and returns.              *)
(***************************************************************************)
LEMMA DoneKeepsOrder ==
  ASSUME TypeOK, AtHome, NEW w \in Workers, \A v \in Workers : v = w, Advance(w),
         mailbox' = mailbox, frames' = frames,
         held[w] \in Envelope, NEW K \in Lines, held[w].kind \in K,
         \/ K = Storing /\ held[w].dest = "storage"
         \/ K = Showing /\ held[w].dest = "session",
         NEW past, NEW past2, NEW n \in Nat,
         \A x : IsDone(past, x) => x[2] < n,
         \A x : IsDone(past2, x) =>
                  \/ IsDone(past, x)
                  \/ x[1] = 0 /\ x[2] = n /\ x[3] = held[w].id,
         Sorted(K, Line(mailbox, held, step, frames, K, past))
  PROVE  Sorted(K, Line(mailbox', held', step', frames', K, past2))
<1>. DEFINE L == Line(mailbox, held, step, frames, K, past)
            M == Line(mailbox', held', step', frames', K, past2)
            z == <<0, n, held[w].id>>
<1>1. held[w].id \in Nat BY ConstantsAssumption DEF Envelope, Ids
<1>2. z \in Entry /\ z[1] = 0 /\ z[2] = n /\ z[3] = held[w].id BY <1>1 DEF Entry
<1>3. "auth" \notin K BY DEF Lines, Storing, Showing, OutgoingKind
<1>4. \A x : ~InHand(held', step', K, x) BY <1>3, HandsEmpty, Zenon
<1>5. ASSUME NEW x \in M
      PROVE  /\ x \in Entry
             /\ x = z \/ IsDone(past, x) \/ InBox(mailbox, K, x) \/ IsNext(frames, x)
  <2>1. /\ x \in Entry
        /\ IsDone(past2, x) \/ InBox(mailbox, K, x) \/ IsNext(frames, x)
    BY <1>4, InLine, Zenon
  <2>2. x[1] = 0 /\ x[2] = n /\ x[3] = held[w].id => x = z BY <2>1 DEF Entry
  <2>. HIDE DEF z
  <2>. QED BY <2>1, <2>2, Zenon
<1>6. Follows(K, Depth[held[w].dest], z[1])
  <2>1. Storing # Showing BY DEF Storing, Showing, OutgoingKind
  <2>. QED BY <1>2, <2>1, DepthOf, Zenon DEF Follows
<1>7. \A x : IsDone(past, x) \/ InBox(mailbox, K, x) => (x[1] = z[1] => x[2] < z[2])
  <2>1. \A t \in ActorType : Depth[t] # 0 BY DepthOf
  <2>. QED BY <1>2, <2>1, Zenon DEF InBox
<1>8. step[w] = 1
  <2>1. held[w].dest # "chat" BY Zenon
  <2>2. held[w] # NoEnvelope BY ConstantsAssumption DEF Envelope, Ids, NoEnvelope
  <2>. QED BY <2>1, <2>2, Zenon DEF AtHome
<1>. HIDE DEF M, z
<1>9. Sorted(K, M) BY <1>2, <1>5, <1>6, <1>7, <1>8, HandLands, Zenon
<1>. QED BY <1>9, Zenon DEF M

(* MessageDispatcher::dispatch keeps the order: the frame was read last. *)
LEMMA ReadKeepsOrder ==
  ASSUME TypeOK, AtHome, NEW f \in ClientFrames, OnRead(f),
         NEW K \in Lines, NEW past, Sorted(K, Line(mailbox, held, step, frames, K, past))
  PROVE  Sorted(K, Line(mailbox', held', step', frames', K, past))
<1>. DEFINE L == Line(mailbox, held, step, frames, K, past)
            M == Line(mailbox', held', step', frames', K, past)
            n == Len(frames) + 1
            k == Len(mailbox["message"]) + 1
<1>1. /\ frames' = Append(frames, f) /\ held' = held /\ step' = step /\ Len(frames) < MaxFrames
      /\ (\E e \in Dispatched(f, n) : Send(e)) \/ mailbox' = mailbox
  BY DEF OnRead, workerVars
<1>2. /\ n \in Nat /\ n \in Ids /\ Len(frames') = n
  BY <1>1, ConstantsAssumption DEF TypeOK, Ids
<1>3. "message" \in ActorType /\ k \in Nat
  <2>1. "message" \in ActorType BY DEF ActorType
  <2>2. mailbox["message"] \in Seq(Envelope) BY <2>1 DEF TypeOK
  <2>. QED BY <2>1, <2>2
<1>4. K \cap {"auth", "typing", "read"} = {}
  BY DEF Lines, Storing, Showing, OutgoingKind
<1>5. f \in Frame BY ConstantsAssumption, Zenon
<1>. HIDE DEF n
<1>6. \A x : InBox(mailbox', K, x) =>
               InBox(mailbox, K, x) \/ (x[1] = 4 /\ x[2] = k /\ x[3] = n)
  <2>1. CASE mailbox' = mailbox BY <2>1, Zenon
  <2>2. ASSUME NEW e \in Dispatched(f, n), Send(e), NEW x, InBox(mailbox', K, x)
        PROVE  InBox(mailbox, K, x) \/ (x[1] = 4 /\ x[2] = k /\ x[3] = n)
    <3>1. e \in Envelope /\ e.id = n
      BY <1>2, <1>5, DispatchedEffect, Zenon
    <3>2. e.kind \in K => e.dest = "message"
      BY <1>2, <1>4, <1>5, DispatchedEffect
    <3>3. \/ InBox(mailbox, K, x)
          \/ /\ e.kind \in K /\ x[1] = Depth[e.dest]
             /\ x[2] = Len(mailbox[e.dest]) + 1 /\ x[3] = e.id
      BY <2>2, <3>1, BoxAfterSend, Zenon
    <3>. QED BY <3>1, <3>2, <3>3, DepthOf, Zenon
  <2>. QED BY <1>1, <2>1, <2>2, Zenon
<1>7. \A t \in ActorType : Depth[t] < 5 BY DepthOf
<1>8. \A x : InHand(held, step, K, x) => x[1] < 5 /\ x[2] = 0
  <2>1. \A w \in Workers : held[w].dest \in ActorType
    BY DEF TypeOK, Envelope, NoEnvelope, ActorType
  <2>. QED BY <1>7, <2>1, Zenon DEF InHand
<1>9. \A x : InBox(mailbox, K, x) => x[1] < 5 BY <1>7 DEF InBox
<1>10. L \in SUBSET Entry BY DEF Line
<1>11. <<5, 0, n>> \in L
  <2>. DEFINE z == <<5, 0, n>>
  <2>1. z \in Entry /\ IsNext(frames, z) BY <1>2 DEF Entry, IsNext, n
  <2>. HIDE DEF z
  <2>2. z \in L BY <2>1, InLine, Zenon
  <2>. QED BY <2>2 DEF z
<1>12. \A y \in L : y[1] = 5 => y[2] = 0
  BY <1>8, <1>9, InLine DEF IsDone, IsNext
<1>13. ASSUME NEW y \in L, y[1] = 4 PROVE y[2] < k
  <2>1. InBox(mailbox, K, y) \/ InHand(held, step, K, y) BY <1>13, InLine DEF IsDone, IsNext
  <2>2. InBox(mailbox, K, y) => y[2] \in 1..Len(mailbox["message"])
    BY <1>3, <1>13, BoxPosition, DepthOf, Zenon
  <2>3. InHand(held, step, K, y) => y[2] = 0 BY <1>8, Zenon
  <2>4. Len(mailbox["message"]) \in Nat BY <1>3 DEF TypeOK
  <2>. QED BY <2>1, <2>2, <2>3, <2>4
<1>14. ASSUME NEW x \in M
       PROVE  \/ x \in L /\ x[1] < 5
              \/ x = <<4, k, n>>
              \/ x = <<5, 0, n + 1>>
  <2>1. /\ x \in Entry
        /\ \/ IsDone(past, x) \/ InBox(mailbox', K, x)
           \/ InHand(held, step, K, x) \/ IsNext(frames', x)
    BY <1>1, InLine
  <2>2. CASE IsDone(past, x) \/ InHand(held, step, K, x) \/ InBox(mailbox, K, x)
    <3>1. x[1] < 5 BY <1>8, <1>9, <2>2 DEF IsDone
    <3>2. x \in L BY <2>1, <2>2, InLine, Zenon
    <3>. QED BY <3>1, <3>2, Zenon
  <2>. HIDE DEF k
  <2>3. CASE x[1] = 4 /\ x[2] = k /\ x[3] = n BY <2>1, <2>3 DEF Entry
  <2>4. CASE IsNext(frames', x)
    <3>1. x[1] = 5 /\ x[2] = 0 /\ x[3] = n + 1 BY <1>2, <2>4 DEF IsNext
    <3>. QED BY <2>1, <3>1 DEF Entry
  <2>. QED BY <1>6, <2>1, <2>2, <2>3, <2>4, Zenon
<1>. HIDE DEF L, M, k
<1>15. Sorted(K, L) BY DEF L
<1>16. Sorted(K, M)
  BY <1>2, <1>3, <1>10, <1>11, <1>12, <1>13, <1>14, <1>15, JoinsTheEnd
<1>. QED BY <1>16 DEF M

(* Nothing changes in a line. *)
LEMMA SameLine ==
  ASSUME UNCHANGED <<mailbox, held, step, frames>>, NEW K, NEW past
  PROVE  Line(mailbox', held', step', frames', K, past)
           = Line(mailbox, held, step, frames, K, past)
<1>1. mailbox' = mailbox /\ held' = held /\ step' = step /\ frames' = frames BY Zenon
<1>. QED BY <1>1, Zenon

(***************************************************************************)
(* A step of a sole worker other than the one that does what the line is   *)
(* for: it leaves what is done alone and keeps the order.                  *)
(***************************************************************************)
LEMMA WorkerKeepsOrder ==
  ASSUME TypeOK, AtHome, NEW w \in Workers, \A v \in Workers : v = w, Worker(w),
         NEW K \in Lines, NEW past, Sorted(K, Line(mailbox, held, step, frames, K, past))
  PROVE  Sorted(K, Line(mailbox', held', step', frames', K, past))
<1>1. CASE LoopTest(w) \/ StoreThrows(w)
  BY <1>1, SameLine DEF LoopTest, StoreThrows, workerVars
<1>2. CASE PopEmpty(w) \/ Ignore(w) \/ Deliver(w) \/ Store(w)
  <2>1. Advance(w) /\ mailbox' = mailbox /\ frames' = frames
    BY <1>2 DEF PopEmpty, Ignore, Deliver, Store
  <2>. QED BY <2>1, ReturnKeepsOrder, Zenon
<1>3. CASE Pop(w) BY <1>3, PopKeepsOrder
<1>4. CASE Forward(w) BY <1>4, ForwardKeepsOrder
<1>. QED BY <1>1, <1>2, <1>3, <1>4, Zenon DEF Worker

(* StorageActor::handle adds the row behind the others. *)
LEMMA StoreKeepsOrder ==
  ASSUME TypeOK, AtHome, NEW w \in Workers, \A v \in Workers : v = w, Store(w),
         Sorted(Storing, Line(mailbox, held, step, frames, Storing, messages))
  PROVE  Sorted(Storing, Line(mailbox', held', step', frames', Storing, messages'))
<1>. DEFINE n == Len(messages) + 1
<1>1. /\ Advance(w) /\ mailbox' = mailbox /\ frames' = frames
      /\ held[w] \in Envelope /\ held[w].kind = "persist" /\ held[w].dest = "storage"
      /\ messages' = Append(messages, held[w].id)
  BY Zenon DEF Store, AtHome
<1>2. messages \in Seq(Ids) /\ n \in Nat BY DEF TypeOK
<1>3. \A x : IsDone(messages, x) => x[2] < n BY <1>2 DEF IsDone
<1>4. \A x : IsDone(messages', x) => \/ IsDone(messages, x)
                                     \/ x[1] = 0 /\ x[2] = n /\ x[3] = held[w].id
  <2>1. held[w].id \in Ids BY <1>1, Zenon DEF Envelope
  <2>2. /\ \A j : j \in DOMAIN messages' <=> j \in DOMAIN messages \/ j = n
        /\ \A j \in DOMAIN messages : messages'[j] = messages[j]
        /\ messages'[n] = held[w].id
    BY <1>1, <1>2, <2>1, AppendAt
  <2>. HIDE DEF n
  <2>. QED BY <2>2, Zenon DEF IsDone
<1>5. Storing \in Lines /\ held[w].kind \in Storing BY <1>1 DEF Lines, Storing
<1>. HIDE DEF n
<1>. QED BY <1>1, <1>2, <1>3, <1>4, <1>5, DoneKeepsOrder, Zenon

(* SessionActor::handle posts the payload behind the others. *)
LEMMA DeliverKeepsOrder ==
  ASSUME TypeOK, AtHome, NEW w \in Workers, \A v \in Workers : v = w, Deliver(w),
         NEW s \in Sessions,
         Sorted(Showing, Line(mailbox, held, step, frames, Showing, Origins(posted[s])))
  PROVE  Sorted(Showing, Line(mailbox', held', step', frames', Showing, Origins(posted'[s])))
<1>. DEFINE n == Len(posted[s]) + 1
            p == <<held[w].id, held[w].kind>>
<1>1. /\ Advance(w) /\ mailbox' = mailbox /\ frames' = frames
      /\ held[w] \in Envelope /\ held[w].kind \in OutgoingKind
      /\ held[w].dest = "session"
      /\ posted' = [posted EXCEPT ![held[w].session] = Append(@, p)]
  BY Zenon DEF Deliver, AtHome
<1>2. /\ posted \in [Sessions -> Seq(Ids \X OutgoingKind)]
      /\ posted[s] \in Seq(Ids \X OutgoingKind) /\ n \in Nat
  BY DEF TypeOK
<1>3. Showing \in Lines BY Zenon DEF Lines
<1>4. CASE held[w].session # s
  <2>1. posted'[s] = posted[s] BY <1>1, <1>2, <1>4, Zenon
  <2>2. Origins(posted'[s]) = Origins(posted[s]) BY <2>1, Zenon
  <2>3. Sorted(Showing, Line(mailbox', held', step', frames', Showing, Origins(posted[s])))
    BY <1>1, <1>3, ReturnKeepsOrder
  <2>. QED BY <2>2, <2>3, Zenon
<1>5. CASE held[w].session = s
  <2>. DEFINE past == Origins(posted[s])
              past2 == Origins(posted'[s])
  <2>1. posted'[s] = Append(posted[s], p) BY <1>1, <1>2, <1>5, Zenon
  <2>. HIDE DEF p
  <2>2. /\ \A j : j \in DOMAIN posted'[s] <=> j \in DOMAIN posted[s] \/ j = n
        /\ \A j \in DOMAIN posted[s] : posted'[s][j] = posted[s][j]
        /\ posted'[s][n] = p
    BY <1>2, <2>1, AppendAt
  <2>3. p[1] = held[w].id BY Zenon DEF p
  <2>4. /\ DOMAIN past = DOMAIN posted[s] /\ DOMAIN past2 = DOMAIN posted'[s]
        /\ \A j \in DOMAIN past : past[j] = posted[s][j][1]
        /\ \A j \in DOMAIN past2 : past2[j] = posted'[s][j][1]
    BY Zenon DEF Origins
  <2>. HIDE DEF past, past2
  <2>5. \A x : IsDone(past, x) => x[2] < n BY <1>2, <2>4 DEF IsDone
  <2>. HIDE DEF n
  <2>6. \A x : IsDone(past2, x) => \/ IsDone(past, x)
                                   \/ x[1] = 0 /\ x[2] = n /\ x[3] = held[w].id
    BY <2>2, <2>3, <2>4, Zenon DEF IsDone
  <2>7. held[w].kind \in Showing BY <1>1 DEF Showing
  <2>8. Sorted(Showing, Line(mailbox, held, step, frames, Showing, past)) BY DEF past
  <2>9. Sorted(Showing, Line(mailbox', held', step', frames', Showing, past2))
    BY <1>1, <1>2, <1>3, <2>5, <2>6, <2>7, <2>8, DoneKeepsOrder, Zenon
  <2>. QED BY <2>9, Zenon DEF past2
<1>. QED BY <1>4, <1>5, Zenon

(* At the start only the first frame is in the lines. *)
LEMMA InitFifoInv == Init => FifoInv
<1>. HAVE Init
<1>. SUFFICES ASSUME NEW K \in Lines, NEW past, DOMAIN past = {}
              PROVE  Sorted(K, Line(mailbox, held, step, frames, K, past))
  <2>1. DOMAIN messages = {} /\ \A s \in Sessions : DOMAIN posted[s] = {} BY DEF Init
  <2>2. \A s \in Sessions : DOMAIN Origins(posted[s]) = {} BY <2>1 DEF Origins
  <2>3. Storing \in Lines /\ Showing \in Lines BY DEF Lines
  <2>. QED BY <2>1, <2>2, <2>3, Zenon DEF FifoInv
<1>1. "auth" \notin K BY DEF Lines, Storing, Showing, OutgoingKind
<1>2. \A x : ~IsDone(past, x) BY Zenon DEF IsDone
<1>3. \A x : ~InBox(mailbox, K, x) BY DEF Init, InBox
<1>4. \A x : ~InHand(held, step, K, x) BY <1>1, Zenon DEF Init, InHand, NoEnvelope
<1>5. \A x \in Line(mailbox, held, step, frames, K, past) : x[1] = 5 /\ x[2] = 0
  BY <1>2, <1>3, <1>4, InLine DEF IsNext
<1>. QED BY <1>5 DEF Sorted, Before

(* Every step keeps the lines sorted. *)
LEMMA NextFifoInv == TypeOK /\ AtHome /\ FifoInv /\ [Next]_vars => FifoInv'
<1>. SUFFICES ASSUME TypeOK, AtHome, FifoInv, [Next]_vars, SingleWorker
              PROVE  FifoInv'
  BY DEF FifoInv
<1>. DEFINE Ordered(K, past) == Sorted(K, Line(mailbox, held, step, frames, K, past))
            OrderedNext(K, past) == Sorted(K, Line(mailbox', held', step', frames', K, past))
<1>1. PICK w \in Workers : Workers = {w} BY DEF SingleWorker
<1>2. w \in Workers /\ \A v \in Workers : v = w BY <1>1
<1>3. /\ Storing \in Lines /\ Showing \in Lines
      /\ Ordered(Storing, messages)
      /\ \A s \in Sessions : Ordered(Showing, Origins(posted[s]))
  BY Zenon DEF FifoInv, Lines
<1>. SUFFICES /\ OrderedNext(Storing, messages')
              /\ \A s \in Sessions : OrderedNext(Showing, Origins(posted'[s]))
  BY Zenon DEF FifoInv
<1>4. ASSUME messages' = messages, posted' = posted,
             \A K \in Lines : \A past : Ordered(K, past) => OrderedNext(K, past)
      PROVE  /\ OrderedNext(Storing, messages')
             /\ \A s \in Sessions : OrderedNext(Showing, Origins(posted'[s]))
  <2>. HIDE DEF Ordered, OrderedNext
  <2>. QED BY <1>3, <1>4, Zenon
<1>5. CASE UNCHANGED <<mailbox, held, step, frames, messages, posted>>
  <2>1. \A K \in Lines : \A past : Ordered(K, past) => OrderedNext(K, past)
    BY <1>5, SameLine, Zenon
  <2>. HIDE DEF Ordered, OrderedNext
  <2>. QED BY <1>4, <1>5, <2>1, Zenon
<1>6. ASSUME NEW f \in ClientFrames, OnRead(f)
      PROVE  /\ OrderedNext(Storing, messages')
             /\ \A s \in Sessions : OrderedNext(Showing, Origins(posted'[s]))
  <2>1. messages' = messages /\ posted' = posted BY <1>6 DEF OnRead
  <2>2. \A K \in Lines : \A past : Ordered(K, past) => OrderedNext(K, past)
    BY <1>6, ReadKeepsOrder, Zenon
  <2>. HIDE DEF Ordered, OrderedNext
  <2>. QED BY <1>4, <2>1, <2>2, Zenon
<1>7. CASE Worker(w)
  <2>1. \A K \in Lines : \A past : Ordered(K, past) => OrderedNext(K, past)
    BY <1>2, <1>7, WorkerKeepsOrder, Zenon
  <2>2. CASE Store(w)
    <3>1. OrderedNext(Storing, messages') BY <1>2, <1>3, <2>2, StoreKeepsOrder, Zenon
    <3>2. posted' = posted BY <2>2, Zenon DEF Store
    <3>. HIDE DEF Ordered, OrderedNext
    <3>. QED BY <1>3, <2>1, <3>1, <3>2
  <2>3. CASE Deliver(w)
    <3>1. \A s \in Sessions : OrderedNext(Showing, Origins(posted'[s]))
      BY <1>2, <1>3, <2>3, DeliverKeepsOrder, Zenon
    <3>2. messages' = messages BY <2>3 DEF Deliver
    <3>. HIDE DEF Ordered, OrderedNext
    <3>. QED BY <1>3, <2>1, <3>1, <3>2, Zenon
  <2>4. CASE ~Store(w) /\ ~Deliver(w)
    <3>1. messages' = messages /\ posted' = posted
      BY <1>7, <2>4 DEF Worker, LoopTest, PopEmpty, Pop, Forward, Ignore, StoreThrows
    <3>. HIDE DEF Ordered, OrderedNext
    <3>. QED BY <1>4, <2>1, <3>1, Zenon
  <2>. QED BY <2>2, <2>3, <2>4
<1>. HIDE DEF Ordered, OrderedNext
<1>8. CASE Next
  <2>1. CASE ServerRun \/ StopNetwork \/ StopActors \/ Joined
    <3>1. UNCHANGED <<mailbox, held, step, frames, messages, posted>>
      BY <2>1, Zenon DEF ServerRun, StopNetwork, StopActors, Joined, workerVars
    <3>. QED BY <1>5, <3>1, Zenon
  <2>2. CASE Accept \/ \E s \in Sessions : OnAccept(s) \/ OnReadError(s) \/ OnWriteError(s)
    <3>1. UNCHANGED <<mailbox, held, step, frames, messages, posted>>
      BY <2>2 DEF Accept, OnAccept, OnReadError, OnWriteError, workerVars
    <3>. QED BY <1>5, <3>1, Zenon
  <2>3. CASE \E v \in Workers : Worker(v) BY <1>2, <1>7, <2>3, Zenon
  <2>. QED BY <1>6, <1>8, <2>1, <2>2, <2>3, Zenon DEF Next, Network
<1>9. CASE UNCHANGED vars
  <2>1. UNCHANGED <<mailbox, held, step, frames, messages, posted>>
    BY <1>9 DEF vars, workerVars
  <2>. QED BY <1>5, <2>1, Zenon
<1>. QED BY <1>8, <1>9, Zenon

(***************************************************************************)
(* With server.actor_threads = 1 the table and every session's strand get  *)
(* the messages in the order in which the frames were read, whatever the   *)
(* capacity, the order of actors_ and the number of sessions.              *)
(***************************************************************************)
THEOREM OneWorkerIsFifo == Spec => []SingleWorkerInOrder
<1>1. TypeOK /\ FifoInv => SingleWorkerInOrder
  <2>. SUFFICES ASSUME TypeOK, FifoInv, SingleWorker
                PROVE  /\ \A m, n \in DOMAIN messages : m < n => messages[m] < messages[n]
                       /\ \A s \in Sessions : \A m, n \in DOMAIN posted[s] :
                            m < n => posted[s][m][1] <= posted[s][n][1]
    BY Zenon DEF SingleWorkerInOrder
  <2>1. ASSUME NEW K, NEW past, Sorted(K, Line(mailbox, held, step, frames, K, past)),
               NEW m \in Nat, NEW n \in Nat, m \in DOMAIN past, n \in DOMAIN past, m < n,
               past[m] \in Ids, past[n] \in Ids
        PROVE  past[m] < past[n] \/ (K # Storing /\ past[m] = past[n])
    <3>. DEFINE x == <<0, m, past[m]>>
                y == <<0, n, past[n]>>
    <3>1. past[m] \in Nat /\ past[n] \in Nat BY <2>1, ConstantsAssumption DEF Ids
    <3>2. x \in Entry /\ y \in Entry BY <3>1 DEF Entry
    <3>3. IsDone(past, x) /\ IsDone(past, y) BY <2>1, Zenon DEF IsDone
    <3>4. Before(x, y) /\ x[3] = past[m] /\ y[3] = past[n] BY <2>1, Zenon DEF Before
    <3>. HIDE DEF x, y
    <3>5. /\ x \in Line(mailbox, held, step, frames, K, past)
          /\ y \in Line(mailbox, held, step, frames, K, past)
      BY <3>2, <3>3, InLine, Zenon
    <3>. QED BY <2>1, <3>4, <3>5, Zenon DEF Sorted
  <2>2. ASSUME NEW m \in DOMAIN messages, NEW n \in DOMAIN messages, m < n
        PROVE  messages[m] < messages[n]
    <3>1. m \in Nat /\ n \in Nat /\ messages[m] \in Ids /\ messages[n] \in Ids
      BY DEF TypeOK
    <3>. QED BY <2>1, <2>2, <3>1, Zenon DEF FifoInv
  <2>3. ASSUME NEW s \in Sessions, NEW m \in DOMAIN posted[s], NEW n \in DOMAIN posted[s],
               m < n
        PROVE  posted[s][m][1] <= posted[s][n][1]
    <3>. DEFINE past == Origins(posted[s])
    <3>1. m \in Nat /\ n \in Nat /\ posted[s][m][1] \in Ids /\ posted[s][n][1] \in Ids
      <4>1. posted[s] \in Seq(Ids \X OutgoingKind) BY Zenon DEF TypeOK
      <4>. QED BY <4>1
    <3>2. /\ DOMAIN past = DOMAIN posted[s]
          /\ past[m] = posted[s][m][1] /\ past[n] = posted[s][n][1]
      BY DEF Origins
    <3>3. Sorted(Showing, Line(mailbox, held, step, frames, Showing, past))
      BY Zenon DEF FifoInv
    <3>. HIDE DEF past
    <3>4. past[m] < past[n] \/ past[m] = past[n] BY <2>1, <2>3, <3>1, <3>2, <3>3
    <3>. QED BY <3>1, <3>2, <3>4, ConstantsAssumption DEF Ids
  <2>. QED BY <2>2, <2>3, Zenon
<1>2. Init => TypeOK /\ NotBornYet /\ AtHome /\ FifoInv
  BY InitTypeOK, InitAtHome, InitFifoInv, Zenon DEF Init, NotBornYet
<1>3. TypeOK /\ NotBornYet /\ AtHome /\ FifoInv /\ [Next]_vars
        => (TypeOK /\ NotBornYet /\ AtHome /\ FifoInv)'
  BY NextTypeOK, NextNotBornYet, NextAtHome, NextFifoInv
<1>. QED BY <1>1, <1>2, <1>3, PTL DEF Spec
============================================================================
