--------------------------- MODULE PipelineProofs --------------------------
(***************************************************************************)
(* That a message is never duplicated or forgotten in the pipeline, for    *)
(* any number of workers, sessions and frames and any mailbox capacity.    *)
(* Each step moves a pending, done or lost duty from one place to one      *)
(* other place; so a frame never has two places for a purpose, and never   *)
(* none for being stored.  From this follows that the pipeline implements  *)
(* MessageLife.                                                            *)
(***************************************************************************)
EXTENDS ActorSystemProofs

(* The abbreviations of ActorSystem that every proof sees through. *)
USE DEF Accepts, Pushed, Rest, Last, Continues, Bound, AllExited, Echo, Copy

(* Places as a function of the state, so that it can speak of two states. *)
PlacesIn(mb, hd, st, lk, ms, po, i, k) ==
  (UNION {{<<"mailbox", t, j>> :
             j \in {n \in DOMAIN mb[t] : Owes(mb[t][n], 1, i, k)}}
          : t \in ActorType})
  \cup {<<"worker", w>> : w \in {v \in Workers : Owes(hd[v], st[v], i, k)}}
  \cup {<<"leaked", e>> : e \in {l \in lk : Owes(l, 1, i, k)}}
  \cup {<<"row", j>> : j \in {n \in DOMAIN ms : k = "persist" /\ ms[n] = i}}
  \cup (UNION {{<<"posted", s, j>> : j \in {n \in DOMAIN po[s] : po[s][n] = <<i, k>>}}
               : s \in Sessions})

(* The two are the same, before and after a step. *)
LEMMA PlacesAre ==
  ASSUME NEW i, NEW k
  PROVE  /\ Places(i, k) = PlacesIn(mailbox, held, step, leaked, messages, posted, i, k)
         /\ Places(i, k)' = PlacesIn(mailbox', held', step', leaked', messages', posted', i, k)
BY Zenon DEF Places, PlacesIn

(* The forms a place has. *)
Shaped(P) ==
  \A p \in P :
    \/ \E t, j : p = <<"mailbox", t, j>>
    \/ \E w : p = <<"worker", w>>
    \/ \E e : p = <<"leaked", e>>
    \/ \E j : p = <<"row", j>>
    \/ \E s, j : p = <<"posted", s, j>>

(* P lists these places. *)
Listed(P, mb, hd, st, lk, ms, po, i, k) ==
  /\ \A t, j : <<"mailbox", t, j>> \in P <=>
       t \in ActorType /\ j \in DOMAIN mb[t] /\ Owes(mb[t][j], 1, i, k)
  /\ \A w : <<"worker", w>> \in P <=> w \in Workers /\ Owes(hd[w], st[w], i, k)
  /\ \A e : <<"leaked", e>> \in P <=> e \in lk /\ Owes(e, 1, i, k)
  /\ \A j : <<"row", j>> \in P <=> j \in DOMAIN ms /\ k = "persist" /\ ms[j] = i
  /\ \A s, j : <<"posted", s, j>> \in P <=>
       s \in Sessions /\ j \in DOMAIN po[s] /\ po[s][j] = <<i, k>>
  /\ Shaped(P)

(* Which places there are. *)
LEMMA Members ==
  ASSUME NEW mb, NEW hd, NEW st, NEW lk, NEW ms, NEW po, NEW i, NEW k,
         NEW P, P = PlacesIn(mb, hd, st, lk, ms, po, i, k)
  PROVE  Listed(P, mb, hd, st, lk, ms, po, i, k)
<1>. DEFINE A == UNION {{<<"mailbox", t, j>> :
                          j \in {n \in DOMAIN mb[t] : Owes(mb[t][n], 1, i, k)}}
                        : t \in ActorType}
            B == {<<"worker", w>> : w \in {v \in Workers : Owes(hd[v], st[v], i, k)}}
            C == {<<"leaked", e>> : e \in {l \in lk : Owes(l, 1, i, k)}}
            D == {<<"row", j>> : j \in {n \in DOMAIN ms : k = "persist" /\ ms[n] = i}}
            E == UNION {{<<"posted", s, j>> :
                          j \in {n \in DOMAIN po[s] : po[s][n] = <<i, k>>}}
                        : s \in Sessions}
<1>1. P = A \cup B \cup C \cup D \cup E BY Zenon DEF PlacesIn
<1>a. \A p : p \in A <=> \E t \in ActorType : \E j \in DOMAIN mb[t] :
                            p = <<"mailbox", t, j>> /\ Owes(mb[t][j], 1, i, k)
  OBVIOUS
<1>b. \A p : p \in B <=> \E w \in Workers : p = <<"worker", w>> /\ Owes(hd[w], st[w], i, k)
  OBVIOUS
<1>c. \A p : p \in C <=> \E e \in lk : p = <<"leaked", e>> /\ Owes(e, 1, i, k)
  OBVIOUS
<1>d. \A p : p \in D <=> \E j \in DOMAIN ms : p = <<"row", j>> /\ k = "persist" /\ ms[j] = i
  OBVIOUS
<1>e. \A p : p \in E <=> \E s \in Sessions : \E j \in DOMAIN po[s] :
                            p = <<"posted", s, j>> /\ po[s][j] = <<i, k>>
  OBVIOUS
<1>. HIDE DEF A, B, C, D, E
<1>2. \A t, j : <<"mailbox", t, j>> \in P <=>
        t \in ActorType /\ j \in DOMAIN mb[t] /\ Owes(mb[t][j], 1, i, k)
  BY <1>1, <1>a, <1>b, <1>c, <1>d, <1>e
<1>3. \A w : <<"worker", w>> \in P <=> w \in Workers /\ Owes(hd[w], st[w], i, k)
  BY <1>1, <1>a, <1>b, <1>c, <1>d, <1>e
<1>4. \A e : <<"leaked", e>> \in P <=> e \in lk /\ Owes(e, 1, i, k)
  BY <1>1, <1>a, <1>b, <1>c, <1>d, <1>e
<1>5. \A j : <<"row", j>> \in P <=> j \in DOMAIN ms /\ k = "persist" /\ ms[j] = i
  BY <1>1, <1>a, <1>b, <1>c, <1>d, <1>e
<1>6. \A s, j : <<"posted", s, j>> \in P <=>
        s \in Sessions /\ j \in DOMAIN po[s] /\ po[s][j] = <<i, k>>
  BY <1>1, <1>a, <1>b, <1>c, <1>d, <1>e
<1>7. \A p \in P : \/ \E t, j : p = <<"mailbox", t, j>>
                   \/ \E w : p = <<"worker", w>>
                   \/ \E e : p = <<"leaked", e>>
                   \/ \E j : p = <<"row", j>>
                   \/ \E s, j : p = <<"posted", s, j>>
  <2>. SUFFICES ASSUME NEW p \in A \cup B \cup C \cup D \cup E
                PROVE  \/ \E t, j : p = <<"mailbox", t, j>>
                       \/ \E w : p = <<"worker", w>>
                       \/ \E e : p = <<"leaked", e>>
                       \/ \E j : p = <<"row", j>>
                       \/ \E s, j : p = <<"posted", s, j>>
    BY <1>1
  <2>1. CASE p \in A BY <1>a, <2>1, Zenon
  <2>2. CASE p \in B BY <1>b, <2>2, Zenon
  <2>3. CASE p \in C BY <1>c, <2>3, Zenon
  <2>4. CASE p \in D BY <1>d, <2>4, Zenon
  <2>5. CASE p \in E BY <1>e, <2>5, Zenon
  <2>. QED BY <2>1, <2>2, <2>3, <2>4, <2>5
<1>. QED BY <1>2, <1>3, <1>4, <1>5, <1>6, <1>7 DEF Listed, Shaped

(* The same of Places, before and after a step. *)
LEMMA MembersOf ==
  ASSUME NEW i, NEW k
  PROVE  /\ Listed(Places(i, k), mailbox, held, step, leaked, messages, posted, i, k)
         /\ Listed(Places(i, k)', mailbox', held', step', leaked', messages', posted', i, k)
BY PlacesAre, Members, Zenon

(***************************************************************************)
(* What a step may do to the places of one purpose of one frame: it makes  *)
(* no place from nothing and no two places of one.                         *)
(***************************************************************************)
Fine(P, Q) ==
  /\ Q # {} => P # {}
  /\ (\A p, q \in P : p = q) => (\A p, q \in Q : p = q)

(* The step does not lose the duty. *)
Kept(P, Q) == P # {} => Q # {}

(* The places depend on these variables only. *)
LEMMA Unmoved ==
  ASSUME NEW i, NEW k,
         UNCHANGED <<mailbox, held, step, leaked, messages, posted>>
  PROVE  Places(i, k)' = Places(i, k)
<1>1. /\ mailbox' = mailbox /\ held' = held /\ step' = step
      /\ leaked' = leaked /\ messages' = messages /\ posted' = posted
  OBVIOUS
<1>. QED BY <1>1, PlacesAre, Zenon

(* Nothing moves. *)
LEMMA SamePlaces ==
  ASSUME NEW i, NEW k,
         UNCHANGED <<mailbox, held, step, leaked, messages, posted>>
  PROVE  Fine(Places(i, k), Places(i, k)') /\ Kept(Places(i, k), Places(i, k)')
<1>1. Places(i, k)' = Places(i, k) BY Unmoved
<1>. QED BY <1>1 DEF Fine, Kept

(* The duty moves from place w to place x, if it was at w at all. *)
LEMMA OneMoves ==
  ASSUME NEW P, NEW Q, NEW w, NEW x,
         \A q \in Q : q \in P \/ q = x,
         x \in Q => w \in P /\ w \notin Q
  PROVE  /\ Fine(P, Q)
         /\ (\A p \in P : p \in Q \/ (p = w /\ x \in Q)) => Kept(P, Q)
BY DEF Fine, Kept

(* An envelope in a mailbox, or refused, owes what its kind says. *)
LEMMA OwesInBox ==
  ASSUME NEW e, NEW i, NEW k \in Purpose
  PROVE  Owes(e, 1, i, k) <=> e.id = i /\ e.kind \in {k, "send"}
BY DEF Owes, SendOf, Purpose, OutgoingKind

(* NoEnvelope owes nothing. *)
LEMMA NoneOwed ==
  ASSUME NEW n, NEW i \in Ids, NEW k
  PROVE  ~Owes(NoEnvelope, n, i, k)
BY ConstantsAssumption DEF Owes, NoEnvelope, Ids

(* The actors ignore neither the frame they pass on nor the row to store. *)
LEMMA IgnoredKinds ==
  ASSUME AtHome, NEW w \in Workers, Ignore(w)
  PROVE  held[w].kind \notin {"send", "persist"}
<1>1. held[w].dest \in ActorType /\ held[w].kind \in KindsOf[held[w].dest]
  BY Zenon DEF Ignore, AtHome, Envelope
<1>2. \/ held[w].dest = "session"
      \/ held[w].dest \in {"message", "chat"} /\ held[w].kind # "send"
      \/ held[w].dest = "storage" /\ held[w].kind # "persist"
  BY Zenon DEF Ignore
<1>. QED BY <1>1, <1>2 DEF KindsOf, OutgoingKind

(* A set that holds the places of each form holds them all. *)
LEMMA ByForm ==
  ASSUME NEW P, Shaped(P), NEW S,
         \A t, j : <<"mailbox", t, j>> \in P => <<"mailbox", t, j>> \in S,
         \A w : <<"worker", w>> \in P => <<"worker", w>> \in S,
         \A e : <<"leaked", e>> \in P => <<"leaked", e>> \in S,
         \A j : <<"row", j>> \in P => <<"row", j>> \in S,
         \A s, j : <<"posted", s, j>> \in P => <<"posted", s, j>> \in S
  PROVE  P \subseteq S
<1>. SUFFICES ASSUME NEW p \in P PROVE p \in S OBVIOUS
<1>1. \/ \E t, j : p = <<"mailbox", t, j>>
      \/ \E w : p = <<"worker", w>>
      \/ \E e : p = <<"leaked", e>>
      \/ \E j : p = <<"row", j>>
      \/ \E s, j : p = <<"posted", s, j>>
  BY Zenon DEF Shaped
<1>. QED BY <1>1, Zenon

(* A set without a place of any form is empty. *)
LEMMA NoForm ==
  ASSUME NEW P, Shaped(P),
         \A t, j : <<"mailbox", t, j>> \notin P,
         \A w : <<"worker", w>> \notin P,
         \A e : <<"leaked", e>> \notin P,
         \A j : <<"row", j>> \notin P,
         \A s, j : <<"posted", s, j>> \notin P
  PROVE  P = {}
<1>. DEFINE S == {}
<1>. HIDE DEF S
<1>1. P \subseteq S BY ByForm, Zenon
<1>. QED BY <1>1 DEF S

(* A worker that moves on owes nothing any more; the others are where they were. *)
LEMMA WorkerLeaves ==
  ASSUME TypeOK, NEW w \in Workers, Advance(w), NEW i \in Ids, NEW k
  PROVE  \A v : <<"worker", v>> \in Places(i, k)' <=>
                  v # w /\ <<"worker", v>> \in Places(i, k)
<1>1. /\ \A v : <<"worker", v>> \in Places(i, k) <=>
                  v \in Workers /\ Owes(held[v], step[v], i, k)
      /\ \A v : <<"worker", v>> \in Places(i, k)' <=>
                  v \in Workers /\ Owes(held'[v], step'[v], i, k)
  BY MembersOf, Zenon DEF Listed
<1>2. ~Owes(held'[w], step'[w], i, k) BY AdvanceEffect, NoneOwed
<1>3. \A v \in Workers : v # w => held'[v] = held[v] /\ step'[v] = step[v]
  BY AdvanceEffect
<1>. QED BY <1>1, <1>2, <1>3, Zenon

(* A handler that returns without a send only gives up its own place. *)
LEMMA Returns ==
  ASSUME TypeOK, NEW w \in Workers, Advance(w), NEW i \in Ids, NEW k,
         UNCHANGED <<mailbox, leaked, messages, posted>>
  PROVE  /\ Fine(Places(i, k), Places(i, k)')
         /\ ~Owes(held[w], step[w], i, k) => Kept(Places(i, k), Places(i, k)')
<1>. DEFINE P == Places(i, k)
            Q == Places(i, k)'
<1>1. /\ Listed(P, mailbox, held, step, leaked, messages, posted, i, k)
      /\ Listed(Q, mailbox', held', step', leaked', messages', posted', i, k)
      /\ Shaped(P) /\ Shaped(Q)
  BY MembersOf, Zenon DEF Listed
<1>2. \A v : <<"worker", v>> \in Q <=> v # w /\ <<"worker", v>> \in P
  BY WorkerLeaves, Zenon
<1>. HIDE DEF P, Q
<1>3. /\ \A t, j : <<"mailbox", t, j>> \in Q <=> <<"mailbox", t, j>> \in P
      /\ \A e : <<"leaked", e>> \in Q <=> <<"leaked", e>> \in P
      /\ \A j : <<"row", j>> \in Q <=> <<"row", j>> \in P
      /\ \A s, j : <<"posted", s, j>> \in Q <=> <<"posted", s, j>> \in P
  <2>1. /\ mailbox' = mailbox /\ leaked' = leaked
        /\ messages' = messages /\ posted' = posted
    OBVIOUS
  <2>2. \A t, j : <<"mailbox", t, j>> \in Q <=> <<"mailbox", t, j>> \in P
    BY <1>1, <2>1, Zenon DEF Listed
  <2>3. \A e : <<"leaked", e>> \in Q <=> <<"leaked", e>> \in P
    BY <1>1, <2>1, Zenon DEF Listed
  <2>4. \A j : <<"row", j>> \in Q <=> <<"row", j>> \in P
    BY <1>1, <2>1, Zenon DEF Listed
  <2>5. \A s, j : <<"posted", s, j>> \in Q <=> <<"posted", s, j>> \in P
    <3>1. \A s, j : <<"posted", s, j>> \in P <=>
            s \in Sessions /\ j \in DOMAIN posted[s] /\ posted[s][j] = <<i, k>>
      BY <1>1, Zenon DEF Listed
    <3>2. \A s, j : <<"posted", s, j>> \in Q <=>
            s \in Sessions /\ j \in DOMAIN posted'[s] /\ posted'[s][j] = <<i, k>>
      BY <1>1, Zenon DEF Listed
    <3>. QED BY <2>1, <3>1, <3>2, Zenon
  <2>. QED BY <2>2, <2>3, <2>4, <2>5
<1>4. Q \subseteq P
  BY <1>1, <1>2, <1>3, ByForm, Zenon
<1>5. ~Owes(held[w], step[w], i, k) => P \subseteq Q
  <2>. SUFFICES ASSUME ~Owes(held[w], step[w], i, k) PROVE P \subseteq Q OBVIOUS
  <2>1. <<"worker", w>> \notin P BY <1>1, Zenon DEF Listed
  <2>2. \A v : <<"worker", v>> \in P => <<"worker", v>> \in Q BY <1>2, <2>1, Zenon
  <2>. QED BY <1>1, <1>3, <2>2, ByForm, Zenon
<1>6. Fine(P, Q) BY <1>4 DEF Fine
<1>7. P \subseteq Q => Kept(P, Q) BY DEF Kept
<1>. QED BY <1>5, <1>6, <1>7, Zenon DEF P, Q

(* An envelope that owes (o) adds the place x to the mailboxes or to what was refused. *)
Placed(P, Q, x, o) ==
  /\ \A t, j : <<"mailbox", t, j>> \in Q <=>
       <<"mailbox", t, j>> \in P \/ (x = <<"mailbox", t, j>> /\ o)
  /\ \A l : <<"leaked", l>> \in Q <=> <<"leaked", l>> \in P \/ (x = <<"leaked", l>> /\ o)
  /\ (\E t, j : x = <<"mailbox", t, j>>) \/ (\E l : x = <<"leaked", l>>)

(* A send gives the duties of its envelope one new place. *)
LEMMA SendPlaces ==
  ASSUME TypeOK, NEW e \in Envelope, Send(e), NEW i, NEW k
  PROVE  \E x : Placed(Places(i, k), Places(i, k)', x, Owes(e, 1, i, k))
<1>. DEFINE P == Places(i, k)
            Q == Places(i, k)'
            d == e.dest
            n == Len(mailbox[d]) + 1
<1>1. /\ Listed(P, mailbox, held, step, leaked, messages, posted, i, k)
      /\ Listed(Q, mailbox', held', step', leaked', messages', posted', i, k)
  BY MembersOf
<1>2. mailbox \in [ActorType -> Seq(Envelope)] /\ d \in ActorType
  BY Zenon DEF TypeOK, Envelope
<1>3. CASE Len(mailbox[d]) < Capacity
  <2>1. /\ mailbox' = [mailbox EXCEPT ![d] = Append(@, e)]
        /\ leaked' = leaked
    BY <1>3 DEF Send
  <2>2. \A t \in ActorType : mailbox'[t] = IF t = d THEN Append(mailbox[t], e) ELSE mailbox[t]
    BY <1>2, <2>1
  <2>3. mailbox[d] \in Seq(Envelope) BY <1>2
  <2>4. /\ \A j : j \in DOMAIN Append(mailbox[d], e) <=> j \in DOMAIN mailbox[d] \/ j = n
        /\ \A j \in DOMAIN mailbox[d] : Append(mailbox[d], e)[j] = mailbox[d][j]
        /\ Append(mailbox[d], e)[n] = e
        /\ n \notin DOMAIN mailbox[d]
    BY <2>3, AppendAt
  <2>. HIDE DEF P, Q, n, d
  <2>5. /\ \A t \in ActorType : \A j : j \in DOMAIN mailbox'[t] <=>
             j \in DOMAIN mailbox[t] \/ (t = d /\ j = n)
        /\ \A t \in ActorType : \A j \in DOMAIN mailbox[t] : mailbox'[t][j] = mailbox[t][j]
        /\ mailbox'[d][n] = e
    BY <1>2, <2>2, <2>4, Zenon
  <2>6. \A t, j : <<"mailbox", t, j>> \in Q <=>
          <<"mailbox", t, j>> \in P
          \/ (<<"mailbox", d, n>> = <<"mailbox", t, j>> /\ Owes(e, 1, i, k))
    <3>. SUFFICES ASSUME NEW t, NEW j
                  PROVE  <<"mailbox", t, j>> \in Q <=>
                           <<"mailbox", t, j>> \in P \/ (t = d /\ j = n /\ Owes(e, 1, i, k))
      BY Zenon
    <3>1. /\ <<"mailbox", t, j>> \in P <=>
               t \in ActorType /\ j \in DOMAIN mailbox[t] /\ Owes(mailbox[t][j], 1, i, k)
          /\ <<"mailbox", t, j>> \in Q <=>
               t \in ActorType /\ j \in DOMAIN mailbox'[t] /\ Owes(mailbox'[t][j], 1, i, k)
      BY <1>1, Zenon DEF Listed
    <3>2. n \notin DOMAIN mailbox[d] BY <2>4
    <3>3. CASE t = d /\ j = n BY <1>2, <2>5, <3>1, <3>2, <3>3, Zenon
    <3>4. CASE ~(t = d /\ j = n) BY <2>5, <3>1, <3>4, Zenon
    <3>. QED BY <3>3, <3>4
  <2>7. \A l : <<"leaked", l>> \in Q <=> <<"leaked", l>> \in P
    BY <1>1, <2>1, Zenon DEF Listed
  <2>8. \A l : <<"leaked", l>> # <<"mailbox", d, n>> OBVIOUS
  <2>9. Placed(P, Q, <<"mailbox", d, n>>, Owes(e, 1, i, k))
    BY <2>6, <2>7, <2>8, Zenon DEF Placed
  <2>. QED BY <2>9, Zenon DEF P, Q
<1>4. CASE ~(Len(mailbox[d]) < Capacity)
  <2>1. leaked' = leaked \cup {e} /\ mailbox' = mailbox BY <1>4 DEF Send
  <2>. HIDE DEF P, Q, n, d
  <2>2. \A t, j : <<"mailbox", t, j>> \in Q <=> <<"mailbox", t, j>> \in P
    BY <1>1, <2>1, Zenon DEF Listed
  <2>3. \A l : <<"leaked", l>> \in Q <=> <<"leaked", l>> \in P
                 \/ (<<"leaked", e>> = <<"leaked", l>> /\ Owes(e, 1, i, k))
    <3>1. \A l : /\ <<"leaked", l>> \in P <=> l \in leaked /\ Owes(l, 1, i, k)
                 /\ <<"leaked", l>> \in Q <=> (l \in leaked \/ l = e) /\ Owes(l, 1, i, k)
      BY <1>1, <2>1, Zenon DEF Listed
    <3>2. \A l : <<"leaked", e>> = <<"leaked", l>> <=> e = l OBVIOUS
    <3>. QED BY <3>1, <3>2, Zenon
  <2>4. \A t, j : <<"mailbox", t, j>> # <<"leaked", e>> OBVIOUS
  <2>5. Placed(P, Q, <<"leaked", e>>, Owes(e, 1, i, k))
    BY <2>2, <2>3, <2>4, Zenon DEF Placed
  <2>. QED BY <2>5, Zenon DEF P, Q
<1>. QED BY <1>3, <1>4

(***************************************************************************)
(* A send of a handler: what the envelope owes was owed by the handler and *)
(* no longer is, and the handler comes to owe nothing new.                 *)
(***************************************************************************)
LEMMA DutyIsPassed ==
  ASSUME TypeOK, NEW w \in Workers, Forward(w), NEW i \in Ids, NEW k \in Purpose,
         NEW y, y = Sends(held[w])[step[w]]
  PROVE  /\ Owes(held'[w], step'[w], i, k) => Owes(held[w], step[w], i, k)
         /\ Owes(y, 1, i, k) => /\ Owes(held[w], step[w], i, k)
                                /\ ~Owes(held'[w], step'[w], i, k)
         /\ k # "incoming_message" /\ Owes(held[w], step[w], i, k) =>
              Owes(y, 1, i, k) \/ Owes(held'[w], step'[w], i, k)
<1>. DEFINE e == held[w]
            n == step[w]
<1>1. /\ e \in Envelope /\ n \in 1..3 /\ n <= Len(Sends(e))
      /\ \/ n = Len(Sends(e)) /\ Advance(w)
         \/ /\ n # Len(Sends(e))
            /\ step' = [step EXCEPT ![w] = @ + 1]
            /\ UNCHANGED <<pc, pos, held>>
  BY ForwardEffect
<1>2. \/ n = Len(Sends(e)) /\ ~Owes(held'[w], step'[w], i, k)
      \/ n # Len(Sends(e)) /\ held'[w] = e /\ step'[w] = n + 1
  <2>1. CASE n = Len(Sends(e))
    <3>1. held'[w] = NoEnvelope BY <1>1, <2>1, AdvanceEffect
    <3>2. ~Owes(held'[w], step'[w], i, k) BY <3>1, NoneOwed
    <3>. QED BY <2>1, <3>2
  <2>2. CASE n # Len(Sends(e))
    BY <1>1, <2>2 DEF TypeOK
  <2>. QED BY <2>1, <2>2
<1>3. e.kind = "send" /\ e.kind # k
  <2>1. e.kind = "send" BY <1>1, SendsEffect, Zenon
  <2>. QED BY <2>1 DEF Purpose, OutgoingKind
<1>4. Owes(y, 1, i, k) <=> y.id = i /\ y.kind \in {k, "send"} BY OwesInBox
<1>. HIDE DEF e, n
<1>5. CASE e.dest = "message"
  <2>1. n = Len(Sends(e)) /\ y = [e EXCEPT !.dest = "chat"]
    BY <1>1, <1>5, SendsEffect DEF e, n
  <2>2. y.id = e.id /\ y.kind = "send" BY <1>1, <1>3, <2>1 DEF Envelope
  <2>3. Owes(e, n, i, k) <=> e.id = i BY <1>3, <1>5, Zenon DEF Owes
  <2>. QED BY <1>2, <1>4, <2>1, <2>2, <2>3 DEF e, n
<1>6. CASE e.dest = "chat"
  <2>1. /\ n = 1 => y = StoragePersistMessage(e)
        /\ n = 2 => y = SessionOutgoingEvent(e, e.session, "message_delivered")
        /\ n = 3 => y = SessionOutgoingEvent(e, e.recipient, "incoming_message")
        /\ Len(Sends(e)) > 1
    BY <1>1, <1>6, SendsEffect, Zenon DEF e, n
  <2>2. \A m : Owes(e, m, i, k) <=> e.id = i /\ m <= SendOf[k]
    BY <1>3, <1>6 DEF Owes
  <2>3. /\ k = "persist" => SendOf[k] = 1
        /\ k = "message_delivered" => SendOf[k] = 2
        /\ k = "incoming_message" => SendOf[k] = 3
        /\ SendOf[k] \in 1..3
    BY DEF SendOf, Purpose, OutgoingKind
  <2>4. Owes(y, 1, i, k) <=> e.id = i /\ n = SendOf[k]
    <3>1. CASE n = 1
      BY <1>4, <2>1, <2>3, <3>1 DEF StoragePersistMessage, Purpose, OutgoingKind
    <3>2. CASE n = 2
      BY <1>4, <2>1, <2>3, <3>2 DEF SessionOutgoingEvent, Purpose, OutgoingKind
    <3>3. CASE n = 3
      BY <1>4, <2>1, <2>3, <3>3 DEF SessionOutgoingEvent, Purpose, OutgoingKind
    <3>. QED BY <1>1, <3>1, <3>2, <3>3
  <2>5. CASE ~Owes(held'[w], step'[w], i, k) /\ n = Len(Sends(e))
    <3>1. k # "incoming_message" /\ n # SendOf[k] => ~Owes(e, n, i, k)
      BY <1>1, <2>1, <2>2, <2>3, <2>5 DEF Purpose, OutgoingKind
    <3>. QED BY <1>1, <2>2, <2>3, <2>4, <2>5, <3>1, Zenon DEF e, n
  <2>6. CASE held'[w] = e /\ step'[w] = n + 1
    <3>1. Owes(held'[w], step'[w], i, k) <=> e.id = i /\ n + 1 <= SendOf[k]
      BY <2>2, <2>6
    <3>. QED BY <1>1, <2>2, <2>3, <2>4, <3>1 DEF e, n
  <2>. QED BY <1>2, <2>5, <2>6
<1>. QED
  <2>1. e.dest \in {"message", "chat"} BY <1>1, SendsEffect, Zenon
  <2>. QED BY <1>5, <1>6, <2>1

(* MessageActor::handle and ChatActor::handle pass each duty on, once. *)
LEMMA ForwardFine ==
  ASSUME TypeOK, NEW w \in Workers, Forward(w), NEW i \in Ids, NEW k \in Purpose
  PROVE  /\ Fine(Places(i, k), Places(i, k)')
         /\ k # "incoming_message" => Kept(Places(i, k), Places(i, k)')
<1>. DEFINE P == Places(i, k)
            Q == Places(i, k)'
            W == <<"worker", w>>
            y == Sends(held[w])[step[w]]
            o == Owes(y, 1, i, k)
<1>1. /\ Listed(P, mailbox, held, step, leaked, messages, posted, i, k)
      /\ Listed(Q, mailbox', held', step', leaked', messages', posted', i, k)
      /\ Shaped(P) /\ Shaped(Q)
  BY MembersOf, Zenon DEF Listed
<1>2. y \in Envelope /\ Send(y) BY ForwardEffect, SendsEffect, Zenon
<1>3. PICK x : Placed(P, Q, x, o) BY <1>2, SendPlaces, Zenon
<1>4. /\ W \in Q => W \in P
      /\ o => W \in P /\ W \notin Q
      /\ k # "incoming_message" /\ W \in P => o \/ W \in Q
  <2>1. /\ W \in P <=> Owes(held[w], step[w], i, k)
        /\ W \in Q <=> Owes(held'[w], step'[w], i, k)
    BY <1>1, Zenon DEF Listed
  <2>. QED BY <2>1, DutyIsPassed
<1>5. \A v : v # w => (<<"worker", v>> \in Q <=> <<"worker", v>> \in P)
  <2>1. \A v \in Workers : v # w => held'[v] = held[v] /\ step'[v] = step[v]
    BY ForwardEffect, AdvanceEffect DEF TypeOK
  <2>. QED BY <1>1, <2>1, Zenon DEF Listed
<1>6. /\ \A j : <<"row", j>> \in Q <=> <<"row", j>> \in P
      /\ \A s, j : <<"posted", s, j>> \in Q <=> <<"posted", s, j>> \in P
  <2>1. messages' = messages /\ posted' = posted BY DEF Forward
  <2>. QED BY <1>1, <2>1, Zenon DEF Listed
<1>. HIDE DEF P, Q, y, o
<1>7. Q \subseteq P \cup (IF o THEN {x} ELSE {})
  <2>. DEFINE S == P \cup (IF o THEN {x} ELSE {})
  <2>1. \A p : p \in S <=> p \in P \/ (o /\ p = x) OBVIOUS
  <2>. HIDE DEF S
  <2>2. /\ \A t, j : <<"mailbox", t, j>> \in Q => <<"mailbox", t, j>> \in S
        /\ \A e : <<"leaked", e>> \in Q => <<"leaked", e>> \in S
    BY <1>3, <2>1, Zenon DEF Placed
  <2>3. \A v : <<"worker", v>> \in Q => <<"worker", v>> \in S
    BY <1>4, <1>5, <2>1, Zenon
  <2>4. /\ \A j : <<"row", j>> \in Q => <<"row", j>> \in S
        /\ \A s, j : <<"posted", s, j>> \in Q => <<"posted", s, j>> \in S
    BY <1>6, <2>1, Zenon
  <2>5. Q \subseteq S BY <1>1, <2>2, <2>3, <2>4, ByForm, Zenon
  <2>. QED BY <2>5 DEF S
<1>8. o => x \in Q BY <1>3, Zenon DEF Placed
<1>9. k # "incoming_message" => P \subseteq Q \cup (IF o THEN {W} ELSE {})
  <2>. SUFFICES ASSUME k # "incoming_message"
                PROVE  P \subseteq Q \cup (IF o THEN {W} ELSE {})
    OBVIOUS
  <2>. DEFINE S == Q \cup (IF o THEN {W} ELSE {})
  <2>1. \A p : p \in S <=> p \in Q \/ (o /\ p = W) OBVIOUS
  <2>. HIDE DEF S
  <2>2. /\ \A t, j : <<"mailbox", t, j>> \in P => <<"mailbox", t, j>> \in S
        /\ \A e : <<"leaked", e>> \in P => <<"leaked", e>> \in S
    BY <1>3, <2>1, Zenon DEF Placed
  <2>3. \A v : <<"worker", v>> \in P => <<"worker", v>> \in S
    BY <1>4, <1>5, <2>1, Zenon
  <2>4. /\ \A j : <<"row", j>> \in P => <<"row", j>> \in S
        /\ \A s, j : <<"posted", s, j>> \in P => <<"posted", s, j>> \in S
    BY <1>6, <2>1, Zenon
  <2>5. P \subseteq S BY <1>1, <2>2, <2>3, <2>4, ByForm, Zenon
  <2>. QED BY <2>5 DEF S
<1>. HIDE DEF W
<1>10. CASE o
  <2>1. Fine(P, Q) /\ (k # "incoming_message" => Kept(P, Q))
    BY <1>4, <1>7, <1>8, <1>9, <1>10, OneMoves
  <2>. QED BY <2>1 DEF P, Q
<1>11. CASE ~o
  <2>1. Fine(P, Q) /\ (k # "incoming_message" => Kept(P, Q))
    BY <1>7, <1>9, <1>11 DEF Fine, Kept
  <2>. QED BY <2>1 DEF P, Q
<1>. QED BY <1>10, <1>11

(* A handler that returns having done what its envelope asks, at place x. *)
LEMMA Lands ==
  ASSUME TypeOK, NEW w \in Workers, Advance(w), NEW i \in Ids, NEW k, NEW x,
         UNCHANGED <<mailbox, leaked>>,
         \A j : <<"row", j>> \in Places(i, k)' <=>
                  \/ <<"row", j>> \in Places(i, k)
                  \/ (x = <<"row", j>> /\ <<"worker", w>> \in Places(i, k)),
         \A s, j : <<"posted", s, j>> \in Places(i, k)' <=>
                     \/ <<"posted", s, j>> \in Places(i, k)
                     \/ (x = <<"posted", s, j>> /\ <<"worker", w>> \in Places(i, k)),
         (\E j : x = <<"row", j>>) \/ (\E s, j : x = <<"posted", s, j>>)
  PROVE  Fine(Places(i, k), Places(i, k)') /\ Kept(Places(i, k), Places(i, k)')
<1>. DEFINE P == Places(i, k)
            Q == Places(i, k)'
            W == <<"worker", w>>
<1>1. /\ Listed(P, mailbox, held, step, leaked, messages, posted, i, k)
      /\ Listed(Q, mailbox', held', step', leaked', messages', posted', i, k)
      /\ Shaped(P) /\ Shaped(Q)
  BY MembersOf, Zenon DEF Listed
<1>2. \A v : <<"worker", v>> \in Q <=> v # w /\ <<"worker", v>> \in P
  BY WorkerLeaves, Zenon
<1>3. /\ \A j : <<"row", j>> \in Q <=> <<"row", j>> \in P \/ (x = <<"row", j>> /\ W \in P)
      /\ \A s, j : <<"posted", s, j>> \in Q <=>
                     <<"posted", s, j>> \in P \/ (x = <<"posted", s, j>> /\ W \in P)
  OBVIOUS
<1>. HIDE DEF P, Q
<1>4. /\ \A t, j : <<"mailbox", t, j>> \in Q <=> <<"mailbox", t, j>> \in P
      /\ \A e : <<"leaked", e>> \in Q <=> <<"leaked", e>> \in P
  BY <1>1, Zenon DEF Listed
<1>5. Q \subseteq P \cup {x}
  <2>. DEFINE S == P \cup {x}
  <2>1. \A p : p \in S <=> p \in P \/ p = x OBVIOUS
  <2>. HIDE DEF S
  <2>2. /\ \A t, j : <<"mailbox", t, j>> \in Q => <<"mailbox", t, j>> \in S
        /\ \A e : <<"leaked", e>> \in Q => <<"leaked", e>> \in S
    BY <1>4, <2>1, Zenon
  <2>3. \A v : <<"worker", v>> \in Q => <<"worker", v>> \in S BY <1>2, <2>1, Zenon
  <2>4. /\ \A j : <<"row", j>> \in Q => <<"row", j>> \in S
        /\ \A s, j : <<"posted", s, j>> \in Q => <<"posted", s, j>> \in S
    BY <1>3, <2>1, Zenon
  <2>5. Q \subseteq S BY <1>1, <2>2, <2>3, <2>4, ByForm, Zenon
  <2>. QED BY <2>5 DEF S
<1>6. W \in P => x \in Q BY <1>3, Zenon
<1>7. W \notin Q BY <1>2, Zenon
<1>8. P \subseteq Q \cup {W}
  <2>. DEFINE S == Q \cup {W}
  <2>1. \A p : p \in S <=> p \in Q \/ p = W OBVIOUS
  <2>. HIDE DEF S
  <2>2. \A v : <<"worker", v>> \in P => <<"worker", v>> \in S BY <1>2, <2>1, Zenon
  <2>3. /\ \A t, j : <<"mailbox", t, j>> \in P => <<"mailbox", t, j>> \in S
        /\ \A e : <<"leaked", e>> \in P => <<"leaked", e>> \in S
    BY <1>4, <2>1, Zenon
  <2>4. /\ \A j : <<"row", j>> \in P => <<"row", j>> \in S
        /\ \A s, j : <<"posted", s, j>> \in P => <<"posted", s, j>> \in S
    BY <1>3, <2>1, Zenon
  <2>5. P \subseteq S BY <1>1, <2>2, <2>3, <2>4, ByForm, Zenon
  <2>. QED BY <2>5 DEF S
<1>. HIDE DEF W
<1>9. CASE W \in P
  <2>1. Fine(P, Q) /\ Kept(P, Q) BY <1>3, <1>5, <1>6, <1>7, <1>8, <1>9, OneMoves
  <2>. QED BY <2>1 DEF P, Q
<1>10. CASE W \notin P
  <2>1. Q \subseteq P
    <3>1. /\ \A j : <<"row", j>> \in Q => <<"row", j>> \in P
          /\ \A s, j : <<"posted", s, j>> \in Q => <<"posted", s, j>> \in P
      BY <1>3, <1>10, Zenon
    <3>. QED BY <1>1, <1>2, <1>4, <3>1, ByForm, Zenon
  <2>2. P \subseteq Q BY <1>3, <1>8, <1>10
  <2>3. Fine(P, Q) /\ Kept(P, Q) BY <2>1, <2>2 DEF Fine, Kept
  <2>. QED BY <2>3 DEF P, Q
<1>. QED BY <1>9, <1>10

(* SessionActor::handle turns the duty to show into a posted payload. *)
LEMMA DeliverFine ==
  ASSUME TypeOK, AtHome, NEW w \in Workers, Deliver(w), NEW i \in Ids, NEW k \in Purpose
  PROVE  Fine(Places(i, k), Places(i, k)') /\ Kept(Places(i, k), Places(i, k)')
<1>. DEFINE e == held[w]
            s == e.session
            n == Len(posted[s]) + 1
            W == <<"worker", w>>
<1>1. /\ e \in Envelope /\ e.kind \in OutgoingKind /\ s \in Sessions
      /\ posted' = [posted EXCEPT ![s] = Append(@, <<e.id, e.kind>>)]
      /\ Advance(w) /\ UNCHANGED <<mailbox, leaked, messages>>
  BY DEF Deliver, AtHome, TypeOK
<1>0. /\ Listed(Places(i, k), mailbox, held, step, leaked, messages, posted, i, k)
      /\ Listed(Places(i, k)', mailbox', held', step', leaked', messages', posted', i, k)
  BY MembersOf, Zenon
<1>2. W \in Places(i, k) <=> e.id = i /\ e.kind = k
  <2>1. W \in Places(i, k) <=> Owes(e, step[w], i, k) BY MembersOf, Zenon DEF Listed
  <2>. QED BY <1>1, <2>1 DEF Owes, OutgoingKind
<1>3. posted \in [Sessions -> Seq(Ids \X OutgoingKind)] BY Zenon DEF TypeOK
<1>4. <<e.id, e.kind>> \in Ids \X OutgoingKind BY <1>1 DEF Envelope
<1>5. /\ \A j : j \in DOMAIN posted'[s] <=> j \in DOMAIN posted[s] \/ j = n
      /\ \A j \in DOMAIN posted[s] : posted'[s][j] = posted[s][j]
      /\ posted'[s][n] = <<e.id, e.kind>>
      /\ n \notin DOMAIN posted[s]
  <2>1. posted'[s] = Append(posted[s], <<e.id, e.kind>>) BY <1>1, <1>3, Zenon
  <2>2. posted[s] \in Seq(Ids \X OutgoingKind) BY <1>1, <1>3, Zenon
  <2>. HIDE DEF e, s
  <2>. QED BY <1>4, <2>1, <2>2, AppendAt
<1>6. \A u \in Sessions : u # s => posted'[u] = posted[u] BY <1>1, <1>3
<1>. HIDE DEF e, s, n, W
<1>7. \A u, j : <<"posted", u, j>> \in Places(i, k)' <=>
        <<"posted", u, j>> \in Places(i, k)
        \/ (<<"posted", s, n>> = <<"posted", u, j>> /\ W \in Places(i, k))
  <2>. SUFFICES ASSUME NEW u, NEW j
                PROVE  <<"posted", u, j>> \in Places(i, k)' <=>
                         <<"posted", u, j>> \in Places(i, k) \/ (u = s /\ j = n /\ W \in Places(i, k))
    BY Zenon
  <2>1. /\ <<"posted", u, j>> \in Places(i, k) <=>
             u \in Sessions /\ j \in DOMAIN posted[u] /\ posted[u][j] = <<i, k>>
        /\ <<"posted", u, j>> \in Places(i, k)' <=>
             u \in Sessions /\ j \in DOMAIN posted'[u] /\ posted'[u][j] = <<i, k>>
    BY <1>0, Zenon DEF Listed
  <2>2. <<e.id, e.kind>> = <<i, k>> <=> W \in Places(i, k) BY <1>2
  <2>3. CASE u = s /\ j = n BY <1>1, <1>5, <2>1, <2>2, <2>3, Zenon
  <2>4. CASE u = s /\ j # n BY <1>5, <2>1, <2>4, Zenon
  <2>5. CASE u # s BY <1>6, <2>1, <2>5, Zenon
  <2>. QED BY <2>3, <2>4, <2>5
<1>8. \A j : <<"row", j>> \in Places(i, k)' <=>
        <<"row", j>> \in Places(i, k) \/ (<<"posted", s, n>> = <<"row", j>> /\ W \in Places(i, k))
  <2>1. \A j : <<"row", j>> \in Places(i, k)' <=> <<"row", j>> \in Places(i, k)
    BY <1>1, MembersOf, Zenon DEF Listed
  <2>2. \A j : <<"posted", s, n>> # <<"row", j>> OBVIOUS
  <2>. QED BY <2>1, <2>2, Zenon
<1>. QED BY <1>1, <1>7, <1>8, Lands, Zenon DEF W

(* StorageActor::handle turns the duty to store into a row. *)
LEMMA StoreFine ==
  ASSUME TypeOK, AtHome, NEW w \in Workers, Store(w), NEW i \in Ids, NEW k \in Purpose
  PROVE  Fine(Places(i, k), Places(i, k)') /\ Kept(Places(i, k), Places(i, k)')
<1>. DEFINE e == held[w]
            n == Len(messages) + 1
            W == <<"worker", w>>
<1>0. /\ Listed(Places(i, k), mailbox, held, step, leaked, messages, posted, i, k)
      /\ Listed(Places(i, k)', mailbox', held', step', leaked', messages', posted', i, k)
  BY MembersOf
<1>1. /\ e \in Envelope /\ e.kind = "persist"
      /\ messages' = Append(messages, e.id)
      /\ Advance(w) /\ UNCHANGED <<mailbox, leaked, posted>>
  BY DEF Store, AtHome
<1>2. W \in Places(i, k) <=> e.id = i /\ k = "persist"
  <2>1. W \in Places(i, k) <=> Owes(e, step[w], i, k) BY <1>0, Zenon DEF Listed
  <2>. QED BY <1>1, <2>1 DEF Owes
<1>3. /\ \A j : j \in DOMAIN messages' <=> j \in DOMAIN messages \/ j = n
      /\ \A j \in DOMAIN messages : messages'[j] = messages[j]
      /\ messages'[n] = e.id
      /\ n \notin DOMAIN messages
  <2>1. messages \in Seq(Ids) /\ e.id \in Ids BY <1>1 DEF TypeOK, Envelope
  <2>. HIDE DEF e
  <2>. QED BY <1>1, <2>1, AppendAt
<1>. HIDE DEF e, n, W
<1>4. \A j : <<"row", j>> \in Places(i, k)' <=>
        <<"row", j>> \in Places(i, k) \/ (<<"row", n>> = <<"row", j>> /\ W \in Places(i, k))
  <2>. SUFFICES ASSUME NEW j
                PROVE  <<"row", j>> \in Places(i, k)' <=>
                         <<"row", j>> \in Places(i, k) \/ (j = n /\ W \in Places(i, k))
    BY Zenon
  <2>1. /\ <<"row", j>> \in Places(i, k) <=>
             j \in DOMAIN messages /\ k = "persist" /\ messages[j] = i
        /\ <<"row", j>> \in Places(i, k)' <=>
             j \in DOMAIN messages' /\ k = "persist" /\ messages'[j] = i
    BY <1>0, Zenon DEF Listed
  <2>2. CASE j = n BY <1>2, <1>3, <2>1, <2>2, Zenon
  <2>3. CASE j # n BY <1>3, <2>1, <2>3, Zenon
  <2>. QED BY <2>2, <2>3
<1>5. \A s, j : <<"posted", s, j>> \in Places(i, k)' <=>
        <<"posted", s, j>> \in Places(i, k)
        \/ (<<"row", n>> = <<"posted", s, j>> /\ W \in Places(i, k))
  <2>1. \A s, j : <<"posted", s, j>> \in Places(i, k)' <=> <<"posted", s, j>> \in Places(i, k)
    BY <1>0, <1>1, Zenon DEF Listed
  <2>2. \A s, j : <<"row", n>> # <<"posted", s, j>> OBVIOUS
  <2>. QED BY <2>1, <2>2, Zenon
<1>. QED BY <1>1, <1>4, <1>5, Lands, Zenon DEF W

(***************************************************************************)
(* Mailbox::pop hands the duties of the first envelope to the worker; the  *)
(* duties of the others keep their order.                                  *)
(***************************************************************************)
LEMMA PopFine ==
  ASSUME TypeOK, AtHome, NEW w \in Workers, Pop(w), NEW i \in Ids, NEW k \in Purpose
  PROVE  Fine(Places(i, k), Places(i, k)') /\ Kept(Places(i, k), Places(i, k)')
<1>. DEFINE P == Places(i, k)
            Q == Places(i, k)'
            W == <<"worker", w>>
            t == Order[pos[w]]
            R(p, q) == \/ q = W /\ p = <<"mailbox", t, 1>>
                       \/ \E j \in Nat \ {0} : /\ q = <<"mailbox", t, j>>
                                               /\ p = <<"mailbox", t, j + 1>>
                       \/ q = p /\ q # W /\ \A j : p # <<"mailbox", t, j>>
<1>1. /\ Listed(P, mailbox, held, step, leaked, messages, posted, i, k)
      /\ Listed(Q, mailbox', held', step', leaked', messages', posted', i, k)
      /\ Shaped(P) /\ Shaped(Q)
  BY MembersOf, Zenon DEF Listed
<1>2. t \in ActorType BY PopEffect, Zenon
<1>3. /\ held[w] = NoEnvelope /\ step[w] = 1
      /\ mailbox[t] # <<>>
      /\ mailbox' = [mailbox EXCEPT ![t] = Tail(@)]
      /\ held' = [held EXCEPT ![w] = Head(mailbox[t])]
      /\ UNCHANGED <<step, leaked, messages, posted>>
  BY DEF Pop, AtHome
<1>4. /\ mailbox \in [ActorType -> Seq(Envelope)]
      /\ held \in [Workers -> Envelope \cup {NoEnvelope}]
  BY DEF TypeOK
<1>. HIDE DEF P, Q, t
<1>5. /\ mailbox'[t] = Tail(mailbox[t])
      /\ \A u \in ActorType : u # t => mailbox'[u] = mailbox[u]
      /\ held'[w] = Head(mailbox[t])
      /\ \A v \in Workers : v # w => held'[v] = held[v]
  BY <1>2, <1>3, <1>4
<1>6. /\ \A j : j \in DOMAIN mailbox'[t] =>
             j \in Nat \ {0} /\ j + 1 \in DOMAIN mailbox[t] /\ mailbox'[t][j] = mailbox[t][j + 1]
      /\ \A j \in DOMAIN mailbox[t] : j = 1 \/ (j \in Nat \ {0} /\ j - 1 \in DOMAIN mailbox'[t])
      /\ 1 \in DOMAIN mailbox[t] /\ mailbox[t][1] = held'[w]
  <2>. DEFINE q == mailbox[t]
  <2>1. q \in Seq(Envelope) /\ q # <<>> BY <1>2, <1>3, <1>4, Zenon
  <2>2. mailbox'[t] = Tail(q) /\ held'[w] = Head(q) BY <1>5
  <2>. HIDE DEF q
  <2>3. /\ \A j : j \in DOMAIN Tail(q) => /\ j \in Nat \ {0} /\ j + 1 \in DOMAIN q
                                          /\ Tail(q)[j] = q[j + 1]
        /\ \A j \in DOMAIN q : j = 1 \/ (j \in Nat \ {0} /\ j - 1 \in DOMAIN Tail(q))
        /\ 1 \in DOMAIN q /\ q[1] = Head(q)
    BY <2>1, TailAt
  <2>4. q = mailbox[t] BY DEF q
  <2>. QED BY <2>2, <2>3, <2>4, Zenon
<1>7. /\ W \notin P
      /\ W \in Q <=> <<"mailbox", t, 1>> \in P
  <2>1. ~Owes(held[w], step[w], i, k) BY <1>3, NoneOwed
  <2>2. /\ W \in P <=> Owes(held[w], step[w], i, k)
        /\ W \in Q <=> Owes(held'[w], step'[w], i, k)
        /\ <<"mailbox", t, 1>> \in P <=> Owes(mailbox[t][1], 1, i, k)
    BY <1>1, <1>2, <1>6, Zenon DEF Listed
  <2>3. step'[w] = 1 BY <1>3
  <2>. QED BY <1>6, <2>1, <2>2, <2>3, Zenon
<1>8. \A v : v # w => (<<"worker", v>> \in Q <=> <<"worker", v>> \in P)
  <2>1. step' = step BY <1>3
  <2>. QED BY <1>1, <1>5, <2>1, Zenon DEF Listed
<1>9. \A u, j : u # t => (<<"mailbox", u, j>> \in Q <=> <<"mailbox", u, j>> \in P)
  BY <1>1, <1>5, Zenon DEF Listed
<1>10. \A j : <<"mailbox", t, j>> \in Q =>
               j \in Nat \ {0} /\ <<"mailbox", t, j + 1>> \in P
  <2>. SUFFICES ASSUME NEW j, <<"mailbox", t, j>> \in Q
                PROVE  j \in Nat \ {0} /\ <<"mailbox", t, j + 1>> \in P
    OBVIOUS
  <2>1. j \in DOMAIN mailbox'[t] /\ Owes(mailbox'[t][j], 1, i, k) BY <1>1, Zenon DEF Listed
  <2>. DEFINE m == j + 1
  <2>2. j \in Nat \ {0} /\ m \in DOMAIN mailbox[t] /\ mailbox'[t][j] = mailbox[t][m]
    BY <1>6, <2>1, Zenon
  <2>. HIDE DEF m
  <2>3. <<"mailbox", t, m>> \in P BY <1>1, <1>2, <2>1, <2>2, Zenon DEF Listed
  <2>. QED BY <2>2, <2>3 DEF m
<1>11. \A j : <<"mailbox", t, j>> \in P =>
               j = 1 \/ (j \in Nat \ {0} /\ j - 1 \in Nat \ {0} /\ <<"mailbox", t, j - 1>> \in Q)
  <2>. SUFFICES ASSUME NEW j, <<"mailbox", t, j>> \in P, j # 1
                PROVE  /\ j \in Nat \ {0} /\ j - 1 \in Nat \ {0}
                       /\ <<"mailbox", t, j - 1>> \in Q
    OBVIOUS
  <2>1. j \in DOMAIN mailbox[t] /\ Owes(mailbox[t][j], 1, i, k) BY <1>1, Zenon DEF Listed
  <2>2. j \in Nat \ {0} /\ j - 1 \in DOMAIN mailbox'[t] BY <1>6, <2>1
  <2>3. j - 1 \in Nat \ {0} /\ mailbox'[t][j - 1] = mailbox[t][j]
    <3>1. j - 1 \in Nat \ {0} /\ mailbox'[t][j - 1] = mailbox[t][(j - 1) + 1]
      BY <1>6, <2>2, Zenon
    <3>2. (j - 1) + 1 = j BY <2>2
    <3>. QED BY <3>1, <3>2
  <2>. DEFINE m == j - 1
  <2>4. m \in DOMAIN mailbox'[t] /\ Owes(mailbox'[t][m], 1, i, k) BY <2>1, <2>2, <2>3
  <2>. HIDE DEF m
  <2>5. <<"mailbox", t, m>> \in Q BY <1>1, <1>2, <2>4, Zenon DEF Listed
  <2>. QED BY <2>2, <2>3, <2>5, Zenon DEF m
<1>12. /\ \A e : <<"leaked", e>> \in Q <=> <<"leaked", e>> \in P
       /\ \A j : <<"row", j>> \in Q <=> <<"row", j>> \in P
       /\ \A s, j : <<"posted", s, j>> \in Q <=> <<"posted", s, j>> \in P
  <2>1. leaked' = leaked /\ messages' = messages /\ posted' = posted BY <1>3
  <2>. QED BY <1>1, <2>1, Zenon DEF Listed
<1>13. \A q \in Q : \E p \in P : R(p, q)
  <2>. DEFINE S == {q \in Q : \E p \in P : R(p, q)}
  <2>1. \A u, j : <<"mailbox", u, j>> \in Q => <<"mailbox", u, j>> \in S
    <3>. SUFFICES ASSUME NEW u, NEW j, <<"mailbox", u, j>> \in Q
                  PROVE  \E p \in P : R(p, <<"mailbox", u, j>>)
      OBVIOUS
    <3>1. CASE u = t
      <4>1. j \in Nat \ {0} /\ <<"mailbox", t, j + 1>> \in P BY <1>10, <3>1, Zenon
      <4>2. R(<<"mailbox", t, j + 1>>, <<"mailbox", u, j>>) BY <3>1, <4>1, Zenon
      <4>. QED BY <4>1, <4>2, Zenon
    <3>2. CASE u # t
      <4>1. <<"mailbox", u, j>> \in P BY <1>9, <3>2, Zenon
      <4>2. R(<<"mailbox", u, j>>, <<"mailbox", u, j>>) BY <3>2, Zenon
      <4>. QED BY <4>1, <4>2
    <3>. QED BY <3>1, <3>2, Zenon
  <2>2. \A v : <<"worker", v>> \in Q => <<"worker", v>> \in S
    <3>. SUFFICES ASSUME NEW v, <<"worker", v>> \in Q
                  PROVE  \E p \in P : R(p, <<"worker", v>>)
      OBVIOUS
    <3>1. CASE v = w
      <4>1. <<"mailbox", t, 1>> \in P BY <1>7, <3>1
      <4>2. R(<<"mailbox", t, 1>>, <<"worker", v>>) BY <3>1
      <4>. QED BY <4>1, <4>2
    <3>2. CASE v # w
      <4>1. <<"worker", v>> \in P BY <1>8, <3>2
      <4>2. R(<<"worker", v>>, <<"worker", v>>) BY <3>2
      <4>. QED BY <4>1, <4>2
    <3>. QED BY <3>1, <3>2, Zenon
  <2>3. /\ \A e : R(<<"leaked", e>>, <<"leaked", e>>)
        /\ \A j : R(<<"row", j>>, <<"row", j>>)
        /\ \A s, j : R(<<"posted", s, j>>, <<"posted", s, j>>)
    OBVIOUS
  <2>. HIDE DEF R, W
  <2>4. /\ \A e : <<"leaked", e>> \in Q => <<"leaked", e>> \in S
        /\ \A j : <<"row", j>> \in Q => <<"row", j>> \in S
        /\ \A s, j : <<"posted", s, j>> \in Q => <<"posted", s, j>> \in S
    BY <1>12, <2>3, Zenon
  <2>. HIDE DEF S
  <2>5. Q \subseteq S BY <1>1, <2>1, <2>2, <2>4, ByForm, Zenon
  <2>. QED BY <2>5, Zenon DEF S
<1>14. P # {} => Q # {}
  <2>. SUFFICES ASSUME Q = {} PROVE P = {} OBVIOUS
  <2>1. \A u, j : <<"mailbox", u, j>> \notin P
    <3>. SUFFICES ASSUME NEW u, NEW j, <<"mailbox", u, j>> \in P PROVE FALSE BY Zenon
    <3>1. CASE u # t BY <1>9, <3>1
    <3>2. CASE u = t BY <1>7, <1>11, <3>2
    <3>. QED BY <3>1, <3>2
  <2>2. \A v : <<"worker", v>> \notin P BY <1>7, <1>8, Zenon
  <2>3. /\ \A e : <<"leaked", e>> \notin P
        /\ \A j : <<"row", j>> \notin P
        /\ \A s, j : <<"posted", s, j>> \notin P
    BY <1>12
  <2>. QED BY <1>1, <2>1, <2>2, <2>3, NoForm, Zenon
<1>15. \A p, q, r : R(p, q) /\ R(p, r) => q = r
  OBVIOUS
<1>. HIDE DEF R
<1>16. Fine(P, Q) /\ Kept(P, Q)
  <2>1. ASSUME \A p, q \in P : p = q, NEW q \in Q, NEW r \in Q PROVE q = r
    <3>1. PICK a \in P : R(a, q) BY <1>13
    <3>2. PICK b \in P : R(b, r) BY <1>13, Zenon
    <3>. QED BY <1>15, <2>1, <3>1, <3>2, Zenon
  <2>. QED BY <1>13, <1>14, <2>1 DEF Fine, Kept
<1>. QED BY <1>16 DEF P, Q

(* The payloads of a session that is not bound, and what the actors only log, go. *)
LEMMA IgnoreFine ==
  ASSUME TypeOK, NEW w \in Workers, Ignore(w), NEW i \in Ids, NEW k
  PROVE  /\ Fine(Places(i, k), Places(i, k)')
         /\ ~Owes(held[w], step[w], i, k) => Kept(Places(i, k), Places(i, k)')
<1>1. Advance(w) /\ UNCHANGED <<mailbox, leaked, messages, posted>>
  BY Zenon DEF Ignore
<1>. QED BY <1>1, Returns, Zenon

(* Every step of a worker; it loses at most a copy, or a payload it ignores. *)
LEMMA WorkerFine ==
  ASSUME TypeOK, AtHome, NEW w \in Workers, Worker(w), NEW i \in Ids, NEW k \in Purpose
  PROVE  /\ Fine(Places(i, k), Places(i, k)')
         /\ \/ Kept(Places(i, k), Places(i, k)')
            \/ k = "incoming_message"
            \/ Ignore(w) /\ Owes(held[w], step[w], i, k)
<1>1. CASE LoopTest(w) BY <1>1, SamePlaces, Zenon DEF LoopTest
<1>2. CASE PopEmpty(w)
  <2>1. Advance(w) /\ UNCHANGED <<mailbox, leaked, messages, posted>>
    BY <1>2, Zenon DEF PopEmpty
  <2>2. held[w] = NoEnvelope BY <1>2 DEF PopEmpty, AtHome
  <2>3. ~Owes(held[w], step[w], i, k) BY <2>2, NoneOwed, Zenon
  <2>. QED BY <2>1, <2>3, Returns, Zenon
<1>3. CASE StoreThrows(w) BY <1>3, SamePlaces DEF StoreThrows, workerVars
<1>. QED
  BY <1>1, <1>2, <1>3, PopFine, ForwardFine, DeliverFine, StoreFine, IgnoreFine, Zenon
     DEF Worker

(* What an actor ignores is neither to be passed on nor to be stored. *)
LEMMA StoringIsKept ==
  ASSUME TypeOK, AtHome, NEW w \in Workers, Worker(w), NEW i \in Ids
  PROVE  Kept(Places(i, "persist"), Places(i, "persist")')
<1>1. Ignore(w) => ~Owes(held[w], step[w], i, "persist")
  <2>. SUFFICES ASSUME Ignore(w) PROVE ~Owes(held[w], step[w], i, "persist") OBVIOUS
  <2>1. held[w].kind \notin {"send", "persist"} BY IgnoredKinds, Zenon
  <2>. QED BY <2>1, Zenon DEF Owes
<1>2. "persist" \in Purpose /\ "persist" # "incoming_message" BY DEF Purpose
<1>. QED BY <1>1, <1>2, WorkerFine, Zenon

(* The send of the dispatcher adds one place, if its envelope owes at all. *)
LEMMA DispatcherSends ==
  ASSUME TypeOK, NEW e \in Envelope, Send(e), NEW i, NEW k,
         UNCHANGED <<held, step, messages, posted>>
  PROVE  \E x : /\ Places(i, k)' \subseteq Places(i, k) \cup {x}
                /\ Owes(e, 1, i, k) => x \in Places(i, k)'
                /\ ~Owes(e, 1, i, k) => Places(i, k)' = Places(i, k)
<1>. DEFINE P == Places(i, k)
            Q == Places(i, k)'
<1>1. /\ Listed(P, mailbox, held, step, leaked, messages, posted, i, k)
      /\ Listed(Q, mailbox', held', step', leaked', messages', posted', i, k)
      /\ Shaped(P) /\ Shaped(Q)
  BY MembersOf, Zenon DEF Listed
<1>2. PICK x : Placed(P, Q, x, Owes(e, 1, i, k)) BY SendPlaces, Zenon
<1>. HIDE DEF P, Q
<1>3. /\ \A v : <<"worker", v>> \in Q <=> <<"worker", v>> \in P
      /\ \A j : <<"row", j>> \in Q <=> <<"row", j>> \in P
      /\ \A s, j : <<"posted", s, j>> \in Q <=> <<"posted", s, j>> \in P
  BY <1>1, Zenon DEF Listed
<1>4. Q \subseteq P \cup {x}
  <2>. DEFINE S == P \cup {x}
  <2>1. \A p : p \in S <=> p \in P \/ p = x OBVIOUS
  <2>. HIDE DEF S
  <2>2. /\ \A t, j : <<"mailbox", t, j>> \in Q => <<"mailbox", t, j>> \in S
        /\ \A l : <<"leaked", l>> \in Q => <<"leaked", l>> \in S
    BY <1>2, <2>1, Zenon DEF Placed
  <2>3. /\ \A v : <<"worker", v>> \in Q => <<"worker", v>> \in S
        /\ \A j : <<"row", j>> \in Q => <<"row", j>> \in S
        /\ \A s, j : <<"posted", s, j>> \in Q => <<"posted", s, j>> \in S
    BY <1>3, <2>1, Zenon
  <2>4. Q \subseteq S BY <1>1, <2>2, <2>3, ByForm, Zenon
  <2>. QED BY <2>4 DEF S
<1>5. Owes(e, 1, i, k) => x \in Q BY <1>2, Zenon DEF Placed
<1>6. ASSUME ~Owes(e, 1, i, k) PROVE Q = P
  <2>1. /\ \A t, j : <<"mailbox", t, j>> \in Q <=> <<"mailbox", t, j>> \in P
        /\ \A l : <<"leaked", l>> \in Q <=> <<"leaked", l>> \in P
    BY <1>2, <1>6, Zenon DEF Placed
  <2>2. Q \subseteq P BY <1>1, <1>3, <2>1, ByForm, Zenon
  <2>3. P \subseteq Q BY <1>1, <1>3, <2>1, ByForm, Zenon
  <2>. QED BY <2>2, <2>3
<1>. QED BY <1>4, <1>5, <1>6, Zenon DEF P, Q

(***************************************************************************)
(* The inductive invariant: a purpose of a frame has at most one place, no *)
(* place before the frame is read, and its storing is never without one.   *)
(***************************************************************************)
Once(i, k) ==
  /\ \A p, q \in Places(i, k) : p = q
  /\ i \notin DOMAIN frames => Places(i, k) = {}
  /\ k = "persist" /\ i \in Submitted => Places(i, k) # {}

OnceInv == \A i \in Ids, k \in Purpose : Once(i, k)

(* WebSocketSession::onRead gives the duties of the new frame their first place. *)
LEMMA OnReadPlaces ==
  ASSUME TypeOK, NEW f \in ClientFrames, OnRead(f), NEW i \in Ids, NEW k \in Purpose
  PROVE  \E n, x :
           /\ n \notin DOMAIN frames
           /\ \A j : j \in DOMAIN frames' <=> j \in DOMAIN frames \/ j = n
           /\ \A j \in DOMAIN frames : frames'[j] = frames[j]
           /\ i \in Submitted' <=> i \in Submitted \/ (i = n /\ f.type = "send_message")
           /\ Places(i, k)' \subseteq Places(i, k) \cup {x}
           /\ i # n => Places(i, k)' = Places(i, k)
           /\ i = n /\ f.type = "send_message" => x \in Places(i, k)'
<1>. DEFINE n == Len(frames) + 1
            P == Places(i, k)
            Q == Places(i, k)'
<1>1. /\ \A j : j \in DOMAIN frames' <=> j \in DOMAIN frames \/ j = n
      /\ \A j \in DOMAIN frames : frames'[j] = frames[j]
      /\ frames'[n] = f
      /\ n \notin DOMAIN frames
  <2>1. frames \in Seq(ClientFrames) /\ frames' = Append(frames, f) BY DEF TypeOK, OnRead
  <2>. QED BY <2>1, AppendAt, Zenon
<1>2. n \in Ids
  <2>1. Len(frames) \in Nat /\ Len(frames) < MaxFrames BY DEF TypeOK, OnRead
  <2>. QED BY <2>1, ConstantsAssumption DEF Ids
<1>3. /\ \A e \in Dispatched(f, n) : e \in Envelope /\ e.id = n
      /\ UNCHANGED <<held, step, messages, posted>>
  BY <1>2, DispatchedEffect, ConstantsAssumption DEF OnRead, workerVars
<1>4. i \in Submitted' <=> i \in Submitted \/ (i = n /\ f.type = "send_message")
  <2>1. i \in Submitted' <=> i \in DOMAIN frames' /\ frames'[i].type = "send_message"
    BY DEF Submitted
  <2>2. i \in Submitted <=> i \in DOMAIN frames /\ frames[i].type = "send_message"
    BY Zenon DEF Submitted
  <2>. HIDE DEF n
  <2>. QED BY <1>1, <2>1, <2>2, Zenon
<1>5. \E x : /\ Q \subseteq P \cup {x}
             /\ i # n => Q = P
             /\ i = n /\ f.type = "send_message" => x \in Q
  <2>1. CASE \E e \in Dispatched(f, n) : Send(e)
    <3>1. PICK e \in Dispatched(f, n) : Send(e) BY <2>1
    <3>2. e \in Envelope /\ e.id = n BY <1>3
    <3>3. PICK x : /\ Q \subseteq P \cup {x}
                   /\ Owes(e, 1, i, k) => x \in Q
                   /\ ~Owes(e, 1, i, k) => Q = P
      BY <1>3, <3>1, <3>2, DispatcherSends, Zenon
    <3>4. i # n => ~Owes(e, 1, i, k) BY <3>2 DEF Owes
    <3>5. i = n /\ f.type = "send_message" => Owes(e, 1, i, k)
      <4>. SUFFICES ASSUME i = n, f.type = "send_message" PROVE Owes(e, 1, i, k) OBVIOUS
      <4>1. e.kind = "send" BY DEF Dispatched, SendMessageEvent
      <4>. QED BY <3>2, <4>1, OwesInBox
    <3>. QED BY <3>3, <3>4, <3>5, Zenon
  <2>2. CASE Dispatched(f, n) = {} /\ UNCHANGED <<mailbox, leaked>>
    <3>1. Q = P BY <1>3, <2>2, Unmoved
    <3>2. f.type # "send_message" BY <2>2 DEF Dispatched
    <3>. QED BY <3>1, <3>2
  <2>. QED BY <2>1, <2>2 DEF OnRead
<1>. HIDE DEF n
<1>. QED BY <1>1, <1>4, <1>5, Zenon DEF P, Q

(* So it keeps the invariant. *)
LEMMA OnReadOnce ==
  ASSUME TypeOK, NEW f \in ClientFrames, OnRead(f), NEW i \in Ids, NEW k \in Purpose,
         Once(i, k)
  PROVE  Once(i, k)'
<1>. DEFINE P == Places(i, k)
            Q == Places(i, k)'
<1>1. PICK n, x :
        /\ n \notin DOMAIN frames
        /\ \A j : j \in DOMAIN frames' <=> j \in DOMAIN frames \/ j = n
        /\ i \in Submitted' <=> i \in Submitted \/ (i = n /\ f.type = "send_message")
        /\ Q \subseteq P \cup {x}
        /\ i # n => Q = P
        /\ i = n /\ f.type = "send_message" => x \in Q
  BY OnReadPlaces, Zenon
<1>2. /\ \A p, q \in P : p = q
      /\ i \notin DOMAIN frames => P = {}
      /\ k = "persist" /\ i \in Submitted => P # {}
  BY Zenon DEF Once
<1>3. n \notin Submitted BY <1>1 DEF Submitted
<1>. HIDE DEF P, Q
<1>4. /\ \A p, q \in Q : p = q
      /\ i \notin DOMAIN frames' => Q = {}
      /\ k = "persist" /\ i \in Submitted' => Q # {}
  <2>1. CASE i # n BY <1>1, <1>2, <2>1, Zenon
  <2>2. CASE i = n
    <3>1. P = {} BY <1>1, <1>2, <2>2, Zenon
    <3>. QED BY <1>1, <1>3, <2>2, <3>1, Zenon
  <2>. QED BY <2>1, <2>2, Zenon
<1>. QED BY <1>4, Zenon DEF Once, P, Q

(* A step that reads no frame and only moves duties keeps Once. *)
LEMMA MovesKeepOnce ==
  ASSUME NEW i, NEW k, Once(i, k), frames' = frames,
         Fine(Places(i, k), Places(i, k)'),
         k = "persist" => Kept(Places(i, k), Places(i, k)')
  PROVE  Once(i, k)'
<1>1. Submitted' = Submitted BY DEF Submitted
<1>2. /\ Places(i, k)' # {} => Places(i, k) # {}
      /\ (\A p, q \in Places(i, k) : p = q) => (\A p, q \in Places(i, k)' : p = q)
      /\ k = "persist" => (Places(i, k) # {} => Places(i, k)' # {})
  BY DEF Fine, Kept
<1>. QED BY <1>1, <1>2, Zenon DEF Once

(* Before the first frame there is no place at all. *)
LEMMA InitOnceInv == Init => OnceInv
<1>. SUFFICES ASSUME Init, NEW i \in Ids, NEW k \in Purpose PROVE Once(i, k)
  BY DEF OnceInv
<1>. DEFINE P == Places(i, k)
<1>1. Listed(P, mailbox, held, step, leaked, messages, posted, i, k) /\ Shaped(P)
  BY MembersOf, Zenon DEF Listed
<1>2. \A w \in Workers : ~Owes(held[w], step[w], i, k)
  <2>1. \A w \in Workers : held[w] = NoEnvelope BY DEF Init
  <2>. QED BY <2>1, NoneOwed
<1>3. /\ \A t \in ActorType : DOMAIN mailbox[t] = {}
      /\ \A s \in Sessions : DOMAIN posted[s] = {}
      /\ DOMAIN messages = {} /\ leaked = {} /\ Submitted = {}
  BY DEF Init, Submitted
<1>. HIDE DEF P
<1>4. /\ \A t, j : <<"mailbox", t, j>> \notin P
      /\ \A w : <<"worker", w>> \notin P
      /\ \A e : <<"leaked", e>> \notin P
      /\ \A j : <<"row", j>> \notin P
      /\ \A s, j : <<"posted", s, j>> \notin P
  BY <1>1, <1>2, <1>3 DEF Listed
<1>5. P = {} BY <1>1, <1>4, NoForm, Zenon
<1>. QED BY <1>3, <1>5 DEF Once, P

(* Every step of the system keeps the invariant. *)
LEMMA NextOnceInv == TypeOK /\ AtHome /\ OnceInv /\ [Next]_vars => OnceInv'
<1>. SUFFICES ASSUME TypeOK, AtHome, OnceInv, [Next]_vars,
                     NEW i \in Ids, NEW k \in Purpose
              PROVE  Once(i, k)'
  BY DEF OnceInv
<1>0. Once(i, k) BY DEF OnceInv
<1>1. CASE UNCHANGED <<mailbox, held, step, leaked, messages, posted, frames>>
  BY <1>0, <1>1, SamePlaces, MovesKeepOnce, Zenon
<1>2. ASSUME NEW f \in ClientFrames, OnRead(f) PROVE Once(i, k)'
  BY <1>0, <1>2, OnReadOnce, Zenon
<1>3. ASSUME NEW w \in Workers, Worker(w) PROVE Once(i, k)'
  <2>1. frames' = frames
    BY <1>3, Zenon DEF Worker, LoopTest, PopEmpty, Pop, Forward, Deliver, Ignore, Store,
                StoreThrows
  <2>. QED BY <1>0, <1>3, <2>1, WorkerFine, StoringIsKept, MovesKeepOnce, Zenon
<1>4. CASE Next
  <2>1. CASE ServerRun \/ StopNetwork \/ StopActors \/ Joined
    BY <1>1, <2>1, Zenon DEF ServerRun, StopNetwork, StopActors, Joined, workerVars
  <2>2. CASE Accept BY <1>1, <2>2, Zenon DEF Accept, workerVars
  <2>3. ASSUME NEW s \in Sessions, OnAccept(s) \/ OnReadError(s) \/ OnWriteError(s) PROVE Once(i, k)'
    BY <1>1, <2>3 DEF OnAccept, OnReadError, OnWriteError, workerVars
  <2>. QED BY <1>2, <1>3, <1>4, <2>1, <2>2, <2>3, Zenon DEF Next, Network
<1>5. CASE UNCHANGED vars BY <1>1, <1>5 DEF vars, workerVars
<1>. QED BY <1>4, <1>5

(* The invariant holds in every reachable state. *)
LEMMA AlwaysOnce == Spec => []OnceInv
<1>1. Init => TypeOK /\ NotBornYet /\ AtHome /\ OnceInv
  BY InitTypeOK, InitAtHome, InitOnceInv DEF Init, NotBornYet
<1>2. TypeOK /\ NotBornYet /\ AtHome /\ OnceInv /\ [Next]_vars
        => (TypeOK /\ NotBornYet /\ AtHome /\ OnceInv)'
  BY NextTypeOK, NextNotBornYet, NextAtHome, NextOnceInv
<1>. QED BY <1>1, <1>2, PTL DEF Spec

(***************************************************************************)
(* However many workers share the mailboxes, the duty to store a frame     *)
(* that was dispatched is in exactly one place: a mailbox, a handler, a    *)
(* row of the table, or among the envelopes a full mailbox refused.        *)
(***************************************************************************)
THEOREM StoredOnce == Spec => []StoredExactlyOnceOrRefused
<1>1. TypeOK /\ OnceInv => StoredExactlyOnceOrRefused
  <2>. SUFFICES ASSUME TypeOK, OnceInv, NEW i \in Submitted
                PROVE  \E p \in Places(i, "persist") : Places(i, "persist") = {p}
    BY Zenon DEF StoredExactlyOnceOrRefused
  <2>1. i \in Ids BY ConstantsAssumption DEF Submitted, TypeOK, Ids
  <2>2. Once(i, "persist") BY <2>1, Zenon DEF OnceInv, Purpose
  <2>. QED BY <2>2 DEF Once
<1>. QED BY <1>1, TypeCorrect, AlwaysOnce, PTL

(***************************************************************************)
(* The echo and the recipient's copy of a message are each posted at most  *)
(* once, although several workers may be inside SessionActor::handle.      *)
(***************************************************************************)
THEOREM ShownOnce == Spec => []ShownAtMostOnce
<1>1. TypeOK /\ OnceInv => ShownAtMostOnce
  <2>. SUFFICES ASSUME TypeOK, OnceInv, NEW i \in Submitted, NEW k \in OutgoingKind
                PROVE  \A p, q \in Places(i, k) : p = q
    BY Zenon DEF ShownAtMostOnce
  <2>1. i \in Ids BY ConstantsAssumption DEF Submitted, TypeOK, Ids
  <2>2. Once(i, k) BY <2>1, Zenon DEF OnceInv, Purpose
  <2>. QED BY <2>2 DEF Once
<1>. QED BY <1>1, TypeCorrect, AlwaysOnce, PTL

(***************************************************************************)
(* An echo is lost by SessionActor::handle only for a session that was     *)
(* bound and has broken since.                                             *)
(***************************************************************************)
LEMMA EchoIgnored ==
  ASSUME TypeOK, AtHome, OriginInv, SessionInv, NEW w \in Workers, Ignore(w), NEW i \in Ids,
         Owes(held[w], step[w], i, "message_delivered")
  PROVE  frames[i].session \in broken
<1>. DEFINE e == held[w]
<1>1. e.kind \notin {"send", "persist"} BY IgnoredKinds, Zenon
<1>2. e.id = i /\ e.kind = "message_delivered" BY <1>1, Zenon DEF Owes
<1>3. e.dest \in ActorType /\ e.kind \in KindsOf[e.dest]
  BY Zenon DEF Ignore, AtHome, Envelope
<1>4. e.dest = "session" BY <1>2, <1>3 DEF KindsOf, ActorType
<1>5. e.session \notin transports BY <1>2, <1>4, Zenon DEF Ignore, OutgoingKind
<1>6. i \in DOMAIN frames /\ e.session = frames[i].session
  BY <1>2, Zenon DEF OriginInv, Genuine, RightSession, OutgoingKind
<1>. QED BY <1>5, <1>6, Zenon DEF SessionInv

(* Every step keeps the echo, or finds that the session of the sender has broken. *)
LEMMA NextEchoed ==
  TypeOK /\ AtHome /\ OriginInv /\ SessionInv /\ EchoedUnlessBroken /\ [Next]_vars
    => EchoedUnlessBroken'
<1>. DEFINE k == "message_delivered"
<1>. SUFFICES ASSUME TypeOK, AtHome, OriginInv, SessionInv, EchoedUnlessBroken, [Next]_vars,
                     NEW i \in Submitted', Places(i, k)' = {}
              PROVE  frames'[i].session \in broken'
  BY Zenon DEF EchoedUnlessBroken
<1>0. i \in Submitted /\ Places(i, k) = {} => frames[i].session \in broken
  BY Zenon DEF EchoedUnlessBroken
<1>1. k \in Purpose /\ k # "incoming_message" BY SMTT(20) DEF Purpose, OutgoingKind
<1>2. i \in Ids
  <2>1. TypeOK' BY NextTypeOK, Zenon
  <2>. QED BY <2>1, ConstantsAssumption DEF Submitted, TypeOK, Ids
<1>3. ASSUME frames' = frames, broken \subseteq broken',
             Kept(Places(i, k), Places(i, k)') \/ frames[i].session \in broken
      PROVE  frames'[i].session \in broken'
  <2>1. i \in Submitted BY <1>3, Zenon DEF Submitted
  <2>. QED BY <1>0, <1>3, <2>1, Zenon DEF Kept
<1>4. CASE /\ UNCHANGED <<mailbox, held, step, leaked, messages, posted, frames>>
           /\ broken \subseteq broken'
  BY <1>3, <1>4, SamePlaces, Zenon
<1>5. ASSUME NEW f \in ClientFrames, OnRead(f) PROVE frames'[i].session \in broken'
  <2>1. PICK n, x :
          /\ n \notin DOMAIN frames
          /\ \A j \in DOMAIN frames : frames'[j] = frames[j]
          /\ i \in Submitted' <=> i \in Submitted \/ (i = n /\ f.type = "send_message")
          /\ i # n => Places(i, k)' = Places(i, k)
          /\ i = n /\ f.type = "send_message" => x \in Places(i, k)'
    BY <1>1, <1>2, <1>5, OnReadPlaces, Zenon
  <2>2. broken' = broken BY <1>5, Zenon DEF OnRead, sessionVars
  <2>3. i \in Submitted => i \in DOMAIN frames BY Zenon DEF Submitted
  <2>. HIDE DEF k
  <2>. QED BY <1>0, <2>1, <2>2, <2>3, Zenon
<1>6. ASSUME NEW w \in Workers, Worker(w) PROVE frames'[i].session \in broken'
  <2>1. frames' = frames /\ broken' = broken
    BY <1>6, Zenon DEF Worker, LoopTest, PopEmpty, Pop, Forward, Deliver, Ignore, Store,
                StoreThrows, sessionVars
  <2>2. Kept(Places(i, k), Places(i, k)') \/ frames[i].session \in broken
    BY <1>1, <1>2, <1>6, WorkerFine, EchoIgnored, Zenon
  <2>. QED BY <1>3, <2>1, <2>2, Zenon
<1>7. CASE Next
  <2>1. CASE ServerRun \/ StopNetwork \/ StopActors \/ Joined \/ Accept
    BY <1>4, <2>1, Zenon
       DEF ServerRun, StopNetwork, StopActors, Joined, Accept, workerVars, sessionVars
  <2>2. ASSUME NEW s \in Sessions, OnAccept(s) \/ OnReadError(s) \/ OnWriteError(s)
        PROVE  frames'[i].session \in broken'
    BY <1>4, <2>2 DEF OnAccept, OnReadError, OnWriteError, workerVars
  <2>. QED BY <1>5, <1>6, <1>7, <2>1, <2>2, Zenon DEF Next, Network
<1>8. CASE UNCHANGED vars BY <1>4, <1>8 DEF vars, workerVars, sessionVars
<1>. QED BY <1>7, <1>8

(***************************************************************************)
(* The sender of a message gets its echo unless a mailbox was full or the  *)
(* read or write of its own session failed: whatever the order in which    *)
(* handshakes end and workers run, a session that sends was bound before.  *)
(***************************************************************************)
THEOREM SenderIsTold == Spec => []EchoedUnlessBroken
<1>1. Init => EchoedUnlessBroken BY DEF Init, EchoedUnlessBroken, Submitted
<1>. QED
  BY <1>1, TypeCorrect, EnvelopesAreAtHome, AlwaysOrigin, InitSessionInv, NextSessionInv,
     NextEchoed, PTL DEF Spec

(* What a send does to the messages that were refused. *)
LEMMA SendRefuses ==
  ASSUME TypeOK, NEW e \in Envelope, Send(e)
  PROVE  \/ /\ leaked' = leaked /\ RefusedIds' = RefusedIds
            /\ \A t \in ActorType : t # e.dest => mailbox'[t] = mailbox[t]
            /\ Range(mailbox'[e.dest]) = Range(mailbox[e.dest]) \cup {e}
         \/ /\ mailbox' = mailbox
            /\ RefusedIds' = IF e.kind \in {"send", "persist"}
                               THEN RefusedIds \cup {e.id} ELSE RefusedIds
<1>1. /\ mailbox \in [ActorType -> Seq(Envelope)]
      /\ e.dest \in ActorType /\ e.id \in Ids /\ mailbox[e.dest] \in Seq(Envelope)
  BY Zenon DEF TypeOK, Envelope
<1>2. CASE Accepts(mailbox[e.dest])
  <2>1. mailbox' = [mailbox EXCEPT ![e.dest] = Append(@, e)] /\ leaked' = leaked
    BY <1>2 DEF Send
  <2>2. Range(Append(mailbox[e.dest], e)) = Range(mailbox[e.dest]) \cup {e}
    BY <1>1, RangeOfAppend
  <2>3. RefusedIds' = RefusedIds BY <2>1 DEF RefusedIds
  <2>. QED BY <1>1, <2>1, <2>2, <2>3, Zenon
<1>3. CASE ~Accepts(mailbox[e.dest])
  <2>1. mailbox' = mailbox /\ leaked' = leaked \cup {e} BY <1>3 DEF Send
  <2>2. \A i : i \in RefusedIds' <=> \/ i \in RefusedIds
                                     \/ i = e.id /\ e.kind \in {"send", "persist"}
    BY <1>1, <2>1, Zenon DEF RefusedIds
  <2>. QED BY <2>1, <2>2
<1>. QED BY <1>2, <1>3

(***************************************************************************)
(* A worker that holds no persist envelope keeps or drops what it holds:   *)
(* storage has what it had, and what its mailbox got.                      *)
(***************************************************************************)
LEMMA StorageGets ==
  ASSUME TypeOK, NEW w \in Workers, Advance(w) \/ held' = held,
         held[w].kind # "persist", messages' = messages, NEW S \in SUBSET Ids,
         \A i : (\E x \in Range(mailbox'["storage"]) : x.id = i)
                  <=> (\E x \in Range(mailbox["storage"]) : x.id = i) \/ i \in S
  PROVE  WithStorage' = WithStorage \cup S
<1>1. \A i : \A v \in Workers : (held'[v].id = i /\ held'[v].kind = "persist")
                                  <=> (held[v].id = i /\ held[v].kind = "persist")
  <2>1. CASE held' = held BY <2>1, Zenon
  <2>2. CASE Advance(w)
    <3>1. held'[w] = NoEnvelope /\ \A v \in Workers : v # w => held'[v] = held[v]
      BY <2>2, AdvanceEffect, Zenon
    <3>2. NoEnvelope.kind # "persist" BY Zenon DEF NoEnvelope
    <3>. QED BY <3>1, <3>2, Zenon
  <2>. QED BY <2>1, <2>2, Zenon
<1>2. \A i : i \in WithStorage' <=> i \in WithStorage \/ i \in S
  BY <1>1 DEF WithStorage
<1>. QED BY <1>2, Zenon

(* A step that leaves the storage mailbox alone hands nothing over. *)
LEMMA StorageGetsNothing ==
  ASSUME TypeOK, NEW w \in Workers, Advance(w) \/ held' = held,
         held[w].kind # "persist", messages' = messages,
         mailbox'["storage"] = mailbox["storage"]
  PROVE  WithStorage' = WithStorage
<1>1. \A i : (\E x \in Range(mailbox'["storage"]) : x.id = i)
               <=> (\E x \in Range(mailbox["storage"]) : x.id = i) \/ i \in {}
  OBVIOUS
<1>2. {} \in SUBSET Ids OBVIOUS
<1>3. WithStorage' = WithStorage \cup {} BY <1>1, <1>2, StorageGets, Zenon
<1>. QED BY <1>3, Zenon

(* Mailbox::pop on the storage mailbox: the worker has the message instead. *)
LEMMA PopKeepsStorage ==
  ASSUME TypeOK, AtHome, NEW w \in Workers, Pop(w)
  PROVE  WithStorage' = WithStorage
<1>. DEFINE t == Order[pos[w]]
            e == held'[w]
<1>1. /\ t \in ActorType /\ e \in Range(mailbox[t])
      /\ \A v \in Workers : v # w => held'[v] = held[v]
      /\ \A u \in ActorType : Range(mailbox'[u]) \subseteq Range(mailbox[u])
      /\ \A u \in ActorType : \A x \in Range(mailbox[u]) :
           x \in Range(mailbox'[u]) \/ (u = t /\ x = e)
  BY PopEffect, Zenon
<1>2. messages' = messages BY Zenon DEF Pop
<1>3. held[w].kind # "persist" BY DEF AtHome, Pop, NoEnvelope
<1>4. e.kind = "persist" <=> t = "storage"
  <2>1. e.kind \in KindsOf[t] BY <1>1, Zenon DEF AtHome
  <2>2. /\ KindsOf["storage"] = {"persist"}
        /\ "persist" \notin KindsOf["session"]
        /\ "persist" \notin KindsOf["chat"]
        /\ "persist" \notin KindsOf["message"]
    BY DEF KindsOf, OutgoingKind
  <2>3. t \in {"session", "chat", "message", "storage"} BY <1>1, Zenon DEF ActorType
  <2>. HIDE DEF t, e
  <2>. QED BY <2>1, <2>2, <2>3, Zenon
<1>5. "storage" \in ActorType BY Zenon DEF ActorType
<1>. HIDE DEF t
<1>6. ASSUME NEW i
      PROVE  /\ (\E x \in Range(mailbox'["storage"]) : x.id = i)
                  => (\E x \in Range(mailbox["storage"]) : x.id = i)
             /\ (\E x \in Range(mailbox["storage"]) : x.id = i)
                  => \/ \E x \in Range(mailbox'["storage"]) : x.id = i
                     \/ e.id = i /\ e.kind = "persist"
             /\ e.id = i /\ e.kind = "persist" =>
                  \E x \in Range(mailbox["storage"]) : x.id = i
  BY <1>1, <1>4, <1>5, Zenon
<1>7. ASSUME NEW i
      PROVE  (\E v \in Workers : held'[v].id = i /\ held'[v].kind = "persist")
               <=> \/ \E v \in Workers : held[v].id = i /\ held[v].kind = "persist"
                   \/ e.id = i /\ e.kind = "persist"
  BY <1>1, <1>3, Zenon
<1>. HIDE DEF e
<1>8. \A i : i \in WithStorage' <=> i \in WithStorage
  BY <1>2, <1>6, <1>7, Zenon DEF WithStorage
<1>. QED BY <1>8, Zenon

(* StorageActor::handle: the row takes the place of the envelope. *)
LEMMA StoreKeepsStorage ==
  ASSUME TypeOK, AtHome, NEW w \in Workers, Store(w)
  PROVE  WithStorage' = WithStorage
<1>. DEFINE e == held[w]
<1>1. /\ Advance(w) /\ mailbox' = mailbox /\ e \in Envelope /\ e.kind = "persist"
      /\ messages' = Append(messages, e.id)
  BY Zenon DEF Store, AtHome
<1>2. messages \in Seq(Ids) /\ e.id \in Ids BY <1>1, Zenon DEF TypeOK, Envelope
<1>3. Range(messages') = Range(messages) \cup {e.id} BY <1>1, <1>2, RangeOfAppend
<1>4. held'[w] = NoEnvelope /\ \A v \in Workers : v # w => held'[v] = held[v]
  BY <1>1, AdvanceEffect, Zenon
<1>5. NoEnvelope.kind # "persist" BY Zenon DEF NoEnvelope
<1>6. ASSUME NEW i
      PROVE  (\E v \in Workers : held[v].id = i /\ held[v].kind = "persist")
               <=> \/ \E v \in Workers : held'[v].id = i /\ held'[v].kind = "persist"
                   \/ e.id = i
  BY <1>1, <1>4, <1>5, Zenon
<1>. HIDE DEF e
<1>7. \A i : i \in WithStorage' <=> i \in WithStorage
  BY <1>1, <1>3, <1>6, Zenon DEF WithStorage
<1>. QED BY <1>7

(* The worker that still has to see a message stored is the only one to have it. *)
LEMMA SoleDuty ==
  ASSUME TypeOK, AtHome, OnceInv, NEW w \in Workers, NEW i \in Ids,
         Owes(held[w], step[w], i, "persist")
  PROVE  /\ i \notin RefusedIds
         /\ \A j \in DOMAIN messages : messages[j] # i
         /\ held[w].kind = "send" => i \notin WithStorage
<1>. DEFINE P == Places(i, "persist")
<1>1. /\ Listed(P, mailbox, held, step, leaked, messages, posted, i, "persist")
      /\ "persist" \in Purpose
  BY MembersOf, Zenon DEF Purpose
<1>2. \A p, q \in P : p = q BY <1>1, Zenon DEF OnceInv, Once
<1>. HIDE DEF P
<1>3. <<"worker", w>> \in P BY <1>1, Zenon DEF Listed
<1>4. ASSUME NEW e \in leaked, e.id = i, e.kind \in {"send", "persist"} PROVE FALSE
  <2>1. Owes(e, 1, i, "persist") BY <1>1, <1>4, OwesInBox
  <2>2. <<"leaked", e>> \in P BY <1>1, <2>1, Zenon DEF Listed
  <2>3. <<"leaked", e>> # <<"worker", w>> OBVIOUS
  <2>. QED BY <1>2, <1>3, <2>2, <2>3, Zenon
<1>5. ASSUME NEW j \in DOMAIN messages, messages[j] = i PROVE FALSE
  <2>1. <<"row", j>> \in P BY <1>1, <1>5, Zenon DEF Listed
  <2>2. <<"row", j>> # <<"worker", w>> OBVIOUS
  <2>. QED BY <1>2, <1>3, <2>1, <2>2, Zenon
<1>6. ASSUME NEW e \in Range(mailbox["storage"]), e.id = i PROVE FALSE
  <2>1. PICK j \in DOMAIN mailbox["storage"] : e = mailbox["storage"][j] BY Zenon DEF Range
  <2>2. "storage" \in ActorType BY Zenon DEF ActorType
  <2>3. e.kind = "persist" BY <2>2, Zenon DEF AtHome, KindsOf
  <2>4. Owes(e, 1, i, "persist") BY <1>1, <1>6, <2>3, OwesInBox, Zenon
  <2>5. <<"mailbox", "storage", j>> \in P BY <1>1, <2>1, <2>2, <2>4, Zenon DEF Listed
  <2>6. <<"mailbox", "storage", j>> # <<"worker", w>> OBVIOUS
  <2>. QED BY <1>2, <1>3, <2>5, <2>6, Zenon
<1>7. ASSUME NEW v \in Workers, held[v].id = i, held[v].kind = "persist",
             held[w].kind = "send"
      PROVE  FALSE
  <2>1. Owes(held[v], step[v], i, "persist") BY <1>7 DEF Owes
  <2>2. <<"worker", v>> \in P BY <1>1, <2>1, Zenon DEF Listed
  <2>3. <<"worker", v>> # <<"worker", w>> BY <1>7, Zenon
  <2>. QED BY <1>2, <1>3, <2>2, <2>3, Zenon
<1>8. i \notin RefusedIds BY <1>4, Zenon DEF RefusedIds
<1>9. i \notin Range(messages) BY <1>5 DEF Range
<1>. QED BY <1>5, <1>6, <1>7, <1>8, <1>9, Zenon DEF WithStorage

(* A notice in the hands of a worker was not posted. *)
LEMMA SoleNotice ==
  ASSUME TypeOK, OnceInv, NEW w \in Workers, NEW i \in Ids, NEW k \in OutgoingKind,
         held[w].id = i, held[w].kind = k
  PROVE  <<i, k>> \notin ToldOf
<1>. DEFINE P == Places(i, k)
<1>1. /\ Listed(P, mailbox, held, step, leaked, messages, posted, i, k)
      /\ k \in Purpose
  BY MembersOf, Zenon DEF Purpose
<1>2. \A p, q \in P : p = q BY <1>1, Zenon DEF OnceInv, Once
<1>. HIDE DEF P
<1>3. Owes(held[w], step[w], i, k) BY DEF Owes
<1>4. <<"worker", w>> \in P BY <1>1, <1>3, Zenon DEF Listed
<1>5. ASSUME NEW s \in Sessions, <<i, k>> \in Range(posted[s]) PROVE FALSE
  <2>1. PICK j \in DOMAIN posted[s] : <<i, k>> = posted[s][j] BY <1>5 DEF Range
  <2>2. <<"posted", s, j>> \in P BY <1>1, <2>1, Zenon DEF Listed
  <2>3. <<"posted", s, j>> # <<"worker", w>> BY Zenon
  <2>. QED BY <1>2, <1>4, <2>2, <2>3, Zenon
<1>. QED BY <1>5, Zenon DEF ToldOf

LifeVars == <<Submitted, WithStorage, RefusedIds, messages, ToldOf, Halted>>

(* MessageActor::handle and ChatActor::handle. *)
LEMMA ForwardLives ==
  ASSUME TypeOK, AtHome, OnceInv, OriginInv, NEW w \in Workers, Forward(w),
         server # "stopped"
  PROVE  Life!Next \/ UNCHANGED LifeVars
<1>. DEFINE e == held[w]
            y == Sends(e)[step[w]]
            i == e.id
<1>1. e \in Envelope /\ i \in Ids /\ Send(y) /\ (Advance(w) \/ held' = held)
  BY ForwardEffect, Zenon DEF Envelope
<1>2. /\ y \in Envelope /\ e.kind = "send" /\ y.id = i
      /\ \/ e.dest = "message" /\ step[w] = 1 /\ y.dest = "chat" /\ y.kind = "send"
         \/ e.dest = "chat" /\ step[w] = 1 /\ y.dest = "storage" /\ y.kind = "persist"
         \/ e.dest = "chat" /\ y.dest = "session" /\ y.kind \in OutgoingKind
  BY Forwarded
<1>. HIDE DEF y
<1>3. /\ frames' = frames /\ messages' = messages /\ posted' = posted
      /\ terminated' = terminated /\ server' = server /\ ~terminated
  BY Zenon DEF Forward
<1>4. Submitted' = Submitted /\ ToldOf' = ToldOf BY <1>3 DEF Submitted, ToldOf
<1>5. Halted' = Halted /\ ~Halted BY <1>3, Zenon DEF Halted
<1>6. i \in Submitted BY <1>2, Zenon DEF OriginInv, Genuine, Submitted
<1>7. ASSUME y.kind \in {"send", "persist"}
      PROVE  i \notin RefusedIds /\ i \notin WithStorage
  <2>1. e.dest = "message" \/ step[w] = 1 BY <1>2, <1>7, Zenon DEF OutgoingKind
  <2>2. Owes(e, step[w], i, "persist")
    <3>1. step[w] = 1 => step[w] <= SendOf["persist"] BY SMTT(20) DEF SendOf
    <3>. QED BY <1>2, <2>1, <3>1, Zenon DEF Owes
  <2>. QED BY <1>1, <1>2, <2>2, SoleDuty, Zenon
<1>. DEFINE Accepted == /\ RefusedIds' = RefusedIds
                        /\ \A t \in ActorType : t # y.dest => mailbox'[t] = mailbox[t]
                        /\ Range(mailbox'[y.dest]) = Range(mailbox[y.dest]) \cup {y}
            Dropped == /\ mailbox' = mailbox
                       /\ RefusedIds' = IF y.kind \in {"send", "persist"}
                                          THEN RefusedIds \cup {i} ELSE RefusedIds
<1>8. Accepted \/ Dropped BY <1>1, <1>2, SendRefuses
<1>9. "storage" \in ActorType BY DEF ActorType
<1>10. ASSUME mailbox'["storage"] = mailbox["storage"] PROVE WithStorage' = WithStorage
  <2>1. e.kind # "persist" BY <1>2
  <2>. QED BY <1>1, <1>3, <1>10, <2>1, StorageGetsNothing, Zenon
<1>11. ASSUME RefusedIds' = RefusedIds, WithStorage' = WithStorage PROVE UNCHANGED LifeVars
  BY <1>3, <1>4, <1>5, <1>11, Zenon DEF LifeVars
<1>12. CASE Dropped
  <2>1. WithStorage' = WithStorage BY <1>10, <1>12
  <2>2. CASE y.kind \in {"send", "persist"}
    <3>1. RefusedIds' = RefusedIds \cup {i} BY <1>12, <2>2, Zenon
    <3>2. Life!Refuse(i)
      BY <1>3, <1>4, <1>5, <1>6, <1>7, <2>1, <2>2, <3>1, Zenon DEF Life!Refuse
    <3>. QED BY <1>1, <1>5, <3>2, Zenon DEF Life!Next
  <2>3. CASE y.kind \notin {"send", "persist"} BY <1>11, <1>12, <2>1, <2>3, Zenon
  <2>. QED BY <2>2, <2>3, Zenon
<1>13. CASE Accepted /\ y.dest # "storage"
  <2>1. mailbox'["storage"] = mailbox["storage"] BY <1>9, <1>13, Zenon
  <2>. QED BY <1>10, <1>11, <1>13, <2>1, Zenon
<1>14. CASE Accepted /\ y.dest = "storage"
  <2>1. y.kind = "persist" BY <1>2, <1>14
  <2>2. WithStorage' = WithStorage \cup {i}
    <3>1. Range(mailbox'["storage"]) = Range(mailbox["storage"]) \cup {y} BY <1>14, Zenon
    <3>2. \A j : (\E x \in Range(mailbox'["storage"]) : x.id = j)
                   <=> (\E x \in Range(mailbox["storage"]) : x.id = j) \/ j \in {i}
      BY <1>2, <3>1, Zenon
    <3>3. e.kind # "persist" /\ {i} \in SUBSET Ids BY <1>1, <1>2, Zenon
    <3>. QED BY <1>1, <1>3, <3>2, <3>3, StorageGets, Zenon
  <2>3. Life!HandOver(i)
    BY <1>3, <1>4, <1>5, <1>6, <1>7, <1>14, <2>1, <2>2, Zenon DEF Life!HandOver
  <2>. QED BY <1>1, <1>5, <2>3, Zenon DEF Life!Next
<1>. QED BY <1>8, <1>12, <1>13, <1>14, Zenon

(* SessionActor::handle posts a notice. *)
LEMMA DeliverLives ==
  ASSUME TypeOK, AtHome, OnceInv, ToldAfterHandedToStorage, NEW w \in Workers,
         Deliver(w), server # "stopped"
  PROVE  Life!Next
<1>. DEFINE e == held[w]
            i == e.id
            k == e.kind
            p == <<i, k>>
<1>1. /\ e \in Envelope /\ i \in Ids /\ k \in OutgoingKind /\ e.session \in Sessions
      /\ posted' = [posted EXCEPT ![e.session] = Append(@, p)]
      /\ Advance(w) /\ ~terminated
      /\ UNCHANGED <<mailbox, leaked, frames, messages, terminated, server>>
  BY Zenon DEF Deliver, AtHome, Envelope, TypeOK
<1>2. Submitted' = Submitted /\ RefusedIds' = RefusedIds
  BY <1>1 DEF Submitted, RefusedIds
<1>3. Halted' = Halted /\ ~Halted BY <1>1, Zenon DEF Halted
<1>4. WithStorage' = WithStorage
  <2>1. k # "persist" BY <1>1, Zenon DEF OutgoingKind
  <2>2. messages' = messages /\ mailbox' = mailbox BY <1>1, Zenon
  <2>. QED BY <1>1, <2>1, <2>2, StorageGetsNothing, Zenon
<1>5. i \in WithStorage \/ i \in RefusedIds
  <2>1. Told(i) BY <1>1, Zenon DEF Told
  <2>2. HandedToStorage(i) BY <1>1, <2>1, Zenon DEF ToldAfterHandedToStorage
  <2>. QED BY <1>1, <2>2, Zenon DEF HandedToStorage, WithStorage, RefusedIds
<1>6. p \notin ToldOf BY <1>1, SoleNotice
<1>7. ToldOf' = ToldOf \cup {p}
  <2>1. /\ posted \in [Sessions -> Seq(Ids \X OutgoingKind)]
        /\ posted[e.session] \in Seq(Ids \X OutgoingKind)
        /\ p \in Ids \X OutgoingKind
    BY <1>1, Zenon DEF TypeOK
  <2>. HIDE DEF p
  <2>2. Range(Append(posted[e.session], p)) = Range(posted[e.session]) \cup {p}
    BY <2>1, RangeOfAppend
  <2>3. /\ posted'[e.session] = Append(posted[e.session], p)
        /\ \A s \in Sessions : s # e.session => posted'[s] = posted[s]
    BY <1>1, <2>1
  <2>4. \A s \in Sessions : \A x : x \in Range(posted'[s]) <=>
                                     x \in Range(posted[s]) \/ (s = e.session /\ x = p)
    BY <2>2, <2>3, Zenon
  <2>5. \A x : x \in ToldOf' <=> x \in ToldOf \/ x = p
    BY <1>1, <2>1, <2>4, Zenon DEF ToldOf
  <2>. QED BY <2>5
<1>8. Life!Tell(i, k) BY <1>1, <1>2, <1>3, <1>4, <1>5, <1>6, <1>7, Zenon DEF Life!Tell
<1>. QED BY <1>1, <1>3, <1>8, Zenon DEF Life!Next

(* StorageActor::handle adds the row. *)
LEMMA StoreLives ==
  ASSUME TypeOK, AtHome, OnceInv, NEW w \in Workers, Store(w), server # "stopped"
  PROVE  Life!Next
<1>. DEFINE i == held[w].id
<1>1. /\ held[w] \in Envelope /\ i \in Ids /\ held[w].kind = "persist"
      /\ messages' = Append(messages, i) /\ ~terminated
      /\ UNCHANGED <<leaked, frames, posted, server>>
  BY Zenon DEF Store, AtHome, Envelope
<1>2. Submitted' = Submitted /\ RefusedIds' = RefusedIds /\ ToldOf' = ToldOf
  BY <1>1 DEF Submitted, RefusedIds, ToldOf
<1>3. Halted' \in BOOLEAN /\ ~Halted BY <1>1, Zenon DEF Halted
<1>4. WithStorage' = WithStorage BY StoreKeepsStorage, Zenon
<1>5. i \in WithStorage BY <1>1, Zenon DEF WithStorage
<1>6. \A j \in DOMAIN messages : messages[j] # i
  <2>1. Owes(held[w], step[w], i, "persist") BY <1>1, Zenon DEF Owes
  <2>. QED BY <1>1, <2>1, SoleDuty, Zenon
<1>7. Life!Store(i) BY <1>1, <1>2, <1>3, <1>4, <1>5, <1>6, Zenon DEF Life!Store
<1>. QED BY <1>1, <1>3, <1>7, Zenon DEF Life!Next

(* WebSocketSession::onRead and MessageDispatcher::dispatch. *)
LEMMA ReadLives ==
  ASSUME TypeOK, AtHome, OnceInv, NEW f \in ClientFrames, OnRead(f), server # "stopped"
  PROVE  Life!Next \/ UNCHANGED LifeVars
<1>. DEFINE n == Len(frames) + 1
<1>1. /\ UNCHANGED <<held, posted, messages, server>> /\ ~terminated
      /\ terminated' = (f.type = "mistyped")
      /\ frames \in Seq(ClientFrames) /\ frames' = Append(frames, f)
      /\ Len(frames) \in Nat /\ Len(frames) < MaxFrames
  BY DEF OnRead, NetworkUp, TypeOK, workerVars
<1>2. n \in Ids /\ f \in Frame BY <1>1, ConstantsAssumption DEF Ids
<1>3. n \notin Submitted
  <2>1. n \notin DOMAIN frames BY <1>1, AppendAt
  <2>. QED BY <2>1, Zenon DEF Submitted
<1>4. \A j : j \in Submitted' <=>
                j \in Submitted \/ (j = n /\ f.type = "send_message")
  <2>1. /\ \A j : j \in DOMAIN frames' <=> j \in DOMAIN frames \/ j = n
        /\ \A j \in DOMAIN frames : frames'[j] = frames[j]
        /\ frames'[n] = f /\ n \notin DOMAIN frames
    BY <1>1, AppendAt, Zenon
  <2>2. /\ \A j : j \in Submitted' <=>
                    j \in DOMAIN frames' /\ frames'[j].type = "send_message"
        /\ \A j : j \in Submitted <=>
                    j \in DOMAIN frames /\ frames[j].type = "send_message"
    BY Zenon DEF Submitted
  <2>. HIDE DEF n
  <2>. QED BY <2>1, <2>2, Zenon
<1>. HIDE DEF n
<1>5. ToldOf' = ToldOf BY <1>1, Zenon DEF ToldOf
<1>6. ~Halted /\ (f.type # "mistyped" => Halted' = Halted)
      /\ (f.type = "mistyped" => Halted' = TRUE)
  BY <1>1, Zenon DEF Halted
<1>7. ASSUME mailbox'["storage"] = mailbox["storage"] PROVE WithStorage' = WithStorage
  BY <1>1, <1>7 DEF WithStorage
<1>8. CASE f.type = "send_message"
  <2>1. PICK e : e \in Dispatched(f, n) /\ Send(e)
    BY <1>8 DEF OnRead, Dispatched, n
  <2>2. e \in Envelope /\ e.id = n /\ e.kind = "send" /\ e.dest = "message"
    <3>1. e \in Envelope /\ e.id = n BY <1>2, <2>1, DispatchedEffect, Zenon
    <3>2. e.kind = "send" /\ e.dest = "message"
      BY <1>8, <2>1 DEF Dispatched, SendMessageEvent
    <3>. QED BY <3>1, <3>2
  <2>3. /\ RefusedIds' = RefusedIds \/ RefusedIds' = RefusedIds \cup {n}
        /\ mailbox'["storage"] = mailbox["storage"]
    BY <2>1, <2>2, SendRefuses, Zenon DEF ActorType
  <2>4. Submitted' = Submitted \cup {n} BY <1>4, <1>8, Zenon
  <2>5. Life!Read(n)
    BY <1>1, <1>3, <1>5, <1>6, <1>7, <1>8, <2>3, <2>4, Zenon DEF Life!Read
  <2>. QED BY <1>2, <1>6, <2>5 DEF Life!Next
<1>9. CASE f.type # "send_message"
  <2>1. Submitted' = Submitted BY <1>4, <1>9, Zenon
  <2>2. RefusedIds' = RefusedIds /\ WithStorage' = WithStorage
    <3>1. CASE UNCHANGED <<mailbox, leaked>> BY <1>7, <3>1 DEF RefusedIds
    <3>2. ASSUME NEW e \in Dispatched(f, n), Send(e)
          PROVE  RefusedIds' = RefusedIds /\ mailbox'["storage"] = mailbox["storage"]
      <4>1. /\ e \in Envelope /\ e.kind \notin {"send", "persist"}
            /\ e.dest # "storage"
        BY <1>2, <1>9, DispatchedEffect
      <4>. QED BY <3>2, <4>1, SendRefuses DEF ActorType
    <3>. QED BY <1>7, <3>1, <3>2 DEF OnRead, n
  <2>3. CASE f.type = "mistyped"
    <3>1. Life!Halt BY <1>1, <1>5, <1>6, <2>1, <2>2, <2>3, Zenon DEF Life!Halt
    <3>. QED BY <1>6, <3>1, Zenon DEF Life!Next
  <2>4. CASE f.type # "mistyped"
    BY <1>1, <1>5, <1>6, <2>1, <2>2, <2>4, Zenon DEF LifeVars
  <2>. QED BY <2>3, <2>4, Zenon
<1>. QED BY <1>8, <1>9, Zenon

(* The steps of a worker. *)
LEMMA WorkerLives ==
  ASSUME TypeOK, AtHome, OnceInv, OriginInv, ToldAfterHandedToStorage,
         NEW w \in Workers, Worker(w), server # "stopped"
  PROVE  Life!Next \/ UNCHANGED LifeVars
<1>1. ASSUME UNCHANGED <<leaked, frames, messages, posted, terminated, server>>,
             WithStorage' = WithStorage
      PROVE  UNCHANGED LifeVars
  BY <1>1, Zenon DEF LifeVars, Submitted, RefusedIds, ToldOf, Halted
<1>2. CASE LoopTest(w)
  BY <1>1, <1>2, Zenon DEF LoopTest, WithStorage
<1>3. CASE PopEmpty(w) \/ Ignore(w)
  <2>1. /\ Advance(w) /\ mailbox' = mailbox
        /\ UNCHANGED <<leaked, frames, messages, posted, terminated, server>>
    BY <1>3, Zenon DEF PopEmpty, Ignore
  <2>2. held[w].kind # "persist"
    <3>1. CASE PopEmpty(w)
      <4>1. held[w] = NoEnvelope
        <5>1. pc[w] = "scan" BY <3>1, Zenon DEF PopEmpty
        <5>. QED BY <5>1, Zenon DEF AtHome
      <4>. QED BY <4>1 DEF NoEnvelope
    <3>2. CASE Ignore(w) BY <3>2, IgnoredKinds, Zenon
    <3>. QED BY <1>3, <3>1, <3>2, Zenon
  <2>3. messages' = messages /\ mailbox' = mailbox BY <2>1
  <2>4. WithStorage' = WithStorage
    BY <2>1, <2>2, <2>3, StorageGetsNothing, Zenon
  <2>. QED BY <1>1, <2>1, <2>4, Zenon
<1>4. CASE Pop(w)
  <2>1. WithStorage' = WithStorage BY <1>4, PopKeepsStorage
  <2>. QED BY <1>1, <1>4, <2>1, Zenon DEF Pop
<1>5. CASE StoreThrows(w)
  <2>1. /\ UNCHANGED <<mailbox, held, leaked, frames, messages, posted, server>>
        /\ terminated' = TRUE /\ ~terminated
    BY <1>5, Zenon DEF StoreThrows, workerVars
  <2>2. /\ Submitted' = Submitted /\ RefusedIds' = RefusedIds /\ ToldOf' = ToldOf
        /\ WithStorage' = WithStorage
    BY <2>1, Zenon DEF Submitted, RefusedIds, ToldOf, WithStorage
  <2>3. ~Halted /\ Halted' = TRUE BY <2>1, Zenon DEF Halted
  <2>4. Life!Halt BY <2>1, <2>2, <2>3 DEF Life!Halt
  <2>. QED BY <2>3, <2>4 DEF Life!Next
<1>. QED BY <1>2, <1>3, <1>4, <1>5, ForwardLives, DeliverLives, StoreLives, Zenon DEF Worker

(***************************************************************************)
(* The actors, mailboxes and workers implement MessageLife: every step is  *)
(* one step in the life of one message or none at all, for any number of   *)
(* workers, sessions and frames and any mailbox capacity.                  *)
(***************************************************************************)
THEOREM PipelineIsALife == Spec => ImplementsLife
<1>. DEFINE Inv == TypeOK /\ AtHome /\ OnceInv /\ OriginInv /\ ToldAfterHandedToStorage
<1>1. Init => Life!Init
  <2>. SUFFICES ASSUME Init PROVE Life!Init BY Zenon
  <2>1. /\ Range(mailbox["storage"]) = {} /\ Range(messages) = {}
        /\ \A s \in Sessions : Range(posted[s]) = {}
    BY DEF Init, Range, ActorType
  <2>2. \A w \in Workers : held[w].kind # "persist" BY Zenon DEF Init, NoEnvelope
  <2>3. /\ Submitted = {} /\ WithStorage = {} /\ RefusedIds = {} /\ ToldOf = {}
        /\ messages = <<>>
    BY <2>1, <2>2 DEF Init, Submitted, WithStorage, RefusedIds, ToldOf
  <2>4. Halted = FALSE BY DEF Init, Halted
  <2>. QED BY <2>3, <2>4 DEF Life!Init
<1>2. Inv /\ [Next]_vars /\ [server # "stopped"]_vars => [Life!Next]_LifeVars
  <2>. SUFFICES ASSUME Inv, [Next]_vars, [server # "stopped"]_vars
                PROVE  Life!Next \/ UNCHANGED LifeVars
    BY Zenon
  <2>1. CASE UNCHANGED <<mailbox, leaked, held, frames, posted, messages, Halted>>
    BY <2>1, Zenon DEF LifeVars, Submitted, WithStorage, RefusedIds, ToldOf
  <2>2. CASE UNCHANGED vars BY <2>1, <2>2 DEF vars, workerVars, Halted
  <2>3. CASE Next /\ server # "stopped"
    <3>1. CASE ServerRun \/ StopNetwork \/ StopActors
      BY <2>1, <3>1 DEF ServerRun, StopNetwork, StopActors, workerVars, Halted
    <3>2. CASE Joined
      <4>1. /\ UNCHANGED <<mailbox, held, leaked, frames, messages, posted>>
            /\ ~Halted /\ Halted' = TRUE
        BY <3>2, Zenon DEF Joined, workerVars, Halted
      <4>2. /\ Submitted' = Submitted /\ RefusedIds' = RefusedIds /\ ToldOf' = ToldOf
            /\ WithStorage' = WithStorage
        BY <4>1, Zenon DEF Submitted, RefusedIds, ToldOf, WithStorage
      <4>3. Life!Halt BY <4>1, <4>2, Zenon DEF Life!Halt
      <4>. QED BY <4>1, <4>3, Zenon DEF Life!Next
    <3>3. CASE Accept \/ \E s \in Sessions : OnAccept(s) \/ OnReadError(s) \/ OnWriteError(s)
      BY <2>1, <3>3 DEF Accept, OnAccept, OnReadError, OnWriteError, workerVars, Halted
    <3>4. CASE \E f \in ClientFrames : OnRead(f) BY <2>3, <3>4, ReadLives, Zenon
    <3>5. CASE \E w \in Workers : Worker(w) BY <2>3, <3>5, WorkerLives, Zenon
    <3>. QED BY <2>3, <3>1, <3>2, <3>3, <3>4, <3>5, Zenon DEF Next, Network
  <2>. QED BY <2>2, <2>3
<1>3. Spec => [][server # "stopped"]_vars BY NothingAfterStop DEF StillAfterStop
<1>. QED
  BY <1>1, <1>2, <1>3, TypeCorrect, EnvelopesAreAtHome, AlwaysOnce, AlwaysOrigin,
     StorageComesFirst, PTL DEF Spec, ImplementsLife, Life!Spec, LifeVars
============================================================================
