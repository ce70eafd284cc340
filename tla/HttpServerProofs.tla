--------------------------- MODULE HttpServerProofs ------------------------
(***************************************************************************)
(* Proofs about the connection pool, the tokens and the HTTP server: first *)
(* PostgresPool, for any number of threads, any pool size, any counter     *)
(* width that the pool size divides and any number of calls; then          *)
(* JwtService, and HttpServer, for any clients, requests and user ids.     *)
(***************************************************************************)
EXTENDS HttpServer, SequenceTheorems, WellFoundedInduction, TLAPS

(* The abbreviations that every proof sees through. *)
USE DEF Index, Unregistered

(* Division with remainder. *)
LEMMA DivMod ==
  ASSUME NEW a \in Nat, NEW p \in Nat \ {0}
  PROVE  /\ a % p \in Nat
         /\ a % p < p
         /\ a \div p \in Nat
         /\ a = p * (a \div p) + (a % p)
OBVIOUS

LEMMA MultiplesAreApart ==
  ASSUME NEW p \in Nat \ {0}, NEW q \in Int, NEW r \in Int, q < r
  PROVE  p * q + p <= p * r
<1>1. p * (q + 1) <= p * r
  OBVIOUS
<1>2. p * (q + 1) = p * q + p
  OBVIOUS
<1> QED
  BY <1>1, <1>2

(* The remainder is the only number below p that a multiple of p precedes. *)
LEMMA RemainderIsUnique ==
  ASSUME NEW p \in Nat \ {0}, NEW q \in Int, NEW r \in Nat, NEW a \in Nat,
         r < p, a = p * q + r
  PROVE  a % p = r
<1>1. /\ a % p \in Nat
      /\ a % p < p
      /\ a \div p \in Nat
      /\ a = p * (a \div p) + (a % p)
  BY DivMod
<1>2. ASSUME a \div p < q PROVE FALSE
  BY <1>1, <1>2, MultiplesAreApart
<1>3. ASSUME q < a \div p PROVE FALSE
  BY <1>1, <1>3, MultiplesAreApart
<1>4. a \div p = q
  BY <1>1, <1>2, <1>3
<1> QED
  BY <1>1, <1>4

LEMMA RemainderOfRemainder ==
  ASSUME NEW p \in Nat \ {0}, NEW k \in Nat \ {0}, NEW a \in Nat
  PROVE  (a % (k * p)) % p = a % p
<1> DEFINE w == k * p
           r == a % w
           s == r % p
           m == a \div w
           n == r \div p
<1>0. w \in Nat \ {0}
  OBVIOUS
<1> HIDE DEF w
<1>1. r \in Nat /\ m \in Nat /\ a = w * m + r
  BY <1>0, DivMod
<1> HIDE DEF m
<1>2. s \in Nat /\ s < p /\ n \in Nat /\ r = p * n + s
  BY <1>1, DivMod, Zenon
<1> HIDE DEF n, r, s
<1>3. w * m = p * (k * m)
  BY <1>1 DEF w
<1>4. p * (k * m) + p * n = p * (k * m + n)
  BY <1>1, <1>2
<1>5. k * m + n \in Int /\ k * m \in Int
  BY <1>1, <1>2
<1>6. a = p * (k * m + n) + s
  BY <1>1, <1>2, <1>3, <1>4, <1>5
<1>7. a % p = s
  BY <1>2, <1>5, <1>6, RemainderIsUnique, Zenon
<1> QED
  BY <1>7 DEF r, s, w

LEMMA RemainderOfSuccessor ==
  ASSUME NEW w \in Nat \ {0}, NEW a \in Nat
  PROVE  ((a % w) + 1) % w = (a + 1) % w
<1> DEFINE r == a % w
           m == a \div w
<1>1. r \in Nat /\ r < w /\ m \in Nat /\ a = w * m + r
  BY DivMod
<1> HIDE DEF r, m
<1>2. CASE r + 1 < w
  <2>1. /\ a + 1 \in Nat /\ m \in Int /\ r + 1 \in Nat /\ r + 1 < w
        /\ a + 1 = w * m + (r + 1)
    BY <1>1, <1>2
  <2>2. 0 \in Int /\ r + 1 = w * 0 + (r + 1)
    BY <1>1
  <2>3. (a + 1) % w = r + 1
    BY <2>1, RemainderIsUnique, Zenon
  <2>4. (r + 1) % w = r + 1
    BY <2>1, <2>2, RemainderIsUnique, Zenon
  <2> QED
    BY <2>3, <2>4 DEF r
<1>3. CASE r + 1 = w
  <2>1. /\ a + 1 \in Nat /\ m + 1 \in Int /\ 0 \in Nat /\ 0 < w
        /\ a + 1 = w * (m + 1) + 0
    BY <1>1, <1>3
  <2>2. r + 1 \in Nat /\ 1 \in Int /\ r + 1 = w * 1 + 0
    BY <1>1, <1>3
  <2>3. (a + 1) % w = 0
    BY <2>1, RemainderIsUnique, Zenon
  <2>4. (r + 1) % w = 0
    BY <2>1, <2>2, RemainderIsUnique, Zenon
  <2> QED
    BY <2>3, <2>4 DEF r
<1> QED
  BY <1>1, <1>2, <1>3

(***************************************************************************)
(* The index acquire computes from the wrapped counter is the one it would *)
(* compute from an unbounded counter.                                      *)
(***************************************************************************)
LEMMA WrapIsEven ==
  ASSUME NEW a \in Nat
  PROVE  (a % WordSize) % PoolSize = a % PoolSize
<1>1. PICK k \in 1..WordSize : WordSize = k * PoolSize
  BY WordSizeAssumption
<1>2. k \in Nat \ {0}
  BY WordSizeAssumption
<1>3. (a % (k * PoolSize)) % PoolSize = a % PoolSize
  BY <1>2, RemainderOfRemainder, PoolSizeAssumption, Zenon
<1> QED
  BY <1>1, <1>3

(* Different numbers with the same remainder are at least p apart. *)
LEMMA SameRemainderIsApart ==
  ASSUME NEW p \in Nat \ {0}, NEW a \in Nat, NEW b \in Nat,
         a % p = b % p, a < b
  PROVE  a + p <= b
<1>1. /\ a % p \in Nat
      /\ a \div p \in Nat
      /\ a = p * (a \div p) + (a % p)
  BY DivMod
<1>2. /\ b \div p \in Nat
      /\ b = p * (b \div p) + (b % p)
  BY DivMod
<1>3. CASE a \div p < b \div p
  BY <1>1, <1>2, <1>3, MultiplesAreApart
<1>4. CASE b \div p <= a \div p
  <2>1. p * (b \div p) <= p * (a \div p)
    BY <1>1, <1>2, <1>4
  <2> QED
    BY <1>1, <1>2, <2>1
<1> QED
  BY <1>1, <1>2, <1>3, <1>4
----------------------------------------------------------------------------
LEMMA TypeInit == Init => TypeOK
<1>1. 0 \in 0..(WordSize - 1)
  BY WordSizeAssumption
<1>2. 0 \in Connections
  BY PoolSizeAssumption DEF Connections
<1> QED
  <2> SUFFICES ASSUME Init PROVE TypeOK
    OBVIOUS
  <2>1. pc \in [Threads -> {"idle", "acquired", "checked", "work"}]
    BY DEF Init
  <2>2. connection \in [Threads -> Connections]
    BY <1>2 DEF Init
  <2>3. ticket \in [Threads -> Nat]
    BY DEF Init
  <2>4. registered \in [Connections -> SUBSET Threads]
    BY DEF Init
  <2>5. next \in 0..(WordSize - 1) /\ acquires \in Nat
    BY <1>1 DEF Init
  <2>6. terminated \in BOOLEAN
    BY Zenon DEF Init
  <2> QED
    BY <2>1, <2>2, <2>3, <2>4, <2>5, <2>6 DEF TypeOK

LEMMA TypeNext == TypeOK /\ [Next]_vars => TypeOK'
<1> SUFFICES ASSUME TypeOK, [Next]_vars PROVE TypeOK'
  OBVIOUS
<1> USE DEF TypeOK
<1>1. ASSUME NEW t \in Threads, Acquire(t) PROVE TypeOK'
  <2>1. next \in Nat /\ next % PoolSize \in Connections
    BY DivMod, PoolSizeAssumption, WordSizeAssumption DEF Connections
  <2>2. (next + 1) % WordSize \in 0..(WordSize - 1)
    BY <2>1, DivMod, WordSizeAssumption
  <2> QED
    BY <1>1, <2>1, <2>2 DEF Acquire
<1>2. ASSUME NEW t \in Threads, BeginWork(t) PROVE TypeOK'
  BY <1>2 DEF BeginWork
<1>3. ASSUME NEW t \in Threads, BeginWorkThrows(t) PROVE TypeOK'
  BY <1>3 DEF BeginWorkThrows
<1>4. ASSUME NEW t \in Threads, Register(t) PROVE TypeOK'
  BY <1>4 DEF Register
<1>5. ASSUME NEW t \in Threads, Finish(t) PROVE TypeOK'
  BY <1>5 DEF Finish
<1>6. ASSUME NEW t \in Threads, FinishThrows(t) PROVE TypeOK'
  BY <1>6 DEF FinishThrows
<1>7. CASE UNCHANGED vars
  BY <1>7 DEF vars
<1> QED
  BY <1>1, <1>2, <1>3, <1>4, <1>5, <1>6, <1>7 DEF Next

(* The state of the pool is always of its type. *)
THEOREM TypeCorrect == Spec => []TypeOK
BY TypeInit, TypeNext, PTL DEF Spec
----------------------------------------------------------------------------
LEMMA TicketInit == Init => TicketInv
<1> SUFFICES ASSUME Init PROVE TicketInv
  OBVIOUS
<1>1. 0 % WordSize = 0
  BY RemainderIsUnique, WordSizeAssumption
<1> QED
  BY <1>1 DEF Init, TicketInv

LEMMA TicketNext == TypeOK /\ TicketInv /\ [Next]_vars => TicketInv'
<1> SUFFICES ASSUME TypeOK, TicketInv, [Next]_vars PROVE TicketInv'
  OBVIOUS
<1> USE DEF TypeOK, TicketInv
<1>1. ASSUME NEW t \in Threads, Acquire(t) PROVE TicketInv'
  <2>1. next' = acquires' % WordSize
    <3>1. WordSize \in Nat \ {0}
      BY WordSizeAssumption
    <3>2. ((acquires % WordSize) + 1) % WordSize = (acquires + 1) % WordSize
      BY <3>1, RemainderOfSuccessor, Zenon
    <3> QED
      BY <1>1, <3>2 DEF Acquire
  <2>2. next % PoolSize = acquires % PoolSize
    BY WrapIsEven
  <2>3. \A u \in Threads : pc'[u] # "idle" =>
          /\ ticket'[u] < acquires'
          /\ connection'[u] = ticket'[u] % PoolSize
    BY <1>1, <2>2 DEF Acquire
  <2>4. \A u, v \in Threads :
          pc'[u] # "idle" /\ pc'[v] # "idle" /\ u # v => ticket'[u] # ticket'[v]
    BY <1>1 DEF Acquire
  <2> QED
    BY <2>1, <2>3, <2>4
<1>2. ASSUME NEW t \in Threads, BeginWork(t) PROVE TicketInv'
  BY <1>2 DEF BeginWork
<1>3. ASSUME NEW t \in Threads, BeginWorkThrows(t) PROVE TicketInv'
  BY <1>3 DEF BeginWorkThrows
<1>4. ASSUME NEW t \in Threads, Register(t) PROVE TicketInv'
  BY <1>4 DEF Register
<1>5. ASSUME NEW t \in Threads, Finish(t) PROVE TicketInv'
  BY <1>5 DEF Finish
<1>6. ASSUME NEW t \in Threads, FinishThrows(t) PROVE TicketInv'
  BY <1>6 DEF FinishThrows
<1>7. CASE UNCHANGED vars
  BY <1>7 DEF vars
<1> QED
  BY <1>1, <1>2, <1>3, <1>4, <1>5, <1>6, <1>7, Zenon DEF Next

LEMMA TicketsKeepRound == TypeOK /\ TicketInv => SharedOnlyAfterFullRound
<1> SUFFICES ASSUME TypeOK, TicketInv,
                    NEW t \in Threads, NEW u \in Threads, NEW c \in Connections,
                    t # u, Holds(t, c), Holds(u, c)
             PROVE  RoundApart(t, u)
  BY DEF SharedOnlyAfterFullRound
<1>1. /\ ticket[t] \in Nat
      /\ ticket[u] \in Nat
      /\ ticket[t] # ticket[u]
      /\ ticket[t] % PoolSize = ticket[u] % PoolSize
  BY DEF TypeOK, TicketInv, Holds
<1>2. CASE ticket[t] < ticket[u]
  BY <1>1, <1>2, SameRemainderIsApart, PoolSizeAssumption, Zenon DEF RoundApart
<1>3. CASE ticket[u] < ticket[t]
  BY <1>1, <1>3, SameRemainderIsApart, PoolSizeAssumption DEF RoundApart
<1> QED
  BY <1>1, <1>2, <1>3

(***************************************************************************)
(* The counter of acquire is the number of calls up to its wrap, and a     *)
(* thread has the connection that the number of its own call stands for.   *)
(***************************************************************************)
THEOREM TicketsAreKept == Spec => []TicketInv
<1>1. Init => TypeOK /\ TicketInv
  BY TypeInit, TicketInit
<1>2. (TypeOK /\ TicketInv) /\ [Next]_vars => (TypeOK /\ TicketInv)'
  BY TypeNext, TicketNext
<1> QED
  BY <1>1, <1>2, PTL DEF Spec

(***************************************************************************)
(* PostgresPool::acquire gives a connection to two threads only if one of  *)
(* them was overtaken by a whole round of acquisitions, also across the    *)
(* wrap of its counter.                                                    *)
(***************************************************************************)
THEOREM RoundRobin == Spec => []SharedOnlyAfterFullRound
<1>1. Init => TypeOK /\ TicketInv
  BY TypeInit, TicketInit
<1>2. (TypeOK /\ TicketInv) /\ [Next]_vars => (TypeOK /\ TicketInv)'
  BY TypeNext, TicketNext
<1> QED
  BY <1>1, <1>2, TicketsKeepRound, PTL DEF Spec
----------------------------------------------------------------------------
(***************************************************************************)
(* Whose transaction a connection can have: that of a thread inside create *)
(* or getByChat with that connection.  Another thread may be there too.    *)
(***************************************************************************)
RegisteredInv ==
  \A c \in Connections : \A t \in registered[c] : pc[t] = "work" /\ connection[t] = c

LEMMA RegisteredInit == Init => RegisteredInv
BY Zenon DEF Init, RegisteredInv

LEMMA RegisteredNext == TypeOK /\ RegisteredInv /\ [Next]_vars => RegisteredInv'
<1> SUFFICES ASSUME TypeOK, RegisteredInv, [Next]_vars PROVE RegisteredInv'
  OBVIOUS
<1> USE DEF TypeOK, RegisteredInv
<1>1. ASSUME NEW t \in Threads, Acquire(t) PROVE RegisteredInv'
  BY <1>1 DEF Acquire
<1>2. ASSUME NEW t \in Threads, BeginWork(t) PROVE RegisteredInv'
  BY <1>2 DEF BeginWork
<1>3. ASSUME NEW t \in Threads, BeginWorkThrows(t) PROVE RegisteredInv'
  BY <1>3 DEF BeginWorkThrows
<1>4. ASSUME NEW t \in Threads, Register(t) PROVE RegisteredInv'
  BY <1>4 DEF Register
<1>5. ASSUME NEW t \in Threads, Finish(t) PROVE RegisteredInv'
  BY <1>5 DEF Finish
<1>6. ASSUME NEW t \in Threads, FinishThrows(t) PROVE RegisteredInv'
  BY <1>6 DEF FinishThrows
<1>7. CASE UNCHANGED vars
  BY <1>7 DEF vars
<1> QED
  BY <1>1, <1>2, <1>3, <1>4, <1>5, <1>6, <1>7, Zenon DEF Next

LEMMA ClashIsRoundApart ==
  TypeOK /\ TicketInv /\ RegisteredInv => ThrowsOnlyAfterFullRound
<1> SUFFICES ASSUME TypeOK, TicketInv, RegisteredInv,
                    NEW t \in Threads, NEW u \in Threads,
                    pc[t] = "acquired", u \in registered[connection[t]]
             PROVE  pc[u] = "work" /\ Holds(u, connection[t]) /\ RoundApart(t, u)
  BY Zenon DEF ThrowsOnlyAfterFullRound
<1>1. connection[t] \in Connections
  BY DEF TypeOK
<1>2. pc[u] = "work" /\ connection[u] = connection[t]
  BY <1>1 DEF RegisteredInv
<1>3. t # u /\ Holds(t, connection[t]) /\ Holds(u, connection[t])
  BY <1>2 DEF Holds
<1>4. RoundApart(t, u)
  BY <1>1, <1>3, TicketsKeepRound, Zenon DEF SharedOnlyAfterFullRound
<1> QED
  BY <1>2, <1>3, <1>4

(***************************************************************************)
(* The constructor of pqxx::work throws only for a clash with a call that  *)
(* is running and a whole round of acquire away, although libpqxx looks    *)
(* for a transaction and registers one in two steps without a lock.        *)
(***************************************************************************)
THEOREM ClashOnlyAfterFullRound == Spec => []ThrowsOnlyAfterFullRound
<1>1. Init => TypeOK /\ TicketInv /\ RegisteredInv
  BY TypeInit, TicketInit, RegisteredInit, Zenon
<1>2. (TypeOK /\ TicketInv /\ RegisteredInv) /\ [Next]_vars
        => (TypeOK /\ TicketInv /\ RegisteredInv)'
  BY TypeNext, TicketNext, RegisteredNext
<1> QED
  BY <1>1, <1>2, ClashIsRoundApart, PTL DEF Spec
----------------------------------------------------------------------------
Raw(u) == <<Header, Dot>> \o Payload(u)

(* The pieces a token of u is made of. *)
PiecesOf(W, u) == W \cup {Header, Dot, Open, Close, sign(Raw(u))}

(* Where the pieces of what is signed are. *)
LEMMA RawShape ==
  ASSUME NEW W, NEW u \in Seq(W)
  PROVE  /\ Raw(u) \in Seq(W \cup {Header, Dot, Open, Close})
         /\ Len(Raw(u)) = Len(u) + 4
         /\ Raw(u)[1] = Header /\ Raw(u)[2] = Dot /\ Raw(u)[3] = Open
         /\ \A k \in 1..Len(u) : Raw(u)[k + 3] = u[k]
         /\ Raw(u)[Len(u) + 4] = Close
<1>. DEFINE S == W \cup {Header, Dot, Open, Close}
<1>1. u \in Seq(S) /\ <<Open>> \in Seq(S) /\ <<Close>> \in Seq(S) /\ <<Header, Dot>> \in Seq(S)
  OBVIOUS
<1>. HIDE DEF S
<1>2. /\ <<Open>> \o u \in Seq(S) /\ Len(<<Open>> \o u) = Len(u) + 1
      /\ (<<Open>> \o u)[1] = Open
      /\ \A k \in 1..Len(u) : (<<Open>> \o u)[k + 1] = u[k]
  BY <1>1
<1>. DEFINE v == <<Open>> \o u
<1>3. /\ Payload(u) \in Seq(S) /\ Len(Payload(u)) = Len(u) + 2
      /\ Payload(u)[1] = Open /\ Payload(u)[Len(u) + 2] = Close
      /\ \A k \in 1..Len(u) : Payload(u)[k + 1] = u[k]
  <2>1. Payload(u) = v \o <<Close>> BY DEF Payload
  <2>2. v \in Seq(S) /\ Len(v) = Len(u) + 1 /\ v[1] = Open /\ \A k \in 1..Len(u) : v[k + 1] = u[k]
    BY <1>2
  <2>. HIDE DEF v
  <2>. QED BY <1>1, <2>1, <2>2
<1>4. Raw(u) = <<Header, Dot>> \o Payload(u) BY DEF Raw
<1>5. /\ Raw(u) \in Seq(S) /\ Len(Raw(u)) = Len(u) + 4
      /\ Raw(u)[1] = Header /\ Raw(u)[2] = Dot
      /\ \A k \in 1..(Len(u) + 2) : Raw(u)[k + 2] = Payload(u)[k]
  BY <1>1, <1>3, <1>4
<1>6. Raw(u)[3] = Open /\ Raw(u)[Len(u) + 4] = Close
  BY <1>1, <1>3, <1>5
<1>7. ASSUME NEW k \in 1..Len(u) PROVE Raw(u)[k + 3] = u[k]
  <2>1. k + 1 \in 1..(Len(u) + 2) /\ (k + 1) + 2 = k + 3 BY <1>1
  <2>2. Raw(u)[(k + 1) + 2] = Payload(u)[k + 1] BY <1>5, <2>1
  <2>. QED BY <1>3, <2>1, <2>2
<1>. QED BY <1>5, <1>6, <1>7 DEF S

(* Where the pieces of a token are: its last dot is the one before the signature. *)
LEMMA TokenShape ==
  ASSUME NEW W, NEW u \in Seq(W)
  PROVE  /\ issueToken(u) \in Seq(PiecesOf(W, u))
         /\ Len(issueToken(u)) = Len(u) + 6
         /\ \A k \in 1..(Len(u) + 4) : issueToken(u)[k] = Raw(u)[k]
         /\ issueToken(u)[Len(u) + 5] = Dot
         /\ issueToken(u)[Len(u) + 6] = sign(Raw(u))
<1>. DEFINE S == PiecesOf(W, u)
            g == sign(Raw(u))
<1>1. issueToken(u) = Raw(u) \o <<Dot, g>> BY DEF issueToken, Raw
<1>2. Raw(u) \in Seq(S) /\ Len(Raw(u)) = Len(u) + 4 /\ Len(u) \in Nat
  <2>. DEFINE R == W \cup {Header, Dot, Open, Close}
  <2>1. Raw(u) \in Seq(R) /\ Len(Raw(u)) = Len(u) + 4 BY RawShape
  <2>2. R \subseteq S BY DEF PiecesOf
  <2>. HIDE DEF R, S
  <2>. QED BY <2>1, <2>2
<1>3. Dot \in S /\ g \in S BY DEF PiecesOf
<1>. HIDE DEF S, g
<1>4. <<Dot, g>> \in Seq(S) BY <1>3
<1>5. /\ issueToken(u) \in Seq(S) /\ Len(issueToken(u)) = Len(u) + 6
      /\ \A k \in 1..(Len(u) + 4) : issueToken(u)[k] = Raw(u)[k]
      /\ issueToken(u)[Len(u) + 5] = Dot
      /\ issueToken(u)[Len(u) + 6] = g
  BY <1>1, <1>2, <1>4
<1>. QED BY <1>5 DEF S, g

(* The pieces are told apart. *)
LEMMA Distinct ==
  /\ Header # Dot /\ Open # Dot /\ Close # Dot
  /\ Header # Blank /\ Open # Blank /\ Close # Blank /\ Dot # Blank
  /\ Header # Open /\ Header # Close /\ Open # Close /\ Piece("Bearer") # Blank
  /\ \A d : sign(d) # Dot /\ sign(d) # Blank
<1>1. \A d : sign(d).name = "sha1" BY DEF sign
<1>2. Dot.name = "." /\ Blank.name = " " /\ Header.name = "header" /\ Open.name = "open"
      /\ Close.name = "close" /\ Piece("Bearer").name = "Bearer"
  BY DEF Dot, Blank, Header, Open, Close, Piece
<1>. QED BY <1>1, <1>2, Zenon

(* Find and RFind give the least and the greatest place of a piece. *)
LEMMA FindIs ==
  ASSUME NEW t, NEW p, NEW i \in Places(t, p), Places(t, p) \subseteq Nat,
         \A j \in Places(t, p) : i <= j
  PROVE  Find(t, p) = i
<1>1. \A k \in Places(t, p) : (\A j \in Places(t, p) : k <= j) => k = i
  OBVIOUS
<1>. QED BY <1>1 DEF Find

(* A set of natural numbers that is not empty has a least element. *)
LEMMA LeastNatural ==
  ASSUME NEW Q, Q \subseteq Nat, Q # {}
  PROVE  \E i \in Q : \A j \in Q : i <= j
<1>. DEFINE R == OpToRel(<, Nat)
<1>1. IsWellFoundedOn(R, Nat) BY NatLessThanWellFounded, Zenon
<1>2. \A i, j \in Nat : j < i => <<j, i>> \in R BY DEF OpToRel
<1>. HIDE DEF R
<1>3. PICK i \in Q : \A j \in Q : ~(<<j, i>> \in R) BY <1>1, WFMin, Zenon
<1>4. \A j \in Q : ~(j < i) BY <1>2, <1>3, Zenon
<1>. QED BY <1>4

(* The greatest, for RFind. *)
LEMMA RFindIs ==
  ASSUME NEW t, NEW p, NEW i \in Places(t, p), Places(t, p) \subseteq Nat,
         \A j \in Places(t, p) : j <= i
  PROVE  RFind(t, p) = i
<1>1. \A k \in Places(t, p) : (\A j \in Places(t, p) : j <= k) => k = i
  OBVIOUS
<1>. QED BY <1>1 DEF RFind

(* A part of one piece. *)
LEMMA OnePiece ==
  ASSUME NEW S, NEW t \in Seq(S), NEW i \in 1..Len(t)
  PROVE  SubSeq(t, i, i) = <<t[i]>>
<1>. DEFINE d == SubSeq(t, i, i)
            e == <<t[i]>>
<1>1. d \in Seq(S) /\ Len(d) = 1 /\ d[1] = t[i] OBVIOUS
<1>2. e \in Seq(S) /\ Len(e) = 1 /\ e[1] = t[i] OBVIOUS
<1>. HIDE DEF d, e
<1>3. Len(d) = Len(e) /\ \A k \in 1..Len(d) : d[k] = e[k] BY <1>1, <1>2
<1>4. d = e BY <1>1, <1>2, <1>3, SeqEqual, Zenon
<1>. QED BY <1>4 DEF d, e

(* The payload of a token lies between its first and its last dot. *)
LEMMA TokenDots ==
  ASSUME NEW W, NEW u \in Seq(W)
  PROVE  Find(issueToken(u), Dot) = 2 /\ RFind(issueToken(u), Dot) = Len(u) + 5
<1>. DEFINE t == issueToken(u)
<1>1. /\ DOMAIN t = 1..(Len(u) + 6) /\ Len(u) \in Nat
      /\ t[1] = Header /\ t[2] = Dot
      /\ t[Len(u) + 5] = Dot /\ t[Len(u) + 6] = sign(Raw(u))
  <2>1. Len(u) \in Nat /\ 1 \in 1..(Len(u) + 4) /\ 2 \in 1..(Len(u) + 4) OBVIOUS
  <2>2. t[1] = Raw(u)[1] /\ t[2] = Raw(u)[2] BY <2>1, TokenShape, Zenon
  <2>3. Raw(u)[1] = Header /\ Raw(u)[2] = Dot BY RawShape, Zenon
  <2>4. DOMAIN t = 1..Len(t) /\ Len(t) = Len(u) + 6
    <3>1. t \in Seq(PiecesOf(W, u)) BY TokenShape
    <3>. HIDE DEF t
    <3>2. DOMAIN t = 1..Len(t) BY <3>1, LenProperties
    <3>. QED BY <3>2, TokenShape, Zenon DEF t
  <2>5. t[Len(u) + 5] = Dot /\ t[Len(u) + 6] = sign(Raw(u)) BY TokenShape, Zenon
  <2>. QED BY <2>1, <2>2, <2>3, <2>4, <2>5
<1>. HIDE DEF t
<1>2. 2 \in Places(t, Dot) /\ Len(u) + 5 \in Places(t, Dot) /\ Places(t, Dot) \subseteq Nat
  BY <1>1 DEF Places
<1>3. \A j \in Places(t, Dot) : 2 <= j /\ j <= Len(u) + 5
  BY <1>1, Distinct DEF Places
<1>. QED BY <1>2, <1>3, FindIs, RFindIs, Zenon DEF t

(***************************************************************************)
(* A token that was issued is valid, and the user id in it is the one it   *)
(* was issued for, whatever dots and blanks that has.                      *)
(***************************************************************************)
THEOREM RoundTrip ==
  ASSUME NEW W, W \cap {Open, Close} = {}, NEW u \in Seq(W)
  PROVE  validateToken(issueToken(u)) /\ extractUserId(issueToken(u)) = u
<1>. DEFINE t == issueToken(u)
            n == Len(u)
            S == PiecesOf(W, u)
<1>1. Find(t, Dot) = 2 /\ RFind(t, Dot) = n + 5 BY TokenDots
<1>2. /\ t \in Seq(S) /\ Len(t) = n + 6 /\ n \in Nat
      /\ \A k \in 1..(n + 4) : t[k] = Raw(u)[k]
      /\ t[n + 6] = sign(Raw(u))
  <2>1. n \in Nat BY LenProperties
  <2>. QED BY <2>1, TokenShape, Zenon
<1>3. /\ Raw(u) \in Seq(S) /\ Len(Raw(u)) = n + 4
      /\ Raw(u)[3] = Open /\ Raw(u)[n + 4] = Close
      /\ \A k \in 1..n : Raw(u)[k + 3] = u[k]
  <2>. DEFINE R == W \cup {Header, Dot, Open, Close}
  <2>1. R \subseteq S BY DEF PiecesOf
  <2>2. Raw(u) \in Seq(R) BY RawShape
  <2>. HIDE DEF R, S
  <2>3. Raw(u) \in Seq(S) BY <2>1, <2>2
  <2>. QED BY <2>3, RawShape, Zenon
<1>4. u \in Seq(S)
  <2>1. W \subseteq S BY DEF PiecesOf
  <2>. HIDE DEF S
  <2>. QED BY <2>1
<1>. HIDE DEF t, n, S
<1>5. validateToken(t)
  <2>1. SubSeq(t, 1, n + 4) = Raw(u)
    <3>. DEFINE d == SubSeq(t, 1, n + 4)
    <3>1. d \in Seq(S) /\ Len(d) = n + 4 /\ \A k \in 1..(n + 4) : d[k] = t[k]
      BY <1>2
    <3>. HIDE DEF d
    <3>2. d = Raw(u) BY <1>2, <1>3, <3>1, SeqEqual
    <3>. QED BY <3>2 DEF d
  <2>2. SubSeq(t, n + 6, n + 6) = <<t[n + 6]>>
    <3>1. n + 6 \in 1..Len(t) BY <1>2
    <3>. QED BY <1>2, <3>1, OnePiece
  <2>3. RFind(t, Dot) # 0 /\ RFind(t, Dot) + 1 = n + 6 /\ RFind(t, Dot) - 1 = n + 4
    BY <1>1, <1>2
  <2>4. SubSeq(t, n + 6, Len(t)) = <<sign(SubSeq(t, 1, n + 4))>>
    BY <1>2, <2>1, <2>2, Zenon
  <2>. QED BY <2>3, <2>4 DEF validateToken
<1>6. extractUserId(t) = u
  <2>. DEFINE p == SubSeq(t, 3, n + 4)
  <2>1. /\ p \in Seq(S) /\ Len(p) = n + 2
        /\ \A k \in 1..(n + 2) : p[k] = t[k + 2]
    BY <1>2
  <2>. HIDE DEF p
  <2>2. p[1] = Open /\ p[n + 2] = Close /\ \A k \in 1..n : p[k + 1] = u[k]
    <3>1. p[1] = Open BY <1>2, <1>3, <2>1
    <3>2. p[n + 2] = Close BY <1>2, <1>3, <2>1
    <3>3. ASSUME NEW k \in 1..n PROVE p[k + 1] = u[k]
      <4>1. k + 1 \in 1..(n + 2) /\ (k + 1) + 2 = k + 3 /\ k + 3 \in 1..(n + 4) BY <1>2
      <4>2. p[k + 1] = t[k + 3] BY <2>1, <4>1
      <4>. QED BY <1>2, <1>3, <4>1, <4>2
    <3>. QED BY <3>1, <3>2, <3>3
  <2>3. \A k \in 1..n : u[k] \notin {Open, Close}
    BY DEF n
  <2>4. IsObject(p)
    <3>1. DOMAIN p = 1..(n + 2) BY <2>1, LenProperties
    <3>2. ASSUME NEW i \in 2..(n + 1) PROVE p[i] \notin {Open, Close}
      <4>1. i - 1 \in 1..n /\ (i - 1) + 1 = i BY <1>2
      <4>. QED BY <2>2, <2>3, <4>1
    <3>3. \A i \in DOMAIN p : i = 1 \/ i = n + 2 \/ i \in 2..(n + 1) BY <1>2, <3>1
    <3>4. 1 \in DOMAIN p /\ n + 2 \in DOMAIN p BY <1>2, <3>1
    <3>5. Places(p, Open) = {1} BY <2>2, <3>2, <3>3, <3>4, Distinct, Zenon DEF Places
    <3>6. Places(p, Close) = {Len(p)} BY <2>1, <2>2, <3>2, <3>3, <3>4, Distinct DEF Places
    <3>. QED BY <1>2, <2>1, <3>5, <3>6 DEF IsObject
  <2>5. SubSeq(p, 2, n + 1) = u
    <3>. DEFINE d == SubSeq(p, 2, n + 1)
    <3>1. d \in Seq(S) /\ Len(d) = n /\ \A k \in 1..n : d[k] = p[k + 1]
      BY <1>2, <2>1
    <3>. HIDE DEF d
    <3>2. Len(u) = n BY DEF n
    <3>3. Len(d) = Len(u) /\ \A k \in 1..Len(d) : d[k] = u[k] BY <2>2, <3>1, <3>2
    <3>4. d = u BY <1>4, <3>1, <3>3, SeqEqual
    <3>. QED BY <3>4 DEF d
  <2>. QED BY <1>1, <1>2, <2>1, <2>4, <2>5 DEF extractUserId, p
<1>. QED BY <1>5, <1>6 DEF t

(* After a scheme the whole token is taken, blanks in it included. *)
LEMMA BearerToken ==
  ASSUME NEW S, NEW t \in Seq(S)
  PROVE  TokenOf(<<Piece("Bearer"), Blank>> \o t) = t
<1>. DEFINE B == Piece("Bearer")
            T == S \cup {B, Blank}
            a == <<B, Blank>> \o t
<1>0. B # Blank BY Distinct
<1>. HIDE DEF B
<1>1. t \in Seq(T) /\ <<B, Blank>> \in Seq(T) /\ Len(t) \in Nat OBVIOUS
<1>. HIDE DEF T
<1>2. /\ a \in Seq(T) /\ Len(a) = Len(t) + 2 /\ a[1] = B /\ a[2] = Blank
      /\ \A k \in 1..Len(t) : a[k + 2] = t[k]
  BY <1>1
<1>. HIDE DEF a
<1>3. DOMAIN a = 1..(Len(t) + 2) BY <1>2, LenProperties
<1>4. 2 \in Places(a, Blank) /\ Places(a, Blank) \subseteq Nat BY <1>1, <1>2, <1>3 DEF Places
<1>5. \A j \in Places(a, Blank) : 2 <= j BY <1>0, <1>1, <1>2, <1>3 DEF Places
<1>6. Find(a, Blank) = 2 BY <1>4, <1>5, FindIs
<1>7. SubSeq(a, 3, Len(a)) = t
  <2>. DEFINE d == SubSeq(a, 3, Len(a))
  <2>1. d \in Seq(T) /\ Len(d) = Len(t) /\ \A k \in 1..Len(t) : d[k] = a[k + 2]
    BY <1>1, <1>2
  <2>. HIDE DEF d
  <2>2. \A k \in 1..Len(d) : d[k] = t[k] BY <1>2, <2>1, Zenon
  <2>3. d = t BY <1>1, <2>1, <2>2, SeqEqual
  <2>. QED BY <2>3, Zenon DEF d
<1>8. TokenOf(a) = t BY <1>6, <1>7 DEF TokenOf
<1>. QED BY <1>8 DEF a, B

(* The blanks of a token are those of the user id. *)
LEMMA TokenBlanks ==
  ASSUME NEW W, NEW u \in Seq(W)
  PROVE  \A i : i \in Places(issueToken(u), Blank) <=> i \in 4..(Len(u) + 3) /\ u[i - 3] = Blank
<1>. DEFINE t == issueToken(u)
            n == Len(u)
<1>1. n \in Nat BY LenProperties
<1>2. /\ t \in Seq(PiecesOf(W, u)) /\ Len(t) = n + 6
      /\ \A k \in 1..(n + 4) : t[k] = Raw(u)[k]
      /\ t[n + 5] = Dot /\ t[n + 6] = sign(Raw(u))
  BY TokenShape, Zenon
<1>3. /\ Raw(u)[1] = Header /\ Raw(u)[2] = Dot /\ Raw(u)[3] = Open /\ Raw(u)[n + 4] = Close
      /\ \A k \in 1..n : Raw(u)[k + 3] = u[k]
  BY RawShape, Zenon
<1>. HIDE DEF t, n
<1>4. DOMAIN t = 1..(n + 6) BY <1>2, LenProperties
<1>5. /\ t[1] # Blank /\ t[2] # Blank /\ t[3] # Blank
      /\ t[n + 4] # Blank /\ t[n + 5] # Blank /\ t[n + 6] # Blank
  <2>1. 1 \in 1..(n + 4) /\ 2 \in 1..(n + 4) /\ 3 \in 1..(n + 4) /\ n + 4 \in 1..(n + 4)
    BY <1>1
  <2>. QED BY <1>2, <1>3, <2>1, Distinct
<1>6. ASSUME NEW i \in 4..(n + 3) PROVE i \in DOMAIN t /\ t[i] = u[i - 3]
  <2>1. i \in 1..(n + 4) /\ i - 3 \in 1..n /\ (i - 3) + 3 = i BY <1>1
  <2>2. i \in DOMAIN t BY <1>1, <1>4
  <2>. QED BY <1>2, <1>3, <2>1, <2>2, Zenon
<1>7. \A i \in DOMAIN t : i \in 4..(n + 3) \/ i \in {1, 2, 3, n + 4, n + 5, n + 6}
  BY <1>1, <1>4
<1>8. \A i : i \in Places(t, Blank) <=> i \in 4..(n + 3) /\ u[i - 3] = Blank
  BY <1>5, <1>6, <1>7 DEF Places
<1>. QED BY <1>8 DEF t, n

(* Without a scheme and without a blank in the user id, the token is taken. *)
LEMMA BareToken ==
  ASSUME NEW W, NEW u \in Seq(W), Places(u, Blank) = {}
  PROVE  TokenOf(issueToken(u)) = issueToken(u)
<1>. DEFINE t == issueToken(u)
<1>1. Places(t, Blank) = {}
  <2>1. \A i \in 4..(Len(u) + 3) : u[i - 3] # Blank
    <3>1. DOMAIN u = 1..Len(u) /\ Len(u) \in Nat BY LenProperties
    <3>2. \A k \in 1..Len(u) : u[k] # Blank BY <3>1 DEF Places
    <3>. QED BY <3>1, <3>2
  <2>. QED BY <2>1, TokenBlanks
<1>2. t \in Seq(PiecesOf(W, u)) BY TokenShape
<1>. HIDE DEF t
<1>3. Find(t, Blank) + 1 = 1 BY <1>1 DEF Find
<1>4. SubSeq(t, 1, Len(t)) = t
  <2>. DEFINE d == SubSeq(t, 1, Len(t))
              P == PiecesOf(W, u)
  <2>. HIDE DEF P
  <2>0. t \in Seq(P) BY <1>2 DEF P
  <2>1. d \in Seq(P) /\ Len(d) = Len(t) /\ \A k \in 1..Len(t) : d[k] = t[k] BY <2>0
  <2>. HIDE DEF d
  <2>2. d = t BY <2>0, <2>1, SeqEqual
  <2>. QED BY <2>2 DEF d
<1>5. TokenOf(t) = t BY <1>3, <1>4 DEF TokenOf
<1>. QED BY <1>5 DEF t

(***************************************************************************)
(* Without a scheme, the token of a user id with a blank is cut at it.     *)
(* What is left is shorter than what was signed, so it is refused.         *)
(***************************************************************************)
LEMMA CutToken ==
  ASSUME NEW W, NEW u \in Seq(W), Places(u, Blank) # {}
  PROVE  ~validateToken(TokenOf(issueToken(u)))
<1>. DEFINE t == issueToken(u)
            n == Len(u)
            P == PiecesOf(W, u)
            b == Find(t, Blank)
<1>1. n \in Nat /\ DOMAIN u = 1..n BY LenProperties
<1>2. t \in Seq(P) /\ Len(t) = n + 6 /\ t[n + 5] = Dot /\ t[n + 6] = sign(Raw(u))
  BY TokenShape
<1>3. Len(Raw(u)) = n + 4 BY RawShape, Zenon
<1>4. b \in 4..(n + 3)
  <2>. DEFINE Q == Places(t, Blank)
  <2>1. Q # {}
    <3>1. PICK k \in 1..n : u[k] = Blank BY <1>1 DEF Places
    <3>2. k + 3 \in 4..(n + 3) /\ (k + 3) - 3 = k BY <1>1
    <3>3. k + 3 \in Q BY <3>1, <3>2, TokenBlanks
    <3>. QED BY <3>3
  <2>2. Q \subseteq 4..(n + 3) BY TokenBlanks
  <2>3. \E i \in Q : \A j \in Q : i <= j
    <3>1. Q \subseteq Nat BY <1>1, <2>2
    <3>. QED BY <2>1, <3>1, LeastNatural
  <2>4. b \in Q BY <2>1, <2>3, Zenon DEF Find
  <2>. QED BY <2>2, <2>4
<1>. DEFINE c == SubSeq(t, b + 1, Len(t))
            m == n + 6 - b
<1>. HIDE DEF t, n, P, b
<1>5. /\ c \in Seq(P) /\ Len(c) = m /\ \A k \in 1..m : c[k] = t[k + b]
      /\ m \in Nat /\ m >= 3 /\ m < n + 6
  BY <1>1, <1>2, <1>4
<1>6. c[m - 1] = Dot /\ c[m] = sign(Raw(u))
  <2>1. m - 1 \in 1..m /\ (m - 1) + b = n + 5 /\ m \in 1..m /\ m + b = n + 6 BY <1>1, <1>4
  <2>. QED BY <1>2, <1>5, <2>1, Zenon
<1>. HIDE DEF c, m
<1>7. RFind(c, Dot) = m - 1
  <2>1. DOMAIN c = 1..m BY <1>5, LenProperties
  <2>2. m - 1 \in Places(c, Dot) /\ Places(c, Dot) \subseteq Nat BY <1>5, <1>6, <2>1 DEF Places
  <2>3. \A j \in Places(c, Dot) : j <= m - 1 BY <1>5, <1>6, <2>1, Distinct DEF Places
  <2>. QED BY <2>2, <2>3, RFindIs
<1>8. SubSeq(c, m, m) = <<sign(Raw(u))>>
  <2>1. m \in 1..Len(c) BY <1>5
  <2>. QED BY <1>5, <1>6, <2>1, OnePiece, Zenon
<1>9. Len(SubSeq(c, 1, m - 2)) # Len(Raw(u)) BY <1>1, <1>3, <1>5
<1>10. sign(SubSeq(c, 1, m - 2)) # sign(Raw(u))
  <2>1. sign(SubSeq(c, 1, m - 2)).of = SubSeq(c, 1, m - 2) /\ sign(Raw(u)).of = Raw(u)
    BY Zenon DEF sign
  <2>. QED BY <1>9, <2>1, Zenon
<1>11. ~validateToken(c)
  <2>1. (m - 1) + 1 = m /\ (m - 1) - 1 = m - 2 BY <1>5
  <2>2. validateToken(c) => SubSeq(c, m, m) = <<sign(SubSeq(c, 1, m - 2))>>
    BY <1>5, <1>7, <2>1, Zenon DEF validateToken
  <2>. QED BY <1>8, <1>10, <2>2
<1>. QED BY <1>11 DEF TokenOf, c, t, b
----------------------------------------------------------------------------
(***************************************************************************)
(* The inductive invariant: a thread runs the query of a session that is   *)
(* waiting for it and of no other, such a session has read a request for   *)
(* the history, and a client's token is the one issued for its user.       *)
(***************************************************************************)
ServingInv ==
  /\ \A n \in NetThreads : serving[n] # Nobody => http[serving[n]] = "routing"
  /\ \A c \in Clients : http[c] = "routing" => request[c] = "history"

TokenInv ==
  /\ token = [c \in Clients |-> token[c]]
  /\ \A c \in Clients : token[c] # <<>> => token[c] = issueToken(user[c])

HttpInv ==
  /\ HttpTypeOK /\ ServingInv /\ TokenInv
  /\ OneThreadPerSession /\ AnswersItsRequest /\ RefreshIsGranted

(* The token of a client is a text, and its user id is a sequence of words. *)
LEMMA UserIsText ==
  ASSUME HttpTypeOK, NEW c \in Clients
  PROVE  user[c] \in Seq(Words)
<1>1. user[c] \in UserIds \cup {<<>>} BY DEF HttpTypeOK
<1>2. UserIds \subseteq Seq(Words) BY HttpAssumption
<1>3. <<>> \in Seq(Words) OBVIOUS
<1>. QED BY <1>1, <1>2, <1>3, Zenon

(* What route does with a request to refresh, by what the field has. *)
LEMMA RefreshCases ==
  ASSUME HttpTypeOK, TokenInv, NEW c \in Clients, NEW r \in Refreshing,
         r # "no_token" => token[c] # <<>>
  PROVE  LET t == TokenOf(Authorization(c, r)) IN
         IF r = "bearer" \/ (r = "bare" /\ Places(user[c], Blank) = {})
           THEN validateToken(t) /\ issueToken(extractUserId(t)) = issueToken(user[c])
           ELSE ~validateToken(t)
<1>. DEFINE u == user[c]
            t == TokenOf(Authorization(c, r))
<1>1. u \in Seq(Words) BY UserIsText
<1>2. r # "no_token" => token[c] = issueToken(u) BY DEF TokenInv
<1>3. validateToken(issueToken(u)) /\ extractUserId(issueToken(u)) = u
  BY <1>1, HttpAssumption, RoundTrip, Zenon
<1>. HIDE DEF u
<1>4. CASE r = "bearer"
  <2>1. issueToken(u) \in Seq(PiecesOf(Words, u)) BY <1>1, TokenShape
  <2>2. t = issueToken(u) BY <1>2, <1>4, <2>1, BearerToken, Zenon DEF Authorization
  <2>. QED BY <1>3, <1>4, <2>2, Zenon DEF u
<1>5. CASE r = "bare" /\ Places(u, Blank) = {}
  <2>1. t = issueToken(u) BY <1>1, <1>2, <1>5, BareToken, Zenon DEF Authorization
  <2>. QED BY <1>3, <1>5, <2>1, Zenon DEF u
<1>6. CASE r = "bare" /\ Places(u, Blank) # {}
  <2>1. ~validateToken(t) BY <1>1, <1>2, <1>6, CutToken, Zenon DEF Authorization
  <2>. QED BY <1>6, <2>1 DEF u
<1>7. CASE r = "no_token"
  <2>1. Authorization(c, r) = <<>> BY <1>7 DEF Authorization
  <2>2. t = <<>> BY <2>1 DEF TokenOf, Find, Places
  <2>3. ~validateToken(<<>>) BY DEF validateToken, RFind, Places
  <2>. QED BY <1>7, <2>2, <2>3
<1>. QED BY <1>4, <1>5, <1>6, <1>7 DEF Refreshing, u

(* The initial state has no session and no token. *)
LEMMA InitHttpInv == HttpInit => HttpInv
<1>. SUFFICES ASSUME HttpInit PROVE HttpInv OBVIOUS
<1>1. HttpTypeOK BY DEF HttpInit, HttpTypeOK
<1>2. ServingInv BY DEF HttpInit, ServingInv
<1>3. TokenInv BY DEF HttpInit, TokenInv
<1>4. OneThreadPerSession BY DEF HttpInit, OneThreadPerSession
<1>5. AnswersItsRequest /\ RefreshIsGranted
  BY DEF HttpInit, AnswersItsRequest, RefreshIsGranted
<1>. QED BY <1>1, <1>2, <1>3, <1>4, <1>5, Zenon DEF HttpInv

(* The steps of the sessions that read or write and do not use the pool. *)
LEMMA SessionStep ==
  ASSUME HttpInv, NEW c \in Clients, Accept(c) \/ OnReadError(c) \/ OnWrite(c)
  PROVE  HttpInv'
<1>. USE DEF Accept, OnReadError, OnWrite, DoRead, Destroy
<1>1. HttpTypeOK' BY DEF HttpInv, HttpTypeOK
<1>2. ServingInv' BY HttpAssumption DEF HttpInv, HttpTypeOK, ServingInv
<1>3. TokenInv' BY Zenon DEF HttpInv, TokenInv
<1>4. OneThreadPerSession' BY Zenon DEF HttpInv, OneThreadPerSession
<1>5. AnswersItsRequest' BY DEF HttpInv, HttpTypeOK, AnswersItsRequest
<1>6. RefreshIsGranted'
  <2>1. \A d \in Clients : http'[d] = "writing" =>
          http[d] = "writing" /\ request'[d] = request[d] /\ status'[d] = status[d]
    BY DEF HttpInv, HttpTypeOK
  <2>. QED BY <2>1 DEF HttpInv, RefreshIsGranted
<1>. QED BY <1>1, <1>2, <1>3, <1>4, <1>5, <1>6, Zenon DEF HttpInv

(* A response that route makes at once. *)
LEMMA AnswerStep ==
  ASSUME HttpInv, NEW n \in NetThreads, NEW c \in Clients, NEW r, Reads(n, c, r),
         NEW code \in {200, 202, 401, 404}, Respond(c, code), UNCHANGED <<serving, backlog>>,
         r \notin Refreshing => code = Status(r),
         user' \in [Clients -> UserIds \cup {<<>>}], TokenInv',
         \A d \in Clients : d # c => user'[d] = user[d],
         r \in Refreshing => ((code = 200) <=>
            (r = "bearer" \/ (r = "bare" /\ Places(user'[c], Blank) = {})))
  PROVE  HttpInv'
<1>. USE DEF Reads, Respond
<1>1. HttpTypeOK' BY ZenonT(60) DEF HttpInv, HttpTypeOK, TokenInv
<1>2. ServingInv' BY HttpAssumption DEF HttpInv, HttpTypeOK, ServingInv
<1>4. OneThreadPerSession' BY DEF HttpInv, OneThreadPerSession
<1>5. AnswersItsRequest' BY DEF HttpInv, HttpTypeOK, AnswersItsRequest
<1>6. RefreshIsGranted' BY DEF HttpInv, HttpTypeOK, RefreshIsGranted
<1>. QED BY <1>1, <1>2, <1>4, <1>5, <1>6, Zenon DEF HttpInv

(* POST /login gives the token of the user id it was sent. *)
LEMMA LoginStep ==
  ASSUME HttpInv, NEW n \in NetThreads, NEW c \in Clients, NEW u \in UserIds, OnLogin(n, c, u)
  PROVE  HttpInv'
<1>1. user' \in [Clients -> UserIds \cup {<<>>}] BY DEF OnLogin, HttpInv, HttpTypeOK
<1>2. \A d \in Clients : d # c => user'[d] = user[d] BY DEF OnLogin, HttpInv, HttpTypeOK
<1>3. TokenInv'
  <2>1. user'[c] = u BY DEF OnLogin, HttpInv, HttpTypeOK
  <2>2. token'[c] = issueToken(u) BY DEF OnLogin, HttpInv, TokenInv
  <2>3. \A d \in Clients : d # c => token'[d] = token[d] BY DEF OnLogin, HttpInv, TokenInv
  <2>4. token' = [d \in Clients |-> token'[d]] BY DEF OnLogin, HttpInv, TokenInv
  <2>. QED BY <1>2, <2>1, <2>2, <2>3, <2>4, Zenon DEF HttpInv, TokenInv
<1>4. Status("login") = 200 BY DEF Status
<1>5. /\ Reads(n, c, "login") /\ Respond(c, Status("login"))
      /\ UNCHANGED <<serving, backlog>>
  BY SMTT(30) DEF OnLogin
<1>6. "login" \notin Refreshing BY DEF Refreshing
<1>. QED BY <1>1, <1>2, <1>3, <1>4, <1>5, <1>6, AnswerStep, SMTT(30)

(* POST /refresh gives the same token again or none. *)
LEMMA RefreshStep ==
  ASSUME HttpInv, NEW n \in NetThreads, NEW c \in Clients, NEW r \in Requests,
         OnRefresh(n, c, r)
  PROVE  HttpInv'
<1>. DEFINE t == TokenOf(Authorization(c, r))
<1>1. /\ r \in Refreshing
      /\ r # "no_token" => token[c] # <<>>
      /\ Reads(n, c, r) /\ UNCHANGED <<serving, backlog>> /\ user' = user
  BY Zenon DEF OnRefresh
<1>2. \/ /\ validateToken(t)
         /\ token' = [token EXCEPT ![c] = issueToken(extractUserId(t))]
         /\ Respond(c, 200)
      \/ ~validateToken(t) /\ Respond(c, 401) /\ token' = token
  BY Zenon DEF OnRefresh
<1>3. IF r = "bearer" \/ (r = "bare" /\ Places(user[c], Blank) = {})
        THEN validateToken(t) /\ issueToken(extractUserId(t)) = issueToken(user[c])
        ELSE ~validateToken(t)
  BY <1>1, RefreshCases, Zenon DEF HttpInv
<1>. HIDE DEF t
<1>4. user \in [Clients -> UserIds \cup {<<>>}] BY DEF HttpInv, HttpTypeOK
<1>5. CASE validateToken(t)
  <2>1. /\ token' = [token EXCEPT ![c] = issueToken(user[c])] /\ Respond(c, 200)
        /\ r = "bearer" \/ (r = "bare" /\ Places(user[c], Blank) = {})
    BY <1>2, <1>3, <1>5, Zenon
  <2>2. TokenInv' BY <1>1, <2>1, Zenon DEF HttpInv, TokenInv
  <2>. QED BY <1>1, <1>4, <2>1, <2>2, AnswerStep, SMTT(30)
<1>6. CASE ~validateToken(t)
  <2>1. /\ token' = token /\ Respond(c, 401)
        /\ ~(r = "bearer" \/ (r = "bare" /\ Places(user[c], Blank) = {}))
    BY <1>2, <1>3, <1>6, Zenon
  <2>2. TokenInv' BY <1>1, <2>1 DEF HttpInv, TokenInv
  <2>. QED BY <1>1, <1>4, <2>1, <2>2, AnswerStep, SMTT(30)
<1>. QED BY <1>5, <1>6, Zenon

(* The other requests that need no connection of the pool. *)
LEMMA PlainStep ==
  ASSUME HttpInv, NEW n \in NetThreads, NEW c \in Clients, NEW r \in Requests,
         OnRead(n, c, r) \/ OnReadThrows(n, c, r)
  PROVE  HttpInv'
<1>1. CASE OnRead(n, c, r)
  <2>1. Status(r) \in {200, 202, 401, 404} BY DEF Status
  <2>2. r \notin Refreshing BY <1>1 DEF OnRead, Plain, Refreshing
  <2>3. TokenInv' BY <1>1, Zenon DEF OnRead, HttpInv, TokenInv
  <2>4. user' = user /\ user \in [Clients -> UserIds \cup {<<>>}]
    BY <1>1 DEF OnRead, HttpInv, HttpTypeOK
  <2>5. Reads(n, c, r) /\ Respond(c, Status(r)) /\ UNCHANGED <<serving, backlog>>
    BY <1>1, Zenon DEF OnRead
  <2>. QED BY <2>1, <2>2, <2>3, <2>4, <2>5, AnswerStep
<1>2. CASE OnReadThrows(n, c, r)
  <2>. USE <1>2 DEF OnReadThrows, Reads
  <2>1. HttpTypeOK' BY Zenon DEF HttpInv, HttpTypeOK
  <2>2. ServingInv' BY Zenon DEF HttpInv, HttpTypeOK, ServingInv
  <2>3. TokenInv' BY Zenon DEF HttpInv, TokenInv
  <2>4. OneThreadPerSession' BY Zenon DEF HttpInv, OneThreadPerSession
  <2>5. AnswersItsRequest' BY Zenon DEF HttpInv, HttpTypeOK, AnswersItsRequest
  <2>6. RefreshIsGranted' BY DEF HttpInv, HttpTypeOK, RefreshIsGranted
  <2>. QED BY <2>1, <2>2, <2>3, <2>4, <2>5, <2>6, Zenon DEF HttpInv
<1>. QED BY <1>1, <1>2, Zenon

(* A history request: the query begins, and the response is made after it. *)
LEMMA HistoryStep ==
  ASSUME HttpInv, NEW n \in NetThreads, NEW c \in Clients,
         OnReadHistory(n, c) \/ AnswerHistory(n, c)
  PROVE  HttpInv'
<1>0. Nobody \notin Clients BY HttpAssumption, Zenon
<1>1. CASE OnReadHistory(n, c)
  <2>. USE <1>1 DEF OnReadHistory, Reads, Routing
  <2>1. HttpTypeOK' BY Zenon DEF HttpInv, HttpTypeOK
  <2>2. ServingInv' BY <1>0 DEF HttpInv, HttpTypeOK, ServingInv
  <2>3. TokenInv' BY Zenon DEF HttpInv, TokenInv
  <2>4. OneThreadPerSession' BY <1>0 DEF HttpInv, HttpTypeOK, ServingInv, OneThreadPerSession
  <2>5. AnswersItsRequest' BY Zenon DEF HttpInv, HttpTypeOK, AnswersItsRequest
  <2>6. RefreshIsGranted' BY Zenon DEF HttpInv, HttpTypeOK, RefreshIsGranted
  <2>. QED BY <2>1, <2>2, <2>3, <2>4, <2>5, <2>6, Zenon DEF HttpInv
<1>2. CASE AnswerHistory(n, c)
  <2>. USE <1>2 DEF AnswerHistory, Respond
  <2>0. http[c] = "routing" /\ request[c] = "history" /\ Status("history") = 200
    BY <1>0, Zenon DEF HttpInv, ServingInv, Status
  <2>1. HttpTypeOK' BY <2>0, Zenon DEF HttpInv, HttpTypeOK
  <2>2. ServingInv' BY <1>0, SMTT(30) DEF HttpInv, HttpTypeOK, ServingInv, OneThreadPerSession
  <2>3. TokenInv' BY Zenon DEF HttpInv, TokenInv
  <2>4. OneThreadPerSession' BY <1>0, SMTT(30) DEF HttpInv, HttpTypeOK, OneThreadPerSession
  <2>5. AnswersItsRequest' BY <2>0 DEF HttpInv, HttpTypeOK, AnswersItsRequest
  <2>6. RefreshIsGranted' BY <2>0, SMTT(30) DEF HttpInv, HttpTypeOK, RefreshIsGranted, Refreshing
  <2>. QED BY <2>1, <2>2, <2>3, <2>4, <2>5, <2>6, Zenon DEF HttpInv
<1>. QED BY <1>1, <1>2, Zenon

(***************************************************************************)
(* Every step keeps the invariant; the steps of the pool and of the        *)
(* workers leave the sessions alone.                                       *)
(***************************************************************************)
LEMMA NextHttpInv == HttpInv /\ [HttpNext]_allVars => HttpInv'
<1>. SUFFICES ASSUME HttpInv, [HttpNext]_allVars PROVE HttpInv' BY Zenon
<1>1. ASSUME UNCHANGED <<http, request, status, token, user, serving>>, backlog' \in Nat
      PROVE  HttpInv'
  BY <1>1 DEF HttpInv, HttpTypeOK, ServingInv, TokenInv, OneThreadPerSession,
              AnswersItsRequest, RefreshIsGranted
<1>2. backlog \in Nat BY DEF HttpInv, HttpTypeOK
<1>3. CASE UNCHANGED httpVars BY <1>1, <1>2, <1>3, Zenon DEF httpVars
<1>4. CASE Enqueue BY <1>1, <1>2, <1>4 DEF Enqueue
<1>5. ASSUME NEW w \in Workers, StoreMessage(w) PROVE HttpInv'
  BY <1>1, <1>2, <1>5 DEF StoreMessage, Pops
<1>6. ASSUME NEW w \in Workers, StoreDone(w) \/ Transaction(w) PROVE HttpInv'
  BY <1>3, <1>6, Zenon DEF StoreDone, Transaction
<1>7. ASSUME NEW n \in NetThreads, Serve(n) PROVE HttpInv'
  BY <1>3, <1>7, HistoryStep, Zenon DEF Serve, Transaction
<1>8. ASSUME NEW c \in Clients, Accept(c) \/ OnReadError(c) \/ OnWrite(c) PROVE HttpInv'
  BY <1>8, SessionStep, Zenon
<1>9. ASSUME NEW n \in NetThreads, NEW c \in Clients,
             \/ \E r \in Requests : OnRead(n, c, r) \/ OnRefresh(n, c, r) \/ OnReadThrows(n, c, r)
             \/ \E u \in UserIds : OnLogin(n, c, u)
             \/ OnReadHistory(n, c)
      PROVE  HttpInv'
  BY <1>9, PlainStep, RefreshStep, LoginStep, HistoryStep, Zenon
<1>10. CASE UNCHANGED allVars BY <1>3, <1>10 DEF allVars
<1>. QED BY <1>4, <1>5, <1>6, <1>7, <1>8, <1>9, <1>10, Zenon DEF HttpNext

(* The inductive invariant holds for any number of threads and clients. *)
THEOREM AlwaysHttpInv == HttpSpec => []HttpInv
BY InitHttpInv, NextHttpInv, PTL DEF HttpSpec

(* The variables of the HTTP side keep their types. *)
THEOREM HttpTypes == HttpSpec => []HttpTypeOK
<1>1. HttpInv => HttpTypeOK BY DEF HttpInv
<1>. QED BY <1>1, AlwaysHttpInv, PTL

(* However often it is refreshed, a token names the user who logged in. *)
THEOREM RefreshedTokens == HttpSpec => []TokenNamesUser
<1>1. HttpInv => TokenNamesUser
  <2>. SUFFICES ASSUME HttpInv, NEW c \in Clients, token[c] # <<>>
                PROVE  validateToken(token[c]) /\ extractUserId(token[c]) = user[c]
    BY Zenon DEF TokenNamesUser
  <2>1. user[c] \in Seq(Words) BY UserIsText, Zenon DEF HttpInv
  <2>2. token[c] = issueToken(user[c]) BY DEF HttpInv, TokenInv
  <2>. QED BY <2>1, <2>2, HttpAssumption, RoundTrip, Zenon
<1>. QED BY <1>1, AlwaysHttpInv, PTL

(***************************************************************************)
(* A refresh is granted with a scheme, and without one unless the user id  *)
(* has a blank, for every user id.                                         *)
(***************************************************************************)
THEOREM RefreshRule == HttpSpec => []RefreshIsGranted
<1>1. HttpInv => RefreshIsGranted BY DEF HttpInv
<1>. QED BY <1>1, AlwaysHttpInv, PTL

(* Two network threads never run the handlers of one session. *)
THEOREM NoSharedSession == HttpSpec => []OneThreadPerSession
<1>1. HttpInv => OneThreadPerSession BY Zenon DEF HttpInv
<1>. QED BY <1>1, AlwaysHttpInv, PTL

(* A session writes the answer to the request it read last. *)
THEOREM RightAnswer == HttpSpec => []AnswersItsRequest
<1>1. HttpInv => AnswersItsRequest BY Zenon DEF HttpInv
<1>. QED BY <1>1, AlwaysHttpInv, PTL

(* A step of the HTTP server is a step of the pool, or ends the process. *)
LEMMA PoolStep ==
  ASSUME [HttpNext]_allVars
  PROVE  \/ [Next]_vars
         \/ /\ UNCHANGED <<next, acquires, pc, connection, ticket, registered>>
            /\ terminated' = TRUE
<1>. DEFINE A == [Next]_vars
            B == /\ UNCHANGED <<next, acquires, pc, connection, ticket, registered>>
                 /\ terminated' = TRUE
<1>1. ASSUME NEW t \in Threads, Transaction(t) PROVE A
  BY <1>1, Zenon DEF Transaction, Next
<1>2. ASSUME NEW t \in Threads, Acquire(t) \/ Finish(t) PROVE A
  BY <1>2 DEF Next
<1>3. NetThreads \subseteq Threads /\ Workers \subseteq Threads BY Zenon DEF Threads
<1>4. ASSUME NEW c \in Clients, Accept(c) \/ OnReadError(c) \/ OnWrite(c) PROVE A
  BY <1>4, Zenon DEF Accept, OnReadError, OnWrite
<1>5. ASSUME NEW n \in NetThreads, NEW c \in Clients, NEW r \in Requests,
             OnRead(n, c, r) \/ OnRefresh(n, c, r)
      PROVE  A
  BY <1>5, Zenon DEF OnRead, OnRefresh
<1>6. ASSUME NEW n \in NetThreads, NEW c \in Clients, NEW r \in Requests,
             OnReadThrows(n, c, r)
      PROVE  B
  BY <1>6, Zenon DEF OnReadThrows
<1>7. ASSUME NEW n \in NetThreads, NEW c \in Clients, NEW u \in UserIds, OnLogin(n, c, u)
      PROVE  A
  BY <1>7, Zenon DEF OnLogin
<1>8. ASSUME NEW n \in NetThreads, NEW c \in Clients, OnReadHistory(n, c) PROVE A
  BY <1>2, <1>3, <1>8, Zenon DEF OnReadHistory
<1>9. ASSUME NEW n \in NetThreads, Serve(n) PROVE A
  BY <1>1, <1>2, <1>3, <1>9, Zenon DEF Serve, AnswerHistory
<1>10. ASSUME Enqueue PROVE A BY <1>10, Zenon DEF Enqueue
<1>11. ASSUME NEW w \in Workers, StoreMessage(w) \/ StoreDone(w) \/ Transaction(w)
       PROVE  A
  BY <1>1, <1>2, <1>3, <1>11, Zenon DEF StoreMessage, StoreDone
<1>12. ASSUME UNCHANGED allVars PROVE A BY <1>12 DEF allVars, vars
<1>13. HttpNext \/ UNCHANGED allVars OBVIOUS
<1>. HIDE DEF A, B
<1>14. A \/ B
  BY <1>4, <1>5, <1>6, <1>7, <1>8, <1>9, <1>10, <1>11, <1>12, <1>13, Zenon DEF HttpNext
<1>. QED BY <1>14, Zenon DEF A, B

(***************************************************************************)
(* What the pool promises holds when network threads and workers use it    *)
(* together: a connection is given to two users only a full round apart,   *)
(* and only such users clash.                                              *)
(***************************************************************************)
THEOREM RoundRobinForBoth ==
  HttpSpec => [](SharedOnlyAfterFullRound /\ ThrowsOnlyAfterFullRound)
<1>. DEFINE PoolInv == TypeOK /\ TicketInv /\ RegisteredInv
<1>1. HttpInit => PoolInv BY TypeInit, TicketInit, RegisteredInit, Zenon DEF HttpInit
<1>2. PoolInv /\ [HttpNext]_allVars => PoolInv'
  <2>. SUFFICES ASSUME PoolInv, [HttpNext]_allVars PROVE PoolInv'
    OBVIOUS
  <2>1. CASE [Next]_vars BY <2>1, TypeNext, TicketNext, RegisteredNext, Zenon
  <2>2. CASE /\ UNCHANGED <<next, acquires, pc, connection, ticket, registered>>
             /\ terminated' = TRUE
    <3>1. TypeOK' BY <2>2, Zenon DEF TypeOK
    <3>2. TicketInv' BY <2>2 DEF TypeOK, TicketInv
    <3>3. RegisteredInv' BY <2>2 DEF TypeOK, RegisteredInv
    <3>. QED BY <3>1, <3>2, <3>3
  <2>. QED BY <2>1, <2>2, PoolStep, Zenon
<1>3. PoolInv => SharedOnlyAfterFullRound /\ ThrowsOnlyAfterFullRound
  BY TicketsKeepRound, ClashIsRoundApart
<1>. QED BY <1>1, <1>2, <1>3, PTL DEF HttpSpec
============================================================================
