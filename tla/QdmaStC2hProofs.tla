--------------------------- MODULE QdmaStC2hProofs ---------------------------
(***************************************************************************)
(* Proofs about QdmaStC2h for rings, buffers and requests of any size: the *)
(* books of the free list are true, and readers get what the card sent.    *)
(***************************************************************************)
EXTENDS QdmaStC2h, FiniteSetTheorems, SequenceTheorems, WellFoundedInduction, TLAPS

-----------------------------------------------------------------------------
(* The invariant. *)

\* Types of all variables.
DataKinds == {"none", "data", "err"}
CardType == card \in [next : Bufs, posted : Bufs, pidx : 0 .. CmptSize - 1, cidx : 0 .. CmptSize - 1,
                      color : {0, 1}, armed : BOOLEAN, sent : Nat, packets : 0 .. MaxPackets]
MemType == mem \in [Bufs -> [1 .. DescBufSize -> Nat]]
CmptType == cmpt \in [0 .. CmptSize - 1 -> [color : {0, 1}, kind : DataKinds, len : Nat]]
RingType == iring \in [entry : [0 .. IntrSize - 1 -> {0, 1}], hwPidx : 0 .. IntrSize - 1,
                       hwColor : {0, 1}, cidx : 0 .. IntrSize - 1, color : {0, 1}]
DescType == sdesc \in [Bufs -> [len : 0 .. DescBufSize, off : Nat]]
QType == q \in [state : {"online", "enabled"}, stopWait : BOOLEAN, listEmpty : BOOLEAN, err : BOOLEAN,
                avail : 0 .. RingSize - 1, pidx : Bufs, pidxPend : Bufs, cidxCmpt : 0 .. CmptSize - 1,
                color : {0, 1}, dlen : Nat, skewed : BOOLEAN]
SvcType == svc \in [at : {"idle"}] \cup
                   [at : {"entries", "cidx", "deliver", "refill"}, left : Nat, done : Nat,
                    pidx : Bufs, from : Bufs]
ReqType == req \in [Requests -> [st : {"new", "waiting", "done", "failed"}, left : Int, ret : Int]]
OtherType ==
  /\ mode \in {"poll", "direct", "indirect"} /\ work \in BOOLEAN /\ valid \in SUBSET Bufs
  /\ pend \in Seq(Requests) /\ readOut \in Seq([unit : Nat, to : Requests])
TypeInv == /\ CardType /\ MemType /\ CmptType /\ RingType /\ DescType /\ QType /\ SvcType
           /\ ReqType /\ OtherType

\* The way of a buffer around the ring: it is given back up to From, read up to
\* pidx_pend, received up to Received and filled up to the card's next one.
\* Places are told by their distance from the spare buffer, which is the one
\* before the next to be posted.
From == IF Free THEN q.pidxPend ELSE svc.from
Receiving == svc.at \in {"entries", "cidx"}
Received == IF Receiving THEN svc.pidx ELSE q.pidx
Spare == Incr(card.posted, 1, RingSize)
Place(b) == Delta(b, Spare, RingSize)

OrderInv ==
  /\ Place(From) <= Place(q.pidxPend)
  /\ Place(q.pidxPend) <= Place(q.pidx)
  /\ Place(q.pidx) <= Place(Received)
  /\ Place(Received) <= Place(card.next)

\* Completions the driver has not taken.
Left == Delta(card.pidx, q.cidxCmpt, CmptSize)

ServiceInv ==
  /\ ~Free => q.state = "online" /\ ~q.err
  /\ Receiving => svc.from = q.pidxPend /\ (svc.done = 0 => svc.pidx = q.pidx)
  /\ svc.at = "entries" => svc.left <= Left
  /\ q.state = "online" /\ ~q.stopWait => Spare = From

\* The buffers that are marked, and the count of the others.
ValidInv ==
  /\ Between(From, Received) \subseteq valid
  /\ ~q.err => valid = Between(From, Received)
  /\ Cardinality(valid) + q.avail = RingSize - 1

\* A buffer that is not marked is empty.
FreshInv == \A b \in Bufs \ valid : sdesc[b].len = C2hBufsz /\ (~q.skewed => sdesc[b].off = 0)

\* The indices of the completion ring: the card does not overtake the one
\* the driver has told it of.
CmptInv == Delta(q.cidxCmpt, card.cidx, CmptSize) <= Delta(card.pidx, card.cidx, CmptSize)

\* Whoever waits, waits for something, and nothing is unread when one waits
\* outside of the delivery.
WaitInv ==
  /\ q.state = "online" => \A i \in DOMAIN pend : req[pend[i]].left >= 0 /\ pend[i] \notin Direct
  /\ (Free \/ Receiving) /\ pend # <<>> /\ q.state = "online" => q.pidx = q.pidxPend
  /\ svc.at = "refill" => q.pidx = q.pidxPend

\* The completions not taken, one by one: A[k] buffers and T[k] units come
\* before the k-th.
Slot(k) == cmpt[Incr(q.cidxCmpt, k, CmptSize)]
Filled(me, e, b, t) ==
  \A j \in 0 .. CardUses(e.len) - 1 : \A x \in 1 .. C2hBufsz :
    j * C2hBufsz + x <= e.len => me[Incr(b, j, RingSize)][x] = t + j * C2hBufsz + x
Covers(me, e, base, a, t, b, u) ==
  \/ /\ e.kind = "data" /\ e.len \in Lengths
     /\ b = a + CardUses(e.len) /\ u = t + e.len
     /\ Filled(me, e, Incr(base, a, RingSize), t)
  \/ e.kind = "err" /\ b = a /\ u = t
ChainOf(A, T) ==
  /\ A[0] = 0 /\ T[0] = Len(readOut) + q.dlen
  /\ A[Left] = Delta(card.next, Received, RingSize) /\ T[Left] = card.sent
  /\ \A k \in 0 .. Left - 1 : Covers(mem, Slot(k), Received, A[k], T[k], A[k + 1], T[k + 1])
ChainInv ==
  ~q.err => \E A \in [0 .. Left -> 0 .. Delta(card.next, Received, RingSize)] :
            \E T \in [0 .. Left -> Nat] : ChainOf(A, T)

\* The buffers received and not read, one by one: L[d] units come before the d-th.
Held == Delta(Received, q.pidxPend, RingSize)
Buf(d) == Incr(q.pidxPend, d, RingSize)
HoldsFrom(sd, me, b, u) ==
  \A x \in 1 .. sd[b].len : sd[b].off + x <= DescBufSize /\ me[b][sd[b].off + x] = u + x
StreamOf(L) ==
  /\ L[0] = 0
  /\ \A d \in 0 .. Held - 1 : L[d + 1] = L[d] + sdesc[Buf(d)].len
  /\ L[Held] <= q.dlen /\ (~q.err => L[Held] = q.dlen)
  /\ ~q.skewed => \A d \in 0 .. Held - 1 : HoldsFrom(sdesc, mem, Buf(d), Len(readOut) + L[d])
StreamInv == \E L \in [0 .. Held -> Nat] : StreamOf(L)

IInv == /\ TypeInv /\ OrderInv /\ ServiceInv /\ ValidInv /\ FreshInv /\ CmptInv /\ WaitInv
        /\ ChainInv /\ StreamInv /\ StreamInOrder

-----------------------------------------------------------------------------
(* Rings. *)

LEMMA Sizes ==
  /\ RingSize \in Nat /\ RingSize >= 2 /\ CmptSize \in Nat /\ CmptSize >= 2
  /\ IntrSize \in Nat /\ IntrSize >= 1 /\ C2hBufsz \in Nat /\ C2hBufsz >= 1
  /\ DescBufSize \in Nat /\ C2hBufsz <= DescBufSize /\ MaxPackets \in Nat /\ Lengths \subseteq Nat
  BY SizesAssumption

\* Distances on a ring of n entries.
LEMMA DeltaIs ==
  ASSUME NEW n \in Nat, n >= 1, NEW a \in 0 .. n - 1, NEW b \in 0 .. n - 1
  PROVE  /\ Delta(b, a, n) \in 0 .. n - 1
         /\ Incr(a, Delta(b, a, n), n) = b
         /\ Delta(b, a, n) = 0 <=> a = b
  BY DEF Delta, Incr

LEMMA IncrIs ==
  ASSUME NEW n \in Nat, n >= 1, NEW a \in 0 .. n - 1, NEW k \in 0 .. n - 1
  PROVE  /\ Incr(a, k, n) \in 0 .. n - 1
         /\ Delta(Incr(a, k, n), a, n) = k
         /\ Incr(a, 0, n) = a
  BY DEF Delta, Incr

LEMMA IncrIncr ==
  ASSUME NEW n \in Nat, n >= 1, NEW a \in 0 .. n - 1, NEW j \in 0 .. n - 1, NEW k \in 0 .. n - 1,
         j + k <= n - 1
  PROVE  Incr(Incr(a, j, n), k, n) = Incr(a, j + k, n)
  BY DEF Incr

\* Two distances from one place.
LEMMA DeltaDelta ==
  ASSUME NEW n \in Nat, n >= 1, NEW a \in 0 .. n - 1, NEW b \in 0 .. n - 1, NEW c \in 0 .. n - 1
  PROVE  /\ Delta(a, c, n) <= Delta(b, c, n) => Delta(b, a, n) = Delta(b, c, n) - Delta(a, c, n)
         /\ Delta(a, c, n) > Delta(b, c, n) => Delta(b, a, n) = n + Delta(b, c, n) - Delta(a, c, n)
         /\ Delta(a, c, n) = Delta(b, c, n) <=> a = b
  BY DEF Delta

LEMMA DeltaIncr ==
  ASSUME NEW n \in Nat, n >= 1, NEW a \in 0 .. n - 1, NEW c \in 0 .. n - 1, NEW k \in 0 .. n - 1,
         Delta(a, c, n) + k <= n - 1
  PROVE  Delta(Incr(a, k, n), c, n) = Delta(a, c, n) + k
  BY DEF Delta, Incr

\* The same for the ring of buffers.
LEMMA BufDist ==
  ASSUME NEW a \in Bufs, NEW b \in Bufs
  PROVE  /\ Delta(b, a, RingSize) \in 0 .. RingSize - 1
         /\ Incr(a, Delta(b, a, RingSize), RingSize) = b
         /\ Delta(b, a, RingSize) = 0 <=> a = b
<1>1. RingSize \in Nat /\ RingSize >= 1 /\ Bufs = 0 .. RingSize - 1
  BY Sizes DEF Bufs
<1> QED BY <1>1, DeltaIs

LEMMA BufIncr ==
  ASSUME NEW a \in Bufs, NEW k \in 0 .. RingSize - 1
  PROVE  /\ Incr(a, k, RingSize) \in Bufs
         /\ Delta(Incr(a, k, RingSize), a, RingSize) = k
         /\ Incr(a, 0, RingSize) = a
<1>1. RingSize \in Nat /\ RingSize >= 1 /\ Bufs = 0 .. RingSize - 1
  BY Sizes DEF Bufs
<1> QED BY <1>1, IncrIs

LEMMA BufIncrIncr ==
  ASSUME NEW a \in Bufs, NEW j \in 0 .. RingSize - 1, NEW k \in 0 .. RingSize - 1, j + k <= RingSize - 1
  PROVE  Incr(Incr(a, j, RingSize), k, RingSize) = Incr(a, j + k, RingSize)
<1>1. RingSize \in Nat /\ RingSize >= 1 /\ Bufs = 0 .. RingSize - 1
  BY Sizes DEF Bufs
<1> QED BY <1>1, IncrIncr

LEMMA BufDistDist ==
  ASSUME NEW a \in Bufs, NEW b \in Bufs, NEW c \in Bufs
  PROVE  /\ Delta(a, c, RingSize) <= Delta(b, c, RingSize)
              => Delta(b, a, RingSize) = Delta(b, c, RingSize) - Delta(a, c, RingSize)
         /\ Delta(a, c, RingSize) > Delta(b, c, RingSize)
              => Delta(b, a, RingSize) = RingSize + Delta(b, c, RingSize) - Delta(a, c, RingSize)
         /\ Delta(a, c, RingSize) = Delta(b, c, RingSize) <=> a = b
<1>1. RingSize \in Nat /\ RingSize >= 1 /\ Bufs = 0 .. RingSize - 1
  BY Sizes DEF Bufs
<1> QED BY <1>1, DeltaDelta

LEMMA BufDistIncr ==
  ASSUME NEW a \in Bufs, NEW c \in Bufs, NEW k \in 0 .. RingSize - 1,
         Delta(a, c, RingSize) + k <= RingSize - 1
  PROVE  Delta(Incr(a, k, RingSize), c, RingSize) = Delta(a, c, RingSize) + k
<1>1. RingSize \in Nat /\ RingSize >= 1 /\ Bufs = 0 .. RingSize - 1
  BY Sizes DEF Bufs
<1> QED BY <1>1, DeltaIncr

\* The entries between two are those whose distance is between.
LEMMA BetweenIs ==
  ASSUME NEW a \in Bufs, NEW b \in Bufs, NEW c \in Bufs,
         Delta(a, c, RingSize) <= Delta(b, c, RingSize)
  PROVE  Between(a, b) = {x \in Bufs : /\ Delta(a, c, RingSize) <= Delta(x, c, RingSize)
                                       /\ Delta(x, c, RingSize) < Delta(b, c, RingSize)}
<1> DEFINE n == RingSize
<1>0. n \in Nat /\ n >= 1 /\ Bufs = 0 .. n - 1
  BY Sizes DEF Bufs
<1>1. Delta(b, a, n) = Delta(b, c, n) - Delta(a, c, n)
  BY <1>0, DeltaDelta
<1>2. Delta(a, c, n) \in 0 .. n - 1 /\ Delta(b, c, n) \in 0 .. n - 1
  BY <1>0, DeltaIs
<1>3. ASSUME NEW k \in 0 .. Delta(b, a, n) - 1
      PROVE  /\ Incr(a, k, n) \in Bufs
             /\ Delta(a, c, n) <= Delta(Incr(a, k, n), c, n)
             /\ Delta(Incr(a, k, n), c, n) < Delta(b, c, n)
  <2>1. k \in 0 .. n - 1 /\ Delta(a, c, n) + k <= n - 1 /\ Delta(a, c, n) + k < Delta(b, c, n)
    BY <1>0, <1>1, <1>2
  <2>2. Incr(a, k, n) \in Bufs
    BY <1>0, <2>1, IncrIs
  <2>3. Delta(Incr(a, k, n), c, n) = Delta(a, c, n) + k
    BY <1>0, <2>1, DeltaIncr
  <2> QED BY <1>2, <2>1, <2>2, <2>3
<1>4. ASSUME NEW x \in Bufs, Delta(a, c, n) <= Delta(x, c, n), Delta(x, c, n) < Delta(b, c, n)
      PROVE  \E k \in 0 .. Delta(b, a, n) - 1 : x = Incr(a, k, n)
  <2>1. /\ Delta(x, a, n) = Delta(x, c, n) - Delta(a, c, n)
        /\ Delta(x, a, n) \in 0 .. n - 1 /\ Delta(x, c, n) \in 0 .. n - 1
    BY <1>0, <1>4, DeltaDelta, DeltaIs
  <2>2. Incr(a, Delta(x, a, n), n) = x
    BY <1>0, DeltaIs
  <2>3. Delta(x, a, n) \in 0 .. Delta(b, a, n) - 1
    BY <1>1, <1>2, <1>4, <2>1
  <2> QED BY <2>2, <2>3
<1> HIDE DEF n
<1>5. {Incr(a, k, n) : k \in 0 .. Delta(b, a, n) - 1}
       = {x \in Bufs : Delta(a, c, n) <= Delta(x, c, n) /\ Delta(x, c, n) < Delta(b, c, n)}
  BY <1>3, <1>4
<1> QED BY <1>5 DEF Between, n

\* And there are as many as the distance.
LEMMA BetweenCount ==
  ASSUME NEW a \in Bufs, NEW b \in Bufs
  PROVE  /\ Between(a, b) \subseteq Bufs /\ IsFiniteSet(Between(a, b))
         /\ Cardinality(Between(a, b)) = Delta(b, a, RingSize)
<1> DEFINE n == RingSize
           m == Delta(b, a, n)
           f == [k \in 0 .. m - 1 |-> Incr(a, k, n)]
<1>1. n \in Nat /\ n >= 1 /\ Bufs = 0 .. n - 1 /\ m \in 0 .. n - 1
  BY Sizes, DeltaIs DEF Bufs
<1>2. \A k \in 0 .. m - 1 : Incr(a, k, n) \in Bufs /\ Delta(Incr(a, k, n), a, n) = k
  BY <1>1, IncrIs
<1>3. Between(a, b) = {Incr(a, k, n) : k \in 0 .. m - 1}
  BY DEF Between
<1> HIDE DEF n, m
<1>4. f \in Bijection(0 .. m - 1, Between(a, b))
  <2>1. f \in [0 .. m - 1 -> Between(a, b)]
    BY <1>3
  <2>2. \A j, k \in 0 .. m - 1 : f[j] = f[k] => j = k
    BY <1>2
  <2>3. \A x \in Between(a, b) : \E k \in 0 .. m - 1 : f[k] = x
    BY <1>3
  <2> QED BY <2>1, <2>2, <2>3 DEF Bijection, Injection, Surjection, IsInjective
<1>5. ExistsBijection(0 .. m - 1, Between(a, b))
  BY <1>4 DEF ExistsBijection
<1>6. IsFiniteSet(0 .. m - 1) /\ Cardinality(0 .. m - 1) = m
  <2>1. 0 \in Int /\ m - 1 \in Int /\ m \in Nat
    BY <1>1
  <2>2. IsFiniteSet(0 .. m - 1) /\ Cardinality(0 .. m - 1) = IF 0 > m - 1 THEN 0 ELSE (m - 1) - 0 + 1
    BY <2>1, FS_Interval
  <2> QED BY <2>1, <2>2
<1>7. IsFiniteSet(Between(a, b)) /\ Cardinality(Between(a, b)) = m
  <2> HIDE DEF f
  <2> QED BY <1>5, <1>6, FS_Bijection
<1> QED BY <1>2, <1>3, <1>7 DEF m, n

LEMMA BufsCount == IsFiniteSet(Bufs) /\ Cardinality(Bufs) = RingSize
  BY Sizes, FS_Interval DEF Bufs

\* A finite set taken from another.
LEMMA TakenAway ==
  ASSUME NEW S, IsFiniteSet(S), NEW B, B \subseteq S
  PROVE  Cardinality(S \ B) = Cardinality(S) - Cardinality(B)
<1>1. IsFiniteSet(B) /\ IsFiniteSet(S \ B)
  BY FS_Subset
<1>2. (S \ B) \cup B = S /\ (S \ B) \cap B = {}
  OBVIOUS
<1>3. /\ Cardinality(S) \in Nat /\ Cardinality(B) \in Nat /\ Cardinality(S \ B) \in Nat
      /\ Cardinality({}) = 0
      /\ Cardinality(S) = Cardinality(S \ B) + Cardinality(B) - Cardinality((S \ B) \cap B)
  BY <1>1, <1>2, FS_Union, FS_CardinalityType, FS_EmptySet
<1> QED BY <1>2, <1>3

\* The least and the greatest number of a set.
LEMMA LeastIn ==
  ASSUME NEW S, S \subseteq Nat, S # {}
  PROVE  \E n \in S : \A m \in S : n <= m
<1>1. PICK n \in S : \A m \in S : ~(<<m, n>> \in OpToRel(<, Nat))
  BY NatLessThanWellFounded, WFMin
<1>2. OpToRel(<, Nat) = {ss \in Nat \X Nat : ss[1] < ss[2]}
  BY DEF OpToRel
<1>3. ASSUME NEW m \in S PROVE n <= m
  <2>1. m \in Nat /\ n \in Nat /\ ~(<<m, n>> \in {ss \in Nat \X Nat : ss[1] < ss[2]})
    BY <1>1, <1>2
  <2> QED BY <2>1
<1> QED BY <1>3

LEMMA GreatestIn ==
  ASSUME NEW n \in Nat, NEW S, S \subseteq 0 .. n, S # {}
  PROVE  Max(S) \in S /\ \A m \in S : m <= Max(S)
<1> DEFINE R == {k \in Nat : n - k \in S}
<1>1. R \subseteq Nat /\ R # {}
  <2>1. PICK m \in S : TRUE
    OBVIOUS
  <2>2. n - m \in Nat /\ n - (n - m) = m
    BY <2>1
  <2> QED BY <2>2
<1>2. PICK k \in R : \A j \in R : k <= j
  BY <1>1, LeastIn
<1>3. ASSUME NEW m \in S PROVE n - k >= m
  <2>1. n - m \in Nat /\ n - (n - m) = m
    OBVIOUS
  <2>2. k <= n - m
    BY <1>2, <2>1
  <2> QED BY <1>2, <2>2
<1>4. \E x \in S : \A y \in S : x >= y
  BY <1>2, <1>3
<1>5. Max(S) \in S /\ \A y \in S : Max(S) >= y
  BY <1>4 DEF Max
<1> QED BY <1>5

-----------------------------------------------------------------------------
(* Units.  LenUpTo is a recursive function; that it exists is seen from the     *)
(* sums of the invariant.                                                      *)

LEMMA SumsRise ==
  ASSUME NEW m \in Nat, NEW L \in [0 .. m -> Nat], \A d \in 0 .. m - 1 : L[d] <= L[d + 1],
         NEW i \in 0 .. m, NEW j \in 0 .. m, i <= j
  PROVE  L[i] <= L[j]
<1> SUFFICES ASSUME ~(L[i] <= L[j]) PROVE FALSE
  OBVIOUS
<1> DEFINE S == {k \in 0 .. m : i <= k /\ ~(L[i] <= L[k])}
<1>1. S \subseteq Nat /\ S # {}
  <2>1. j \in S
    OBVIOUS
  <2>2. S \subseteq 0 .. m /\ 0 .. m \subseteq Nat
    OBVIOUS
  <2> QED BY <2>1, <2>2
<1>2. PICK k \in S : \A h \in S : k <= h
  BY <1>1, LeastIn
<1>3. k # i /\ k - 1 \in i .. m /\ k - 1 \in 0 .. m - 1 /\ k \in 0 .. m
  BY <1>2
<1>4. L[i] <= L[k - 1]
  BY <1>2, <1>3
<1>5. L[k - 1] <= L[(k - 1) + 1] /\ (k - 1) + 1 = k
  BY <1>3
<1>6. L[i] \in Nat /\ L[k - 1] \in Nat /\ L[k] \in Nat
  BY <1>3
<1> QED BY <1>2, <1>4, <1>5, <1>6

Count == Delta(q.pidx, q.pidxPend, RingSize)

LEMMA LenUpToIs ==
  ASSUME DescType, QType, NEW m \in 0 .. RingSize - 1, Count <= m, NEW L \in [0 .. m -> Nat], L[0] = 0,
         \A d \in 0 .. m - 1 : L[d + 1] = L[d] + sdesc[Buf(d)].len
  PROVE  /\ Count \in 0 .. RingSize - 1 /\ Len(Unread) = Count
         /\ \A n \in 1 .. Count : Unread[n] = Buf(n - 1)
         /\ LenUpTo \in [0 .. Count -> Nat]
         /\ \A n \in 0 .. Count : LenUpTo[n] = L[n]
<1>1. Count \in 0 .. RingSize - 1
  BY Sizes, DeltaIs DEF Count, QType, Bufs
<1>2. Len(Unread) = Count /\ \A n \in 1 .. Count : Unread[n] = Buf(n - 1)
  BY <1>1 DEF Unread, Buf, Count
<1> DEFINE F(g) == [n \in 0 .. Count |-> IF n = 0 THEN 0 ELSE g[n - 1] + sdesc[Unread[n]].len]
           G == [n \in 0 .. Count |-> L[n]]
<1>3. G = F(G)
  <2>1. ASSUME NEW n \in 0 .. Count, n # 0
        PROVE  L[n] = L[n - 1] + sdesc[Unread[n]].len /\ n - 1 \in 0 .. Count
    <3>1. n - 1 \in 0 .. m - 1 /\ (n - 1) + 1 = n /\ n \in 1 .. Count /\ n - 1 \in 0 .. Count
      BY <1>1, <2>1
    <3> QED BY <1>2, <3>1
  <2> QED BY <2>1
<1>4. LenUpTo = F(LenUpTo)
  BY <1>3 DEF LenUpTo, Count
<1>5. \A n \in 0 .. Count : LenUpTo[n] = IF n = 0 THEN 0 ELSE LenUpTo[n - 1] + sdesc[Unread[n]].len
  BY <1>4
<1>6. ASSUME NEW n \in 0 .. Count, LenUpTo[n] # L[n] PROVE FALSE
  <2> DEFINE S == {k \in 0 .. Count : LenUpTo[k] # L[k]}
  <2>1. S \subseteq Nat /\ S # {}
    BY <1>6
  <2>2. PICK k \in S : \A h \in S : k <= h
    BY <2>1, LeastIn
  <2>3. k # 0
    BY <1>1, <1>5, <2>2
  <2>4. k - 1 \in 0 .. m - 1 /\ (k - 1) + 1 = k /\ k \in 1 .. Count /\ k - 1 \in 0 .. Count
    BY <1>1, <2>2, <2>3
  <2>5. LenUpTo[k - 1] = L[k - 1]
    <3>1. k - 1 \notin S
      BY <2>2, <2>4
    <3> QED BY <2>4, <3>1
  <2>6. L[k] = L[k - 1] + sdesc[Unread[k]].len
    BY <1>2, <2>4
  <2>7. LenUpTo[k] = LenUpTo[k - 1] + sdesc[Unread[k]].len
    BY <1>5, <2>3, <2>4
  <2> QED BY <2>2, <2>5, <2>6, <2>7
<1>7. LenUpTo \in [0 .. Count -> Nat]
  <2>1. \A n \in 0 .. Count : LenUpTo[n] = L[n] /\ L[n] \in Nat
    BY <1>1, <1>6
  <2>2. LenUpTo = [n \in 0 .. Count |-> LenUpTo[n]]
    BY <1>4
  <2> QED BY <2>1, <2>2
<1> QED BY <1>1, <1>2, <1>6, <1>7


\* What a read for room units takes from the buffers that hold L.
Reading(d, room, L) ==
  /\ d.emptied \in 0 .. Count /\ d.part \in Nat /\ d.copied \in Nat
  /\ d.copied = L[d.emptied] + d.part
  /\ d.copied <= room /\ d.copied <= L[Count]
  /\ d.part # 0 => d.emptied < Count /\ d.part < sdesc[Buf(d.emptied)].len
  /\ d.copied < room => d.emptied = Count /\ d.part = 0

LEMMA ReadIs ==
  ASSUME DescType, QType, NEW m \in 0 .. RingSize - 1, Count <= m, NEW L \in [0 .. m -> Nat], L[0] = 0,
         \A d \in 0 .. m - 1 : L[d + 1] = L[d] + sdesc[Buf(d)].len,
         NEW room \in Nat
  PROVE  Reading(ReadFor(room), room, L)
<1>1. /\ Count \in 0 .. RingSize - 1 /\ Len(Unread) = Count /\ Count \in 0 .. m
      /\ \A n \in 0 .. Count : LenUpTo[n] = L[n]
  <2>1. /\ Count \in 0 .. RingSize - 1 /\ Len(Unread) = Count
        /\ \A n \in 0 .. Count : LenUpTo[n] = L[n]
    BY LenUpToIs
  <2> QED BY <2>1, Sizes
<1> DEFINE total == L[Count]
           enough == {n \in 0 .. Count : L[n] <= room /\ \A k \in 0 .. n - 1 : L[k] < room}
           n == Max(enough)
           c == Least(room, total)
<1>2. ReadFor(room) = [emptied |-> n, copied |-> c, part |-> c - L[n]]
  <2>1. LenUpTo[Len(Unread)] = total
    BY <1>1
  <2>2. {x \in 0 .. Len(Unread) : LenUpTo[x] <= room /\ \A k \in 0 .. x - 1 : LenUpTo[k] < room} = enough
    <3>1. ASSUME NEW x \in 0 .. Count, NEW k \in 0 .. x - 1 PROVE LenUpTo[k] = L[k]
      <4>1. k \in 0 .. Count
        BY <1>1
      <4> QED BY <1>1, <4>1
    <3> QED BY <1>1, <3>1
  <2>3. Max(enough) \in enough /\ \A x \in enough : x <= Max(enough)
    <3>1. 0 \in enough
      BY <1>1
    <3>2. enough \subseteq 0 .. Count /\ Count \in Nat
      BY <1>1
    <3> QED BY <3>1, <3>2, GreatestIn
  <2>4. LenUpTo[n] = L[n]
    BY <1>1, <2>3
  <2> QED BY <2>1, <2>2, <2>4 DEF ReadFor
<1>3. n \in enough /\ \A x \in enough : x <= n
  <2>1. 0 \in enough
    BY <1>1
  <2>2. enough \subseteq 0 .. Count /\ Count \in Nat
    BY <1>1
  <2> QED BY <2>1, <2>2, GreatestIn
<1> HIDE DEF n
<1>4. n \in 0 .. Count /\ L[n] <= room /\ \A k \in 0 .. n - 1 : L[k] < room
  BY <1>3
<1>5. ASSUME NEW i \in 0 .. m, NEW j \in 0 .. m, i <= j PROVE L[i] <= L[j]
  <2>1. \A d \in 0 .. m - 1 : L[d] <= L[d + 1]
    <3> TAKE d \in 0 .. m - 1
    <3>1. d \in 0 .. m /\ d + 1 \in 0 .. m /\ Buf(d) \in Bufs
      <4>1. d \in 0 .. RingSize - 1 /\ q.pidxPend \in Bufs
        BY Sizes DEF QType
      <4> QED BY <4>1, BufIncr DEF Buf
    <3>2. sdesc[Buf(d)].len \in Nat
      BY <3>1, Sizes DEF DescType
    <3> QED BY <3>1, <3>2
  <2>2. m \in Nat
    BY Sizes
  <2> QED BY <1>5, <2>1, <2>2, SumsRise
<1>6. total \in Nat /\ L[n] \in Nat /\ L[n] <= total
  BY <1>1, <1>4, <1>5
<1>7. c \in Nat /\ c <= room /\ c <= total /\ L[n] <= c /\ (c = room \/ c = total)
  BY <1>4, <1>6 DEF Least
<1> HIDE DEF c
<1>8. ASSUME n < Count PROVE c = room /\ (c # L[n] => c - L[n] < sdesc[Buf(n)].len)
  <2>1. n + 1 \in 0 .. Count /\ n + 1 \notin enough /\ L[n + 1] = L[n] + sdesc[Buf(n)].len
    <3>1. n \in 0 .. m - 1 /\ n + 1 \in 0 .. Count /\ ~(n + 1 <= n)
      BY <1>1, <1>4, <1>8
    <3> QED BY <1>3, <3>1
  <2>2. L[n + 1] > room \/ \E k \in 0 .. n : ~(L[k] < room)
    <3>1. L[n + 1] \in Nat /\ (n + 1) - 1 = n
      BY <1>1, <1>4, <2>1
    <3>2. L[n + 1] <= room => \E k \in 0 .. (n + 1) - 1 : ~(L[k] < room)
      BY <2>1
    <3> QED BY <3>1, <3>2
  <2>3. L[n + 1] <= total /\ L[n + 1] \in Nat
    BY <1>1, <1>4, <1>5, <2>1
  <2>4. CASE L[n + 1] > room
    <3>1. c = room
      BY <1>7, <2>3, <2>4, <1>6
    <3>2. c - L[n] < L[n + 1] - L[n]
      BY <1>6, <2>3, <2>4, <3>1
    <3>3. sdesc[Buf(n)].len \in Nat
      <4>1. n \in 0 .. RingSize - 1 /\ q.pidxPend \in Bufs
        BY <1>1, <1>4, Sizes DEF QType
      <4>2. Buf(n) \in Bufs
        BY <4>1, BufIncr DEF Buf
      <4> QED BY <4>2, Sizes DEF DescType
    <3> QED BY <1>6, <2>1, <3>1, <3>2, <3>3
  <2>5. CASE \E k \in 0 .. n : ~(L[k] < room)
    <3>1. PICK k \in 0 .. n : ~(L[k] < room)
      BY <2>5
    <3>2. k = n
      BY <1>4, <3>1
    <3> QED BY <1>4, <1>6, <1>7, <3>1, <3>2
  <2> QED BY <2>2, <2>4, <2>5
<1>9. ASSUME n = Count PROVE c = total
  BY <1>4, <1>6, <1>7, <1>9
<1> DEFINE d == [emptied |-> n, copied |-> c, part |-> c - L[n]]
<1>10. d.emptied = n /\ d.copied = c /\ d.part = c - L[n]
  OBVIOUS
<1> HIDE DEF d
<1>11. Reading(d, room, L)
  <2>1. n < Count \/ n = Count
    BY <1>1, <1>4
  <2> QED BY <1>1, <1>4, <1>6, <1>7, <1>8, <1>9, <1>10, <2>1 DEF Reading
<1> QED BY <1>2, <1>11 DEF d


\* The units read are those the buffers hold from u on.
LEMMA UnitsAre ==
  ASSUME DescType, QType, MemType, NEW m \in 0 .. RingSize - 1, Count <= m, NEW L \in [0 .. m -> Nat], L[0] = 0,
         \A d \in 0 .. m - 1 : L[d + 1] = L[d] + sdesc[Buf(d)].len
  PROVE  /\ UnreadData \in [1 .. L[Count] -> Nat] /\ Len(UnreadData) = L[Count]
         /\ \A u \in Nat : (\A d \in 0 .. m - 1 : HoldsFrom(sdesc, mem, Buf(d), u + L[d]))
                              => \A k \in 1 .. L[Count] : UnreadData[k] = u + k
<1>1. /\ Count \in 0 .. RingSize - 1 /\ Count \in Nat /\ Len(Unread) = Count /\ DOMAIN Unread = 1 .. Count
      /\ \A n \in 1 .. Count : Unread[n] = Buf(n - 1)
      /\ \A n \in 0 .. Count : LenUpTo[n] = L[n]
  <2>1. /\ Count \in 0 .. RingSize - 1 /\ Len(Unread) = Count
        /\ \A n \in 1 .. Count : Unread[n] = Buf(n - 1)
        /\ \A n \in 0 .. Count : LenUpTo[n] = L[n]
    BY LenUpToIs
  <2>2. DOMAIN Unread = 1 .. Count
    BY DEF Unread, Count
  <2> QED BY <2>1, <2>2, Sizes
<1>2. Count \in 0 .. m /\ m \in Nat /\ L[Count] \in Nat
  BY <1>1, Sizes
<1>3. UnreadData = [k \in 1 .. L[Count] |-> UnreadUnit(k)]
  BY <1>1 DEF UnreadData
<1> DEFINE In(d, k) == d \in 1 .. Count /\ LenUpTo[d - 1] < k /\ k <= LenUpTo[d]
<1>4. ASSUME NEW k \in 1 .. L[Count] PROVE \E d \in DOMAIN Unread : LenUpTo[d - 1] < k /\ k <= LenUpTo[d]
  <2> DEFINE S == {d \in 0 .. Count : k <= L[d]}
  <2>1. S \subseteq Nat /\ S # {}
    <3>1. Count \in S
      BY <1>1
    <3>2. S \subseteq 0 .. Count /\ 0 .. Count \subseteq Nat
      BY <1>1
    <3> QED BY <3>1, <3>2
  <2>2. PICK d \in S : \A h \in S : d <= h
    BY <2>1, LeastIn
  <2>3. d # 0
    BY <2>2
  <2>4. d \in 1 .. Count /\ d - 1 \in 0 .. Count /\ d - 1 \notin S
    BY <1>1, <2>2, <2>3
  <2>5. L[d - 1] \in Nat /\ k \in Nat /\ k <= L[d] /\ d \in 0 .. Count
    BY <1>2, <2>2, <2>4
  <2>6. ~(k <= L[d - 1])
    BY <2>4
  <2>7. LenUpTo[d - 1] < k /\ k <= LenUpTo[d]
    BY <1>1, <2>4, <2>5, <2>6
  <2> QED BY <1>1, <2>4, <2>7
<1>5. ASSUME NEW k \in 1 .. L[Count]
      PROVE  \E d \in 1 .. Count :
               /\ L[d - 1] < k /\ k <= L[d]
               /\ UnreadUnit(k) = IF sdesc[Buf(d - 1)].off + k - L[d - 1] <= DescBufSize
                                  THEN mem[Buf(d - 1)][sdesc[Buf(d - 1)].off + k - L[d - 1]] ELSE 0
  <2> DEFINE c == CHOOSE d \in DOMAIN Unread : LenUpTo[d - 1] < k /\ k <= LenUpTo[d]
  <2>1. c \in DOMAIN Unread /\ LenUpTo[c - 1] < k /\ k <= LenUpTo[c]
    BY <1>4
  <2>2. UnreadUnit(k) = IF sdesc[Unread[c]].off + k - LenUpTo[c - 1] <= DescBufSize
                        THEN mem[Unread[c]][sdesc[Unread[c]].off + k - LenUpTo[c - 1]] ELSE 0
    BY DEF UnreadUnit
  <2> HIDE DEF c
  <2>3. c \in 1 .. Count /\ c \in 0 .. Count /\ c - 1 \in 0 .. Count
    BY <1>1, <2>1
  <2> QED BY <1>1, <2>1, <2>2, <2>3
<1>6. ASSUME NEW d \in 1 .. Count
      PROVE  /\ d - 1 \in 0 .. m - 1 /\ Buf(d - 1) \in Bufs /\ sdesc[Buf(d - 1)].len \in Nat
             /\ sdesc[Buf(d - 1)].off \in Nat /\ L[d] \in Nat /\ L[d - 1] \in Nat
             /\ L[d] = L[d - 1] + sdesc[Buf(d - 1)].len
  <2>1. d - 1 \in 0 .. m - 1 /\ d \in 0 .. m /\ d - 1 \in 0 .. m /\ d - 1 \in 0 .. RingSize - 1 /\ (d - 1) + 1 = d
    BY <1>1, <1>2, Sizes
  <2>2. Buf(d - 1) \in Bufs
    BY <2>1, BufIncr DEF Buf, QType
  <2>3. sdesc[Buf(d - 1)].len \in Nat /\ sdesc[Buf(d - 1)].off \in Nat
    BY <2>2, Sizes DEF DescType
  <2>4. L[(d - 1) + 1] = L[d - 1] + sdesc[Buf(d - 1)].len
    BY <2>1
  <2> QED BY <2>1, <2>2, <2>3, <2>4
<1>7. ASSUME NEW k \in 1 .. L[Count] PROVE UnreadUnit(k) \in Nat
  <2>1. PICK d \in 1 .. Count :
               /\ L[d - 1] < k /\ k <= L[d]
               /\ UnreadUnit(k) = IF sdesc[Buf(d - 1)].off + k - L[d - 1] <= DescBufSize
                                  THEN mem[Buf(d - 1)][sdesc[Buf(d - 1)].off + k - L[d - 1]] ELSE 0
    BY <1>5
  <2>2. Buf(d - 1) \in Bufs /\ sdesc[Buf(d - 1)].off \in Nat /\ L[d - 1] \in Nat
    BY <1>6
  <2> DEFINE o == sdesc[Buf(d - 1)].off
             l == L[d - 1]
             at == o + k - l
  <2>3. at \in Nat /\ at >= 1
    <3>1. k \in Nat /\ o \in Nat /\ l \in Nat /\ l < k
      BY <1>2, <2>1, <2>2
    <3> HIDE DEF o, l
    <3> QED BY <3>1
  <2>4. UnreadUnit(k) = IF at <= DescBufSize THEN mem[Buf(d - 1)][at] ELSE 0
    BY <2>1
  <2> HIDE DEF at
  <2>5. at <= DescBufSize => at \in 1 .. DescBufSize
    BY <2>3, Sizes
  <2>6. at <= DescBufSize => mem[Buf(d - 1)][at] \in Nat
    BY <2>2, <2>5 DEF MemType
  <2> QED BY <2>4, <2>6
<1>8. UnreadData \in [1 .. L[Count] -> Nat] /\ Len(UnreadData) = L[Count]
  BY <1>2, <1>3, <1>7
<1>9. ASSUME NEW u \in Nat, \A d \in 0 .. m - 1 : HoldsFrom(sdesc, mem, Buf(d), u + L[d]), NEW k \in 1 .. L[Count]
      PROVE  UnreadData[k] = u + k
  <2>1. PICK d \in 1 .. Count :
               /\ L[d - 1] < k /\ k <= L[d]
               /\ UnreadUnit(k) = IF sdesc[Buf(d - 1)].off + k - L[d - 1] <= DescBufSize
                                  THEN mem[Buf(d - 1)][sdesc[Buf(d - 1)].off + k - L[d - 1]] ELSE 0
    BY <1>5
  <2> DEFINE b == Buf(d - 1)
             x == k - L[d - 1]
  <2>2. /\ sdesc[b].off \in Nat /\ sdesc[b].len \in Nat /\ L[d - 1] \in Nat /\ L[d] = L[d - 1] + sdesc[b].len
        /\ HoldsFrom(sdesc, mem, b, u + L[d - 1])
    BY <1>6, <1>9
  <2>3. x \in 1 .. sdesc[b].len /\ sdesc[b].off + k - L[d - 1] = sdesc[b].off + x /\ u + L[d - 1] + x = u + k
    <3> DEFINE o == sdesc[b].off
               l == L[d - 1]
               s == sdesc[b].len
    <3>1. k \in Nat /\ o \in Nat /\ l \in Nat /\ s \in Nat /\ l < k /\ k <= l + s
      BY <1>2, <2>1, <2>2
    <3> HIDE DEF o, l, s
    <3>2. k - l \in 1 .. s /\ o + k - l = o + (k - l) /\ u + l + (k - l) = u + k
      BY <3>1
    <3> QED BY <3>2 DEF o, l, s
  <2>4. sdesc[b].off + x <= DescBufSize /\ mem[b][sdesc[b].off + x] = u + L[d - 1] + x
    BY <2>2, <2>3 DEF HoldsFrom
  <2>5. UnreadUnit(k) = mem[b][sdesc[b].off + x]
    BY <2>1, <2>3, <2>4
  <2> QED BY <1>3, <2>3, <2>4, <2>5
<1> QED BY <1>8, <1>9

-----------------------------------------------------------------------------
(* Packets. *)

\* The driver divides the lengths the card sends by the size of its buffers,
\* as the card does: they are no powers of two, or a buffer has the size of
\* its room (get_fl_nr).
SameBuffers == \A len \in Lengths : len # 0 => FlSize(len) = C2hBufsz

LEMMA Times ==
  ASSUME NEW j \in Int, NEW c \in Int
  PROVE  j * c \in Int /\ (j + 1) * c = j * c + c /\ (j - 1) * c = j * c - c
  OBVIOUS

LEMMA TimesRise ==
  ASSUME NEW i \in Nat, NEW j \in Nat, i <= j, NEW c \in Nat
  PROVE  i * c <= j * c /\ i * c \in Nat
  OBVIOUS

LEMMA CardUsesIs ==
  ASSUME NEW len \in Nat
  PROVE  LET n == CardUses(len)
         IN  /\ n \in Nat /\ n >= 1 /\ (n - 1) * C2hBufsz \in Nat /\ n * C2hBufsz \in Nat
             /\ n * C2hBufsz = (n - 1) * C2hBufsz + C2hBufsz
             /\ (n - 1) * C2hBufsz <= len /\ len <= n * C2hBufsz /\ (len # 0 => (n - 1) * C2hBufsz < len)
<1> DEFINE c == C2hBufsz
           n == CardUses(len)
<1>1. c \in Nat /\ c >= 1
  BY Sizes
<1> HIDE DEF c
<1>2. CASE len = 0
  <2>1. n = 1
    BY <1>2 DEF CardUses
  <2>2. (1 - 1) * c = 0 /\ 1 * c = c
    BY <1>1
  <2> HIDE DEF n
  <2>3. n \in Nat /\ n >= 1 /\ (n - 1) * c = 0 /\ n * c = c
    BY <2>1, <2>2
  <2> QED BY <1>1, <1>2, <2>3 DEF c, n
<1>3. CASE len # 0
  <2>1. n = (len + c - 1) \div c
    BY <1>3 DEF CardUses, c
  <2>2. n \in Nat /\ n >= 1
    BY <1>1, <1>3, <2>1
  <2>3. (n - 1) * c < len /\ len <= n * c
    BY <1>1, <1>3, <2>1
  <2>4. n * c \in Int /\ (n - 1) * c = n * c - c
    BY <1>1, <2>2, Times
  <2>5. (n - 1) * c \in Nat /\ n * c \in Nat
    BY <1>1, <2>2, TimesRise
  <2> QED BY <1>1, <2>2, <2>3, <2>4, <2>5 DEF c
<1> QED BY <1>2, <1>3

LEMMA Remainder ==
  ASSUME NEW c \in Nat, NEW m \in Nat, NEW k \in Nat, NEW r \in Nat, NEW len \in Nat, r < c,
         len = m * c + r, k * c < len, len <= k * c + c
  PROVE  len - k * c = IF r = 0 THEN c ELSE r
<1>1. m * c \in Nat /\ k * c \in Nat
  BY TimesRise
<1>2. CASE m < k
  <2>1. (m + 1) * c <= k * c /\ (m + 1) * c = m * c + c
    BY <1>2, TimesRise, Times
  <2> QED BY <1>1, <2>1
<1>3. CASE m = k
  BY <1>1, <1>3
<1>4. CASE m = k + 1
  <2>1. m * c = k * c + c
    BY <1>4, Times
  <2> QED BY <1>1, <2>1
<1>5. CASE m > k + 1
  <2>1. ((k + 1) + 1) * c <= m * c /\ ((k + 1) + 1) * c = (k + 1) * c + c /\ (k + 1) * c = k * c + c
    BY <1>5, TimesRise, Times
  <2> QED BY <1>1, <2>1
<1> QED BY <1>2, <1>3, <1>4, <1>5

LEMMA PacketIs ==
  ASSUME SameBuffers, NEW len \in Lengths
  PROVE  /\ len \in Nat /\ FlNr(len) = CardUses(len)
         /\ LastLen(len) = len - (CardUses(len) - 1) * C2hBufsz
         /\ LastLen(len) \in 0 .. C2hBufsz
<1> DEFINE c == C2hBufsz
           n == CardUses(len)
<1>1. len \in Nat /\ c \in Nat /\ c >= 1
  BY Sizes
<1>2. /\ n \in Nat /\ n >= 1 /\ (n - 1) * c \in Nat /\ n * c \in Nat
      /\ n * c = (n - 1) * c + c
      /\ (n - 1) * c <= len /\ len <= n * c /\ (len # 0 => (n - 1) * c < len)
  BY <1>1, CardUsesIs
<1>3. CASE len = 0
  <2>1. n = 1 /\ (n - 1) * c = 0
    BY <1>1, <1>3 DEF CardUses
  <2>2. FlNr(len) = 1 /\ LastLen(len) = 0
    BY <1>3 DEF FlNr, LastLen
  <2> QED BY <1>1, <1>3, <2>1, <2>2
<1>4. CASE len # 0
  <2>1. FlSize(len) = c
    BY <1>4 DEF SameBuffers
  <2>2. FlNr(len) = n
    BY <1>4, <2>1 DEF FlNr, CardUses
  <2>3. LastLen(len) = IF len % c = 0 THEN c ELSE len % c
    BY <1>4, <2>1 DEF LastLen
  <2> HIDE DEF c, n
  <2>4. len = c * (len \div c) + (len % c) /\ len % c \in 0 .. c - 1 /\ len \div c \in Nat
    BY <1>1
  <2>5. (len - (n - 1) * c) \in 1 .. c
    BY <1>1, <1>2, <1>4
  <2>6. len - (n - 1) * c = IF len % c = 0 THEN c ELSE len % c
    <3>1. n - 1 \in Nat /\ len = (len \div c) * c + (len % c) /\ len % c \in Nat /\ len % c < c
      BY <1>1, <1>2, <2>4
    <3>2. (n - 1) * c < len /\ len <= (n - 1) * c + c
      BY <1>2, <1>4
    <3> DEFINE m == len \div c
               r == len % c
               k == n - 1
    <3>3. c \in Nat /\ m \in Nat /\ k \in Nat /\ r \in Nat /\ r < c /\ len = m * c + r
      BY <1>1, <2>4, <3>1
    <3>4. k * c < len /\ len <= k * c + c
      BY <3>2
    <3> HIDE DEF m, r, k
    <3>5. len - k * c = IF r = 0 THEN c ELSE r
      BY <1>1, <3>3, <3>4, Remainder
    <3> QED BY <3>5 DEF r, k
  <2> QED BY <1>1, <2>2, <2>3, <2>5, <2>6 DEF c, n
<1> QED BY <1>3, <1>4


-----------------------------------------------------------------------------
(* The start, and steps that move no buffer.                                *)

\* All but what the handler and the requests are up to.
Books == OrderInv /\ ValidInv /\ FreshInv /\ CmptInv /\ ChainInv /\ StreamInv /\ StreamInOrder

LEMMA SameBooks ==
  ASSUME Books, From' = From, Received' = Received, readOut' = readOut,
         q'.pidx = q.pidx, q'.pidxPend = q.pidxPend, q'.cidxCmpt = q.cidxCmpt, q'.dlen = q.dlen,
         q'.err = q.err, q'.avail = q.avail, q'.skewed = q.skewed,
         card'.next = card.next, card'.posted = card.posted, card'.pidx = card.pidx, card'.cidx = card.cidx,
         card'.sent = card.sent, mem' = mem, cmpt' = cmpt, sdesc' = sdesc, valid' = valid
  PROVE  Books'
<1>1. OrderInv' /\ ValidInv' /\ FreshInv' /\ CmptInv' /\ StreamInOrder'
  BY DEF Books, OrderInv, ValidInv, FreshInv, CmptInv, StreamInOrder, Place, Spare
<1>2. Left' = Left /\ Held' = Held
  BY DEF Left, Held
<1>3. ChainInv'
  <2> SUFFICES ASSUME ~q.err PROVE ChainInv'
    BY DEF ChainInv
  <2>1. PICK A \in [0 .. Left -> 0 .. Delta(card.next, Received, RingSize)], T \in [0 .. Left -> Nat] : ChainOf(A, T)
    BY DEF Books, ChainInv
  <2>2. ChainOf(A, T)'
    BY <1>2, <2>1 DEF ChainOf, Covers, Slot, Filled
  <2> QED BY <1>2, <2>1, <2>2 DEF ChainInv
<1>4. StreamInv'
  <2>1. PICK L \in [0 .. Held -> Nat] : StreamOf(L)
    BY DEF Books, StreamInv
  <2>2. StreamOf(L)'
    BY <1>2, <2>1 DEF StreamOf, Buf, HoldsFrom
  <2> QED BY <1>2, <2>1, <2>2 DEF StreamInv
<1> QED BY <1>1, <1>3, <1>4 DEF Books

LEMMA InitInv == Init => IInv
<1> SUFFICES ASSUME Init PROVE IInv
  OBVIOUS
<1> USE Sizes
<1>1. TypeInv
  <2>1. CardType /\ MemType /\ CmptType /\ RingType /\ DescType /\ QType /\ SvcType
    BY DEF Init, CardType, MemType, CmptType, RingType, DescType, QType, SvcType, Bufs, DataKinds
  <2>2. ReqType /\ OtherType
    <3>1. ReqType /\ pend \in Seq(Requests) /\ readOut \in Seq([unit : Nat, to : Requests])
      BY DEF Init, ReqType
    <3>2. mode \in {"poll", "direct", "indirect"} /\ work \in BOOLEAN /\ valid \in SUBSET Bufs
      BY DEF Init
    <3> QED BY <3>1, <3>2 DEF OtherType
  <2> QED BY <2>1, <2>2 DEF TypeInv
<1>2. Free /\ From = 0 /\ Received = 0 /\ 0 \in Bufs /\ Spare = 0 /\ ~Receiving
  BY DEF Init, Free, From, Received, Receiving, Spare, Incr, Bufs
<1>3. Delta(0, 0, RingSize) = 0 /\ Delta(0, 0, CmptSize) = 0 /\ Between(0, 0) = {}
  BY DEF Delta, Between
<1>4. OrderInv
  BY <1>2, <1>3 DEF Init, OrderInv, Place
<1>5. ServiceInv
  BY <1>2 DEF Init, ServiceInv, Free, Receiving
<1>6. ValidInv
  BY <1>2, <1>3, FS_EmptySet DEF Init, ValidInv
<1>7. FreshInv /\ CmptInv
  BY <1>3 DEF Init, FreshInv, CmptInv
<1>8. WaitInv
  BY DEF Init, WaitInv
<1>9. Left = 0 /\ Held = 0
  BY <1>2, <1>3 DEF Init, Left, Held
<1>10. ChainInv
  <2> DEFINE Z == [k \in 0 .. 0 |-> 0]
  <2>1. ChainOf(Z, Z)
    BY <1>2, <1>3, <1>9 DEF Init, ChainOf
  <2>2. Z \in [0 .. Left -> 0 .. Delta(card.next, Received, RingSize)] /\ Z \in [0 .. Left -> Nat]
    BY <1>2, <1>3, <1>9 DEF Init
  <2> QED BY <2>1, <2>2 DEF ChainInv
<1>11. StreamInv
  <2> DEFINE Z == [k \in 0 .. 0 |-> 0]
  <2>1. StreamOf(Z)
    BY <1>9 DEF Init, StreamOf
  <2>2. Z \in [0 .. Held -> Nat]
    BY <1>9
  <2> QED BY <2>1, <2>2 DEF StreamInv
<1>12. StreamInOrder
  BY DEF Init, StreamInOrder
<1> QED BY <1>1, <1>4, <1>5, <1>6, <1>7, <1>8, <1>10, <1>11, <1>12 DEF IInv

\* Interrupts and the entries they leave.
NewsStep == HwInterrupt \/ OtherInterrupt \/ HwRingEntry \/ Isr

LEMMA NewEntriesFew == Cardinality(NewEntries) \in 0 .. IntrSize
<1>1. NewEntries \subseteq 1 .. IntrSize
  BY DEF NewEntries
<1>2. IsFiniteSet(1 .. IntrSize) /\ Cardinality(1 .. IntrSize) = IntrSize
  BY Sizes, FS_Interval
<1>3. IsFiniteSet(NewEntries) /\ Cardinality(NewEntries) <= IntrSize
  BY <1>1, <1>2, FS_Subset
<1>4. Cardinality(NewEntries) \in Nat
  BY <1>3, FS_CardinalityType
<1> QED BY <1>3, <1>4, Sizes

LEMMA NewsTypes ==
  ASSUME TypeInv, NewsStep
  PROVE  TypeInv'
<1> USE Sizes
<1>1. CASE HwInterrupt \/ OtherInterrupt
  BY <1>1 DEF HwInterrupt, OtherInterrupt, TypeInv, CardType, MemType, CmptType, RingType, DescType, QType,
              SvcType, ReqType, OtherType
<1>2. CASE HwRingEntry
  <2>1. CardType' /\ RingType'
    <3>1. Incr(iring.hwPidx, 1, IntrSize) \in 0 .. IntrSize - 1
      BY DEF TypeInv, RingType, Incr
    <3>2. (IF iring.hwPidx = IntrSize - 1 THEN 1 - iring.hwColor ELSE iring.hwColor) \in {0, 1}
      BY DEF TypeInv, RingType
    <3>3. RingType'
      BY <1>2, <3>1, <3>2 DEF HwRingEntry, TypeInv, RingType
    <3>4. CardType'
      BY <1>2 DEF HwRingEntry, TypeInv, CardType
    <3> QED BY <3>3, <3>4
  <2> QED BY <1>2, <2>1 DEF HwRingEntry, TypeInv, MemType, CmptType, DescType, QType, SvcType, ReqType, OtherType
<1>3. CASE Isr
  <2>1. RingType' /\ work' \in BOOLEAN
    <3>1. Incr(iring.cidx, Cardinality(NewEntries), IntrSize) \in 0 .. IntrSize - 1
      BY NewEntriesFew DEF TypeInv, RingType, Incr
    <3> DEFINE color == IF iring.cidx + Cardinality(NewEntries) >= IntrSize THEN 1 - iring.color ELSE iring.color
               cidx == Incr(iring.cidx, Cardinality(NewEntries), IntrSize)
    <3>2. color \in {0, 1}
      BY DEF TypeInv, RingType
    <3>3. iring' = [iring EXCEPT !.cidx = cidx, !.color = color]
      BY <1>3 DEF Isr
    <3> HIDE DEF color, cidx
    <3>4. cidx \in 0 .. IntrSize - 1
      BY <3>1 DEF cidx
    <3>5. RingType'
      BY <3>2, <3>3, <3>4 DEF TypeInv, RingType
    <3>6. work' \in BOOLEAN
      BY <1>3 DEF Isr
    <3> QED BY <3>5, <3>6
  <2>2. CardType' /\ MemType' /\ CmptType' /\ DescType' /\ QType' /\ SvcType' /\ ReqType'
    BY <1>3 DEF Isr, TypeInv, CardType, MemType, CmptType, DescType, QType, SvcType, ReqType
  <2>3. OtherType'
    BY <1>3, <2>1 DEF Isr, TypeInv, OtherType
  <2> QED BY <2>1, <2>2, <2>3 DEF TypeInv
<1> QED BY <1>1, <1>2, <1>3 DEF NewsStep

LEMMA NewsKeeps ==
  ASSUME IInv, NewsStep
  PROVE  IInv'
<1>1. TypeInv'
  BY NewsTypes DEF IInv
<1>2. /\ q' = q /\ readOut' = readOut /\ svc' = svc /\ pend' = pend /\ req' = req
      /\ mem' = mem /\ cmpt' = cmpt /\ sdesc' = sdesc /\ valid' = valid
      /\ card'.next = card.next /\ card'.posted = card.posted /\ card'.pidx = card.pidx
      /\ card'.cidx = card.cidx /\ card'.sent = card.sent
  BY DEF NewsStep, HwInterrupt, OtherInterrupt, HwRingEntry, Isr, IInv, TypeInv, CardType
<1>3. From' = From /\ Received' = Received /\ Spare' = Spare /\ Left' = Left
  BY <1>2 DEF From, Received, Receiving, Free, Spare, Left
<1>4. Books'
  BY <1>2, <1>3, SameBooks DEF IInv, Books
<1>5. ServiceInv' /\ WaitInv'
  BY <1>2, <1>3 DEF IInv, ServiceInv, WaitInv, Free, Receiving
<1> QED BY <1>1, <1>4, <1>5 DEF IInv, Books


\* The handler begins.
LEMMA BeginKeeps ==
  ASSUME IInv, IntrWork \/ PollWork
  PROVE  IInv'
<1> USE Sizes
<1> DEFINE n == Delta(card.pidx, q.cidxCmpt, CmptSize)
           takes == q.state = "online" /\ ~q.err
           new == [at |-> "entries", left |-> n, done |-> 0, pidx |-> q.pidx, from |-> q.pidxPend]
<1>1. /\ Begin /\ work' \in BOOLEAN
      /\ UNCHANGED <<mode, mem, cmpt, iring, sdesc, valid, q, pend, req, readOut>>
  BY DEF IntrWork, PollWork, IInv, TypeInv, OtherType
<1>2. /\ Free /\ (svc' = svc \/ (svc' = new /\ takes /\ n > 0))
      /\ (card' = card \/ card' = [card EXCEPT !.armed = TRUE])
  BY <1>1 DEF Begin
<1>3. n \in Nat /\ n = Left
  <2>1. card.pidx \in 0 .. CmptSize - 1 /\ q.cidxCmpt \in 0 .. CmptSize - 1
    BY DEF IInv, TypeInv, CardType, QType
  <2>2. CmptSize \in Nat /\ CmptSize >= 1
    OBVIOUS
  <2>3. Delta(card.pidx, q.cidxCmpt, CmptSize) \in 0 .. CmptSize - 1
    BY <2>1, <2>2, DeltaIs
  <2> QED BY <2>2, <2>3 DEF Left
<1>4. TypeInv'
  <2>1. SvcType'
    <3>1. new \in [at : {"entries", "cidx", "deliver", "refill"}, left : Nat, done : Nat, pidx : Bufs, from : Bufs]
      BY <1>3 DEF IInv, TypeInv, QType
    <3> QED BY <1>2, <3>1 DEF IInv, TypeInv, SvcType
  <2>2. CardType'
    BY <1>2 DEF IInv, TypeInv, CardType
  <2>3. OtherType'
    BY <1>1 DEF IInv, TypeInv, OtherType
  <2> QED BY <1>1, <2>1, <2>2, <2>3 DEF IInv, TypeInv, MemType, CmptType, RingType, DescType, QType, ReqType
<1>5. /\ card'.next = card.next /\ card'.posted = card.posted /\ card'.pidx = card.pidx
      /\ card'.cidx = card.cidx /\ card'.sent = card.sent
  BY <1>2 DEF IInv, TypeInv, CardType
<1>6. From' = From /\ Received' = Received /\ Spare' = Spare /\ Left' = Left
  <2>1. svc.at = "idle" /\ From = q.pidxPend /\ Received = q.pidx
    BY <1>2 DEF Free, From, Received, Receiving
  <2>2. From' = q.pidxPend /\ Received' = q.pidx
    BY <1>1, <1>2, <2>1 DEF Free, From, Received, Receiving
  <2> QED BY <1>1, <1>5, <2>1, <2>2 DEF Spare, Left
<1>7. Books'
  BY <1>1, <1>5, <1>6, SameBooks DEF IInv, Books
<1>8. ServiceInv'
  <2>1. CASE svc' = svc
    BY <1>1, <1>6, <2>1 DEF IInv, ServiceInv, Free, Receiving
  <2>2. CASE svc' = new /\ takes
    <3>1. svc'.at = "entries" /\ svc'.left = n /\ svc'.pidx = q.pidx /\ svc'.from = q.pidxPend
      BY <2>2
    <3> QED BY <1>1, <1>3, <1>6, <2>2, <3>1 DEF IInv, ServiceInv, Free, Receiving
  <2> QED BY <1>2, <2>1, <2>2
<1>9. WaitInv'
  <2>1. Free /\ svc'.at \in {svc.at, "entries"}
    BY <1>2
  <2> QED BY <1>1, <2>1 DEF IInv, WaitInv, Free, Receiving
<1> QED BY <1>4, <1>7, <1>8, <1>9 DEF IInv, Books

-----------------------------------------------------------------------------
(* The card sends a packet or an error. *)

\* Where the buffers are.
LEMMA PlacesAre ==
  ASSUME TypeInv
  PROVE  /\ From \in Bufs /\ q.pidxPend \in Bufs /\ q.pidx \in Bufs /\ Received \in Bufs
         /\ card.next \in Bufs /\ Spare \in Bufs /\ RingSize \in Nat
         /\ \A b \in Bufs : Place(b) \in 0 .. RingSize - 1
         /\ \A a, b \in Bufs : Place(a) <= Place(b) => Delta(b, a, RingSize) = Place(b) - Place(a)
<1>1. q.pidxPend \in Bufs /\ q.pidx \in Bufs /\ card.next \in Bufs /\ card.posted \in Bufs
  BY DEF TypeInv, QType, CardType
<1>2. From \in Bufs /\ Received \in Bufs
  BY <1>1 DEF TypeInv, SvcType, From, Received, Free, Receiving
<1>3. Spare \in Bufs
  <2>1. 1 \in 0 .. RingSize - 1
    BY Sizes
  <2> QED BY <1>1, <2>1, BufIncr DEF Spare
<1>4. \A b \in Bufs : Place(b) \in 0 .. RingSize - 1
  BY <1>3, BufDist DEF Place
<1>5. \A a, b \in Bufs : Place(a) <= Place(b) => Delta(b, a, RingSize) = Place(b) - Place(a)
  BY <1>3, BufDistDist DEF Place
<1> QED BY <1>1, <1>2, <1>3, <1>4, <1>5, Sizes

\* What the card may fill is what lies before the spare buffer.
LEMMA PostedIs ==
  ASSUME TypeInv
  PROVE  /\ Delta(card.posted, card.next, RingSize) = RingSize - 1 - Place(card.next)
         /\ Place(card.posted) = RingSize - 1
<1>1. card.posted \in Bufs /\ card.next \in Bufs
  BY DEF TypeInv, CardType
<1>2. Place(card.posted) = RingSize - 1
  BY <1>1, Sizes DEF Place, Spare, Delta, Incr, Bufs
<1>3. Place(card.next) <= Place(card.posted)
  BY <1>1, <1>2, PlacesAre
<1> QED BY <1>1, <1>2, <1>3, PlacesAre

LEMMA CompletionsAre ==
  ASSUME TypeInv
  PROVE  /\ Left \in 0 .. CmptSize - 1 /\ Left \in Nat
         /\ card.pidx \in 0 .. CmptSize - 1 /\ card.cidx \in 0 .. CmptSize - 1 /\ q.cidxCmpt \in 0 .. CmptSize - 1
         /\ Incr(q.cidxCmpt, Left, CmptSize) = card.pidx
         /\ \A j, k \in 0 .. CmptSize - 1 :
              Incr(q.cidxCmpt, j, CmptSize) = Incr(q.cidxCmpt, k, CmptSize) => j = k
<1>1. card.pidx \in 0 .. CmptSize - 1 /\ card.cidx \in 0 .. CmptSize - 1 /\ q.cidxCmpt \in 0 .. CmptSize - 1
  BY DEF TypeInv, CardType, QType
<1>2. Left \in 0 .. CmptSize - 1 /\ Incr(q.cidxCmpt, Left, CmptSize) = card.pidx
  BY <1>1, Sizes, DeltaIs DEF Left
<1>3. ASSUME NEW j \in 0 .. CmptSize - 1, NEW k \in 0 .. CmptSize - 1,
             Incr(q.cidxCmpt, j, CmptSize) = Incr(q.cidxCmpt, k, CmptSize)
      PROVE  j = k
  <2>1. CmptSize \in Nat /\ CmptSize >= 1
    BY Sizes
  <2>2. Delta(Incr(q.cidxCmpt, j, CmptSize), q.cidxCmpt, CmptSize) = j
    BY <1>1, <2>1, IncrIs
  <2>3. Delta(Incr(q.cidxCmpt, k, CmptSize), q.cidxCmpt, CmptSize) = k
    BY <1>1, <2>1, IncrIs
  <2> QED BY <1>3, <2>2, <2>3
<1> QED BY <1>1, <1>2, <1>3, Sizes


\* A completion is added.
LEMMA CompleteIs ==
  ASSUME TypeInv, CmptInv, CmptRoom, q' = q,
         NEW kind \in DataKinds, NEW len \in Nat, NEW next \in Bufs, NEW count \in 0 .. MaxPackets,
         Complete(kind, len, next, count)
  PROVE  /\ CardType' /\ CmptType' /\ CmptInv' /\ Left' = Left + 1
         /\ card'.next = next /\ card'.posted = card.posted /\ card'.sent = card.sent + len
         /\ \A k \in 0 .. Left - 1 : Slot(k)' = Slot(k)
         /\ \A k \in {Left} : Slot(k)'.kind = kind /\ Slot(k)'.len = len
<1> DEFINE M == CmptSize
           pidx == Incr(card.pidx, 1, CmptSize)
           color == IF card.pidx = CmptSize - 1 THEN 1 - card.color ELSE card.color
           entry == [color |-> card.color, kind |-> kind, len |-> len]
<1>1. M \in Nat /\ M >= 2 /\ M >= 1
  BY Sizes
<1>2. /\ Left \in 0 .. M - 1 /\ Incr(q.cidxCmpt, Left, M) = card.pidx
      /\ card.pidx \in 0 .. M - 1 /\ card.cidx \in 0 .. M - 1 /\ q.cidxCmpt \in 0 .. M - 1
  BY CompletionsAre
<1>3. color \in {0, 1}
  BY DEF TypeInv, CardType
<1>4. /\ cmpt' = [cmpt EXCEPT ![card.pidx] = entry]
      /\ card' = [card EXCEPT !.pidx = pidx, !.next = next, !.color = color,
                              !.sent = card.sent + len, !.packets = count]
  BY DEF Complete
<1>5. pidx \in 0 .. M - 1 /\ pidx # card.cidx
  BY <1>1, <1>2 DEF CmptRoom, Incr
<1> DEFINE E(i) == Delta(i, card.cidx, M)
<1>6. E(pidx) = E(card.pidx) + 1 /\ E(card.pidx) \in 0 .. M - 2
  BY <1>1, <1>2, <1>5 DEF Delta, Incr
<1>7. E(q.cidxCmpt) <= E(card.pidx) /\ E(q.cidxCmpt) \in 0 .. M - 1 /\ E(pidx) \in 0 .. M - 1
  BY <1>1, <1>2, <1>5, DeltaIs DEF CmptInv
<1>8. Delta(pidx, q.cidxCmpt, M) = Left + 1
  <2>1. E(q.cidxCmpt) <= E(pidx)
    BY <1>1, <1>6, <1>7
  <2>2. Delta(pidx, q.cidxCmpt, M) = E(pidx) - E(q.cidxCmpt)
    BY <1>1, <1>2, <1>5, <2>1, DeltaDelta
  <2>3. Delta(card.pidx, q.cidxCmpt, M) = E(card.pidx) - E(q.cidxCmpt)
    BY <1>1, <1>2, <1>7, DeltaDelta
  <2> HIDE DEF E
  <2> QED BY <1>1, <1>6, <1>7, <2>2, <2>3 DEF Left
<1> HIDE DEF pidx, color, entry
<1>9. /\ card'.pidx = pidx /\ card'.cidx = card.cidx /\ card'.next = next /\ card'.posted = card.posted
      /\ card'.sent = card.sent + len /\ CardType'
  <2>1. card.sent + len \in Nat /\ pidx \in 0 .. CmptSize - 1
    BY <1>5 DEF TypeInv, CardType
  <2> QED BY <1>3, <1>4, <2>1 DEF TypeInv, CardType
<1>10. entry \in [color : {0, 1}, kind : DataKinds, len : Nat] /\ entry.kind = kind /\ entry.len = len
  BY DEF entry, TypeInv, CardType
<1>11. CmptType'
  BY <1>2, <1>4, <1>10 DEF TypeInv, CmptType
<1>12. CmptInv' /\ Left' = Left + 1
  BY <1>6, <1>7, <1>8, <1>9 DEF CmptInv, Left
<1>13. ASSUME NEW k \in 0 .. Left - 1 PROVE Slot(k)' = Slot(k)
  <2>1. k \in 0 .. M - 1 /\ k # Left
    BY <1>1, <1>2
  <2>2. Incr(q.cidxCmpt, k, M) # card.pidx
    BY <1>2, <2>1, CompletionsAre
  <2>3. Incr(q.cidxCmpt, k, M) \in 0 .. M - 1
    BY <1>1, <1>2, <2>1, IncrIs
  <2> QED BY <1>4, <2>2, <2>3 DEF Slot, TypeInv, CmptType
<1>14. ASSUME NEW k \in {Left} PROVE Slot(k)' = entry
  <2>1. cmpt'[card.pidx] = entry
    BY <1>2, <1>4 DEF TypeInv, CmptType
  <2>2. Slot(k)' = cmpt'[Incr(q.cidxCmpt, Left, M)]
    BY DEF Slot
  <2> QED BY <1>2, <2>1, <2>2
<1> QED BY <1>9, <1>10, <1>11, <1>12, <1>13, <1>14


\* A packet not taken is where it was when its buffers are not written again,
\* and when the driver takes what came before it.
LEMMA CoversSame ==
  ASSUME NEW me, NEW other, NEW e, e.len \in Nat, NEW base \in Bufs, NEW a \in Nat, NEW t, NEW b \in Nat, NEW u,
         b <= RingSize - 1, Covers(me, e, base, a, t, b, u),
         \A i \in 0 .. b - 1 : other[Incr(base, i, RingSize)] = me[Incr(base, i, RingSize)]
  PROVE  Covers(other, e, base, a, t, b, u)
<1> DEFINE n == CardUses(e.len)
<1>1. CASE e.kind = "err"
  BY <1>1 DEF Covers
<1>2. CASE /\ e.kind = "data" /\ e.len \in Lengths /\ b = a + n /\ u = t + e.len
           /\ Filled(me, e, Incr(base, a, RingSize), t)
  <2>1. n \in Nat /\ RingSize \in Nat
    BY CardUsesIs, Sizes
  <2>2. ASSUME NEW j \in 0 .. n - 1
        PROVE  other[Incr(Incr(base, a, RingSize), j, RingSize)] = me[Incr(Incr(base, a, RingSize), j, RingSize)]
    <3> HIDE DEF n
    <3>1. a \in 0 .. RingSize - 1 /\ j \in 0 .. RingSize - 1 /\ a + j <= RingSize - 1 /\ a + j \in 0 .. b - 1
      BY <1>2, <2>1
    <3> QED BY <3>1, BufIncrIncr
  <2>3. Filled(other, e, Incr(base, a, RingSize), t)
    BY <1>2, <2>2 DEF Filled
  <2> QED BY <1>2, <2>3 DEF Covers
<1> QED BY <1>1, <1>2 DEF Covers

LEMMA CoversShift ==
  ASSUME NEW me, NEW e, e.len \in Nat, NEW base \in Bufs, NEW a \in Nat, NEW t, NEW b \in Nat, NEW u,
         a <= b, b <= RingSize - 1, NEW s \in Nat, s <= a, Covers(me, e, base, a, t, b, u)
  PROVE  Covers(me, e, Incr(base, s, RingSize), a - s, t, b - s, u)
<1>1. Incr(Incr(base, s, RingSize), a - s, RingSize) = Incr(base, a, RingSize)
  <2>1. RingSize \in Nat /\ s \in 0 .. RingSize - 1 /\ a - s \in 0 .. RingSize - 1 /\ s + (a - s) = a
        /\ s + (a - s) <= RingSize - 1
    BY Sizes
  <2> QED BY <2>1, BufIncrIncr
<1>2. CASE e.kind = "err" /\ b = a /\ u = t
  <2>1. b - s = a - s
    BY <1>2
  <2> QED BY <1>2, <2>1 DEF Covers
<1>3. CASE e.kind = "data" /\ e.len \in Lengths /\ b = a + CardUses(e.len) /\ u = t + e.len
           /\ Filled(me, e, Incr(base, a, RingSize), t)
  <2> DEFINE n == CardUses(e.len)
  <2>1. n \in Nat
    BY CardUsesIs
  <2> HIDE DEF n
  <2>2. b = a + n
    BY <1>3 DEF n
  <2>3. b - s = (a - s) + n
    BY <2>1, <2>2
  <2> QED BY <1>1, <1>3, <2>3 DEF Covers, n
<1> QED BY <1>2, <1>3 DEF Covers

\* What comes before a completion does not exceed what comes after it.
LEMMA CoversRise ==
  ASSUME NEW me, NEW e, e.len \in Nat, NEW base, NEW a \in Nat, NEW t \in Nat, NEW b, NEW u,
         Covers(me, e, base, a, t, b, u)
  PROVE  a <= b /\ t <= u
<1>1. CASE b = a /\ u = t
  BY <1>1
<1>2. CASE b = a + CardUses(e.len) /\ u = t + e.len
  <2>1. CardUses(e.len) \in Nat
    BY CardUsesIs
  <2> QED BY <1>2, <2>1
<1> QED BY <1>1, <1>2 DEF Covers


\* An entry of the completion ring.
LEMMA SlotIs ==
  ASSUME TypeInv, NEW k \in 0 .. CmptSize - 1
  PROVE  Slot(k) \in [color : {0, 1}, kind : DataKinds, len : Nat] /\ Slot(k).len \in Nat
<1>1. CmptSize \in Nat /\ CmptSize >= 1 /\ q.cidxCmpt \in 0 .. CmptSize - 1
  BY Sizes DEF TypeInv, QType
<1>2. Incr(q.cidxCmpt, k, CmptSize) \in 0 .. CmptSize - 1
  BY <1>1, IncrIs
<1> QED BY <1>2 DEF TypeInv, CmptType, Slot

\* What the card writes with n more buffers: units sent + 1, ... in a row.
Written(n, len) ==
  /\ \A b \in Bufs : Delta(b, card.next, RingSize) >= n => mem'[b] = mem[b]
  /\ \A j \in 0 .. n - 1 : \A x \in 1 .. C2hBufsz :
       j * C2hBufsz + x <= len => mem'[Incr(card.next, j, RingSize)][x] = card.sent + j * C2hBufsz + x

LEMMA SendKeeps ==
  ASSUME IInv, CmptRoom, NEW kind \in DataKinds, NEW len \in Nat, NEW n \in Nat, NEW count \in 0 .. MaxPackets,
         n <= Delta(card.posted, card.next, RingSize),
         Complete(kind, len, Incr(card.next, n, RingSize), count),
         (kind = "data" /\ len \in Lengths /\ n = CardUses(len)) \/ (kind = "err" /\ len = 0 /\ n = 0),
         MemType', Written(n, len),
         UNCHANGED <<mode, iring, sdesc, valid, q, svc, work, pend, req, readOut>>
  PROVE  IInv'
<1> DEFINE N == RingSize
           next == Incr(card.next, n, RingSize)
<1>1. TypeInv /\ CmptInv /\ OrderInv
  BY DEF IInv
<1>2. /\ From \in Bufs /\ q.pidxPend \in Bufs /\ q.pidx \in Bufs /\ Received \in Bufs
      /\ card.next \in Bufs /\ Spare \in Bufs /\ N \in Nat
      /\ \A b \in Bufs : Place(b) \in 0 .. N - 1
      /\ \A a, b \in Bufs : Place(a) <= Place(b) => Delta(b, a, N) = Place(b) - Place(a)
  BY <1>1, PlacesAre
<1>3. n <= N - 1 - Place(card.next) /\ n \in 0 .. N - 1
  BY <1>1, <1>2, PostedIs
<1>4. next \in Bufs
  BY <1>2, <1>3, BufIncr
<1>5. Place(next) = Place(card.next) + n
  <2>1. Delta(card.next, Spare, N) + n <= N - 1
    BY <1>2, <1>3 DEF Place
  <2> QED BY <1>2, <1>3, <2>1, BufDistIncr DEF Place
<1> HIDE DEF next
<1>6. /\ CardType' /\ CmptType' /\ CmptInv' /\ Left' = Left + 1
      /\ card'.next = next /\ card'.posted = card.posted /\ card'.sent = card.sent + len
      /\ \A k \in 0 .. Left - 1 : Slot(k)' = Slot(k)
      /\ \A k \in {Left} : Slot(k)'.kind = kind /\ Slot(k)'.len = len
  <2>1. Complete(kind, len, next, count)
    BY DEF next
  <2> QED BY <1>1, <1>4, <2>1, CompleteIs
<1>7. TypeInv'
  BY <1>1, <1>6 DEF TypeInv, RingType, DescType, QType, SvcType, ReqType, OtherType
<1>8. /\ From' = From /\ Received' = Received /\ Spare' = Spare /\ Held' = Held
      /\ \A b : Place(b)' = Place(b)
  BY <1>6 DEF From, Received, Receiving, Free, Spare, Held, Place
<1>9. /\ Place(From) <= Place(q.pidxPend) /\ Place(q.pidxPend) <= Place(q.pidx)
      /\ Place(q.pidx) <= Place(Received) /\ Place(Received) <= Place(card.next)
      /\ Place(card.next) <= Place(next) /\ Place(card.next) \in Nat
  BY <1>1, <1>2, <1>5 DEF OrderInv
<1>10. OrderInv'
  <2>1. Place(Received) <= Place(next)
    BY <1>2, <1>4, <1>9
  <2>2. Place(card.next)' = Place(next)
    BY <1>6, <1>8 DEF Place
  <2>3. /\ Place(From)' = Place(From) /\ Place(q.pidxPend)' = Place(q.pidxPend) /\ Place(q.pidx)' = Place(q.pidx)
        /\ Place(Received)' = Place(Received)
    BY <1>8 DEF Place
  <2> QED BY <1>9, <2>1, <2>2, <2>3 DEF OrderInv
<1>11. ServiceInv'
  BY <1>6, <1>8, CompletionsAre DEF IInv, ServiceInv, Free, Receiving, TypeInv, SvcType
<1>12. ValidInv' /\ FreshInv' /\ WaitInv' /\ StreamInOrder'
  BY <1>8 DEF IInv, ValidInv, FreshInv, WaitInv, StreamInOrder, Free, Receiving
<1>13. ASSUME NEW b \in Bufs, Place(b) < Place(card.next) PROVE mem'[b] = mem[b]
  <2>1. Delta(b, card.next, N) = N + Place(b) - Place(card.next)
    BY <1>2, <1>13, BufDistDist DEF Place
  <2>2. Delta(b, card.next, N) >= n
    BY <1>2, <1>3, <2>1
  <2> QED BY <2>2 DEF Written
<1>14. StreamInv'
  <2>1. PICK L \in [0 .. Held -> Nat] : StreamOf(L)
    BY DEF IInv, StreamInv
  <2>2. ASSUME NEW d \in 0 .. Held - 1 PROVE Buf(d) \in Bufs /\ Buf(d)' = Buf(d) /\ mem'[Buf(d)] = mem[Buf(d)]
    <3>1. Held = Place(Received) - Place(q.pidxPend)
      BY <1>2, <1>9 DEF Held
    <3>2. d \in 0 .. N - 1 /\ Place(q.pidxPend) + d < Place(Received)
      BY <1>2, <3>1
    <3>3. Buf(d) \in Bufs
      BY <1>2, <3>2, BufIncr DEF Buf
    <3>4. Place(Buf(d)) = Place(q.pidxPend) + d
      <4>1. Delta(q.pidxPend, Spare, N) + d <= N - 1
        BY <1>2, <3>2 DEF Place
      <4> QED BY <1>2, <3>2, <4>1, BufDistIncr DEF Place, Buf
    <3>5. Place(Buf(d)) < Place(card.next)
      BY <1>2, <1>9, <3>2, <3>4
    <3> QED BY <1>13, <3>3, <3>5 DEF Buf
  <2>3. StreamOf(L)'
    BY <1>8, <2>1, <2>2 DEF StreamOf, HoldsFrom
  <2> QED BY <1>8, <2>1, <2>3 DEF StreamInv
<1>15. ChainInv'
  <2> SUFFICES ASSUME ~q.err PROVE ChainInv'
    BY DEF ChainInv
  <2> DEFINE m == Delta(card.next, Received, N)
             h == Left
             sent == card.sent
  <2>1. PICK A \in [0 .. h -> 0 .. m], T \in [0 .. h -> Nat] : ChainOf(A, T)
    BY DEF IInv, ChainInv
  <2>2. h \in 0 .. CmptSize - 1 /\ h \in Nat /\ m = Place(card.next) - Place(Received)
    BY <1>1, <1>2, <1>9, CompletionsAre
  <2>3. m \in 0 .. N - 1 /\ m + n \in 0 .. N - 1
    <3> DEFINE P == Place(Received)
               Q == Place(card.next)
    <3>1. P \in 0 .. N - 1 /\ Q \in 0 .. N - 1 /\ P <= Q /\ N \in Nat /\ m = Q - P
      BY <1>2, <1>9, <2>2
    <3>2. n <= N - 1 - Q /\ n \in Nat
      BY <1>3
    <3> HIDE DEF m, P, Q, N
    <3>3. m \in 0 .. N - 1 /\ m + n \in 0 .. N - 1
      BY <3>1, <3>2
    <3> QED BY <3>3 DEF N
  <2>4. Delta(next, Received, N) = m + n
    <3>1. Place(Received) <= Place(next) /\ Place(next) \in Nat /\ Place(Received) \in Nat
      BY <1>2, <1>4, <1>9
    <3>2. Delta(next, Received, N) = Place(next) - Place(Received)
      BY <1>2, <1>4, <3>1
    <3> QED BY <1>2, <1>5, <2>2, <3>1, <3>2
  <2>5. /\ A[0] = 0 /\ T[0] = Len(readOut) + q.dlen /\ A[h] = m /\ T[h] = sent
        /\ \A k \in 0 .. h - 1 : Covers(mem, Slot(k), Received, A[k], T[k], A[k + 1], T[k + 1])
    BY <2>1 DEF ChainOf
  <2>6. sent \in Nat
    BY <1>1 DEF TypeInv, CardType
  <2>7. /\ Left' = h + 1 /\ Delta(card.next, Received, RingSize)' = m + n /\ card'.sent = sent + len
        /\ (\A k \in 0 .. h - 1 : Slot(k)' = Slot(k))
        /\ \A k \in {h} : Slot(k)'.kind = kind /\ Slot(k)'.len = len
    BY <1>6, <1>8, <2>4
  <2> HIDE DEF m, h, sent
  <2>8. \E AA \in [0 .. h + 1 -> 0 .. m + n] : \E TT \in [0 .. h + 1 -> Nat] :
          /\ \A k \in 0 .. h : AA[k] = A[k] /\ TT[k] = T[k]
          /\ AA[h + 1] = m + n /\ TT[h + 1] = sent + len
    <3> DEFINE X == [k \in 0 .. h + 1 |-> IF k = h + 1 THEN m + n ELSE A[k]]
               Y == [k \in 0 .. h + 1 |-> IF k = h + 1 THEN sent + len ELSE T[k]]
    <3>1. X \in [0 .. h + 1 -> 0 .. m + n] /\ Y \in [0 .. h + 1 -> Nat]
      BY <2>2, <2>3, <2>6
    <3>2. \A k \in 0 .. h : X[k] = A[k] /\ Y[k] = T[k]
      BY <2>2
    <3>3. X[h + 1] = m + n /\ Y[h + 1] = sent + len
      BY <2>2
    <3> QED BY <3>1, <3>2, <3>3
  <2>9. PICK AA \in [0 .. h + 1 -> 0 .. m + n], TT \in [0 .. h + 1 -> Nat] :
          /\ \A k \in 0 .. h : AA[k] = A[k] /\ TT[k] = T[k]
          /\ AA[h + 1] = m + n /\ TT[h + 1] = sent + len
    BY <2>8
  <2>10. AA[h + 1] = m + n /\ TT[h + 1] = sent + len
    BY <2>9
  <2>11. ASSUME NEW k \in 0 .. h - 1 PROVE Covers(mem', Slot(k)', Received, AA[k], TT[k], AA[k + 1], TT[k + 1])
    <3>1. k \in 0 .. h /\ k + 1 \in 0 .. h /\ k \in 0 .. CmptSize - 1 /\ Slot(k)' = Slot(k)
      BY <2>2, <2>7, Sizes
    <3>2. Slot(k).len \in Nat
      BY <1>1, <3>1, SlotIs
    <3>3. Covers(mem, Slot(k), Received, A[k], T[k], A[k + 1], T[k + 1])
      BY <2>5
    <3>4. A[k] \in Nat /\ A[k + 1] \in 0 .. m /\ A[k + 1] <= RingSize - 1 /\ A[k + 1] \in Nat
      <4>1. A[k] \in 0 .. m /\ A[k + 1] \in 0 .. m
        BY <3>1
      <4> QED BY <1>2, <2>3, <4>1
    <3>5. ASSUME NEW i \in 0 .. A[k + 1] - 1
          PROVE  mem'[Incr(Received, i, RingSize)] = mem[Incr(Received, i, RingSize)]
      <4>1. i \in 0 .. N - 1 /\ Place(Received) + i < Place(card.next)
        <5> DEFINE P == Place(Received)
                   Q == Place(card.next)
                   b == A[k + 1]
        <5>1. P \in 0 .. N - 1 /\ Q \in 0 .. N - 1 /\ N \in Nat /\ m = Q - P /\ b \in 0 .. m /\ i \in 0 .. b - 1
          BY <1>2, <2>2, <3>4
        <5> HIDE DEF P, Q, N, b
        <5>2. i \in 0 .. N - 1 /\ P + i < Q
          BY <5>1
        <5> QED BY <5>2 DEF P, Q, N
      <4>2. Incr(Received, i, N) \in Bufs
        BY <1>2, <4>1, BufIncr
      <4>3. Place(Incr(Received, i, N)) = Place(Received) + i
        <5>1. Place(Received) + i <= N - 1
          BY <1>2, <4>1
        <5>2. Delta(Received, Spare, N) + i <= N - 1
          BY <5>1 DEF Place
        <5> QED BY <1>2, <4>1, <5>2, BufDistIncr DEF Place
      <4> QED BY <1>13, <4>1, <4>2, <4>3
    <3> DEFINE a == A[k]
               b == A[k + 1]
    <3>6. Covers(mem', Slot(k), Received, a, T[k], b, T[k + 1])
      <4>1. /\ a \in Nat /\ b \in Nat /\ b <= RingSize - 1 /\ Covers(mem, Slot(k), Received, a, T[k], b, T[k + 1])
            /\ \A i \in 0 .. b - 1 : mem'[Incr(Received, i, RingSize)] = mem[Incr(Received, i, RingSize)]
        BY <3>3, <3>4, <3>5
      <4> HIDE DEF a, b
      <4> QED BY <1>2, <3>2, <4>1, CoversSame
    <3> QED BY <2>9, <3>1, <3>6
  <2>12. ASSUME NEW k \in {h} PROVE Covers(mem', Slot(k)', Received, AA[k], TT[k], AA[k + 1], TT[k + 1])
    <3>1. k = h /\ AA[k] = m /\ TT[k] = sent /\ AA[k + 1] = m + n /\ TT[k + 1] = sent + len
      BY <2>2, <2>5, <2>9, <2>10
    <3>2. Slot(k)'.kind = kind /\ Slot(k)'.len = len
      BY <2>7
    <3>3. CASE kind = "err" /\ n = 0 /\ len = 0
      <4>1. m + n = m /\ sent + len = sent
        BY <2>3, <2>6, <3>3
      <4> QED BY <3>1, <3>2, <3>3, <4>1 DEF Covers
    <3>4. CASE kind = "data" /\ len \in Lengths /\ n = CardUses(len)
      <4>1. Incr(Received, m, N) = card.next
        BY <1>2, BufDist DEF m
      <4>2. \A j \in 0 .. n - 1 : \A x \in 1 .. C2hBufsz :
              j * C2hBufsz + x <= len => mem'[Incr(card.next, j, RingSize)][x] = sent + j * C2hBufsz + x
        BY DEF Written, sent
      <4>3. Filled(mem', Slot(k)', card.next, sent)
        BY <3>2, <3>4, <4>2 DEF Filled
      <4>4. Filled(mem', Slot(k)', Incr(Received, m, RingSize), sent)
        BY <4>1, <4>3
      <4> QED BY <3>1, <3>2, <3>4, <4>4 DEF Covers
    <3> QED BY <3>3, <3>4
  <2>13. ChainOf(AA, TT)'
    <3>1. \A k \in 0 .. Left' - 1 : k \in 0 .. h - 1 \/ k \in {h}
      BY <2>2, <2>7
    <3>2. \A k \in 0 .. Left' - 1 : Covers(mem', Slot(k)', Received', AA[k], TT[k], AA[k + 1], TT[k + 1])
      BY <1>8, <2>11, <2>12, <3>1
    <3>3. AA[0] = 0 /\ TT[0] = Len(readOut') + q'.dlen
      BY <2>2, <2>5, <2>9
    <3>4. AA[Left'] = Delta(card.next, Received, RingSize)' /\ TT[Left'] = card'.sent
      BY <2>7, <2>10
    <3> QED BY <3>2, <3>3, <3>4 DEF ChainOf
  <2>14. AA \in [0 .. Left' -> 0 .. Delta(card.next, Received, RingSize)'] /\ TT \in [0 .. Left' -> Nat]
    BY <2>7, <2>8
  <2> QED BY <2>13, <2>14 DEF ChainInv
<1> QED BY <1>6, <1>7, <1>10, <1>11, <1>12, <1>14, <1>15 DEF IInv


LEMMA PacketKeeps ==
  ASSUME IInv, NEW len \in Lengths, HwPacket(len)
  PROVE  IInv'
<1> DEFINE n == CardUses(len)
           At(b) == Delta(b, card.next, RingSize)
           W(b, k) == IF At(b) < n /\ k <= C2hBufsz /\ At(b) * C2hBufsz + k <= len
                      THEN card.sent + At(b) * C2hBufsz + k ELSE mem[b][k]
<1>1. TypeInv /\ CmptRoom /\ len \in Nat /\ card.packets + 1 \in 0 .. MaxPackets
  BY Sizes DEF IInv, TypeInv, CardType, HwPacket
<1>2. card.next \in Bufs /\ card.posted \in Bufs /\ card.sent \in Nat /\ C2hBufsz \in Nat /\ C2hBufsz <= DescBufSize
      /\ DescBufSize \in Nat /\ RingSize \in Nat
  BY <1>1, Sizes DEF TypeInv, CardType
<1>3. n \in Nat /\ n <= Delta(card.posted, card.next, RingSize) /\ n <= RingSize - 1
  <2>1. n \in Nat
    BY <1>1, CardUsesIs
  <2>2. n <= Delta(card.posted, card.next, RingSize) /\ Delta(card.posted, card.next, RingSize) \in 0 .. RingSize - 1
    BY <1>2, BufDist DEF HwPacket
  <2> HIDE DEF n
  <2> QED BY <1>2, <2>1, <2>2
<1>4. mem' = [b \in Bufs |-> [k \in 1 .. DescBufSize |-> W(b, k)]]
  BY DEF HwPacket
<1>5. \A b \in Bufs : At(b) \in 0 .. RingSize - 1
  BY <1>2, BufDist
<1>6. MemType'
  <2>1. ASSUME NEW b \in Bufs, NEW k \in 1 .. DescBufSize PROVE W(b, k) \in Nat
    <3>1. At(b) \in Nat /\ k \in Nat /\ mem[b][k] \in Nat
      BY <1>1, <1>2, <1>5 DEF TypeInv, MemType
    <3>2. At(b) * C2hBufsz \in Nat
      BY <1>2, <3>1, TimesRise
    <3> HIDE DEF At, n
    <3> QED BY <1>2, <3>1, <3>2
  <2> QED BY <1>4, <2>1 DEF MemType
<1>7. Written(n, len)
  <2>1. ASSUME NEW b \in Bufs, At(b) >= n PROVE mem'[b] = mem[b]
    <3>1. \A k \in 1 .. DescBufSize : W(b, k) = mem[b][k]
      <4>1. ~(At(b) < n)
        BY <1>2, <1>3, <1>5, <2>1
      <4> QED BY <4>1
    <3>2. mem[b] = [k \in 1 .. DescBufSize |-> mem[b][k]]
      BY <1>1 DEF TypeInv, MemType
    <3> HIDE DEF W
    <3>3. mem'[b] = [k \in 1 .. DescBufSize |-> W(b, k)]
      BY <1>4
    <3> QED BY <3>1, <3>2, <3>3
  <2>2. ASSUME NEW j \in 0 .. n - 1, NEW x \in 1 .. C2hBufsz, j * C2hBufsz + x <= len
        PROVE  mem'[Incr(card.next, j, RingSize)][x] = card.sent + j * C2hBufsz + x
    <3> HIDE DEF n
    <3>1. j \in 0 .. RingSize - 1 /\ x \in 1 .. DescBufSize /\ j < n /\ x <= C2hBufsz
      BY <1>2, <1>3
    <3>2. Incr(card.next, j, RingSize) \in Bufs /\ At(Incr(card.next, j, RingSize)) = j
      BY <1>2, <3>1, BufIncr
    <3>3. W(Incr(card.next, j, RingSize), x) = card.sent + j * C2hBufsz + x
      BY <2>2, <3>1, <3>2
    <3> HIDE DEF W
    <3> QED BY <1>4, <3>1, <3>2, <3>3
  <2> QED BY <2>1, <2>2 DEF Written
<1>8. Complete("data", len, Incr(card.next, n, RingSize), card.packets + 1)
      /\ UNCHANGED <<mode, iring, sdesc, valid, q, svc, work, pend, req, readOut>>
  BY DEF HwPacket
<1>9. "data" \in DataKinds
  BY DEF DataKinds
<1> QED BY <1>1, <1>3, <1>6, <1>7, <1>8, <1>9, SendKeeps

LEMMA ErrorKeeps ==
  ASSUME IInv, HwError
  PROVE  IInv'
<1>1. TypeInv /\ card.next \in Bufs /\ card.posted \in Bufs
  BY DEF IInv, TypeInv, CardType
<1>2. 0 \in Nat /\ MaxPackets \in 0 .. MaxPackets /\ "err" \in DataKinds
  BY Sizes DEF DataKinds
<1>3. 0 <= Delta(card.posted, card.next, RingSize) /\ Incr(card.next, 0, RingSize) = card.next
  <2>1. 0 \in 0 .. RingSize - 1
    BY Sizes
  <2>2. Delta(card.posted, card.next, RingSize) \in 0 .. RingSize - 1
    BY <1>1, BufDist
  <2>3. Incr(card.next, 0, RingSize) = card.next
    BY <1>1, <2>1, BufIncr
  <2> QED BY <2>2, <2>3
<1>4. CmptRoom /\ mem' = mem /\ Complete("err", 0, Incr(card.next, 0, RingSize), MaxPackets)
      /\ UNCHANGED <<mode, iring, sdesc, valid, q, svc, work, pend, req, readOut>>
  BY <1>3 DEF HwError
<1>5. MemType' /\ Written(0, 0)
  BY <1>1, <1>4 DEF Written, TypeInv, MemType
<1> QED BY <1>2, <1>3, <1>4, <1>5, SendKeeps


-----------------------------------------------------------------------------
(* The handler takes an entry. *)

\* Without an error the counter says how many buffers hold nothing.
LEMMA AvailIs ==
  ASSUME TypeInv, OrderInv, ValidInv, ~q.err
  PROVE  /\ q.avail = RingSize - 1 - (Place(Received) - Place(From))
         /\ Place(From) <= Place(Received) /\ Place(Received) <= Place(card.next)
<1>1. /\ From \in Bufs /\ Received \in Bufs /\ RingSize \in Nat
      /\ Place(From) \in 0 .. RingSize - 1 /\ Place(Received) \in 0 .. RingSize - 1
      /\ Place(q.pidxPend) \in 0 .. RingSize - 1 /\ Place(q.pidx) \in 0 .. RingSize - 1
  BY PlacesAre
<1>2. Place(From) <= Place(Received) /\ Place(Received) <= Place(card.next)
  <2>1. /\ Place(From) <= Place(q.pidxPend) /\ Place(q.pidxPend) <= Place(q.pidx)
        /\ Place(q.pidx) <= Place(Received) /\ Place(Received) <= Place(card.next)
    BY DEF OrderInv
  <2> DEFINE a == Place(From)
             b == Place(q.pidxPend)
             c == Place(q.pidx)
             d == Place(Received)
  <2>2. a \in Nat /\ b \in Nat /\ c \in Nat /\ d \in Nat /\ a <= b /\ b <= c /\ c <= d
    BY <1>1, <2>1
  <2> HIDE DEF a, b, c, d
  <2>3. a <= d
    BY <2>2
  <2> QED BY <2>1, <2>3 DEF a, d
<1>3. Cardinality(valid) = Delta(Received, From, RingSize)
  BY <1>1, BetweenCount DEF ValidInv
<1>4. Delta(Received, From, RingSize) = Place(Received) - Place(From)
  BY <1>1, <1>2, PlacesAre
<1>5. Cardinality(valid) + q.avail = RingSize - 1 /\ q.avail \in Nat
  <2>1. q.avail \in 0 .. RingSize - 1
    BY DEF TypeInv, QType
  <2> QED BY <2>1, Sizes DEF ValidInv
<1> DEFINE a == Place(From)
           d == Place(Received)
           N == RingSize
           v == q.avail
<1>6. a \in Nat /\ d \in Nat /\ N \in Nat /\ v \in Nat /\ (d - a) + v = N - 1
  BY <1>1, <1>3, <1>4, <1>5
<1> HIDE DEF a, d, N, v
<1>7. v = N - 1 - (d - a)
  BY <1>6
<1> QED BY <1>2, <1>7 DEF a, d, N, v

\* The entry at hand and what it says.
LEMMA EntryIs ==
  ASSUME IInv, SameBuffers, svc.at = "entries", svc.left > 0
  PROVE  /\ TypeInv /\ ~q.err /\ q.state = "online" /\ Left \in 1 .. CmptSize - 1 /\ Slot(0) = Entry
         /\ ~Free /\ Receiving /\ Received = svc.pidx /\ From = svc.from /\ svc.from = q.pidxPend
         /\ Entry \in [color : {0, 1}, kind : DataKinds, len : Nat]
         /\ Entry.kind = "data" =>
              /\ Entry.len \in Lengths /\ FlNr(Entry.len) = CardUses(Entry.len)
              /\ CardUses(Entry.len) <= Place(card.next) - Place(Received)
              /\ CardUses(Entry.len) <= q.avail
<1>1. TypeInv /\ ~q.err /\ ~Free /\ Receiving /\ q.state = "online"
  BY DEF IInv, ServiceInv, Free, Receiving
<1>2. Received = svc.pidx /\ From = svc.from /\ svc.from = q.pidxPend
  BY <1>1 DEF IInv, ServiceInv, Received, From
<1>3. Left \in 1 .. CmptSize - 1
  <2>1. svc.left <= Left /\ svc.left \in Nat /\ Left \in 0 .. CmptSize - 1
    BY <1>1, CompletionsAre DEF IInv, ServiceInv, TypeInv, SvcType
  <2> QED BY <2>1, Sizes
<1>4. Slot(0) = Entry
  <2>1. q.cidxCmpt \in 0 .. CmptSize - 1 /\ CmptSize \in Nat /\ CmptSize >= 1
    BY <1>1, Sizes DEF TypeInv, QType
  <2>2. 0 \in 0 .. CmptSize - 1
    BY <2>1
  <2>3. Incr(q.cidxCmpt, 0, CmptSize) = q.cidxCmpt
    BY <2>1, <2>2, IncrIs
  <2> QED BY <2>3 DEF Slot, Entry
<1>5. Entry \in [color : {0, 1}, kind : DataKinds, len : Nat]
  <2>1. 0 \in 0 .. CmptSize - 1
    BY Sizes
  <2> QED BY <1>1, <1>4, <2>1, SlotIs
<1>6. ASSUME Entry.kind = "data"
      PROVE  /\ Entry.len \in Lengths /\ FlNr(Entry.len) = CardUses(Entry.len)
             /\ CardUses(Entry.len) <= Place(card.next) - Place(Received)
             /\ CardUses(Entry.len) <= q.avail
  <2> DEFINE m == Delta(card.next, Received, RingSize)
             n == CardUses(Entry.len)
  <2>1. PICK A \in [0 .. Left -> 0 .. m], T \in [0 .. Left -> Nat] : ChainOf(A, T)
    BY <1>1 DEF IInv, ChainInv
  <2>2. Covers(mem, Slot(0), Received, A[0], T[0], A[0 + 1], T[0 + 1]) /\ A[0] = 0 /\ A[1] \in 0 .. m
    <3>1. 0 \in 0 .. Left - 1 /\ 1 \in 0 .. Left
      BY <1>3, Sizes
    <3> QED BY <2>1, <3>1 DEF ChainOf
  <2>3. Entry.len \in Lengths /\ A[1] = A[0] + n
    BY <1>4, <1>6, <2>2 DEF Covers
  <2>4. n \in Nat /\ FlNr(Entry.len) = n
    BY <1>5, <2>3, PacketIs, CardUsesIs
  <2>5. /\ q.avail = RingSize - 1 - (Place(Received) - Place(From))
        /\ Place(From) <= Place(Received) /\ Place(Received) <= Place(card.next)
    BY <1>1, AvailIs DEF IInv
  <2>6. /\ m = Place(card.next) - Place(Received) /\ RingSize \in Nat
        /\ Place(From) \in 0 .. RingSize - 1 /\ Place(Received) \in 0 .. RingSize - 1
        /\ Place(card.next) \in 0 .. RingSize - 1
    BY <1>1, <2>5, PlacesAre
  <2> DEFINE a == Place(From)
             d == Place(Received)
             e == Place(card.next)
             N == RingSize
             v == q.avail
  <2>7. /\ a \in 0 .. N - 1 /\ d \in 0 .. N - 1 /\ e \in 0 .. N - 1 /\ N \in Nat /\ n \in Nat
        /\ m = e - d /\ n \in 0 .. m /\ v = N - 1 - (d - a)
    BY <2>2, <2>3, <2>4, <2>5, <2>6
  <2> HIDE DEF a, d, e, N, v, m, n
  <2>8. n <= e - d /\ n <= v
    BY <2>7
  <2> QED BY <2>3, <2>4, <2>8 DEF d, e, v, n
<1> QED BY <1>1, <1>2, <1>3, <1>4, <1>5, <1>6

\* Between, from the spare buffer.
LEMMA BetweenPlaces ==
  ASSUME TypeInv, NEW a \in Bufs, NEW b \in Bufs, Place(a) <= Place(b)
  PROVE  Between(a, b) = {x \in Bufs : Place(a) <= Place(x) /\ Place(x) < Place(b)}
<1>1. Spare \in Bufs
  BY PlacesAre
<1> QED BY <1>1, BetweenIs DEF Place

\* L, cut off.
LEMMA StreamCut ==
  ASSUME TypeInv, NEW L \in [0 .. Held -> Nat], StreamOf(L), NEW m \in 0 .. Held
  PROVE  /\ Held \in 0 .. RingSize - 1 /\ L[m] <= L[Held] /\ L[m] \in Nat /\ L[Held] \in Nat
         /\ \A d \in 0 .. Held - 1 : Buf(d) \in Bufs /\ L[d] \in Nat /\ L[d + 1] \in Nat
<1>1. Held \in 0 .. RingSize - 1 /\ q.pidxPend \in Bufs
  BY PlacesAre, BufDist DEF Held
<1> DEFINE h == Held
<1>2. h \in Nat /\ h \in 0 .. RingSize - 1
  BY <1>1, Sizes
<1>3. \A d \in 0 .. h - 1 : d \in 0 .. RingSize - 1 /\ d \in 0 .. h /\ d + 1 \in 0 .. h
  <2>1. RingSize \in Nat
    BY Sizes
  <2> HIDE DEF h
  <2> QED BY <1>2, <2>1
<1>4. \A d \in 0 .. h - 1 : Buf(d) \in Bufs
  BY <1>1, <1>3, BufIncr DEF Buf
<1>5. \A d \in 0 .. h - 1 : L[d] \in Nat /\ L[d + 1] \in Nat /\ L[d] <= L[d + 1]
  <2> TAKE d \in 0 .. h - 1
  <2>1. sdesc[Buf(d)].len \in 0 .. DescBufSize
    BY <1>4 DEF TypeInv, DescType
  <2>2. L[d + 1] = L[d] + sdesc[Buf(d)].len
    BY DEF StreamOf
  <2>3. L[d] \in Nat /\ L[d + 1] \in Nat
    BY <1>3
  <2> QED BY <2>1, <2>2, <2>3, Sizes
<1>6. m \in 0 .. h /\ h \in 0 .. h /\ m <= h /\ L[m] \in Nat /\ L[h] \in Nat
  BY <1>2
<1>7. L[m] <= L[h]
  <2>1. L \in [0 .. h -> Nat]
    OBVIOUS
  <2> HIDE DEF h
  <2> QED BY <1>2, <1>5, <1>6, <2>1, SumsRise
<1> QED BY <1>1, <1>4, <1>5, <1>6, <1>7


LEMMA ErrorEntryKeeps ==
  ASSUME IInv, SameBuffers, svc.at = "entries", svc.left > 0, ErrorEntry,
         UNCHANGED <<mode, card, mem, cmpt, iring, work, pend, req, readOut>>
  PROVE  IInv'
<1>1. /\ TypeInv /\ OrderInv /\ ~q.err /\ q.state = "online" /\ ~Free /\ Receiving
      /\ Received = svc.pidx /\ From = svc.from /\ svc.from = q.pidxPend
  BY EntryIs DEF IInv
<1>2. /\ q' = [q EXCEPT !.err = TRUE] /\ svc' = [at |-> "idle"] /\ sdesc' = sdesc /\ valid' = valid
  BY DEF ErrorEntry
<1>3. /\ q'.err /\ q'.avail = q.avail /\ q'.pidx = q.pidx /\ q'.pidxPend = q.pidxPend
      /\ q'.cidxCmpt = q.cidxCmpt /\ q'.dlen = q.dlen /\ q'.skewed = q.skewed /\ q'.state = q.state
      /\ q'.stopWait = q.stopWait /\ QType'
  BY <1>1, <1>2 DEF TypeInv, QType
<1>4. TypeInv'
  <2>1. SvcType'
    BY <1>2 DEF SvcType
  <2>2. CardType' /\ MemType' /\ CmptType' /\ RingType' /\ DescType' /\ ReqType'
    BY <1>1, <1>2 DEF TypeInv, CardType, MemType, CmptType, RingType, DescType, ReqType
  <2>3. OtherType'
    BY <1>1, <1>2 DEF TypeInv, OtherType
  <2> QED BY <1>3, <2>1, <2>2, <2>3 DEF TypeInv
<1>5. /\ From' = From /\ Received' = q.pidx /\ Spare' = Spare /\ \A b : Place(b)' = Place(b)
  BY <1>1, <1>2, <1>3 DEF From, Received, Free, Receiving, Spare, Place
<1>6. /\ From \in Bufs /\ q.pidxPend \in Bufs /\ q.pidx \in Bufs /\ Received \in Bufs /\ card.next \in Bufs
      /\ Place(From) \in 0 .. RingSize - 1 /\ Place(q.pidxPend) \in 0 .. RingSize - 1
      /\ Place(q.pidx) \in 0 .. RingSize - 1
      /\ Place(Received) \in 0 .. RingSize - 1 /\ Place(card.next) \in 0 .. RingSize - 1 /\ RingSize \in Nat
  BY <1>1, PlacesAre
<1>7. /\ Place(From) <= Place(q.pidxPend) /\ Place(q.pidxPend) <= Place(q.pidx)
      /\ Place(q.pidx) <= Place(Received) /\ Place(Received) <= Place(card.next)
  BY <1>1 DEF OrderInv
<1>8. Place(From) <= Place(q.pidx) /\ Place(q.pidx) <= Place(card.next) /\ Place(From) <= Place(Received)
  <2> DEFINE a == Place(From)
             b == Place(q.pidxPend)
             c == Place(q.pidx)
             d == Place(Received)
             e == Place(card.next)
  <2>1. a \in Nat /\ b \in Nat /\ c \in Nat /\ d \in Nat /\ e \in Nat /\ a <= b /\ b <= c /\ c <= d /\ d <= e
    BY <1>6, <1>7
  <2> HIDE DEF a, b, c, d, e
  <2>2. a <= c /\ c <= e /\ a <= d
    BY <2>1
  <2> QED BY <2>2 DEF a, c, d, e
<1>9. OrderInv'
  <2>1. /\ Place(From)' = Place(From) /\ Place(q.pidxPend)' = Place(q.pidxPend)
        /\ Place(q.pidx)' = Place(q.pidx) /\ Place(Received)' = Place(q.pidx) /\ Place(card.next)' = Place(card.next)
    BY <1>3, <1>5 DEF Place
  <2>2. Place(q.pidx) <= Place(q.pidx)
    BY <1>6
  <2> QED BY <1>7, <1>8, <2>1, <2>2 DEF OrderInv
<1>10. ServiceInv'
  <2>1. Free' /\ ~Receiving' /\ svc'.at = "idle"
    BY <1>2 DEF Free, Receiving
  <2>2. q'.state = "online" /\ ~q'.stopWait => Spare' = From'
    BY <1>3, <1>5 DEF IInv, ServiceInv
  <2> QED BY <2>1, <2>2 DEF ServiceInv
<1>11. ValidInv'
  <2>1. Between(From, q.pidx) \subseteq Between(From, Received)
    <3>1. /\ Between(From, q.pidx) = {x \in Bufs : Place(From) <= Place(x) /\ Place(x) < Place(q.pidx)}
          /\ Between(From, Received) = {x \in Bufs : Place(From) <= Place(x) /\ Place(x) < Place(Received)}
      BY <1>1, <1>6, <1>8, BetweenPlaces
    <3>2. \A x \in Bufs : Place(x) < Place(q.pidx) => Place(x) < Place(Received)
      <4> TAKE x \in Bufs
      <4>1. Place(x) \in 0 .. RingSize - 1
        BY <1>1, PlacesAre
      <4> QED BY <1>6, <1>7, <4>1
    <3> QED BY <3>1, <3>2
  <2>2. Between(From, Received) \subseteq valid /\ Cardinality(valid) + q.avail = RingSize - 1
    BY DEF IInv, ValidInv
  <2>3. Between(From, Received)' = Between(From, q.pidx)
    BY <1>5 DEF Between
  <2> QED BY <1>2, <1>3, <2>1, <2>2, <2>3 DEF ValidInv
<1>12. FreshInv' /\ CmptInv' /\ StreamInOrder' /\ ChainInv'
  BY <1>2, <1>3 DEF IInv, FreshInv, CmptInv, StreamInOrder, ChainInv
<1>13. WaitInv'
  <2>1. Free' /\ svc'.at = "idle"
    BY <1>2 DEF Free
  <2> QED BY <1>1, <1>3, <2>1 DEF IInv, WaitInv
<1>14. StreamInv'
  <2>1. PICK L \in [0 .. Held -> Nat] : StreamOf(L)
    BY DEF IInv, StreamInv
  <2> DEFINE m == Delta(q.pidx, q.pidxPend, RingSize)
  <2>2. m = Place(q.pidx) - Place(q.pidxPend) /\ Held = Place(Received) - Place(q.pidxPend)
    <3>1. Place(q.pidxPend) <= Place(Received)
      BY <1>6, <1>7
    <3> QED BY <1>1, <1>6, <1>7, <3>1, PlacesAre DEF Held
  <2>3. m \in 0 .. Held
    <3> DEFINE a == Place(q.pidxPend)
               b == Place(q.pidx)
               c == Place(Received)
               h == Held
    <3>1. a \in Nat /\ b \in Nat /\ c \in Nat /\ a <= b /\ b <= c /\ m = b - a /\ h = c - a
      BY <1>6, <1>7, <2>2
    <3> HIDE DEF a, b, c, h, m
    <3>2. m \in 0 .. h
      BY <3>1
    <3> QED BY <3>2 DEF h
  <2>4. Held' = m
    BY <1>3, <1>5 DEF Held
  <2>5. L[m] <= L[Held] /\ L[m] \in Nat /\ L[Held] \in Nat /\ Held \in 0 .. RingSize - 1
    <3> HIDE DEF m
    <3> QED BY <1>1, <2>1, <2>3, StreamCut
  <2> HIDE DEF m
  <2> DEFINE h == Held
  <2>6. h \in Nat /\ m \in 0 .. h
    BY <1>6, <2>3, <2>5
  <2>7. PICK K \in [0 .. m -> Nat] : \A d \in 0 .. m : K[d] = L[d]
    <3> HIDE DEF h
    <3>1. [d \in 0 .. m |-> L[d]] \in [0 .. m -> Nat]
      BY <2>1, <2>6 DEF h
    <3> QED BY <3>1
  <2>8. StreamOf(K)'
    <3>1. \A d \in 0 .. m - 1 : d \in 0 .. h - 1 /\ d \in 0 .. m /\ d + 1 \in 0 .. m
      <4> HIDE DEF h
      <4> QED BY <2>6
    <3>2. K[0] = 0 /\ K[m] = L[m]
      BY <2>1, <2>6, <2>7 DEF StreamOf
    <3>3. \A d \in 0 .. m - 1 : K[d + 1] = K[d] + sdesc[Buf(d)].len
      BY <2>1, <2>7, <3>1 DEF StreamOf
    <3>4. K[m] <= q.dlen
      <4>1. L[Held] <= q.dlen /\ q.dlen \in Nat
        BY <1>1, <2>1 DEF StreamOf, TypeInv, QType
      <4> DEFINE x == L[m]
                 y == L[Held]
                 z == q.dlen
      <4>2. x \in Nat /\ y \in Nat /\ z \in Nat /\ x <= y /\ y <= z
        BY <2>5, <4>1
      <4> HIDE DEF x, y, z
      <4>3. x <= z
        BY <4>2
      <4> QED BY <3>2, <4>3 DEF x, z
    <3>5. ~q.skewed => \A d \in 0 .. m - 1 : HoldsFrom(sdesc, mem, Buf(d), Len(readOut) + K[d])
      BY <2>1, <2>7, <3>1 DEF StreamOf
    <3>6. \A d : Buf(d)' = Buf(d)
      BY <1>3 DEF Buf
    <3> QED BY <1>2, <1>3, <2>4, <3>2, <3>3, <3>4, <3>5, <3>6 DEF StreamOf
  <2> QED BY <2>4, <2>7, <2>8 DEF StreamInv
<1> QED BY <1>4, <1>9, <1>10, <1>11, <1>12, <1>13, <1>14 DEF IInv

LEMMA StopAtEntryKeeps ==
  ASSUME IInv, SameBuffers, svc.at = "entries", svc.left > 0, StopAtEntry,
         UNCHANGED <<mode, card, mem, cmpt, iring, work, pend, req, readOut>>
  PROVE  IInv'
<1>1. TypeInv /\ ~Free /\ Receiving /\ (Entry.kind = "data" => FlNr(Entry.len) <= q.avail /\ FlNr(Entry.len) \in Nat)
  <2>1. Entry.len \in Nat
    BY EntryIs
  <2>2. CardUses(Entry.len) \in Nat
    BY <2>1, CardUsesIs
  <2> QED BY <2>2, EntryIs
<1>2. q.avail \in Nat
  BY <1>1, Sizes DEF TypeInv, QType
<1>3. sdesc' = sdesc /\ q' = q /\ valid' = valid /\ svc' = [svc EXCEPT !.at = "cidx"]
  BY <1>1, <1>2 DEF StopAtEntry
<1>4. /\ svc'.at = "cidx" /\ svc'.from = svc.from /\ svc'.pidx = svc.pidx /\ svc'.done = svc.done /\ SvcType'
  BY <1>1, <1>3 DEF TypeInv, SvcType
<1>5. From' = From /\ Received' = Received /\ Spare' = Spare /\ Left' = Left /\ ~Free' /\ Receiving'
  BY <1>1, <1>3, <1>4 DEF From, Received, Receiving, Free, Spare, Left
<1>6. Books'
  BY <1>3, <1>5, SameBooks DEF IInv, Books
<1>7. ServiceInv' /\ WaitInv'
  BY <1>1, <1>3, <1>4, <1>5 DEF IInv, ServiceInv, WaitInv
<1>8. TypeInv'
  <2>1. CardType' /\ MemType' /\ CmptType' /\ RingType' /\ DescType' /\ QType' /\ ReqType'
    BY <1>1, <1>3 DEF TypeInv, CardType, MemType, CmptType, RingType, DescType, QType, ReqType
  <2>2. OtherType'
    BY <1>1, <1>3 DEF TypeInv, OtherType
  <2> QED BY <1>4, <2>1, <2>2 DEF TypeInv
<1> QED BY <1>6, <1>7, <1>8 DEF IInv, Books


\* rcv_pkt: where everything is afterwards.
LEMMA RcvPktIs ==
  ASSUME IInv, SameBuffers, svc.at = "entries", svc.left > 0, RcvPkt,
         UNCHANGED <<mode, card, mem, cmpt, iring, work, pend, req, readOut>>
  PROVE  LET len == Entry.len
             n == CardUses(len)
             last == Incr(Received, n - 1, RingSize)
         IN  /\ len \in Lengths /\ len \in Nat /\ n \in 1 .. RingSize - 1 /\ n <= Place(card.next) - Place(Received)
             /\ last \in Bufs /\ Received' = Incr(Received, n, RingSize) /\ Received' \in Bufs
             /\ Place(Received') = Place(Received) + n
             /\ From' = From /\ Spare' = Spare
             /\ q'.avail = q.avail - n /\ q'.dlen = q.dlen + len /\ q'.cidxCmpt = Incr(q.cidxCmpt, 1, CmptSize)
             /\ q'.pidx = q.pidx /\ q'.pidxPend = q.pidxPend /\ q'.skewed = q.skewed /\ q'.state = q.state
             /\ q'.stopWait = q.stopWait /\ q'.err = q.err
             /\ svc'.at = "entries" /\ svc'.from = svc.from /\ svc'.left = svc.left - 1 /\ svc'.done = svc.done + 1
             /\ sdesc' = [sdesc EXCEPT ![last] = [len |-> LastLen(len), off |-> sdesc[last].off]]
             /\ valid' = valid \cup Between(Received, Received')
             /\ TypeInv'
<1> DEFINE len == Entry.len
           n == CardUses(len)
           last == Incr(Received, n - 1, RingSize)
           N == RingSize
<1>1. /\ TypeInv /\ ~q.err /\ Receiving /\ ~Free /\ Received = svc.pidx /\ Entry.kind = "data" /\ len \in Lengths
      /\ FlNr(len) = n /\ n <= Place(card.next) - Place(Received) /\ n <= q.avail /\ len \in Nat
  BY EntryIs, Sizes DEF RcvPkt
<1>2. /\ Received \in Bufs /\ card.next \in Bufs /\ N \in Nat /\ N >= 2
      /\ Place(Received) \in 0 .. N - 1 /\ Place(card.next) \in 0 .. N - 1
  BY <1>1, PlacesAre, Sizes
<1>3. n \in 1 .. N - 1 /\ Place(Received) + n <= N - 1
  <2> DEFINE d == Place(Received)
             e == Place(card.next)
  <2>1. n \in Nat /\ n >= 1 /\ d \in 0 .. N - 1 /\ e \in 0 .. N - 1 /\ N \in Nat /\ n <= e - d
    BY <1>1, <1>2, CardUsesIs
  <2> HIDE DEF n, d, e, N
  <2>2. n \in 1 .. N - 1 /\ d + n <= N - 1
    BY <2>1
  <2> QED BY <2>2 DEF d
<1>4. n - 1 \in 0 .. N - 1 /\ 1 \in 0 .. N - 1 /\ n \in 0 .. N - 1 /\ (n - 1) + 1 = n /\ (n - 1) + 1 <= N - 1
  <2> HIDE DEF n
  <2> QED BY <1>2, <1>3
<1>5. /\ last \in Bufs /\ Incr(last, 1, N) = Incr(Received, n, N) /\ Incr(Received, n, N) \in Bufs
  <2> HIDE DEF n
  <2>1. last \in Bufs /\ Incr(Received, n, N) \in Bufs
    BY <1>2, <1>4, BufIncr
  <2>2. Incr(Incr(Received, n - 1, N), 1, N) = Incr(Received, (n - 1) + 1, N)
    BY <1>2, <1>4, BufIncrIncr
  <2> QED BY <1>4, <2>1, <2>2
<1>6. Place(Incr(Received, n, N)) = Place(Received) + n
  <2> HIDE DEF n
  <2>1. Delta(Received, Spare, N) + n <= N - 1
    BY <1>3 DEF Place
  <2> QED BY <1>1, <1>2, <1>4, <2>1, PlacesAre, BufDistIncr DEF Place
<1>7. LastLen(len) \in 0 .. C2hBufsz
  BY <1>1, PacketIs
<1>8. /\ sdesc' = [sdesc EXCEPT ![last].len = LastLen(len)]
      /\ valid' = valid \cup EntryBufs
      /\ q' = NextEntry([q EXCEPT !.avail = q.avail - n, !.dlen = q.dlen + len])
      /\ svc' = [svc EXCEPT !.pidx = Incr(last, 1, N), !.left = svc.left - 1, !.done = svc.done + 1]
  BY <1>1 DEF RcvPkt
<1>9. EntryBufs = Between(Received, Incr(Received, n, N))
  <2>1. Delta(Incr(Received, n, N), Received, N) = n
    <3> HIDE DEF n
    <3> QED BY <1>2, <1>4, BufIncr
  <2>2. EntryBufs = {Incr(Received, k, N) : k \in 0 .. n - 1}
    BY <1>1 DEF EntryBufs
  <2> QED BY <2>1, <2>2 DEF Between
<1>10. /\ q'.avail = q.avail - n /\ q'.dlen = q.dlen + len /\ q'.cidxCmpt = Incr(q.cidxCmpt, 1, CmptSize)
       /\ q'.pidx = q.pidx /\ q'.pidxPend = q.pidxPend /\ q'.skewed = q.skewed /\ q'.state = q.state
       /\ q'.stopWait = q.stopWait /\ q'.err = q.err /\ QType'
  <2> DEFINE cidx == IF q.cidxCmpt + 1 = CmptSize THEN 0 ELSE q.cidxCmpt + 1
             color == IF q.cidxCmpt + 1 = CmptSize THEN 1 - q.color ELSE q.color
             avail == q.avail - n
             dlen == q.dlen + len
  <2>1. q' = [q EXCEPT !.avail = avail, !.dlen = dlen, !.cidxCmpt = cidx, !.color = color]
    BY <1>1, <1>8 DEF NextEntry, TypeInv, QType
  <2>2. q.cidxCmpt \in 0 .. CmptSize - 1 /\ CmptSize \in Nat /\ CmptSize >= 2 /\ q.color \in {0, 1}
        /\ q.avail \in 0 .. N - 1 /\ q.dlen \in Nat
    BY <1>1, Sizes DEF TypeInv, QType
  <2>3. cidx = Incr(q.cidxCmpt, 1, CmptSize) /\ cidx \in 0 .. CmptSize - 1 /\ color \in {0, 1}
    BY <2>2 DEF Incr
  <2>4. avail \in 0 .. N - 1 /\ dlen \in Nat
    <3> HIDE DEF n
    <3> QED BY <1>1, <1>2, <1>3, <2>2
  <2> HIDE DEF cidx, color, avail, dlen
  <2>5. /\ q'.avail = avail /\ q'.dlen = dlen /\ q'.cidxCmpt = cidx
        /\ q'.pidx = q.pidx /\ q'.pidxPend = q.pidxPend /\ q'.skewed = q.skewed /\ q'.state = q.state
        /\ q'.stopWait = q.stopWait /\ q'.err = q.err /\ QType'
    BY <1>1, <2>1, <2>3, <2>4 DEF TypeInv, QType
  <2> QED BY <2>3, <2>5 DEF avail, dlen
<1>11. /\ svc'.at = "entries" /\ svc'.from = svc.from /\ svc'.left = svc.left - 1 /\ svc'.done = svc.done + 1
       /\ svc'.pidx = Incr(Received, n, N) /\ SvcType'
  <2> HIDE DEF n, last
  <2>1. svc \in [at : {"entries", "cidx", "deliver", "refill"}, left : Nat, done : Nat, pidx : Bufs, from : Bufs]
    BY <1>1 DEF TypeInv, SvcType, Free
  <2>2. svc.left - 1 \in Nat /\ svc.done + 1 \in Nat
    BY <2>1
  <2> QED BY <1>5, <1>8, <2>1, <2>2 DEF SvcType
<1>12. Received' = Incr(Received, n, N) /\ From' = From /\ Spare' = Spare
  BY <1>1, <1>11 DEF Received, Receiving, From, Free, Spare
<1>13. /\ sdesc' = [sdesc EXCEPT ![last] = [len |-> LastLen(len), off |-> sdesc[last].off]]
       /\ DescType'
  <2> DEFINE l == LastLen(len)
  <2> HIDE DEF last
  <2>1. l \in 0 .. DescBufSize /\ sdesc[last] \in [len : 0 .. DescBufSize, off : Nat]
    BY <1>1, <1>5, <1>7, Sizes DEF TypeInv, DescType
  <2>2. sdesc' = [sdesc EXCEPT ![last].len = l]
    BY <1>8
  <2> HIDE DEF l
  <2>3. sdesc' = [sdesc EXCEPT ![last] = [len |-> l, off |-> sdesc[last].off]]
    <3>1. [sdesc[last] EXCEPT !.len = l] = [len |-> l, off |-> sdesc[last].off]
      BY <2>1
    <3>2. sdesc' = [sdesc EXCEPT ![last] = [sdesc[last] EXCEPT !.len = l]]
      BY <2>2
    <3> QED BY <3>1, <3>2
  <2>4. DescType'
    BY <1>1, <1>5, <2>1, <2>3 DEF TypeInv, DescType
  <2> QED BY <2>3, <2>4 DEF l
<1>14. valid' = valid \cup Between(Received, Received')
  BY <1>8, <1>9, <1>12
<1>15. OtherType'
  <2>1. Between(Received, Received') \subseteq Bufs
    BY <1>2, <1>5, <1>12, BetweenCount
  <2> QED BY <1>1, <1>14, <2>1 DEF TypeInv, OtherType
<1>16. TypeInv'
  <2>1. CardType' /\ MemType' /\ CmptType' /\ RingType' /\ ReqType'
    BY <1>1 DEF TypeInv, CardType, MemType, CmptType, RingType, ReqType
  <2> QED BY <1>10, <1>11, <1>13, <1>15, <2>1 DEF TypeInv
<1> QED BY <1>1, <1>3, <1>5, <1>6, <1>10, <1>11, <1>12, <1>13, <1>14, <1>16


RcvStep ==
  /\ SameBuffers /\ svc.at = "entries" /\ svc.left > 0 /\ RcvPkt
  /\ UNCHANGED <<mode, card, mem, cmpt, iring, work, pend, req, readOut>>

\* The buffers of the packet are marked, the others stay as they are.
LEMMA RcvPktMarks ==
  ASSUME IInv, RcvStep
  PROVE  OrderInv' /\ ValidInv' /\ FreshInv'
<1> DEFINE len == Entry.len
           n == CardUses(len)
           last == Incr(Received, n - 1, RingSize)
           N == RingSize
           R == Received'
<1>0. SameBuffers /\ svc.at = "entries" /\ svc.left > 0 /\ RcvPkt
      /\ UNCHANGED <<mode, card, mem, cmpt, iring, work, pend, req, readOut>>
  BY DEF RcvStep
<1>1. /\ n \in 1 .. N - 1 /\ n <= Place(card.next) - Place(Received)
      /\ R \in Bufs /\ Place(R) = Place(Received) + n /\ From' = From /\ Spare' = Spare
      /\ q'.avail = q.avail - n /\ q'.pidx = q.pidx /\ q'.pidxPend = q.pidxPend /\ q'.err = q.err
      /\ q'.skewed = q.skewed /\ last \in Bufs /\ R = Incr(Received, n, N)
      /\ sdesc' = [sdesc EXCEPT ![last] = [len |-> LastLen(len), off |-> sdesc[last].off]]
      /\ valid' = valid \cup Between(Received, R)
  BY <1>0, RcvPktIs
<1>2. /\ TypeInv /\ OrderInv /\ ValidInv /\ FreshInv /\ ~q.err
  BY <1>0, EntryIs DEF IInv
<1>3. /\ q.avail = N - 1 - (Place(Received) - Place(From))
      /\ Place(From) <= Place(Received) /\ Place(Received) <= Place(card.next)
  BY <1>2, AvailIs
<1>4. /\ From \in Bufs /\ Received \in Bufs /\ card.next \in Bufs /\ N \in Nat
      /\ Place(From) \in 0 .. N - 1 /\ Place(Received) \in 0 .. N - 1 /\ Place(card.next) \in 0 .. N - 1
      /\ Place(q.pidx) \in 0 .. N - 1 /\ Place(R) \in 0 .. N - 1
  BY <1>1, <1>2, PlacesAre
<1> DEFINE a == Place(From)
           d == Place(Received)
           e == Place(card.next)
           r == Place(R)
           v == q.avail
<1>5. /\ a \in 0 .. N - 1 /\ d \in 0 .. N - 1 /\ e \in 0 .. N - 1 /\ r \in 0 .. N - 1 /\ N \in Nat
      /\ n \in 1 .. N - 1 /\ n <= e - d /\ r = d + n /\ v = N - 1 - (d - a) /\ a <= d /\ q'.avail = v - n
  BY <1>1, <1>3, <1>4
<1> HIDE DEF a, d, e, r, v, n, N, last, R, len
<1>6. /\ d <= r /\ a <= r /\ r <= e /\ (r - a) + (v - n) = N - 1 /\ r - a \in Nat
  BY <1>5
<1>7. OrderInv'
  <2>1. /\ Place(From)' = Place(From) /\ Place(q.pidxPend)' = Place(q.pidxPend) /\ Place(q.pidx)' = Place(q.pidx)
        /\ Place(Received)' = Place(R) /\ Place(card.next)' = Place(card.next)
    BY <1>0, <1>1 DEF Place, R
  <2>2. Place(q.pidx) <= d /\ d <= r /\ Place(q.pidx) \in Nat
    BY <1>2, <1>4, <1>5, <1>6 DEF OrderInv, d
  <2>3. Place(q.pidx) <= r
    BY <1>5, <2>2
  <2> QED BY <1>2, <1>6, <2>1, <2>3 DEF OrderInv, r, e
<1>8. Between(From, Received) \cup Between(Received, R) = Between(From, R)
  <2>1. a <= d /\ d <= r /\ a <= r
    BY <1>5, <1>6
  <2>2. /\ Between(From, Received) = {x \in Bufs : a <= Place(x) /\ Place(x) < d}
        /\ Between(Received, R) = {x \in Bufs : d <= Place(x) /\ Place(x) < r}
        /\ Between(From, R) = {x \in Bufs : a <= Place(x) /\ Place(x) < r}
    BY <1>1, <1>2, <1>4, <2>1, BetweenPlaces DEF a, d, r
  <2>3. \A x \in Bufs : (a <= Place(x) /\ Place(x) < d) \/ (d <= Place(x) /\ Place(x) < r)
                          <=> a <= Place(x) /\ Place(x) < r
    <3> TAKE x \in Bufs
    <3>1. Place(x) \in 0 .. RingSize - 1
      BY <1>2, PlacesAre
    <3> DEFINE p == Place(x)
    <3>2. p \in Nat
      BY <3>1, Sizes
    <3> HIDE DEF p
    <3>3. (a <= p /\ p < d) \/ (d <= p /\ p < r) <=> a <= p /\ p < r
      BY <1>5, <1>6, <3>2
    <3> QED BY <3>3 DEF p
  <2> QED BY <2>2, <2>3
<1>9. valid = Between(From, Received) /\ valid' = Between(From, R)
  BY <1>1, <1>2, <1>8 DEF ValidInv
<1>10. Cardinality(Between(From, R)) = r - a
  <2>1. Delta(R, From, RingSize) = r - a
    BY <1>1, <1>2, <1>4, <1>6, PlacesAre DEF a, r
  <2> QED BY <1>1, <1>4, <2>1, BetweenCount
<1>11. ValidInv'
  <2>1. Between(From, Received)' = Between(From, R)
    BY <1>1 DEF Between, R
  <2>2. Cardinality(valid') + q'.avail = RingSize - 1
    BY <1>5, <1>6, <1>9, <1>10 DEF N
  <2> QED BY <1>9, <2>1, <2>2 DEF ValidInv
<1>12. FreshInv'
  <2>1. last \in Between(Received, R)
    <3>1. n - 1 \in 0 .. n - 1 /\ n \in 0 .. RingSize - 1
      BY <1>5 DEF N
    <3>2. Delta(R, Received, RingSize) = n
      BY <1>1, <1>4, <3>1, BufIncr DEF N
    <3> QED BY <3>1, <3>2 DEF Between, last
  <2>2. ASSUME NEW b \in Bufs \ valid' PROVE b \in Bufs \ valid /\ sdesc'[b] = sdesc[b]
    <3>1. b \notin valid /\ b # last
      BY <1>1, <2>1, <2>2
    <3> QED BY <1>1, <1>2, <3>1 DEF TypeInv, DescType
  <2> QED BY <1>1, <1>2, <2>2 DEF FreshInv
<1> QED BY <1>7, <1>11, <1>12


\* One completion less.
LEMMA NextIs ==
  ASSUME TypeInv, CmptInv, Left >= 1, q'.cidxCmpt = Incr(q.cidxCmpt, 1, CmptSize), card' = card, cmpt' = cmpt
  PROVE  /\ Left' = Left - 1 /\ CmptInv'
         /\ \A k \in 0 .. Left - 2 : Slot(k)' = Slot(k + 1)
<1> DEFINE M == CmptSize
           E(i) == Delta(i, card.cidx, M)
           c == Incr(q.cidxCmpt, 1, M)
           h == Left
<1>1. M \in Nat /\ M >= 2 /\ M >= 1
  BY Sizes
<1>2. /\ h \in 0 .. M - 1 /\ h \in 1 .. M - 1 /\ h = Delta(card.pidx, q.cidxCmpt, M)
      /\ card.pidx \in 0 .. M - 1 /\ card.cidx \in 0 .. M - 1 /\ q.cidxCmpt \in 0 .. M - 1
  <2>1. h \in 0 .. M - 1 /\ h >= 1
    BY CompletionsAre
  <2>2. h \in 1 .. M - 1
    <3> HIDE DEF h
    <3> QED BY <1>1, <2>1
  <2> QED BY <2>1, <2>2, CompletionsAre DEF Left
<1>3. 1 \in 0 .. M - 1 /\ c \in 0 .. M - 1 /\ Delta(c, q.cidxCmpt, M) = 1
  <2>1. 1 \in 0 .. M - 1
    BY <1>1
  <2> DEFINE i == q.cidxCmpt
  <2>2. M \in Nat /\ M >= 2 /\ i \in 0 .. M - 1
    BY <1>1, <1>2
  <2> HIDE DEF M, i
  <2>3. Incr(i, 1, M) \in 0 .. M - 1 /\ Delta(Incr(i, 1, M), i, M) = 1
    BY <2>2 DEF Incr, Delta
  <2> QED BY <2>1, <2>3 DEF i
<1>4. Delta(card.pidx, c, M) = h - 1
  <2>1. Delta(c, q.cidxCmpt, M) <= Delta(card.pidx, q.cidxCmpt, M)
    <3> HIDE DEF h
    <3> QED BY <1>1, <1>2, <1>3
  <2> QED BY <1>1, <1>2, <1>3, <2>1, DeltaDelta
<1>5. Left' = h - 1
  BY <1>4 DEF Left
<1>6. CmptInv'
  <2>1. E(q.cidxCmpt) <= E(card.pidx) /\ E(q.cidxCmpt) \in 0 .. M - 1 /\ E(card.pidx) \in 0 .. M - 1
    BY <1>1, <1>2, DeltaIs DEF CmptInv
  <2>2. h = E(card.pidx) - E(q.cidxCmpt)
    BY <1>1, <1>2, <2>1, DeltaDelta
  <2>3. E(q.cidxCmpt) + 1 <= M - 1 /\ E(q.cidxCmpt) + 1 <= E(card.pidx)
    <3> DEFINE x == E(q.cidxCmpt)
               y == E(card.pidx)
    <3>1. x \in 0 .. M - 1 /\ y \in 0 .. M - 1 /\ h = y - x /\ h \in 1 .. M - 1
      BY <1>2, <2>1, <2>2
    <3> HIDE DEF x, y, h
    <3>2. x + 1 <= M - 1 /\ x + 1 <= y
      BY <1>1, <3>1
    <3> QED BY <3>2 DEF x, y
  <2>4. E(c) = E(q.cidxCmpt) + 1
    BY <1>1, <1>2, <1>3, <2>3, DeltaIncr
  <2> QED BY <2>3, <2>4 DEF CmptInv
<1>7. ASSUME NEW k \in 0 .. Left - 2 PROVE Slot(k)' = Slot(k + 1)
  <2>1. k \in 0 .. M - 1 /\ 1 + k <= M - 1 /\ k + 1 = 1 + k
    <3> HIDE DEF h
    <3> QED BY <1>1, <1>2, <1>7 DEF h
  <2>2. Incr(c, k, M) = Incr(q.cidxCmpt, 1 + k, M)
    BY <1>1, <1>2, <1>3, <2>1, IncrIncr
  <2> QED BY <2>1, <2>2 DEF Slot
<1> QED BY <1>5, <1>6, <1>7

LEMMA RcvPktChain ==
  ASSUME IInv, RcvStep
  PROVE  CmptInv' /\ ChainInv'
<1> DEFINE len == Entry.len
           n == CardUses(len)
           N == RingSize
           R == Received'
           m == Delta(card.next, Received, N)
           h == Left
<1>0. SameBuffers /\ svc.at = "entries" /\ svc.left > 0 /\ RcvPkt
      /\ UNCHANGED <<mode, card, mem, cmpt, iring, work, pend, req, readOut>>
  BY DEF RcvStep
<1>1. /\ n \in 1 .. N - 1 /\ len \in Nat
      /\ R \in Bufs /\ R = Incr(Received, n, N) /\ Place(R) = Place(Received) + n
      /\ q'.cidxCmpt = Incr(q.cidxCmpt, 1, CmptSize) /\ q'.dlen = q.dlen + len /\ q'.err = q.err
      /\ n <= Place(card.next) - Place(Received)
  BY <1>0, RcvPktIs
<1>2. /\ TypeInv /\ OrderInv /\ CmptInv /\ ~q.err /\ h \in 1 .. CmptSize - 1 /\ Slot(0) = Entry
      /\ Entry.kind = "data" /\ h \in Nat /\ h >= 1
  BY <1>0, EntryIs, Sizes DEF IInv, RcvPkt
<1>3. /\ Left' = h - 1 /\ CmptInv' /\ \A k \in 0 .. h - 2 : Slot(k)' = Slot(k + 1)
  BY <1>0, <1>1, <1>2, NextIs
<1>4. /\ Received \in Bufs /\ card.next \in Bufs /\ N \in Nat
      /\ Place(Received) \in 0 .. N - 1 /\ Place(card.next) \in 0 .. N - 1 /\ Place(Received) <= Place(card.next)
      /\ m \in 0 .. N - 1 /\ m = Place(card.next) - Place(Received)
  BY <1>2, PlacesAre, BufDist DEF OrderInv
<1>5. Delta(card.next, R, N) = m - n /\ n <= m
  <2> DEFINE d == Place(Received)
             e == Place(card.next)
             r == Place(R)
  <2>1. d \in Nat /\ e \in Nat /\ n \in Nat /\ m = e - d /\ n <= e - d /\ r = d + n
    BY <1>1, <1>4
  <2> HIDE DEF d, e, r, m, n
  <2>2. r <= e /\ e - r = m - n /\ n <= m
    BY <2>1
  <2> HIDE DEF R
  <2>3. Delta(card.next, R, N) = e - r
    BY <1>1, <1>2, <1>4, <2>2, PlacesAre DEF e, r
  <2> QED BY <2>2, <2>3
<1>6. PICK A \in [0 .. h -> 0 .. m], T \in [0 .. h -> Nat] : ChainOf(A, T)
  BY <1>2 DEF IInv, ChainInv
<1>7. /\ A[0] = 0 /\ T[0] = Len(readOut) + q.dlen /\ A[h] = m /\ T[h] = card.sent
      /\ \A k \in 0 .. h - 1 : Covers(mem, Slot(k), Received, A[k], T[k], A[k + 1], T[k + 1])
  BY <1>6 DEF ChainOf
<1>8. \A k \in 0 .. h - 1 : Slot(k).len \in Nat
  <2> TAKE k \in 0 .. h - 1
  <2>1. k \in 0 .. CmptSize - 1
    <3> HIDE DEF h
    <3> QED BY <1>2, Sizes
  <2> QED BY <1>2, <2>1, SlotIs
<1> HIDE DEF h, m, n, R, len
<1>9. A[1] = n /\ T[1] = Len(readOut) + q.dlen + len
  <2>1. 0 \in 0 .. h - 1 /\ 0 + 1 = 1 /\ 1 \in 0 .. h
    BY <1>2
  <2>2. Covers(mem, Entry, Received, A[0], T[0], A[1], T[1])
    BY <1>2, <1>7, <2>1
  <2>3. A[1] = A[0] + n /\ T[1] = T[0] + len
    BY <1>2, <2>2 DEF Covers, n, len
  <2> QED BY <1>1, <1>7, <2>1, <2>3
<1>10. \A k \in 0 .. h - 1 : k \in 0 .. h /\ k + 1 \in 0 .. h /\ A[k] \in Nat /\ A[k + 1] \in Nat /\ A[k] <= A[k + 1]
  <2> TAKE k \in 0 .. h - 1
  <2>1. k \in 0 .. h /\ k + 1 \in 0 .. h
    BY <1>2
  <2>2. A[k] \in Nat /\ A[k + 1] \in Nat /\ T[k] \in Nat
    BY <1>4, <2>1
  <2>3. Covers(mem, Slot(k), Received, A[k], T[k], A[k + 1], T[k + 1]) /\ Slot(k).len \in Nat
    BY <1>7, <1>8
  <2> DEFINE a == A[k]
             t == T[k]
             b == A[k + 1]
             u == T[k + 1]
  <2>4. Covers(mem, Slot(k), Received, a, t, b, u) /\ Slot(k).len \in Nat /\ a \in Nat /\ t \in Nat
    BY <2>2, <2>3
  <2> HIDE DEF a, t, b, u
  <2>5. a <= b
    BY <2>4, CoversRise
  <2> QED BY <2>1, <2>2, <2>5 DEF a, b
<1>11. \A k \in 1 .. h : n <= A[k] /\ A[k] <= m /\ A[k] \in Nat
  <2> TAKE k \in 1 .. h
  <2>1. k \in 0 .. h /\ 1 \in 0 .. h /\ 1 <= k
    BY <1>2
  <2>2. A \in [0 .. h -> Nat]
    BY <1>4
  <2>3. A[1] <= A[k]
    BY <1>2, <1>10, <2>1, <2>2, SumsRise
  <2> QED BY <1>4, <1>9, <2>1, <2>3
<1>12. \E B \in [0 .. h - 1 -> 0 .. m - n] : \E U \in [0 .. h - 1 -> Nat] :
          \A k \in 0 .. h - 1 : B[k] = A[k + 1] - n /\ U[k] = T[k + 1]
  <2>1. [k \in 0 .. h - 1 |-> A[k + 1] - n] \in [0 .. h - 1 -> 0 .. m - n]
    <3> SUFFICES ASSUME NEW k \in 0 .. h - 1 PROVE A[k + 1] - n \in 0 .. m - n
      OBVIOUS
    <3>1. k + 1 \in 1 .. h
      BY <1>2
    <3> DEFINE a == A[k + 1]
    <3>2. n <= a /\ a <= m /\ a \in Nat
      BY <1>11, <3>1
    <3>3. n \in Nat /\ m \in Nat
      BY <1>1, <1>4
    <3> HIDE DEF a
    <3>4. a - n \in 0 .. m - n
      BY <3>2, <3>3
    <3> QED BY <3>4 DEF a
  <2>2. [k \in 0 .. h - 1 |-> T[k + 1]] \in [0 .. h - 1 -> Nat]
    BY <1>10
  <2> QED BY <2>1, <2>2
<1>13. PICK B \in [0 .. h - 1 -> 0 .. m - n], U \in [0 .. h - 1 -> Nat] :
          \A k \in 0 .. h - 1 : B[k] = A[k + 1] - n /\ U[k] = T[k + 1]
  BY <1>12
<1>14. ASSUME NEW k \in 0 .. h - 2
       PROVE  Covers(mem, Slot(k)', R, B[k], U[k], B[k + 1], U[k + 1])
  <2>1. k \in 0 .. h - 1 /\ k + 1 \in 0 .. h - 1 /\ k + 1 \in 1 .. h /\ (k + 1) + 1 \in 1 .. h
    BY <1>2
  <2> DEFINE a == A[k + 1]
             t == T[k + 1]
             b == A[(k + 1) + 1]
             u == T[(k + 1) + 1]
             e == Slot(k + 1)
  <2>2. Covers(mem, e, Received, a, t, b, u) /\ e.len \in Nat /\ a <= b
    BY <1>7, <1>8, <1>10, <2>1
  <2>3. a \in Nat /\ b \in Nat /\ n <= a /\ b <= m
    BY <1>11, <2>1
  <2>4. B[k] = a - n /\ B[k + 1] = b - n /\ U[k] = t /\ U[k + 1] = u /\ Slot(k)' = e
    BY <1>3, <1>13, <2>1
  <2> HIDE DEF a, t, b, u, e
  <2>5. b <= N - 1 /\ n \in Nat
    BY <1>1, <1>4, <2>3
  <2>6. Covers(mem, e, Incr(Received, n, N), a - n, t, b - n, u)
    BY <1>4, <2>2, <2>3, <2>5, CoversShift
  <2> QED BY <1>1, <2>4, <2>6
<1>15. ChainOf(B, U)'
  <2>1. B[0] = 0 /\ U[0] = Len(readOut') + q'.dlen
    <3>1. 0 \in 0 .. h - 1 /\ 0 + 1 = 1 /\ n - n = 0
      BY <1>1, <1>2
    <3>2. U[0] = Len(readOut) + q.dlen + len /\ B[0] = 0
      BY <1>9, <1>13, <3>1
    <3>3. Len(readOut) \in Nat /\ q.dlen \in Nat
      BY <1>2 DEF TypeInv, QType, OtherType
    <3> QED BY <1>0, <1>1, <3>2, <3>3
  <2>2. B[Left'] = Delta(card'.next, Received', RingSize) /\ U[Left'] = card'.sent
    <3>1. h - 1 \in 0 .. h - 1 /\ (h - 1) + 1 = h
      BY <1>2
    <3>2. B[h - 1] = m - n /\ U[h - 1] = card.sent
      BY <1>7, <1>13, <3>1
    <3> QED BY <1>0, <1>3, <1>5, <3>2 DEF R
  <2>3. \A k \in 0 .. Left' - 1 : k \in 0 .. h - 2
    BY <1>2, <1>3
  <2>4. \A k \in 0 .. Left' - 1 : Covers(mem', Slot(k)', Received', B[k], U[k], B[k + 1], U[k + 1])
    BY <1>0, <1>14, <2>3 DEF R
  <2> QED BY <2>1, <2>2, <2>4 DEF ChainOf
<1>16. B \in [0 .. Left' -> 0 .. Delta(card'.next, Received', RingSize)] /\ U \in [0 .. Left' -> Nat]
  BY <1>0, <1>3, <1>5 DEF R
<1> QED BY <1>3, <1>15, <1>16 DEF ChainInv


\* Where the packet is.
LEMMA EntryFilled ==
  ASSUME IInv, SameBuffers, svc.at = "entries", svc.left > 0, Entry.kind = "data"
  PROVE  Filled(mem, Entry, Received, Len(readOut) + q.dlen)
<1>1. TypeInv /\ ~q.err /\ Left \in 1 .. CmptSize - 1 /\ Slot(0) = Entry /\ Received \in Bufs
  BY EntryIs, PlacesAre
<1>2. PICK A \in [0 .. Left -> 0 .. Delta(card.next, Received, RingSize)], T \in [0 .. Left -> Nat] : ChainOf(A, T)
  BY <1>1 DEF IInv, ChainInv
<1>3. 0 \in 0 .. Left - 1
  BY <1>1, Sizes
<1>4. /\ Covers(mem, Entry, Received, A[0], T[0], A[0 + 1], T[0 + 1])
      /\ A[0] = 0 /\ T[0] = Len(readOut) + q.dlen
  BY <1>1, <1>2, <1>3 DEF ChainOf
<1>5. Filled(mem, Entry, Incr(Received, 0, RingSize), Len(readOut) + q.dlen)
  BY <1>4 DEF Covers
<1>6. Incr(Received, 0, RingSize) = Received
  <2>1. 0 \in 0 .. RingSize - 1
    BY Sizes
  <2> QED BY <1>1, <2>1, BufIncr
<1> QED BY <1>5, <1>6

\* The buffers of the packet, counted from pidx_pend.
LEMMA RcvPktBufs ==
  ASSUME IInv, RcvStep
  PROVE  LET len == Entry.len
             n == CardUses(len)
         IN  /\ Held \in 0 .. RingSize - 1 /\ Held' = Held + n /\ Held + n \in 0 .. RingSize - 1 /\ n \in 1 .. RingSize - 1
             /\ len \in Nat /\ len \in Lengths
             /\ \A d \in 0 .. Held + n - 1 : Buf(d)' = Buf(d) /\ Buf(d) \in Bufs
             /\ \A d \in 0 .. Held + n - 2 : sdesc'[Buf(d)] = sdesc[Buf(d)]
             /\ sdesc'[Buf(Held + n - 1)] = [len |-> LastLen(len), off |-> sdesc[Buf(Held + n - 1)].off]
             /\ \A i \in 0 .. n - 1 :
                  /\ Buf(Held + i) = Incr(Received, i, RingSize)
                  /\ sdesc[Buf(Held + i)].len = C2hBufsz
                  /\ ~q.skewed => sdesc[Buf(Held + i)].off = 0
<1> DEFINE len == Entry.len
           n == CardUses(len)
           last == Incr(Received, n - 1, RingSize)
           N == RingSize
           R == Received'
           h == Held
<1>0. SameBuffers /\ svc.at = "entries" /\ svc.left > 0 /\ RcvPkt
      /\ UNCHANGED <<mode, card, mem, cmpt, iring, work, pend, req, readOut>>
  BY DEF RcvStep
<1>1. /\ n \in 1 .. N - 1 /\ len \in Nat /\ len \in Lengths
      /\ R \in Bufs /\ R = Incr(Received, n, N) /\ Place(R) = Place(Received) + n
      /\ q'.pidxPend = q.pidxPend /\ last \in Bufs
      /\ sdesc' = [sdesc EXCEPT ![last] = [len |-> LastLen(len), off |-> sdesc[last].off]]
  BY <1>0, RcvPktIs
<1>2. /\ TypeInv /\ OrderInv /\ ValidInv /\ FreshInv /\ ~q.err
  BY <1>0, EntryIs DEF IInv
<1>3. /\ Received \in Bufs /\ q.pidxPend \in Bufs /\ From \in Bufs /\ N \in Nat
      /\ Place(Received) \in 0 .. N - 1 /\ Place(q.pidxPend) \in 0 .. N - 1 /\ Place(From) \in 0 .. N - 1
      /\ Place(q.pidx) \in 0 .. N - 1
      /\ Place(R) \in 0 .. N - 1
  BY <1>1, <1>2, PlacesAre
<1>4. Place(From) <= Place(Received) /\ Place(q.pidxPend) <= Place(Received)
  <2>1. Place(q.pidxPend) <= Place(q.pidx) /\ Place(q.pidx) <= Place(Received)
    BY <1>2 DEF OrderInv
  <2> QED BY <1>2, <1>3, <2>1, AvailIs
<1>5. h = Place(Received) - Place(q.pidxPend)
  BY <1>2, <1>3, <1>4, PlacesAre DEF Held
<1> DEFINE p == Place(q.pidxPend)
           d == Place(Received)
           r == Place(R)
<1>6. /\ p \in 0 .. N - 1 /\ d \in 0 .. N - 1 /\ r \in 0 .. N - 1 /\ N \in Nat /\ n \in 1 .. N - 1 /\ p <= d
      /\ h = d - p /\ r = d + n
  BY <1>1, <1>3, <1>4, <1>5
<1> HIDE DEF p, d, r, R, n, h, N, last, len
<1>7. h \in 0 .. N - 1 /\ h + n \in 0 .. N - 1 /\ h + n = r - p /\ p <= r /\ h + n - 1 \in 0 .. N - 1
      /\ n - 1 \in 0 .. N - 1 /\ h + (n - 1) = h + n - 1 /\ h + (n - 1) <= N - 1 /\ h \in Nat
  BY <1>6
<1>8. Held' = h + n
  <2>1. Delta(R, q.pidxPend, RingSize) = r - p
    BY <1>1, <1>2, <1>3, <1>7, PlacesAre DEF p, r
  <2> QED BY <1>1, <1>7, <2>1 DEF Held, R
<1>9. \A k \in 0 .. h + n - 1 : /\ k \in 0 .. N - 1 /\ Buf(k)' = Buf(k) /\ Buf(k) \in Bufs
                                /\ Delta(Buf(k), q.pidxPend, RingSize) = k
  <2> TAKE k \in 0 .. h + n - 1
  <2>1. k \in 0 .. N - 1
    BY <1>6, <1>7
  <2> QED BY <1>1, <1>3, <2>1, BufIncr DEF Buf, N
<1>10. \A i \in 0 .. n - 1 : Buf(h + i) = Incr(Received, i, RingSize)
  <2> TAKE i \in 0 .. n - 1
  <2>1. i \in 0 .. N - 1 /\ h + i <= N - 1 /\ h + i \in 0 .. N - 1
    BY <1>6, <1>7
  <2>2. Incr(q.pidxPend, h, RingSize) = Received
    BY <1>3, BufDist DEF h, Held
  <2>3. Incr(Incr(q.pidxPend, h, RingSize), i, RingSize) = Incr(q.pidxPend, h + i, RingSize)
    <3>1. h \in 0 .. RingSize - 1 /\ i \in 0 .. RingSize - 1 /\ h + i <= RingSize - 1 /\ q.pidxPend \in Bufs
      BY <1>3, <1>7, <2>1 DEF N
    <3> QED BY <3>1, BufIncrIncr
  <2> QED BY <2>2, <2>3 DEF Buf
<1>11. last = Buf(h + n - 1)
  <2>1. n - 1 \in 0 .. n - 1
    BY <1>6
  <2> QED BY <1>7, <1>10, <2>1 DEF last
<1>12. \A k \in 0 .. h + n - 2 : sdesc'[Buf(k)] = sdesc[Buf(k)]
  <2> TAKE k \in 0 .. h + n - 2
  <2>1. k \in 0 .. h + n - 1 /\ h + n - 1 \in 0 .. h + n - 1 /\ k # h + n - 1
    BY <1>6, <1>7
  <2>2. Buf(k) # last /\ Buf(k) \in Bufs
    BY <1>9, <1>11, <2>1
  <2> QED BY <1>1, <1>2, <2>2 DEF TypeInv, DescType
<1>13. sdesc'[Buf(h + n - 1)] = [len |-> LastLen(len), off |-> sdesc[Buf(h + n - 1)].off]
  BY <1>1, <1>2, <1>11 DEF TypeInv, DescType
<1>14. \A i \in 0 .. n - 1 : sdesc[Buf(h + i)].len = C2hBufsz /\ (~q.skewed => sdesc[Buf(h + i)].off = 0)
  <2> TAKE i \in 0 .. n - 1
  <2>1. i \in 0 .. N - 1 /\ d + i <= N - 1 /\ h + i \in 0 .. h + n - 1
    BY <1>6, <1>7
  <2>2. Place(Incr(Received, i, RingSize)) = d + i
    <3>1. Delta(Received, Spare, RingSize) + i <= N - 1
      BY <2>1 DEF d, Place
    <3> QED BY <1>2, <1>3, <2>1, <3>1, PlacesAre, BufDistIncr DEF d, N, Place
  <2>3. Buf(h + i) \notin Between(From, Received)
    <3>1. Between(From, Received) = {x \in Bufs : Place(From) <= Place(x) /\ Place(x) < d}
      BY <1>2, <1>3, <1>4, BetweenPlaces DEF d
    <3>2. ~(d + i < d)
      BY <1>6
    <3> QED BY <1>10, <2>2, <3>1, <3>2
  <2>4. Buf(h + i) \in Bufs \ valid
    BY <1>2, <1>9, <2>1, <2>3 DEF ValidInv
  <2> QED BY <1>2, <2>4 DEF FreshInv
<1> QED BY <1>1, <1>6, <1>7, <1>8, <1>9, <1>10, <1>12, <1>13, <1>14 DEF len, n, h, N


LEMMA RcvPktStream ==
  ASSUME IInv, RcvStep
  PROVE  StreamInv'
<1> DEFINE len == Entry.len
           n == CardUses(len)
           h == Held
           c == C2hBufsz
           back == (n - 1) * c
           u == Len(readOut)
<1>0. SameBuffers /\ svc.at = "entries" /\ svc.left > 0 /\ RcvPkt
      /\ UNCHANGED <<mode, card, mem, cmpt, iring, work, pend, req, readOut>>
  BY DEF RcvStep
<1>1. /\ h \in 0 .. RingSize - 1 /\ Held' = h + n /\ n \in 1 .. RingSize - 1 /\ len \in Nat /\ len \in Lengths
      /\ \A d \in 0 .. h + n - 1 : Buf(d)' = Buf(d) /\ Buf(d) \in Bufs
      /\ \A d \in 0 .. h + n - 2 : sdesc'[Buf(d)] = sdesc[Buf(d)]
      /\ sdesc'[Buf(h + n - 1)] = [len |-> LastLen(len), off |-> sdesc[Buf(h + n - 1)].off]
      /\ \A i \in 0 .. n - 1 : /\ Buf(h + i) = Incr(Received, i, RingSize)
                               /\ sdesc[Buf(h + i)].len = c
                               /\ ~q.skewed => sdesc[Buf(h + i)].off = 0
  BY RcvPktBufs
<1>2. TypeInv /\ ~q.err /\ Entry.kind = "data" /\ u \in Nat /\ q.dlen \in Nat
  BY <1>0, EntryIs DEF RcvPkt, TypeInv, QType, OtherType
<1>3. /\ q'.dlen = q.dlen + len /\ q'.skewed = q.skewed /\ q'.err = q.err
  BY <1>0, RcvPktIs
<1>4. /\ back \in Nat /\ n * c = back + c /\ back <= len /\ LastLen(len) = len - back /\ LastLen(len) \in 0 .. c
      /\ c \in Nat /\ c >= 1 /\ c <= DescBufSize /\ DescBufSize \in Nat /\ RingSize \in Nat
  BY <1>0, <1>1, CardUsesIs, PacketIs, Sizes
<1>5. Filled(mem, Entry, Received, u + q.dlen)
  BY <1>0, <1>2, EntryFilled
<1>6. PICK L \in [0 .. h -> Nat] : StreamOf(L)
  BY DEF IInv, StreamInv
<1>7. /\ L[0] = 0 /\ L[h] = q.dlen
      /\ \A d \in 0 .. h - 1 : L[d + 1] = L[d] + sdesc[Buf(d)].len
      /\ ~q.skewed => \A d \in 0 .. h - 1 : HoldsFrom(sdesc, mem, Buf(d), u + L[d])
  BY <1>2, <1>6 DEF StreamOf
<1>8. \A j \in 0 .. n - 1 : \A x \in 1 .. c :
         j * c + x <= len => mem[Incr(Received, j, RingSize)][x] = u + q.dlen + j * c + x
  BY <1>5 DEF Filled
<1> HIDE DEF len, n, h, back, u
<1>9. \A i \in 0 .. n - 1 : /\ i * c \in Nat /\ (i + 1) * c = i * c + c
                            /\ i * c <= back /\ (i # n - 1 => (i + 1) * c <= back)
  <2> TAKE i \in 0 .. n - 1
  <2>1. i \in Nat /\ n - 1 \in Nat /\ i <= n - 1 /\ (i # n - 1 => i + 1 <= n - 1) /\ i + 1 \in Nat
    BY <1>1, <1>4
  <2>2. i * c <= (n - 1) * c /\ i * c \in Nat
    BY <1>4, <2>1, TimesRise
  <2>3. i # n - 1 => (i + 1) * c <= (n - 1) * c
    BY <1>4, <2>1, TimesRise
  <2>4. (i + 1) * c = i * c + c
    BY <1>4, <2>1, Times
  <2> QED BY <2>2, <2>3, <2>4 DEF back
<1>10. \E K \in [0 .. h + n -> Nat] :
         /\ \A d \in 0 .. h : K[d] = L[d]
         /\ \A i \in 0 .. n - 1 : K[h + i] = q.dlen + i * c
         /\ K[h + n] = q.dlen + len
  <2> DEFINE W(d) == IF d <= h THEN L[d] ELSE IF d = h + n THEN q.dlen + len ELSE q.dlen + (d - h) * c
  <2>1. ASSUME NEW d \in 0 .. h + n PROVE W(d) \in Nat
    <3>1. d <= h => L[d] \in Nat
      BY <1>1
    <3>2. ~(d <= h) => d - h \in Nat
      BY <1>1
    <3>3. ~(d <= h) => (d - h) * c \in Nat
      BY <1>4, <3>2, TimesRise
    <3>4. q.dlen + len \in Nat
      BY <1>1, <1>2
    <3>5. CASE d <= h
      BY <3>1, <3>5
    <3>6. CASE ~(d <= h)
      <4>1. q.dlen + (d - h) * c \in Nat
        BY <1>2, <3>3, <3>6
      <4> QED BY <3>4, <3>6, <4>1
    <3> QED BY <3>5, <3>6
  <2>2. ASSUME NEW i \in 0 .. n - 1 PROVE W(h + i) = q.dlen + i * c /\ h + i \in 0 .. h + n
    <3>1. CASE i = 0
      <4>1. i * c = 0 /\ h + i = h
        BY <1>1, <1>4, <3>1
      <4> QED BY <1>1, <1>2, <1>7, <4>1
    <3>2. CASE i # 0
      <4>1. ~(h + i <= h) /\ h + i # h + n /\ (h + i) - h = i /\ h + i \in 0 .. h + n
        BY <1>1, <3>2
      <4> QED BY <4>1
    <3> QED BY <3>1, <3>2
  <2>3. W(h + n) = q.dlen + len /\ \A d \in 0 .. h : W(d) = L[d] /\ d \in 0 .. h + n
    BY <1>1
  <2> DEFINE X == [d \in 0 .. h + n |-> W(d)]
  <2>4. h + n \in 0 .. h + n
    BY <1>1
  <2> HIDE DEF W
  <2>5. X \in [0 .. h + n -> Nat]
    BY <2>1
  <2>6. /\ \A d \in 0 .. h : X[d] = L[d]
        /\ \A i \in 0 .. n - 1 : X[h + i] = q.dlen + i * c
        /\ X[h + n] = q.dlen + len
    BY <2>2, <2>3, <2>4
  <2> HIDE DEF X
  <2> QED BY <2>5, <2>6
<1>11. PICK K \in [0 .. h + n -> Nat] :
         /\ \A d \in 0 .. h : K[d] = L[d]
         /\ \A i \in 0 .. n - 1 : K[h + i] = q.dlen + i * c
         /\ K[h + n] = q.dlen + len
  BY <1>10
<1>12. \A d \in 0 .. h + n - 1 : d \in 0 .. h - 1 \/ \E i \in 0 .. n - 1 : d = h + i
  <2> TAKE d \in 0 .. h + n - 1
  <2>1. d \in 0 .. h - 1 \/ (d - h \in 0 .. n - 1 /\ d = h + (d - h))
    BY <1>1
  <2> QED BY <2>1
<1>13. ASSUME NEW d \in 0 .. h - 1
       PROVE  /\ K[d + 1] = K[d] + sdesc'[Buf(d)].len
              /\ ~q.skewed => HoldsFrom(sdesc', mem', Buf(d), u + K[d])
  <2>1. d \in 0 .. h /\ d + 1 \in 0 .. h /\ d \in 0 .. h + n - 2
    BY <1>1
  <2>2. sdesc'[Buf(d)] = sdesc[Buf(d)] /\ K[d] = L[d] /\ K[d + 1] = L[d + 1]
    BY <1>1, <1>11, <2>1
  <2> QED BY <1>0, <1>7, <2>2 DEF HoldsFrom
<1>14. ASSUME NEW i \in 0 .. n - 1
       PROVE  /\ K[h + i + 1] = K[h + i] + sdesc'[Buf(h + i)].len
              /\ ~q.skewed => HoldsFrom(sdesc', mem', Buf(h + i), u + K[h + i])
  <2> DEFINE s == sdesc'[Buf(h + i)]
  <2>1. /\ h + i \in 0 .. h + n - 1 /\ (i # n - 1 => h + i \in 0 .. h + n - 2 /\ i + 1 \in 0 .. n - 1)
        /\ (i = n - 1 => h + i = h + n - 1 /\ h + i + 1 = h + n) /\ h + i + 1 = h + (i + 1)
    BY <1>1
  <2>2. s.len = (IF i = n - 1 THEN len - back ELSE c) /\ (~q.skewed => s.off = 0)
    <3>1. CASE i = n - 1
      <4>1. s = [len |-> LastLen(len), off |-> sdesc[Buf(h + i)].off]
        BY <1>1, <2>1, <3>1
      <4>2. s.len = LastLen(len) /\ s.off = sdesc[Buf(h + i)].off
        BY <4>1
      <4> HIDE DEF s
      <4> QED BY <1>1, <1>4, <3>1, <4>2
    <3>2. CASE i # n - 1
      <4>1. s = sdesc[Buf(h + i)]
        BY <1>1, <2>1, <3>2
      <4> QED BY <1>1, <3>2, <4>1
    <3> QED BY <3>1, <3>2
  <2>3. K[h + i] = q.dlen + i * c /\ (i # n - 1 => K[h + (i + 1)] = q.dlen + (i + 1) * c)
    BY <1>11, <2>1
  <2>4. i * c \in Nat /\ (i + 1) * c = i * c + c /\ i * c <= back /\ (i # n - 1 => (i + 1) * c <= back)
        /\ (i = n - 1 => i * c = back)
    BY <1>9 DEF back
  <2> DEFINE ic == i * c
             jc == (i + 1) * c
             k == K[h + i]
  <2>5. /\ ic \in Nat /\ jc = ic + c /\ ic <= back /\ (i # n - 1 => jc <= back) /\ (i = n - 1 => ic = back)
        /\ k = q.dlen + ic /\ (i # n - 1 => K[h + i + 1] = q.dlen + jc) /\ (i = n - 1 => K[h + i + 1] = q.dlen + len)
    BY <1>11, <2>1, <2>3, <2>4
  <2> HIDE DEF s, ic, jc, k, c
  <2>6. K[h + i + 1] = k + s.len
    <3>1. CASE i = n - 1
      BY <1>1, <1>2, <1>4, <2>2, <2>5, <3>1
    <3>2. CASE i # n - 1
      BY <1>2, <1>4, <2>2, <2>5, <3>2
    <3> QED BY <3>1, <3>2
  <2>7. ASSUME ~q.skewed, NEW x \in 1 .. s.len
        PROVE  s.off + x <= DescBufSize /\ mem'[Buf(h + i)][s.off + x] = u + k + x
    <3>1. x \in 1 .. c /\ ic + x <= len /\ s.off = 0 /\ s.off + x = x /\ x \in Nat
      <4>0. c \in Nat /\ c >= 1 /\ back \in Nat /\ len \in Nat /\ back <= len /\ len - back \in 0 .. c
            /\ s.off = 0
        BY <1>1, <1>4, <2>2, <2>7
      <4>1. CASE i = n - 1
        <5>1. x \in 1 .. len - back
          BY <2>2, <2>7, <4>1
        <5> QED BY <2>5, <4>0, <4>1, <5>1
      <4>2. CASE i # n - 1
        <5>1. x \in 1 .. c
          BY <2>2, <2>7, <4>2
        <5> QED BY <2>5, <4>0, <4>2, <5>1
      <4> QED BY <4>1, <4>2
    <3>2. mem[Incr(Received, i, RingSize)][x] = u + q.dlen + ic + x
      BY <1>8, <3>1 DEF ic
    <3>3. Buf(h + i) = Incr(Received, i, RingSize) /\ mem' = mem
      BY <1>0, <1>1
    <3>4. u + q.dlen + ic + x = u + k + x
      BY <1>2, <2>5, <3>1
    <3> QED BY <1>4, <3>1, <3>2, <3>3, <3>4
  <2> QED BY <2>6, <2>7 DEF HoldsFrom, s, k
<1>15. StreamOf(K)'
  <2>1. K[0] = 0 /\ K[h + n] = q'.dlen
    BY <1>1, <1>3, <1>7, <1>11
  <2>2. ASSUME NEW d \in 0 .. h + n - 1
        PROVE  /\ K[d + 1] = K[d] + sdesc'[Buf(d)'].len
               /\ ~q.skewed => HoldsFrom(sdesc', mem', Buf(d)', Len(readOut') + K[d])
    <3>1. Buf(d)' = Buf(d) /\ Len(readOut') = u
      BY <1>0, <1>1 DEF u
    <3>2. CASE d \in 0 .. h - 1
      BY <1>13, <3>1, <3>2
    <3>3. CASE \E i \in 0 .. n - 1 : d = h + i
      BY <1>14, <3>1, <3>3
    <3> QED BY <1>12, <3>2, <3>3
  <2>3. q'.dlen \in Nat
    BY <1>1, <1>2, <1>3
  <2>4. q'.dlen <= q'.dlen
    BY <2>3
  <2> QED BY <1>1, <1>3, <2>1, <2>2, <2>4 DEF StreamOf
<1>16. K \in [0 .. Held' -> Nat]
  BY <1>1
<1> QED BY <1>15, <1>16 DEF StreamInv

LEMMA RcvPktKeeps ==
  ASSUME IInv, RcvStep
  PROVE  IInv'
<1>0. SameBuffers /\ svc.at = "entries" /\ svc.left > 0 /\ RcvPkt
      /\ UNCHANGED <<mode, card, mem, cmpt, iring, work, pend, req, readOut>>
  BY DEF RcvStep
<1>1. /\ TypeInv' /\ q'.pidx = q.pidx /\ q'.pidxPend = q.pidxPend /\ q'.skewed = q.skewed /\ q'.state = q.state
      /\ q'.stopWait = q.stopWait /\ q'.err = q.err
      /\ q'.cidxCmpt = Incr(q.cidxCmpt, 1, CmptSize)
      /\ svc'.at = "entries" /\ svc'.from = svc.from /\ svc'.left = svc.left - 1 /\ svc'.done = svc.done + 1
      /\ From' = From /\ Spare' = Spare
  BY <1>0, RcvPktIs
<1>2. /\ TypeInv /\ ServiceInv /\ WaitInv /\ StreamInOrder /\ CmptInv /\ ~Free /\ Receiving
      /\ Left \in 1 .. CmptSize - 1 /\ svc.from = q.pidxPend
  BY <1>0, EntryIs DEF IInv
<1>3. OrderInv' /\ ValidInv' /\ FreshInv' /\ CmptInv' /\ ChainInv' /\ StreamInv'
  BY RcvPktMarks, RcvPktChain, RcvPktStream
<1>4. ServiceInv'
  <2>1. Left' = Left - 1 /\ svc.left <= Left /\ svc.left \in Nat /\ Left \in Nat /\ svc.done \in Nat
    BY <1>0, <1>1, <1>2, NextIs, Sizes DEF ServiceInv, TypeInv, SvcType, Free
  <2>2. svc'.left <= Left' /\ svc'.done # 0
    <3> DEFINE a == svc.left
               b == Left
               c == svc.done
    <3>1. a \in Nat /\ b \in Nat /\ c \in Nat /\ a <= b /\ svc'.left = a - 1 /\ Left' = b - 1 /\ svc'.done = c + 1
      BY <1>1, <2>1
    <3> HIDE DEF a, b, c
    <3> QED BY <3>1
  <2> QED BY <1>0, <1>1, <1>2, <2>2 DEF ServiceInv, Free, Receiving
<1>5. WaitInv'
  BY <1>0, <1>1, <1>2 DEF WaitInv, Free, Receiving
<1>6. StreamInOrder'
  BY <1>0, <1>1, <1>2 DEF StreamInOrder
<1> QED BY <1>1, <1>3, <1>4, <1>5, <1>6 DEF IInv

LEMMA SvcEntryKeeps ==
  ASSUME IInv, SameBuffers, SvcEntry
  PROVE  IInv'
<1>1. /\ svc.at = "entries" /\ svc.left > 0 /\ (ErrorEntry \/ StopAtEntry \/ RcvPkt)
      /\ UNCHANGED <<mode, card, mem, cmpt, iring, work, pend, req, readOut>>
  BY DEF SvcEntry
<1> QED BY <1>1, ErrorEntryKeeps, StopAtEntryKeeps, RcvPktKeeps DEF RcvStep


-----------------------------------------------------------------------------
(* The handler writes the index. *)

LEMMA SvcCidxKeeps ==
  ASSUME IInv, SvcCidx
  PROVE  IInv'
<1>1. /\ TypeInv /\ OrderInv /\ ServiceInv /\ Receiving /\ ~Free
      /\ UNCHANGED <<mode, mem, cmpt, iring, sdesc, valid, work, pend, req, readOut>>
  BY DEF IInv, SvcCidx, Receiving, Free
<1>2. svc \in [at : {"entries", "cidx", "deliver", "refill"}, left : Nat, done : Nat, pidx : Bufs, from : Bufs]
  BY <1>1 DEF TypeInv, SvcType, Free
<1>3. /\ Received = svc.pidx /\ From = svc.from /\ svc.from = q.pidxPend
      /\ q.state = "online" /\ ~q.err
  BY <1>1 DEF ServiceInv, Received, From
<1>4. CASE svc.done = 0
  <2>1. svc' = [at |-> "idle"] /\ q' = q /\ card' = card
    BY <1>4 DEF SvcCidx
  <2>2. Free' /\ ~Receiving' /\ svc'.at = "idle"
    BY <2>1 DEF Free, Receiving
  <2>3. From' = From /\ Received' = Received /\ Spare' = Spare
    BY <1>1, <1>3, <1>4, <2>1, <2>2 DEF From, Received, Spare, ServiceInv
  <2>4. Books'
    BY <1>1, <2>1, <2>3, SameBooks DEF IInv, Books
  <2>5. ServiceInv' /\ WaitInv'
    BY <1>1, <2>1, <2>2, <2>3 DEF IInv, ServiceInv, WaitInv
  <2>6. TypeInv'
    <3>1. SvcType'
      BY <2>1 DEF SvcType
    <3>2. CardType' /\ MemType' /\ CmptType' /\ RingType' /\ DescType' /\ QType' /\ ReqType'
      BY <1>1, <2>1 DEF TypeInv, CardType, MemType, CmptType, RingType, DescType, QType, ReqType
    <3>3. OtherType'
      BY <1>1 DEF TypeInv, OtherType
    <3> QED BY <3>1, <3>2, <3>3 DEF TypeInv
  <2> QED BY <2>4, <2>5, <2>6 DEF IInv, Books
<1>5. CASE svc.done # 0
  <2>1. /\ q' = [q EXCEPT !.pidx = svc.pidx] /\ svc' = [svc EXCEPT !.at = "deliver"]
        /\ card' = [card EXCEPT !.cidx = q.cidxCmpt, !.armed = TRUE]
    BY <1>5 DEF SvcCidx, CidxWritten
  <2>2. /\ q'.pidx = svc.pidx /\ q'.pidxPend = q.pidxPend /\ q'.cidxCmpt = q.cidxCmpt /\ q'.dlen = q.dlen
        /\ q'.skewed = q.skewed /\ q'.err = q.err /\ q'.state = q.state /\ q'.stopWait = q.stopWait
        /\ q'.avail = q.avail /\ QType'
    BY <1>1, <1>2, <2>1 DEF TypeInv, QType
  <2>3. /\ card'.next = card.next /\ card'.posted = card.posted /\ card'.pidx = card.pidx
        /\ card'.cidx = q.cidxCmpt /\ card'.sent = card.sent /\ CardType'
    BY <1>1, <2>1 DEF TypeInv, CardType, QType
  <2>4. svc'.at = "deliver" /\ svc'.from = svc.from /\ SvcType' /\ ~Free' /\ ~Receiving'
    BY <1>2, <2>1 DEF SvcType, Free, Receiving
  <2>5. From' = From /\ Received' = Received /\ Spare' = Spare /\ Left' = Left /\ Held' = Held
        /\ \A b : Place(b)' = Place(b)
    BY <1>1, <1>3, <2>2, <2>3, <2>4 DEF From, Received, Spare, Left, Held, Place
  <2>6. TypeInv'
    <3>1. MemType' /\ CmptType' /\ RingType' /\ DescType' /\ ReqType'
      BY <1>1 DEF TypeInv, MemType, CmptType, RingType, DescType, ReqType
    <3>2. OtherType'
      BY <1>1 DEF TypeInv, OtherType
    <3> QED BY <2>2, <2>3, <2>4, <3>1, <3>2 DEF TypeInv
  <2>7. OrderInv'
    <3>1. /\ Place(From)' = Place(From) /\ Place(q.pidxPend)' = Place(q.pidxPend)
          /\ Place(q.pidx)' = Place(Received) /\ Place(Received)' = Place(Received)
          /\ Place(card.next)' = Place(card.next)
      BY <1>3, <2>2, <2>3, <2>5 DEF Place
    <3>2. /\ Place(Received) \in 0 .. RingSize - 1 /\ Place(q.pidx) \in 0 .. RingSize - 1
          /\ Place(q.pidxPend) \in 0 .. RingSize - 1 /\ RingSize \in Nat
      BY <1>1, PlacesAre
    <3>3. Place(q.pidxPend) <= Place(Received) /\ Place(Received) <= Place(Received)
      BY <1>1, <3>2 DEF OrderInv
    <3> QED BY <1>1, <3>1, <3>3 DEF OrderInv
  <2>8. ServiceInv' /\ WaitInv'
    BY <1>1, <1>3, <2>2, <2>4, <2>5 DEF IInv, ServiceInv, WaitInv
  <2>9. ValidInv' /\ FreshInv' /\ StreamInOrder'
    BY <1>1, <2>2, <2>5 DEF IInv, ValidInv, FreshInv, StreamInOrder
  <2>10. CmptInv'
    <3>1. Delta(q.cidxCmpt, q.cidxCmpt, CmptSize) = 0 /\ Delta(card.pidx, q.cidxCmpt, CmptSize) \in 0 .. CmptSize - 1
      <4>1. Delta(card.pidx, q.cidxCmpt, CmptSize) \in 0 .. CmptSize - 1 /\ q.cidxCmpt \in 0 .. CmptSize - 1
        BY <1>1, CompletionsAre DEF Left
      <4> QED BY <4>1, Sizes DEF Delta
    <3>2. 0 <= Delta(card.pidx, q.cidxCmpt, CmptSize)
      BY <3>1
    <3> QED BY <2>2, <2>3, <3>1, <3>2 DEF CmptInv
  <2>11. ChainInv'
    <3>1. PICK A \in [0 .. Left -> 0 .. Delta(card.next, Received, RingSize)], T \in [0 .. Left -> Nat] : ChainOf(A, T)
      BY <1>3 DEF IInv, ChainInv
    <3>2. ChainOf(A, T)'
      BY <1>1, <2>2, <2>3, <2>5, <3>1 DEF ChainOf, Slot
    <3> QED BY <2>3, <2>5, <3>1, <3>2 DEF ChainInv
  <2>12. StreamInv'
    <3>1. PICK L \in [0 .. Held -> Nat] : StreamOf(L)
      BY DEF IInv, StreamInv
    <3>2. StreamOf(L)'
      BY <1>1, <2>2, <2>5, <3>1 DEF StreamOf, Buf
    <3> QED BY <2>5, <3>1, <3>2 DEF StreamInv
  <2> QED BY <2>6, <2>7, <2>8, <2>9, <2>10, <2>11, <2>12 DEF IInv
<1> QED BY <1>4, <1>5


-----------------------------------------------------------------------------
(* Reading. *)

\* A request reads room units: what moves in the queue.  Buffers not emptied
\* keep what the read leaves of them.
ReadStep(r, room) ==
  LET d == ReadFor(room)
  IN  /\ ~Receiving /\ ~Receiving' /\ readOut' = Copied(r, d.copied)
      /\ q'.pidx = q.pidx /\ q'.pidxPend = Incr(q.pidxPend, d.emptied, RingSize) /\ q'.dlen = q.dlen - d.copied
      /\ q'.err = q.err /\ q'.cidxCmpt = q.cidxCmpt /\ (~q'.skewed => ~q.skewed)
      /\ mem' = mem /\ cmpt' = cmpt
      /\ card'.next = card.next /\ card'.pidx = card.pidx /\ card'.sent = card.sent
      /\ \A b \in Bufs \ Between(q.pidxPend, Incr(q.pidxPend, d.emptied, RingSize)) : sdesc'[b] = LeftIn(d)[b]

\* The buffers of the stream, and how much the read takes of them.
LEMMA ReadFacts ==
  ASSUME TypeInv, ~Receiving, NEW L \in [0 .. Held -> Nat], StreamOf(L), NEW room \in Nat
  PROVE  /\ Held = Count /\ Count \in 0 .. RingSize - 1 /\ Reading(ReadFor(room), room, L)
         /\ ReadFor(room).copied <= q.dlen /\ q.dlen \in Nat
         /\ Len(Unread) = Count /\ \A n \in 1 .. Count : Unread[n] = Buf(n - 1)
         /\ \A d \in 0 .. Count - 1 : Buf(d) \in Bufs /\ Delta(Buf(d), q.pidxPend, RingSize) = d
         /\ \A d \in 0 .. Count : L[d] \in Nat
<1>1. Held = Count
  BY DEF Held, Count, Received
<1>2. DescType /\ QType /\ Count \in 0 .. RingSize - 1 /\ q.pidxPend \in Bufs /\ q.dlen \in Nat
  <2>1. q.pidx \in Bufs /\ q.pidxPend \in Bufs /\ q.dlen \in Nat
    BY DEF TypeInv, QType
  <2> QED BY <2>1, BufDist DEF TypeInv, Count
<1> DEFINE m == Count
<1>3. /\ L \in [0 .. m -> Nat] /\ L[0] = 0 /\ m \in 0 .. RingSize - 1 /\ Count <= m
      /\ \A d \in 0 .. m - 1 : L[d + 1] = L[d] + sdesc[Buf(d)].len
      /\ L[m] <= q.dlen /\ m \in Nat
  BY <1>1, <1>2, Sizes DEF StreamOf
<1>4. Reading(ReadFor(room), room, L)
  <2> HIDE DEF m
  <2> QED BY <1>2, <1>3, ReadIs
<1>5. Len(Unread) = Count /\ \A n \in 1 .. Count : Unread[n] = Buf(n - 1)
  <2> HIDE DEF m
  <2> QED BY <1>2, <1>3, LenUpToIs
<1>6. \A d \in 0 .. Count - 1 : Buf(d) \in Bufs /\ Delta(Buf(d), q.pidxPend, RingSize) = d
  <2> TAKE d \in 0 .. Count - 1
  <2>1. d \in 0 .. RingSize - 1
    BY <1>2, Sizes
  <2> QED BY <1>2, <2>1, BufIncr DEF Buf
<1>7. ReadFor(room).copied <= q.dlen
  <2> DEFINE c == ReadFor(room).copied
             x == L[m]
             y == q.dlen
  <2>1. c \in Nat /\ x \in Nat /\ y \in Nat /\ c <= x /\ x <= y
    <3>1. x \in Nat /\ y \in Nat /\ x <= y
      <4>1. m \in Nat /\ L \in [0 .. m -> Nat] /\ L[m] <= q.dlen /\ q.dlen \in Nat
        BY <1>2, <1>3
      <4> HIDE DEF m
      <4>2. m \in 0 .. m
        BY <4>1
      <4> QED BY <4>1, <4>2
    <3> QED BY <1>4, <3>1 DEF Reading
  <2> HIDE DEF c, x, y
  <2>2. c <= y
    BY <2>1
  <2> QED BY <2>2 DEF c, y
<1> QED BY <1>1, <1>2, <1>3, <1>4, <1>5, <1>6, <1>7

\* What the read leaves of each buffer it did not empty.
LEMMA LeftInIs ==
  ASSUME TypeInv, ~Receiving, NEW L \in [0 .. Held -> Nat], StreamOf(L), NEW room \in Nat
  PROVE  LET d == ReadFor(room)
         IN  /\ LeftIn(d) \in [Bufs -> [len : 0 .. DescBufSize, off : Nat]]
             /\ \A b \in Bufs : (d.emptied = Count \/ b # Buf(d.emptied)) => LeftIn(d)[b] = sdesc[b]
             /\ d.emptied < Count =>
                  /\ LeftIn(d)[Buf(d.emptied)].len = sdesc[Buf(d.emptied)].len - d.part
                  /\ LeftIn(d)[Buf(d.emptied)].off = sdesc[Buf(d.emptied)].off + d.part
<1> DEFINE d == ReadFor(room)
           n == d.emptied
           p == d.part
           b0 == Buf(n)
<1>1. /\ Count \in 0 .. RingSize - 1 /\ Reading(d, room, L)
      /\ \A k \in 1 .. Count : Unread[k] = Buf(k - 1)
      /\ \A k \in 0 .. Count - 1 : Buf(k) \in Bufs
  BY ReadFacts
<1>2. n \in 0 .. Count /\ p \in Nat /\ (p # 0 => n < Count /\ p < sdesc[b0].len) /\ Count \in Nat
  BY <1>1, Sizes DEF Reading
<1>3. DescType
  BY DEF TypeInv
<1> HIDE DEF d
<1>4. CASE p = 0
  <2>1. LeftIn(d) = sdesc
    BY <1>4 DEF LeftIn
  <2>2. n < Count => sdesc[b0].len \in Int /\ sdesc[b0].off \in Int
    <3>1. n < Count => b0 \in Bufs
      <4> HIDE DEF n
      <4> QED BY <1>1, <1>2
    <3> QED BY <1>3, <3>1, Sizes DEF DescType
  <2> DEFINE l == sdesc[b0].len
             o == sdesc[b0].off
  <2>3. n < Count => l - p = l /\ o + p = o
    <3> HIDE DEF p, n
    <3> QED BY <1>4, <2>2
  <2> QED BY <1>3, <2>1, <2>3 DEF DescType, d
<1>5. CASE p # 0
  <2>1. n < Count /\ p < sdesc[b0].len /\ n + 1 \in 1 .. Count /\ n \in 0 .. Count - 1 /\ (n + 1) - 1 = n /\ n # Count
    <3> HIDE DEF p, n, b0
    <3> QED BY <1>2, <1>5 DEF b0
  <2>2. Unread[n + 1] = b0 /\ b0 \in Bufs
    BY <1>1, <2>1
  <2>3. sdesc[b0] \in [len : 0 .. DescBufSize, off : Nat]
    BY <1>3, <2>2 DEF DescType
  <2> DEFINE l == sdesc[b0].len - p
             o == sdesc[b0].off + p
  <2>4. l \in 0 .. DescBufSize /\ o \in Nat
    <3> DEFINE x == sdesc[b0].len
               y == sdesc[b0].off
    <3>1. x \in 0 .. DescBufSize /\ y \in Nat /\ p \in Nat /\ p < x /\ DescBufSize \in Nat
      BY <1>2, <2>1, <2>3, Sizes
    <3> HIDE DEF x, y, p
    <3>2. x - p \in 0 .. DescBufSize /\ y + p \in Nat
      BY <3>1
    <3> QED BY <3>2 DEF x, y
  <2>5. LeftIn(d) = [sdesc EXCEPT ![b0] = [len |-> l, off |-> o]]
    BY <1>5, <2>2 DEF LeftIn
  <2> HIDE DEF l, o, b0, n, p
  <2>6. /\ LeftIn(d) \in [Bufs -> [len : 0 .. DescBufSize, off : Nat]]
        /\ LeftIn(d)[b0] = [len |-> l, off |-> o]
        /\ \A b \in Bufs : b # b0 => LeftIn(d)[b] = sdesc[b]
    BY <1>3, <2>2, <2>4, <2>5 DEF DescType
  <2>7. LeftIn(d)[b0].len = l /\ LeftIn(d)[b0].off = o
    BY <2>6
  <2> QED BY <2>1, <2>6, <2>7 DEF l, o, b0, n, p, d
<1> QED BY <1>4, <1>5


\* The stream after a read: what was copied is gone, the rest is as it was.
LEMMA ReadStream ==
  ASSUME TypeInv, StreamInv, NEW r \in Requests, NEW room \in Nat, ReadStep(r, room)
  PROVE  /\ StreamInv' /\ q'.dlen \in Nat /\ readOut' \in Seq([unit : Nat, to : Requests])
         /\ Len(readOut') + q'.dlen = Len(readOut) + q.dlen
         /\ StreamInOrder => StreamInOrder'
<1> DEFINE d == ReadFor(room)
           n == d.emptied
           p == d.part
           c == d.copied
           P == Incr(q.pidxPend, n, RingSize)
           u == Len(readOut)
<1>0. /\ ~Receiving /\ ~Receiving' /\ readOut' = Copied(r, c)
      /\ q'.pidx = q.pidx /\ q'.pidxPend = P /\ q'.dlen = q.dlen - c
      /\ q'.err = q.err /\ (~q'.skewed => ~q.skewed) /\ mem' = mem
      /\ \A b \in Bufs \ Between(q.pidxPend, P) : sdesc'[b] = LeftIn(d)[b]
  BY DEF ReadStep
<1>1. PICK L \in [0 .. Held -> Nat] : StreamOf(L)
  BY DEF StreamInv
<1> DEFINE h == Count
<1>2. /\ Held = h /\ h \in 0 .. RingSize - 1 /\ h \in Nat /\ c <= q.dlen /\ q.dlen \in Nat
      /\ \A k \in 0 .. h - 1 : Buf(k) \in Bufs /\ Delta(Buf(k), q.pidxPend, RingSize) = k
      /\ \A k \in 0 .. h : L[k] \in Nat
  BY <1>0, <1>1, ReadFacts, Sizes
<1>3. /\ n \in 0 .. h /\ p \in Nat /\ c \in Nat /\ c = L[n] + p /\ c <= L[h]
      /\ (p # 0 => n < h /\ p < sdesc[Buf(n)].len)
  <2>1. Reading(d, room, L)
    BY <1>0, <1>1, ReadFacts
  <2> QED BY <2>1 DEF Reading
<1>4. /\ L[0] = 0 /\ L[h] <= q.dlen /\ (~q.err => L[h] = q.dlen) /\ L \in [0 .. h -> Nat]
      /\ \A k \in 0 .. h - 1 : L[k + 1] = L[k] + sdesc[Buf(k)].len
      /\ ~q.skewed => \A k \in 0 .. h - 1 : HoldsFrom(sdesc, mem, Buf(k), u + L[k])
  BY <1>1, <1>2 DEF StreamOf
<1>5. /\ \A b \in Bufs : (n = h \/ b # Buf(n)) => LeftIn(d)[b] = sdesc[b]
      /\ n < h => /\ LeftIn(d)[Buf(n)].len = sdesc[Buf(n)].len - p
                  /\ LeftIn(d)[Buf(n)].off = sdesc[Buf(n)].off + p
  BY <1>0, <1>1, LeftInIs
<1>6. DescType /\ QType /\ MemType /\ q.pidxPend \in Bufs /\ u \in Nat /\ RingSize \in Nat /\ DescBufSize \in Nat
      /\ readOut \in Seq([unit : Nat, to : Requests])
  BY Sizes DEF TypeInv, QType, OtherType
<1>7. /\ UnreadData \in [1 .. L[h] -> Nat]
      /\ ~q.skewed => \A k \in 1 .. L[h] : UnreadData[k] = u + k
  <2>1. /\ UnreadData \in [1 .. L[Count] -> Nat]
        /\ \A v \in Nat : (\A k \in 0 .. h - 1 : HoldsFrom(sdesc, mem, Buf(k), v + L[k]))
                              => \A k \in 1 .. L[Count] : UnreadData[k] = v + k
    <3>1. Count <= h
      BY <1>2
    <3> QED BY <1>2, <1>4, <1>6, <3>1, UnitsAre
  <2> QED BY <1>4, <1>6, <2>1
<1> HIDE DEF n, p, c, P, u, h, d
<1> DEFINE dl == q.dlen
           N == RingSize
<1>0a. /\ n \in Nat /\ h \in Nat /\ n <= h /\ h <= N - 1 /\ N \in Nat
       /\ c \in Nat /\ u \in Nat /\ c <= dl /\ dl \in Nat
  BY <1>2, <1>3, <1>6
<1> HIDE DEF dl, N
<1>8. /\ readOut' = readOut \o [k \in 1 .. c |-> [unit |-> UnreadData[k], to |-> r]]
      /\ [k \in 1 .. c |-> [unit |-> UnreadData[k], to |-> r]] \in Seq([unit : Nat, to : Requests])
      /\ Len([k \in 1 .. c |-> [unit |-> UnreadData[k], to |-> r]]) = c
  <2>1. \A k \in 1 .. c : UnreadData[k] \in Nat
    <3>1. h \in 0 .. h
      BY <1>2
    <3>2. L[h] \in Nat
      BY <1>2, <3>1
    <3>3. \A k \in 1 .. c : k \in 1 .. L[h]
      BY <1>3, <3>2
    <3> QED BY <1>7, <3>3
  <2>2. readOut' = readOut \o [k \in 1 .. c |-> [unit |-> UnreadData[k], to |-> r]]
    BY <1>0 DEF Copied
  <2> DEFINE S == [unit : Nat, to : Requests]
             new == [k \in 1 .. c |-> [unit |-> UnreadData[k], to |-> r]]
  <2>3. new \in [1 .. c -> S] /\ c \in Nat
    BY <1>3, <2>1
  <2>4. Len(new) = c
    BY <2>3
  <2> HIDE DEF S, new
  <2>5. new \in Seq(S)
    BY <2>3
  <2> QED BY <2>2, <2>4, <2>5 DEF S, new
<1>9. /\ readOut' \in Seq([unit : Nat, to : Requests]) /\ Len(readOut') = u + c
      /\ \A i \in 1 .. u : readOut'[i] = readOut[i]
      /\ \A i \in u + 1 .. u + c : readOut'[i] = [unit |-> UnreadData[i - u], to |-> r]
  <2> DEFINE new == [k \in 1 .. c |-> [unit |-> UnreadData[k], to |-> r]]
  <2>1. new \in Seq([unit : Nat, to : Requests]) /\ Len(new) = c /\ readOut' = readOut \o new
        /\ \A k \in 1 .. c : new[k] = [unit |-> UnreadData[k], to |-> r]
    BY <1>8
  <2> HIDE DEF new
  <2>2. /\ readOut' \in Seq([unit : Nat, to : Requests]) /\ Len(readOut') = u + c
        /\ \A i \in 1 .. u : readOut'[i] = readOut[i]
        /\ \A i \in u + 1 .. u + c : readOut'[i] = new[i - u]
    BY <1>3, <1>6, <2>1 DEF u
  <2>3. \A i \in u + 1 .. u + c : i - u \in 1 .. c
    BY <1>3, <1>6
  <2> QED BY <2>1, <2>2, <2>3
<1>10. q'.dlen = q.dlen - c /\ q'.dlen \in Nat /\ Len(readOut') + q'.dlen = Len(readOut) + q.dlen
  <2>1. dl - c \in Nat /\ (u + c) + (dl - c) = u + dl
    BY <1>0a
  <2> QED BY <1>0, <1>9, <2>1 DEF u, dl
<1>11. StreamInOrder => StreamInOrder'
  <2> SUFFICES ASSUME StreamInOrder, ~q'.skewed, NEW i \in DOMAIN readOut' PROVE readOut'[i].unit = i
    BY DEF StreamInOrder
  <2>1. i \in 1 .. u + c
    BY <1>9
  <2>2. CASE i \in 1 .. u
    <3>1. i \in DOMAIN readOut
      BY <1>6, <2>2 DEF u
    <3> QED BY <1>0, <1>9, <2>2, <3>1 DEF StreamInOrder
  <2>3. CASE i \in u + 1 .. u + c
    <3>1. i - u \in 1 .. c /\ u + (i - u) = i
      BY <1>3, <1>6, <2>3
    <3>2. i - u \in 1 .. L[h]
      <4>1. h \in 0 .. h
        BY <1>2
      <4>2. L[h] \in Nat
        BY <1>2, <4>1
      <4> QED BY <1>3, <3>1, <4>2
    <3>3. readOut'[i].unit = UnreadData[i - u]
      <4>1. readOut'[i] = [unit |-> UnreadData[i - u], to |-> r]
        BY <1>9, <2>3
      <4> QED BY <4>1
    <3> QED BY <1>0, <1>7, <3>1, <3>2, <3>3
  <2> QED BY <1>3, <1>6, <2>1, <2>2, <2>3
<1>12. /\ Held' = h - n /\ P \in Bufs
       /\ \A k \in 0 .. h - n - 1 : /\ Buf(k)' = Buf(n + k) /\ n + k \in 0 .. h - 1
                                    /\ Buf(n + k) \in Bufs /\ Buf(n + k) \notin Between(q.pidxPend, P)
  <2>1. n \in 0 .. RingSize - 1
    <3>1. n \in 0 .. N - 1
      BY <1>0a
    <3> QED BY <3>1 DEF N
  <2>2. P \in Bufs /\ Delta(P, q.pidxPend, RingSize) = n
    BY <1>6, <2>1, BufIncr DEF P
  <2>3. Held' = h - n
    <3>1. q.pidx \in Bufs /\ Delta(q.pidx, q.pidxPend, RingSize) = h
      BY <1>6 DEF QType, h, Count
    <3>2. n <= h
      BY <1>2, <1>3
    <3>3. Delta(q.pidx, P, RingSize) = h - n
      BY <1>6, <2>2, <3>1, <3>2, BufDistDist
    <3> QED BY <1>0, <3>3 DEF Held, Received
  <2>4. ASSUME NEW k \in 0 .. h - n - 1
        PROVE  /\ Buf(k)' = Buf(n + k) /\ n + k \in 0 .. h - 1
               /\ Buf(n + k) \in Bufs /\ Buf(n + k) \notin Between(q.pidxPend, P)
    <3>1. k \in 0 .. RingSize - 1 /\ n + k \in 0 .. h - 1 /\ n + k <= RingSize - 1
      <4>1. k \in 0 .. N - 1 /\ n + k \in 0 .. h - 1 /\ n + k <= N - 1
        BY <1>0a
      <4> QED BY <4>1 DEF N
    <3>2. Incr(P, k, RingSize) = Incr(q.pidxPend, n + k, RingSize)
      BY <1>6, <2>1, <3>1, BufIncrIncr DEF P
    <3>3. Buf(n + k) \in Bufs /\ Delta(Buf(n + k), q.pidxPend, RingSize) = n + k
      BY <1>2, <3>1
    <3>4. Buf(n + k) \notin Between(q.pidxPend, P)
      <4>1. ASSUME NEW j \in 0 .. n - 1, Buf(n + k) = Incr(q.pidxPend, j, RingSize) PROVE FALSE
        <5>1. j \in 0 .. RingSize - 1 /\ j # n + k
          <6>1. j \in 0 .. N - 1 /\ j # n + k
            BY <1>0a
          <6> QED BY <6>1 DEF N
        <5>2. Delta(Incr(q.pidxPend, j, RingSize), q.pidxPend, RingSize) = j
          BY <1>6, <5>1, BufIncr
        <5> QED BY <3>3, <4>1, <5>1, <5>2
      <4> QED BY <2>2, <4>1 DEF Between
    <3> QED BY <1>0, <3>1, <3>2, <3>3, <3>4 DEF Buf
  <2> QED BY <2>2, <2>3, <2>4
<1>13. \A k \in 0 .. h : L[k] \in Nat /\ (k > n => c <= L[k])
  <2>1. \A k \in 0 .. h - 1 : /\ k \in 0 .. h /\ k + 1 \in 0 .. h /\ sdesc[Buf(k)].len \in Nat
                              /\ L[k] <= L[k + 1] /\ L[k + 1] = L[k] + sdesc[Buf(k)].len
    <3> TAKE k \in 0 .. h - 1
    <3>1. k \in 0 .. h /\ k + 1 \in 0 .. h
      BY <1>0a
    <3>2. sdesc[Buf(k)].len \in Nat
      BY <1>2, <1>6 DEF DescType
    <3>3. L[k + 1] = L[k] + sdesc[Buf(k)].len /\ L[k] \in Nat
      BY <1>2, <1>4, <3>1
    <3> QED BY <3>1, <3>2, <3>3
  <2>2. ASSUME NEW k \in 0 .. h, k > n PROVE c <= L[k]
    <3>1. n \in 0 .. h - 1 /\ n + 1 \in 0 .. h /\ n + 1 <= k
      BY <1>0a, <2>2
    <3>2. L[n + 1] <= L[k]
      BY <1>0a, <1>4, <2>1, <3>1, SumsRise
    <3>3. L[n + 1] = L[n] + sdesc[Buf(n)].len /\ L[n] \in Nat /\ sdesc[Buf(n)].len \in Nat /\ L[n + 1] \in Nat
          /\ L[k] \in Nat
      BY <1>2, <2>1, <3>1
    <3> DEFINE a == L[n]
               b == L[n + 1]
               l == sdesc[Buf(n)].len
               e == L[k]
    <3>4. a \in Nat /\ b \in Nat /\ l \in Nat /\ e \in Nat /\ b <= e /\ b = a + l /\ c = a + p /\ p \in Nat
          /\ (p # 0 => p < l)
      BY <1>3, <3>2, <3>3
    <3> HIDE DEF a, b, l, e
    <3>5. c <= e
      BY <3>4
    <3> QED BY <3>5 DEF e
  <2> QED BY <1>2, <2>2
<1>14. \E K \in [0 .. h - n -> Nat] : K[0] = 0 /\ \A k \in 1 .. h - n : K[k] = L[n + k] - c
  <2> DEFINE W(k) == IF k = 0 THEN 0 ELSE L[n + k] - c
             X == [k \in 0 .. h - n |-> W(k)]
  <2>1. ASSUME NEW k \in 0 .. h - n PROVE W(k) \in Nat
    <3>1. n + k \in 0 .. h /\ (k # 0 => n + k > n)
      BY <1>0a
    <3>2. k # 0 => L[n + k] \in Nat /\ c <= L[n + k]
      BY <1>13, <3>1
    <3> QED BY <1>0a, <3>2
  <2>2. \A k \in 1 .. h - n : k \in 0 .. h - n /\ W(k) = L[n + k] - c
    BY <1>0a
  <2>3. 0 \in 0 .. h - n /\ W(0) = 0
    BY <1>0a
  <2> HIDE DEF W
  <2>4. X \in [0 .. h - n -> Nat] /\ X[0] = 0 /\ \A k \in 1 .. h - n : X[k] = L[n + k] - c
    BY <2>1, <2>2, <2>3
  <2> HIDE DEF X
  <2> QED BY <2>4
<1>15. PICK K \in [0 .. h - n -> Nat] : K[0] = 0 /\ \A k \in 1 .. h - n : K[k] = L[n + k] - c
  BY <1>14
<1>16. K[h - n] = L[h] - c
  <2>1. CASE n = h
    <3>1. p = 0 /\ h - n = 0 /\ L[h] \in Nat
      <4>1. h \in 0 .. h
        BY <1>0a
      <4> QED BY <1>0a, <1>3, <1>13, <2>1, <4>1
    <3>2. c = L[h] + p
      BY <1>3, <2>1
    <3>3. L[h] - c = 0
      BY <3>1, <3>2
    <3> QED BY <1>15, <3>1, <3>3
  <2>2. CASE n # h
    <3>1. h - n \in 1 .. h - n /\ n + (h - n) = h
      BY <1>0a, <2>2
    <3> QED BY <1>15, <3>1
  <2> QED BY <2>1, <2>2
<1>17. ASSUME NEW k \in 0 .. h - n - 1
       PROVE  /\ K[k + 1] = K[k] + sdesc'[Buf(k)'].len
              /\ ~q'.skewed => HoldsFrom(sdesc', mem', Buf(k)', u + c + K[k])
  <2> DEFINE b == Buf(n + k)
             s == sdesc[b]
             t == sdesc'[b]
             x == L[n + k]
             y == L[n + k + 1]
  <2>1. /\ Buf(k)' = b /\ n + k \in 0 .. h - 1 /\ n + k \in 0 .. h /\ n + k + 1 \in 0 .. h /\ b \in Bufs
        /\ k + 1 \in 1 .. h - n /\ n + (k + 1) = n + k + 1 /\ (k # 0 => k \in 1 .. h - n) /\ n < h
        /\ n \in 0 .. h - 1
    <3>1. /\ n + k \in 0 .. h - 1 /\ n + k \in 0 .. h /\ n + k + 1 \in 0 .. h
          /\ k + 1 \in 1 .. h - n /\ n + (k + 1) = n + k + 1 /\ (k # 0 => k \in 1 .. h - n) /\ n < h
          /\ n \in 0 .. h - 1
      <4> HIDE DEF b, s, t, x, y
      <4> QED BY <1>0a
    <3>2. Buf(k)' = b /\ b \in Bufs
      BY <1>12
    <3> QED BY <3>1, <3>2
  <2>2. t = LeftIn(d)[b]
    BY <1>0, <1>12, <2>1
  <2>3. y = x + s.len /\ x \in Nat /\ y \in Nat /\ s.len \in Nat /\ s.off \in Nat
    <3>1. s.len \in Nat /\ s.off \in Nat
      BY <1>6, <2>1 DEF DescType
    <3> QED BY <1>4, <1>13, <2>1, <3>1
  <2>4. ~q'.skewed => \A z \in 1 .. s.len : s.off + z <= DescBufSize /\ mem'[b][s.off + z] = u + x + z
    BY <1>0, <1>4, <2>1 DEF HoldsFrom
  <2>5. K[k + 1] = y - c
    BY <1>15, <2>1
  <2>6. CASE k = 0
    <3>1. b = Buf(n) /\ x = L[n]
      BY <1>0a, <2>6
    <3>2. t.len = s.len - p /\ t.off = s.off + p
      BY <1>5, <2>1, <2>2, <3>1
    <3>3. c = x + p /\ p \in Nat /\ K[k] = 0 /\ (p # 0 => p < s.len)
      BY <1>3, <1>15, <2>6, <3>1
    <3> DEFINE sl == s.len
               so == s.off
               tl == t.len
               to == t.off
    <3>4. sl \in Nat /\ so \in Nat /\ tl = sl - p /\ to = so + p /\ c = x + p /\ p \in Nat /\ x \in Nat
          /\ y = x + sl /\ (p # 0 => p < sl)
      BY <2>3, <3>2, <3>3
    <3>5. ~q'.skewed => \A z \in 1 .. sl : so + z <= DescBufSize /\ mem'[b][so + z] = u + x + z
      BY <2>4
    <3> HIDE DEF sl, so, tl, to, x, y, b
    <3>6. K[k + 1] = K[k] + tl
      BY <2>5, <3>3, <3>4
    <3>7. ASSUME ~q'.skewed, NEW z \in 1 .. tl
          PROVE  to + z <= DescBufSize /\ mem'[b][to + z] = u + c + K[k] + z
      <4>1. p + z \in 1 .. sl /\ so + (p + z) = to + z /\ u + x + (p + z) = u + c + K[k] + z
        BY <1>0a, <3>3, <3>4
      <4>2. so + (p + z) <= DescBufSize /\ mem'[b][so + (p + z)] = u + x + (p + z)
        BY <3>5, <3>7, <4>1
      <4> QED BY <4>1, <4>2
    <3> QED BY <2>1, <3>6, <3>7 DEF HoldsFrom, tl, to, b
  <2>7. CASE k # 0
    <3>1. b # Buf(n)
      <4>1. Delta(b, q.pidxPend, RingSize) = n + k /\ Delta(Buf(n), q.pidxPend, RingSize) = n
        BY <1>2, <2>1
      <4>2. n + k # n
        BY <1>0a, <2>7
      <4> QED BY <4>1, <4>2
    <3>2. t = s
      BY <1>5, <2>1, <2>2, <3>1
    <3>3. K[k] = x - c /\ c <= x
      <4>1. n + k > n
        BY <1>0a, <2>7
      <4> QED BY <1>13, <1>15, <2>1, <2>7, <4>1
    <3>4. K[k + 1] = K[k] + t.len
      <4> DEFINE l == s.len
      <4>1. y = x + l /\ l \in Nat /\ x \in Nat
        BY <2>3
      <4> HIDE DEF l, x, y
      <4>2. K[k + 1] = K[k] + l
        BY <1>0a, <2>5, <3>3, <4>1
      <4> QED BY <3>2, <4>2 DEF l
    <3>5. u + c + K[k] = u + x
      <4> HIDE DEF x
      <4> QED BY <1>0a, <2>3, <3>3
    <3>6. ~q'.skewed => HoldsFrom(sdesc', mem', b, u + x)
      BY <2>4, <3>2 DEF HoldsFrom
    <3> QED BY <2>1, <3>4, <3>5, <3>6
  <2> QED BY <2>6, <2>7
<1>18. StreamOf(K)'
  <2>1. K[Held'] <= q'.dlen /\ (~q'.err => K[Held'] = q'.dlen)
    <3> DEFINE x == L[h]
    <3>1. x \in Nat /\ x <= dl /\ (~q.err => x = dl) /\ c <= x /\ K[Held'] = x - c /\ q'.dlen = dl - c
      <4>1. h \in 0 .. h
        BY <1>0a
      <4> QED BY <1>0, <1>3, <1>4, <1>12, <1>13, <1>16, <4>1 DEF dl
    <3> HIDE DEF x
    <3>2. x - c <= dl - c /\ (~q.err => x - c = dl - c)
      BY <1>0a, <3>1
    <3> QED BY <1>0, <3>1, <3>2
  <2>2. /\ K[0] = 0
        /\ \A k \in 0 .. Held' - 1 : K[k + 1] = K[k] + sdesc'[Buf(k)'].len
        /\ ~q'.skewed => \A k \in 0 .. Held' - 1 : HoldsFrom(sdesc', mem', Buf(k)', Len(readOut') + K[k])
    BY <1>9, <1>12, <1>15, <1>17
  <2> QED BY <2>1, <2>2 DEF StreamOf
<1>19. StreamInv'
  BY <1>12, <1>18 DEF StreamInv
<1> QED BY <1>9, <1>10, <1>11, <1>19


LEMMA ReadChain ==
  ASSUME TypeInv, ChainInv, CmptInv, StreamInv, NEW r \in Requests, NEW room \in Nat, ReadStep(r, room), card'.cidx = card.cidx
  PROVE  ChainInv' /\ CmptInv' /\ Left' = Left /\ Received' = q.pidx /\ Received = q.pidx
<1>1. /\ Left' = Left /\ Received' = Received /\ Received = q.pidx /\ q'.err = q.err
      /\ mem' = mem /\ card'.next = card.next /\ card'.sent = card.sent
      /\ \A k : Slot(k)' = Slot(k)
  BY DEF ReadStep, Left, Received, Slot
<1>2. CmptInv'
  BY DEF ReadStep, CmptInv
<1>3. Len(readOut') + q'.dlen = Len(readOut) + q.dlen
  BY ReadStream
<1>4. ChainInv'
  <2> SUFFICES ASSUME ~q.err PROVE ChainInv'
    BY <1>1 DEF ChainInv
  <2>1. PICK A \in [0 .. Left -> 0 .. Delta(card.next, Received, RingSize)], T \in [0 .. Left -> Nat] : ChainOf(A, T)
    BY DEF ChainInv
  <2>2. ChainOf(A, T)'
    BY <1>1, <1>3, <2>1 DEF ChainOf
  <2> QED BY <1>1, <2>1, <2>2 DEF ChainInv
<1> QED BY <1>1, <1>2, <1>4

\* Where pidx_pend goes.
LEMMA ReadPlaces ==
  ASSUME TypeInv, OrderInv, StreamInv, ~Receiving, NEW room \in Nat
  PROVE  LET n == ReadFor(room).emptied
             P == Incr(q.pidxPend, n, RingSize)
         IN  /\ n \in 0 .. Count /\ Count \in 0 .. RingSize - 1 /\ n \in 0 .. RingSize - 1
             /\ P \in Bufs /\ Place(P) = Place(q.pidxPend) + n
             /\ Place(q.pidxPend) <= Place(P) /\ Place(P) <= Place(q.pidx) /\ Place(From) <= Place(P)
             /\ Delta(P, q.pidxPend, RingSize) = n
             /\ {Unread[k] : k \in 1 .. n} = Between(q.pidxPend, P)
<1> DEFINE n == ReadFor(room).emptied
           P == Incr(q.pidxPend, n, RingSize)
           h == Count
<1>1. PICK L \in [0 .. Held -> Nat] : StreamOf(L)
  BY DEF StreamInv
<1>2. /\ h \in 0 .. RingSize - 1 /\ n \in 0 .. h /\ Len(Unread) = h
      /\ \A k \in 1 .. h : Unread[k] = Buf(k - 1)
  BY <1>1, ReadFacts DEF Reading
<1>3. /\ q.pidxPend \in Bufs /\ q.pidx \in Bufs /\ From \in Bufs /\ RingSize \in Nat
      /\ Place(q.pidxPend) \in 0 .. RingSize - 1 /\ Place(q.pidx) \in 0 .. RingSize - 1
      /\ Place(From) \in 0 .. RingSize - 1
      /\ Place(From) <= Place(q.pidxPend) /\ Place(q.pidxPend) <= Place(q.pidx)
  BY PlacesAre DEF OrderInv
<1>4. h = Place(q.pidx) - Place(q.pidxPend)
  BY <1>3, PlacesAre DEF Count
<1> DEFINE f == Place(From)
           a == Place(q.pidxPend)
           b == Place(q.pidx)
           N == RingSize
<1>5. f \in 0 .. N - 1 /\ a \in 0 .. N - 1 /\ b \in 0 .. N - 1 /\ N \in Nat /\ f <= a /\ a <= b /\ h = b - a
      /\ n \in 0 .. h /\ h \in 0 .. N - 1
  BY <1>2, <1>3, <1>4
<1> HIDE DEF f, a, b, n, h, P, N
<1>6. n \in 0 .. N - 1 /\ a + n <= N - 1 /\ a <= a + n /\ a + n <= b /\ f <= a + n
  BY <1>5
<1>7. P \in Bufs /\ Delta(P, q.pidxPend, RingSize) = n
  BY <1>3, <1>6, BufIncr DEF P, N
<1>8. Place(P) = a + n
  <2>1. Delta(q.pidxPend, Spare, RingSize) + n <= RingSize - 1
    BY <1>6 DEF a, Place, N
  <2> QED BY <1>3, <1>6, <2>1, PlacesAre, BufDistIncr DEF P, Place, a, N
<1>9. {Unread[k] : k \in 1 .. n} = Between(q.pidxPend, P)
  <2>1. Between(q.pidxPend, P) = {Buf(k) : k \in 0 .. n - 1}
    BY <1>7 DEF Between, Buf
  <2>2. \A k \in 1 .. n : Unread[k] = Buf(k - 1) /\ k - 1 \in 0 .. n - 1
    BY <1>2, <1>5
  <2>3. \A k \in 0 .. n - 1 : k + 1 \in 1 .. n /\ (k + 1) - 1 = k
    BY <1>5
  <2>4. \A k \in 0 .. n - 1 : Unread[k + 1] = Buf(k)
    BY <2>2, <2>3
  <2> QED BY <2>1, <2>2, <2>3, <2>4
<1> QED BY <1>2, <1>6, <1>7, <1>8, <1>9, <1>3, <1>5 DEF n, P, h, a, b, f, N

\* Buffers read are given back: the queue of buffers then begins at P.
GiveBack(P, sd) ==
  LET B == Between(From, P)
  IN  /\ P \in Bufs /\ Place(From) <= Place(P) /\ Place(P) <= Place(q.pidx)
      /\ Received = q.pidx /\ Free' /\ Received' = q.pidx
      /\ sd \in [Bufs -> [len : 0 .. DescBufSize, off : Nat]]
      /\ \A b \in Bufs \ valid : sd[b].len = C2hBufsz /\ (~q.skewed => sd[b].off = 0)
      /\ sdesc' = Recycled(sd, B) /\ valid' = valid \ B
      /\ q'.avail = q.avail + Cardinality(B) /\ (~q'.skewed => ~q.skewed /\ \A b \in B : sd[b].off = 0)
      /\ q'.err = q.err /\ q'.pidx = q.pidx /\ q'.pidxPend = P
      /\ card'.next = card.next /\ Spare' \in {Spare, P}

LEMMA GiveBackKeeps ==
  ASSUME TypeInv, OrderInv, ValidInv, NEW P, NEW sd, GiveBack(P, sd)
  PROVE  /\ OrderInv' /\ ValidInv' /\ FreshInv' /\ DescType' /\ q'.avail \in 0 .. RingSize - 1
         /\ valid' \subseteq Bufs /\ From' = P
<1> DEFINE B == Between(From, P)
           N == RingSize
<1>1. /\ P \in Bufs /\ Place(From) <= Place(P) /\ Place(P) <= Place(q.pidx)
      /\ Received = q.pidx /\ Free' /\ Received' = q.pidx
      /\ sdesc' = Recycled(sd, B) /\ valid' = valid \ B
      /\ q'.avail = q.avail + Cardinality(B) /\ (~q'.skewed => ~q.skewed /\ \A b \in B : sd[b].off = 0)
      /\ q'.err = q.err /\ q'.pidx = q.pidx /\ q'.pidxPend = P
      /\ card'.next = card.next /\ Spare' \in {Spare, P}
  BY DEF GiveBack
<1>2. /\ sd \in [Bufs -> [len : 0 .. DescBufSize, off : Nat]]
      /\ \A b \in Bufs \ valid : sd[b].len = C2hBufsz /\ (~q.skewed => sd[b].off = 0)
  BY DEF GiveBack
<1>3. /\ From \in Bufs /\ q.pidx \in Bufs /\ card.next \in Bufs /\ N \in Nat /\ Spare \in Bufs
      /\ Place(From) \in 0 .. N - 1 /\ Place(q.pidx) \in 0 .. N - 1 /\ Place(card.next) \in 0 .. N - 1
      /\ Place(P) \in 0 .. N - 1
      /\ Place(q.pidx) <= Place(card.next)
  BY <1>1, PlacesAre DEF OrderInv
<1>4. From' = P
  BY <1>1 DEF From
<1>5. Place(From) <= Place(q.pidx) /\ Place(P) <= Place(card.next)
  <2> DEFINE f == Place(From)
             a == Place(P)
             b == Place(q.pidx)
             e == Place(card.next)
  <2>1. f \in Nat /\ a \in Nat /\ b \in Nat /\ e \in Nat /\ f <= a /\ a <= b /\ b <= e
    BY <1>1, <1>3
  <2> HIDE DEF f, a, b, e
  <2>2. f <= b /\ a <= e
    BY <2>1
  <2> QED BY <2>2 DEF f, a, b, e
<1>6. OrderInv'
  <2>1. CASE Spare' = Spare
    <3>1. /\ Place(From)' = Place(P) /\ Place(q.pidxPend)' = Place(P) /\ Place(q.pidx)' = Place(q.pidx)
          /\ Place(Received)' = Place(q.pidx) /\ Place(card.next)' = Place(card.next)
      BY <1>1, <1>4, <2>1 DEF Place
    <3>2. Place(P) <= Place(P) /\ Place(q.pidx) <= Place(q.pidx)
      BY <1>3
    <3> QED BY <1>1, <1>3, <3>1, <3>2 DEF OrderInv
  <2>2. CASE Spare' = P
    <3>1. /\ Place(From)' = Delta(P, P, N) /\ Place(q.pidxPend)' = Delta(P, P, N)
          /\ Place(q.pidx)' = Delta(q.pidx, P, N) /\ Place(Received)' = Delta(q.pidx, P, N)
          /\ Place(card.next)' = Delta(card.next, P, N)
      BY <1>1, <1>4, <2>2 DEF Place
    <3>2. Delta(P, P, N) = 0
      BY <1>1, BufDist
    <3>3. /\ Delta(q.pidx, P, N) = Place(q.pidx) - Place(P) /\ Delta(card.next, P, N) = Place(card.next) - Place(P)
      BY <1>1, <1>3, <1>5, PlacesAre
    <3> DEFINE a == Place(P)
               b == Place(q.pidx)
               e == Place(card.next)
    <3>4. a \in Nat /\ b \in Nat /\ e \in Nat /\ a <= b /\ b <= e
      BY <1>1, <1>3
    <3> HIDE DEF a, b, e
    <3>5. 0 <= 0 /\ 0 <= b - a /\ b - a <= b - a /\ b - a <= e - a
      BY <3>4
    <3> QED BY <3>1, <3>2, <3>3, <3>5 DEF OrderInv, a, b, e
  <2> QED BY <1>1, <2>1, <2>2
<1>7. /\ B \subseteq Between(From, q.pidx) /\ Between(From, q.pidx) \ B = Between(P, q.pidx)
  <2>1. /\ B = {x \in Bufs : Place(From) <= Place(x) /\ Place(x) < Place(P)}
        /\ Between(From, q.pidx) = {x \in Bufs : Place(From) <= Place(x) /\ Place(x) < Place(q.pidx)}
        /\ Between(P, q.pidx) = {x \in Bufs : Place(P) <= Place(x) /\ Place(x) < Place(q.pidx)}
    BY <1>1, <1>3, <1>5, BetweenPlaces
  <2>2. \A x \in Bufs :
          /\ Place(x) < Place(P) => Place(x) < Place(q.pidx)
          /\ (Place(From) <= Place(x) /\ ~(Place(From) <= Place(x) /\ Place(x) < Place(P))) => Place(P) <= Place(x)
          /\ Place(P) <= Place(x) => Place(From) <= Place(x) /\ ~(Place(x) < Place(P))
    <3> TAKE x \in Bufs
    <3> DEFINE f == Place(From)
               a == Place(P)
               b == Place(q.pidx)
               p == Place(x)
    <3>1. f \in Nat /\ a \in Nat /\ b \in Nat /\ p \in Nat /\ f <= a /\ a <= b
      <4>1. Place(x) \in 0 .. N - 1
        BY PlacesAre
      <4> QED BY <1>1, <1>3, <4>1
    <3> HIDE DEF f, a, b, p
    <3>2. /\ p < a => p < b
          /\ (f <= p /\ ~(f <= p /\ p < a)) => a <= p
          /\ a <= p => f <= p /\ ~(p < a)
      BY <3>1
    <3> QED BY <3>2 DEF f, a, b, p
  <2> HIDE DEF B
  <2> QED BY <2>1, <2>2
<1>8. /\ IsFiniteSet(valid) /\ B \subseteq valid /\ IsFiniteSet(B)
      /\ Cardinality(valid) \in Nat /\ Cardinality(B) \in Nat /\ Cardinality(valid') \in Nat
      /\ Cardinality(valid') = Cardinality(valid) - Cardinality(B)
  <2>1. valid \subseteq Bufs
    BY DEF TypeInv, OtherType
  <2>2. IsFiniteSet(valid)
    BY <2>1, BufsCount, FS_Subset
  <2>3. B \subseteq valid
    BY <1>1, <1>7 DEF ValidInv
  <2>4. IsFiniteSet(B) /\ IsFiniteSet(valid \ B)
    BY <2>2, <2>3, FS_Subset
  <2>5. Cardinality(valid \ B) = Cardinality(valid) - Cardinality(B)
    <3> HIDE DEF B
    <3> QED BY <2>2, <2>3, TakenAway
  <2> QED BY <1>1, <2>2, <2>3, <2>4, <2>5, FS_CardinalityType
<1> HIDE DEF B
<1>9. Cardinality(valid') + q'.avail = N - 1 /\ q'.avail \in 0 .. N - 1
  <2> DEFINE v == Cardinality(valid)
             w == Cardinality(valid')
             x == Cardinality(B)
             y == q.avail
  <2>1. v \in Nat /\ w \in Nat /\ x \in Nat /\ y \in Nat /\ w = v - x /\ v + y = N - 1 /\ q'.avail = y + x
    <3>1. q.avail \in Nat
      BY Sizes DEF TypeInv, QType
    <3> QED BY <1>1, <1>8, <3>1 DEF ValidInv
  <2> HIDE DEF v, w, x, y
  <2>2. w + q'.avail = N - 1 /\ q'.avail \in 0 .. N - 1
    BY <1>3, <2>1
  <2> QED BY <2>2 DEF w
<1>10. ValidInv'
  <2>1. Between(From, Received)' = Between(P, q.pidx)
    BY <1>1, <1>4 DEF Between
  <2>2. Between(From, q.pidx) \subseteq valid /\ (~q.err => valid = Between(From, q.pidx))
    BY <1>1 DEF ValidInv
  <2> QED BY <1>1, <1>7, <1>9, <2>1, <2>2 DEF ValidInv
<1>11. \A b \in Bufs : sdesc'[b] = IF b \in B THEN [len |-> C2hBufsz, off |-> sd[b].off] ELSE sd[b]
  <2> TAKE b \in Bufs
  <2>1. [sd[b] EXCEPT !.len = C2hBufsz] = [len |-> C2hBufsz, off |-> sd[b].off]
    BY <1>2
  <2> QED BY <1>1, <2>1 DEF Recycled
<1>12. DescType' /\ FreshInv'
  <2>1. \A b \in Bufs : sdesc'[b] \in [len : 0 .. DescBufSize, off : Nat]
    <3> TAKE b \in Bufs
    <3>1. sd[b] \in [len : 0 .. DescBufSize, off : Nat]
      BY <1>2
    <3>2. [len |-> C2hBufsz, off |-> sd[b].off] \in [len : 0 .. DescBufSize, off : Nat]
      BY <3>1, Sizes
    <3> QED BY <1>11, <3>1, <3>2
  <2>2. sdesc' = [b \in Bufs |-> sdesc'[b]]
    BY <1>1 DEF Recycled
  <2>3. \A b \in Bufs \ valid' : sdesc'[b].len = C2hBufsz /\ (~q'.skewed => sdesc'[b].off = 0)
    <3> TAKE b \in Bufs \ valid'
    <3>1. CASE b \in B
      <4>1. sdesc'[b] = [len |-> C2hBufsz, off |-> sd[b].off]
        BY <1>11, <3>1
      <4>2. sdesc'[b].len = C2hBufsz /\ sdesc'[b].off = sd[b].off
        BY <4>1
      <4> QED BY <1>1, <3>1, <4>2
    <3>2. CASE b \notin B
      <4>1. b \in Bufs \ valid
        BY <1>1, <3>2
      <4> QED BY <1>1, <1>2, <1>11, <3>2, <4>1
    <3> QED BY <3>1, <3>2
  <2> QED BY <2>1, <2>2, <2>3 DEF DescType, FreshInv
<1>13. valid' \subseteq Bufs
  BY <1>1 DEF TypeInv, OtherType
<1> QED BY <1>4, <1>6, <1>9, <1>10, <1>12, <1>13


\* A buffer the read stops in is marked.
LEMMA StopIsMarked ==
  ASSUME TypeInv, OrderInv, ValidInv, ~Receiving, NEW k \in 0 .. Count - 1
  PROVE  Buf(k) \in valid
<1>1. /\ q.pidxPend \in Bufs /\ q.pidx \in Bufs /\ From \in Bufs /\ RingSize \in Nat /\ Spare \in Bufs
      /\ Place(q.pidxPend) \in 0 .. RingSize - 1 /\ Place(q.pidx) \in 0 .. RingSize - 1
      /\ Place(From) \in 0 .. RingSize - 1
      /\ Place(From) <= Place(q.pidxPend) /\ Place(q.pidxPend) <= Place(q.pidx)
  BY PlacesAre DEF OrderInv
<1>2. Received = q.pidx
  BY DEF Received
<1>3. Count = Place(q.pidx) - Place(q.pidxPend)
  BY <1>1, PlacesAre DEF Count
<1> DEFINE f == Place(From)
           a == Place(q.pidxPend)
           b == Place(q.pidx)
           N == RingSize
<1>4. f \in 0 .. N - 1 /\ a \in 0 .. N - 1 /\ b \in 0 .. N - 1 /\ N \in Nat /\ f <= a /\ a <= b /\ k \in 0 .. (b - a) - 1
  BY <1>1, <1>3
<1> HIDE DEF f, a, b, N
<1>5. k \in 0 .. N - 1 /\ a + k <= N - 1 /\ f <= a + k /\ a + k < b /\ f <= b
  BY <1>4
<1>6. Buf(k) \in Bufs /\ Place(Buf(k)) = a + k
  <2>1. k \in 0 .. RingSize - 1 /\ Delta(q.pidxPend, Spare, RingSize) + k <= RingSize - 1
    BY <1>5 DEF a, N, Place
  <2> QED BY <1>1, <2>1, BufIncr, BufDistIncr DEF Buf, Place, a
<1>7. Between(From, q.pidx) = {x \in Bufs : f <= Place(x) /\ Place(x) < b}
  BY <1>1, <1>5, BetweenPlaces DEF f, b
<1> QED BY <1>2, <1>5, <1>6, <1>7 DEF ValidInv

-----------------------------------------------------------------------------
(* The handler delivers and gives back. *)

LEMMA DeliverIs ==
  ASSUME IInv, SvcDeliver
  PROVE  LET r == Head(pend)
             room == req[r].left
             d == ReadFor(room)
             left == room - d.copied
         IN  /\ r \in Requests /\ room \in Nat /\ ReadStep(r, room) /\ left \in Nat
             /\ d.copied \in Nat /\ (left # 0 => d.emptied = Count)
             /\ r \notin Direct /\ 1 \in DOMAIN pend /\ pend # <<>> /\ pend[1] = r
             /\ q'.avail = q.avail /\ q'.skewed = q.skewed /\ q'.state = q.state /\ q'.stopWait = q.stopWait
             /\ q.state = "online" /\ ~q.err /\ svc.at = "deliver"
             /\ (q'.dlen \in Nat => QType')
             /\ svc'.from = svc.from /\ svc'.at = (IF left = 0 THEN "deliver" ELSE "refill") /\ SvcType'
             /\ ReqType' /\ req' = [req EXCEPT ![r] = [st |-> IF left = 0 THEN "done" ELSE req[r].st, left |-> left,
                                            ret |-> IF left = 0 /\ r \notin Async THEN Asked[r] ELSE req[r].ret]]
             /\ pend' = (IF left = 0 THEN Tail(pend) ELSE pend)
             /\ sdesc' = LeftIn(d) /\ DescType' /\ card' = card /\ readOut' = Copied(r, d.copied)
             /\ UNCHANGED <<mode, mem, cmpt, iring, valid, work>>
<1> DEFINE r == Head(pend)
           room == req[r].left
           d == ReadFor(room)
           left == room - d.copied
<1>1. TypeInv /\ ~Free /\ ~Receiving /\ pend # <<>> /\ q.state = "online" /\ ~q.err /\ svc.at = "deliver"
  BY DEF IInv, ServiceInv, SvcDeliver, Free, Receiving
<1>2. pend \in Seq(Requests) /\ 1 \in DOMAIN pend /\ pend[1] = r /\ r \in Requests
  BY <1>1 DEF TypeInv, OtherType
<1>3. room \in Nat /\ r \notin Direct
  <2>1. req[r] \in [st : {"new", "waiting", "done", "failed"}, left : Int, ret : Int]
    BY <1>1, <1>2 DEF TypeInv, ReqType
  <2>2. req[r].left >= 0 /\ r \notin Direct
    BY <1>1, <1>2 DEF IInv, WaitInv
  <2> QED BY <2>1, <2>2
<1>4. /\ svc' = (IF left = 0 THEN svc ELSE [svc EXCEPT !.at = "refill"])
      /\ q' = [q EXCEPT !.pidxPend = Incr(q.pidxPend, d.emptied, RingSize), !.dlen = q.dlen - d.copied,
                          !.listEmpty = IF left = 0 THEN q.avail = 0 ELSE q.listEmpty]
      /\ sdesc' = LeftIn(d) /\ readOut' = Copied(r, d.copied)
      /\ pend' = (IF left = 0 THEN Tail(pend) ELSE pend)
      /\ UNCHANGED <<mode, card, mem, cmpt, iring, valid, work>>
  BY DEF SvcDeliver, Served
<1>5. PICK L \in [0 .. Held -> Nat] : StreamOf(L)
  BY DEF IInv, StreamInv
<1>6. /\ Reading(d, room, L) /\ Count \in 0 .. RingSize - 1
  BY <1>1, <1>3, <1>5, ReadFacts
<1>7. /\ d.copied \in Nat /\ d.copied <= room /\ d.emptied \in 0 .. Count /\ (d.copied < room => d.emptied = Count)
  BY <1>6 DEF Reading
<1>8. left \in Nat /\ (left # 0 => d.emptied = Count)
  <2> DEFINE c == d.copied
  <2>1. c \in Nat /\ c <= room /\ room \in Nat /\ (c < room => d.emptied = Count)
    BY <1>3, <1>7
  <2> HIDE DEF c, room, d
  <2>2. room - c \in Nat /\ (room - c # 0 => c < room)
    BY <2>1
  <2> QED BY <2>1, <2>2 DEF c
<1>9. /\ svc'.from = svc.from /\ svc'.at = (IF left = 0 THEN "deliver" ELSE "refill") /\ SvcType'
  <2> HIDE DEF left
  <2>1. svc \in [at : {"entries", "cidx", "deliver", "refill"}, left : Nat, done : Nat, pidx : Bufs, from : Bufs]
    BY <1>1 DEF TypeInv, SvcType, Free
  <2> QED BY <1>1, <1>4, <2>1 DEF SvcType
<1>10. /\ q'.pidx = q.pidx /\ q'.pidxPend = Incr(q.pidxPend, d.emptied, RingSize) /\ q'.dlen = q.dlen - d.copied
       /\ q'.err = q.err /\ q'.cidxCmpt = q.cidxCmpt
       /\ q'.avail = q.avail /\ q'.skewed = q.skewed /\ q'.state = q.state /\ q'.stopWait = q.stopWait
       /\ (q'.dlen \in Nat => QType')
  <2> DEFINE P == Incr(q.pidxPend, d.emptied, RingSize)
             l == IF left = 0 THEN q.avail = 0 ELSE q.listEmpty
             x == q.dlen - d.copied
  <2>1. q' = [q EXCEPT !.pidxPend = P, !.dlen = x, !.listEmpty = l]
    BY <1>4
  <2>2. P \in Bufs
    <3>1. d.emptied \in 0 .. RingSize - 1 /\ q.pidxPend \in Bufs
      <4>1. d.emptied \in 0 .. RingSize - 1
        <5> DEFINE n == d.emptied
                   h == Count
        <5>1. n \in 0 .. h /\ h \in 0 .. RingSize - 1 /\ RingSize \in Nat
          BY <1>6, <1>7, Sizes
        <5> HIDE DEF n, h
        <5>2. n \in 0 .. RingSize - 1
          BY <5>1
        <5> QED BY <5>2 DEF n
      <4> QED BY <1>1, <4>1 DEF TypeInv, QType
    <3> QED BY <3>1, BufIncr
  <2>3. l \in BOOLEAN
    <3>1. q.listEmpty \in BOOLEAN
      BY <1>1 DEF TypeInv, QType
    <3> QED BY <3>1
  <2> HIDE DEF P, l, x
  <2>4. /\ q'.pidx = q.pidx /\ q'.pidxPend = P /\ q'.dlen = x
        /\ q'.err = q.err /\ q'.cidxCmpt = q.cidxCmpt
        /\ q'.avail = q.avail /\ q'.skewed = q.skewed /\ q'.state = q.state /\ q'.stopWait = q.stopWait
    BY <1>1, <2>1 DEF TypeInv, QType
  <2>5. x \in Nat => QType'
    BY <1>1, <2>1, <2>2, <2>3 DEF TypeInv, QType
  <2> QED BY <2>4, <2>5 DEF P, x
<1>11. LeftIn(d) \in [Bufs -> [len : 0 .. DescBufSize, off : Nat]]
  BY <1>1, <1>3, <1>5, LeftInIs
<1>12. ReadStep(r, room)
  <2>1. ~Receiving'
    BY <1>9 DEF Receiving
  <2> QED BY <1>1, <1>4, <1>10, <2>1 DEF ReadStep
<1>13. /\ req' = [req EXCEPT ![r] = [st |-> IF left = 0 THEN "done" ELSE req[r].st, left |-> left,
                                            ret |-> IF left = 0 /\ r \notin Async THEN Asked[r] ELSE req[r].ret]]
       /\ ReqType'
  <2> DEFINE s == IF left = 0 THEN "done" ELSE req[r].st
             t == IF left = 0 /\ r \notin Async THEN Asked[r] ELSE req[r].ret
  <2>1. req' = [req EXCEPT ![r].left = left, ![r].st = s, ![r].ret = t]
    BY DEF SvcDeliver
  <2>2. req \in [Requests -> [st : {"new", "waiting", "done", "failed"}, left : Int, ret : Int]]
    BY <1>1 DEF TypeInv, ReqType
  <2>3. s \in {"new", "waiting", "done", "failed"} /\ t \in Int /\ left \in Int
    <3>1. Asked[r] \in Nat
      BY <1>2, SizesAssumption
    <3> QED BY <1>2, <1>8, <2>2, <3>1
  <2> HIDE DEF s, t, left, r
  <2>4. req' = [req EXCEPT ![r] = [st |-> s, left |-> left, ret |-> t]]
    <3> DEFINE A == [req EXCEPT ![r] = [req[r] EXCEPT !.left = left]]
               B == [A EXCEPT ![r] = [A[r] EXCEPT !.st = s]]
               C == [B EXCEPT ![r] = [B[r] EXCEPT !.ret = t]]
    <3>1. req' = C
      BY <2>1
    <3>2. A[r] = [req[r] EXCEPT !.left = left] /\ B[r] = [A[r] EXCEPT !.st = s] /\ C[r] = [B[r] EXCEPT !.ret = t]
      BY <1>2, <2>2
    <3>3. C[r] = [st |-> s, left |-> left, ret |-> t]
      <4> HIDE DEF A, B, C
      <4>1. req[r] \in [st : {"new", "waiting", "done", "failed"}, left : Int, ret : Int]
        BY <1>2, <2>2
      <4>2. A[r] = [st |-> req[r].st, left |-> left, ret |-> req[r].ret]
        BY <3>2, <4>1
      <4>3. B[r] = [st |-> s, left |-> left, ret |-> req[r].ret]
        BY <3>2, <4>2
      <4> QED BY <3>2, <4>3
    <3>4. C = [x \in Requests |-> C[x]] /\ \A x \in Requests : x # r => C[x] = req[x]
      BY <2>2
    <3> HIDE DEF A, B, C
    <3> QED BY <2>2, <3>1, <3>3, <3>4
  <2>5. ReqType'
    BY <1>2, <2>2, <2>3, <2>4 DEF ReqType
  <2> QED BY <2>4, <2>5 DEF s, t, left, r
<1> HIDE DEF d, left, room, r
<1>14. DescType' /\ card' = card
  BY <1>4, <1>11 DEF DescType
<1>15. \A x \in {left} : x \in Nat /\ (x # 0 => d.emptied = Count)
  BY <1>8
<1> QED BY <1>1, <1>2, <1>3, <1>4, <1>7, <1>9, <1>10, <1>12, <1>13, <1>14, <1>15 DEF left, d, room, r


LEMMA SvcDeliverKeeps ==
  ASSUME IInv, SvcDeliver
  PROVE  IInv'
<1> DEFINE r == Head(pend)
           room == req[r].left
           d == ReadFor(room)
           left == room - d.copied
           n == d.emptied
           P == Incr(q.pidxPend, n, RingSize)
<1>1. /\ r \in Requests /\ room \in Nat /\ ReadStep(r, room) /\ left \in Nat
      /\ (left # 0 => n = Count) /\ r \notin Direct /\ pend # <<>>
      /\ q'.avail = q.avail /\ q'.skewed = q.skewed /\ q'.state = q.state /\ q'.stopWait = q.stopWait
      /\ q.state = "online" /\ ~q.err /\ svc.at = "deliver" /\ (q'.dlen \in Nat => QType')
      /\ svc'.from = svc.from /\ svc'.at = (IF left = 0 THEN "deliver" ELSE "refill") /\ SvcType' /\ ReqType'
      /\ req' = [req EXCEPT ![r] = [st |-> IF left = 0 THEN "done" ELSE req[r].st, left |-> left,
                                    ret |-> IF left = 0 /\ r \notin Async THEN Asked[r] ELSE req[r].ret]]
      /\ pend' = (IF left = 0 THEN Tail(pend) ELSE pend)
      /\ sdesc' = LeftIn(d) /\ DescType' /\ card' = card
      /\ UNCHANGED <<mode, mem, cmpt, iring, valid, work>>
  BY DeliverIs
<1>2. TypeInv /\ OrderInv /\ ServiceInv /\ ValidInv /\ FreshInv /\ CmptInv /\ WaitInv /\ ChainInv /\ StreamInv /\ StreamInOrder
  BY DEF IInv
<1>3. /\ StreamInv' /\ q'.dlen \in Nat /\ readOut' \in Seq([unit : Nat, to : Requests]) /\ StreamInOrder'
      /\ ChainInv' /\ CmptInv' /\ Received' = q.pidx /\ Received = q.pidx
  <2>1. card'.cidx = card.cidx
    BY <1>1
  <2> HIDE DEF r, room
  <2> QED BY <1>1, <1>2, <2>1, ReadStream, ReadChain
<1>4. /\ n \in 0 .. Count /\ Count \in 0 .. RingSize - 1 /\ P \in Bufs
      /\ Place(q.pidxPend) <= Place(P) /\ Place(P) <= Place(q.pidx) /\ Place(From) <= Place(P)
  <2>1. ~Receiving
    BY <1>1 DEF ReadStep
  <2> HIDE DEF r, room
  <2> QED BY <1>1, <1>2, <2>1, ReadPlaces
<1>5. q'.pidx = q.pidx /\ q'.pidxPend = P /\ q'.err = q.err /\ card'.next = card.next /\ ~Receiving
  BY <1>1 DEF ReadStep
<1>6. ~Free /\ ~Free' /\ ~Receiving' /\ From' = From /\ Spare' = Spare /\ From = svc.from
  BY <1>1 DEF Free, Receiving, From, Spare
<1>7. pend \in Seq(Requests)
  BY <1>2 DEF TypeInv, OtherType
<1>8. pend' \in Seq(Requests) /\ \A i \in DOMAIN pend' : \E j \in DOMAIN pend : pend'[i] = pend[j]
  <2>1. CASE left = 0
    <3>1. pend' = Tail(pend)
      BY <1>1, <2>1
    <3>2. Tail(pend) \in Seq(Requests) /\ \A i \in DOMAIN Tail(pend) : i + 1 \in DOMAIN pend /\ Tail(pend)[i] = pend[i + 1]
      BY <1>1, <1>7
    <3> QED BY <3>1, <3>2
  <2>2. CASE left # 0
    BY <1>1, <1>7, <2>2
  <2> QED BY <2>1, <2>2
<1>9. TypeInv'
  <2>1. CardType' /\ MemType' /\ CmptType' /\ RingType'
    BY <1>1, <1>2 DEF TypeInv, CardType, MemType, CmptType, RingType
  <2>2. OtherType'
    BY <1>1, <1>2, <1>3, <1>8 DEF TypeInv, OtherType
  <2> QED BY <1>1, <1>3, <2>1, <2>2 DEF TypeInv
<1>10. OrderInv'
  <2>1. /\ Place(From)' = Place(From) /\ Place(q.pidxPend)' = Place(P) /\ Place(q.pidx)' = Place(q.pidx)
        /\ Place(Received)' = Place(Received) /\ Place(card.next)' = Place(card.next)
    BY <1>3, <1>5, <1>6 DEF Place
  <2> QED BY <1>2, <1>4, <2>1 DEF OrderInv
<1>11. ServiceInv'
  BY <1>1, <1>2, <1>5, <1>6 DEF ServiceInv, Receiving
<1>12. ValidInv'
  <2>1. Between(From, Received)' = Between(From, Received)
    BY <1>3, <1>6 DEF Between
  <2> QED BY <1>1, <1>2, <1>5, <2>1 DEF ValidInv
<1>13. FreshInv'
  <2>1. PICK L \in [0 .. Held -> Nat] : StreamOf(L)
    BY <1>2 DEF StreamInv
  <2>2. \A b \in Bufs : (n = Count \/ b # Buf(n)) => LeftIn(d)[b] = sdesc[b]
    <3> HIDE DEF r, room
    <3> QED BY <1>1, <1>2, <1>5, <2>1, LeftInIs
  <2>3. ASSUME NEW b \in Bufs \ valid PROVE LeftIn(d)[b] = sdesc[b]
    <3>1. n # Count => n \in 0 .. Count - 1
      <4> DEFINE h == Count
      <4>1. h \in 0 .. RingSize - 1 /\ n \in 0 .. h /\ RingSize \in Nat
        BY <1>4, Sizes
      <4> HIDE DEF h, n
      <4>2. n # h => n \in 0 .. h - 1
        BY <4>1
      <4> QED BY <4>2 DEF h
    <3>2. n # Count => Buf(n) \in valid
      <4> HIDE DEF n
      <4> QED BY <1>2, <1>5, <3>1, StopIsMarked
    <3> QED BY <2>2, <2>3, <3>2
  <2> QED BY <1>1, <1>2, <2>3 DEF FreshInv
<1>14. WaitInv'
  <2>1. \A i \in DOMAIN pend' : req'[pend'[i]].left >= 0 /\ pend'[i] \notin Direct
    <3> TAKE i \in DOMAIN pend'
    <3>1. PICK j \in DOMAIN pend : pend'[i] = pend[j]
      BY <1>8
    <3>2. req[pend[j]].left >= 0 /\ pend[j] \notin Direct /\ pend[j] \in Requests
      BY <1>1, <1>2, <1>7 DEF WaitInv
    <3> DEFINE x == [st |-> IF left = 0 THEN "done" ELSE req[r].st, left |-> left,
                     ret |-> IF left = 0 /\ r \notin Async THEN Asked[r] ELSE req[r].ret]
    <3>3. req \in [Requests -> [st : {"new", "waiting", "done", "failed"}, left : Int, ret : Int]]
      BY <1>2 DEF TypeInv, ReqType
    <3>4. req' = [req EXCEPT ![r] = x] /\ x.left = left
      BY <1>1
    <3> HIDE DEF x, left, r, room
    <3>5. req'[pend[j]].left = IF pend[j] = r THEN left ELSE req[pend[j]].left
      BY <3>2, <3>3, <3>4
    <3> QED BY <1>1, <3>1, <3>2, <3>5
  <2>2. svc'.at = "refill" => q'.pidx = q'.pidxPend
    <3> SUFFICES ASSUME svc'.at = "refill" PROVE q.pidx = P
      BY <1>5
    <3>1. n = Count
      BY <1>1
    <3>2. q.pidxPend \in Bufs /\ q.pidx \in Bufs
      BY <1>2, PlacesAre
    <3>3. Incr(q.pidxPend, Count, RingSize) = q.pidx
      BY <3>2, BufDist DEF Count
    <3> QED BY <3>1, <3>3
  <2> QED BY <1>6, <2>1, <2>2 DEF WaitInv
<1> QED BY <1>3, <1>9, <1>10, <1>11, <1>12, <1>13, <1>14 DEF IInv


\* The fields of the queue, its counter in V.
QFieldsAt(V) ==
  [state : {"online", "enabled"}, stopWait : BOOLEAN, listEmpty : BOOLEAN, err : BOOLEAN,
   avail : V, pidx : Bufs, pidxPend : Bufs, cidxCmpt : 0 .. CmptSize - 1,
   color : {0, 1}, dlen : Nat, skewed : BOOLEAN]

QFields == QFieldsAt(0 .. RingSize - 1)

LEMMA RefilledIs ==
  ASSUME NEW qq \in QFields, NEW sd, NEW B, NEW list
  PROVE  LET new == Refilled(qq, sd, B, list)
         IN  /\ new.avail = qq.avail + Cardinality(B)
             /\ (~new.skewed => ~qq.skewed /\ \A b \in B : sd[b].off = 0)
             /\ new.state = qq.state /\ new.stopWait = qq.stopWait /\ new.err = qq.err /\ new.pidx = qq.pidx
             /\ new.pidxPend = qq.pidxPend /\ new.cidxCmpt = qq.cidxCmpt /\ new.dlen = qq.dlen
             /\ new \in QFieldsAt({new.avail})
<1> DEFINE v == qq.avail + Cardinality(B)
           l == qq.listEmpty \/ list = <<>>
           s == qq.skewed \/ \E b \in B : sd[b].off # 0
           new == [qq EXCEPT !.avail = v, !.listEmpty = l, !.skewed = s]
<1>1. Refilled(qq, sd, B, list) = new
  BY DEF Refilled
<1>2. l \in BOOLEAN /\ s \in BOOLEAN
  BY DEF QFields, QFieldsAt
<1>3. /\ new.avail = v /\ new.skewed = s
      /\ new.state = qq.state /\ new.stopWait = qq.stopWait /\ new.err = qq.err /\ new.pidx = qq.pidx
      /\ new.pidxPend = qq.pidxPend /\ new.cidxCmpt = qq.cidxCmpt /\ new.dlen = qq.dlen
  <2> HIDE DEF v, l, s
  <2> QED BY DEF QFields, QFieldsAt
<1>4. new \in QFieldsAt({v})
  <2> HIDE DEF v, l, s
  <2> QED BY <1>2 DEF QFields, QFieldsAt
<1>5. ~s => ~qq.skewed /\ \A b \in B : sd[b].off = 0
  OBVIOUS
<1> HIDE DEF s, v, l, new
<1> QED BY <1>1, <1>3, <1>4, <1>5 DEF v

\* The buffer before the last posted one is the spare one.
LEMMA SpareIs ==
  ASSUME NEW b \in Bufs
  PROVE  Decr(b, 1, RingSize) \in Bufs /\ Incr(Decr(b, 1, RingSize), 1, RingSize) = b
  BY Sizes DEF Decr, Incr, Bufs

\* Buffers the stream lies in are not among those given back.
LEMMA KeptApart ==
  ASSUME TypeInv, OrderInv, ~Receiving, NEW k \in 0 .. Count - 1
  PROVE  Buf(k) \in Bufs /\ Buf(k) \notin Between(From, q.pidxPend)
<1>1. /\ q.pidxPend \in Bufs /\ q.pidx \in Bufs /\ From \in Bufs /\ RingSize \in Nat /\ Spare \in Bufs
      /\ Place(q.pidxPend) \in 0 .. RingSize - 1 /\ Place(q.pidx) \in 0 .. RingSize - 1
      /\ Place(From) \in 0 .. RingSize - 1
      /\ Place(From) <= Place(q.pidxPend) /\ Place(q.pidxPend) <= Place(q.pidx)
  BY PlacesAre DEF OrderInv
<1>2. Count = Place(q.pidx) - Place(q.pidxPend)
  BY <1>1, PlacesAre DEF Count
<1> DEFINE f == Place(From)
           a == Place(q.pidxPend)
           b == Place(q.pidx)
           N == RingSize
<1>3. f \in 0 .. N - 1 /\ a \in 0 .. N - 1 /\ b \in 0 .. N - 1 /\ N \in Nat /\ f <= a /\ a <= b /\ k \in 0 .. (b - a) - 1
  BY <1>1, <1>2
<1> HIDE DEF f, a, b, N
<1>4. k \in 0 .. N - 1 /\ a + k <= N - 1 /\ ~(a + k < a)
  BY <1>3
<1>5. Buf(k) \in Bufs /\ Place(Buf(k)) = a + k
  <2>1. k \in 0 .. RingSize - 1 /\ Delta(q.pidxPend, Spare, RingSize) + k <= RingSize - 1
    BY <1>4 DEF a, N, Place
  <2> QED BY <1>1, <2>1, BufIncr, BufDistIncr DEF Buf, Place, a
<1>6. Between(From, q.pidxPend) = {x \in Bufs : f <= Place(x) /\ Place(x) < a}
  BY <1>1, BetweenPlaces DEF f, a
<1> QED BY <1>4, <1>5, <1>6

\* Nothing is left to give back.
LEMMA NoneBetween ==
  ASSUME NEW a \in Bufs, NEW b \in Bufs, Between(a, b) = {}
  PROVE  a = b
<1>1. Cardinality(Between(a, b)) = 0
  BY FS_EmptySet
<1>2. Delta(b, a, RingSize) = 0
  BY <1>1, BetweenCount
<1> QED BY <1>2, BufDist


\* The handler ends and has no buffer to give back.
LEMMA NothingToRefill ==
  ASSUME IInv, SvcRefill, Between(svc.from, q.pidxPend) = {}
  PROVE  IInv'
<1>1. /\ TypeInv /\ ServiceInv /\ WaitInv /\ svc.at \in {"refill", "deliver"} /\ ~Free /\ ~Receiving
      /\ (svc.at = "deliver" => pend = <<>>)
      /\ svc' = [at |-> "idle"] /\ sdesc' = sdesc /\ valid' = valid /\ q' = q /\ card' = card
      /\ UNCHANGED <<mode, mem, cmpt, iring, work, pend, req, readOut>>
  BY DEF IInv, SvcRefill, Free, Receiving
<1>2. Free' /\ ~Receiving' /\ svc'.at = "idle"
  BY <1>1 DEF Free, Receiving
<1>3. From = svc.from /\ From \in Bufs /\ q.pidxPend \in Bufs
  BY <1>1, PlacesAre DEF From
<1>4. svc.from = q.pidxPend
  BY <1>3, NoneBetween
<1>5. From' = From /\ Received' = Received /\ Spare' = Spare
  BY <1>1, <1>2, <1>3, <1>4 DEF From, Received, Spare
<1>6. Books'
  BY <1>1, <1>5, SameBooks DEF IInv, Books
<1>7. ServiceInv'
  BY <1>1, <1>2, <1>5 DEF ServiceInv
<1>8. WaitInv'
  BY <1>1, <1>2 DEF WaitInv
<1>9. TypeInv'
  <2>1. SvcType'
    BY <1>1 DEF SvcType
  <2>2. CardType' /\ MemType' /\ CmptType' /\ RingType' /\ DescType' /\ QType' /\ ReqType'
    BY <1>1 DEF TypeInv, CardType, MemType, CmptType, RingType, DescType, QType, ReqType
  <2>3. OtherType'
    BY <1>1 DEF TypeInv, OtherType
  <2> QED BY <2>1, <2>2, <2>3 DEF TypeInv
<1> QED BY <1>6, <1>7, <1>8, <1>9 DEF IInv, Books

LEMMA SvcRefillKeeps ==
  ASSUME IInv, SvcRefill
  PROVE  IInv'
<1> SUFFICES ASSUME Between(svc.from, q.pidxPend) # {} PROVE IInv'
  BY NothingToRefill
<1> DEFINE B == Between(svc.from, q.pidxPend)
<1>1. /\ TypeInv /\ OrderInv /\ ServiceInv /\ ValidInv /\ FreshInv /\ CmptInv /\ WaitInv /\ ChainInv /\ StreamInv
      /\ StreamInOrder /\ svc.at \in {"refill", "deliver"} /\ ~Free /\ ~Receiving
      /\ (svc.at = "deliver" => pend = <<>>)
      /\ svc' = [at |-> "idle"] /\ sdesc' = Recycled(sdesc, B) /\ valid' = valid \ B
      /\ q' = Refilled(q, sdesc, B, pend)
      /\ card' = (IF q.stopWait THEN card ELSE [card EXCEPT !.posted = LastPosted(q)])
      /\ UNCHANGED <<mode, mem, cmpt, iring, work, pend, req, readOut>>
  BY DEF IInv, SvcRefill, Free, Receiving, Unmarked
<1>2. Free' /\ ~Receiving' /\ svc'.at = "idle"
  BY <1>1 DEF Free, Receiving
<1>3. /\ From = svc.from /\ Received = q.pidx /\ q.pidxPend \in Bufs /\ q.state = "online" /\ ~q.err
      /\ Place(From) <= Place(q.pidxPend) /\ Place(q.pidxPend) <= Place(q.pidx)
  BY <1>1, PlacesAre DEF From, Received, OrderInv, ServiceInv
<1>4. /\ q'.avail = q.avail + Cardinality(B) /\ (~q'.skewed => ~q.skewed /\ \A b \in B : sdesc[b].off = 0)
      /\ q'.state = q.state /\ q'.stopWait = q.stopWait /\ q'.err = q.err /\ q'.pidx = q.pidx
      /\ q'.pidxPend = q.pidxPend /\ q'.cidxCmpt = q.cidxCmpt /\ q'.dlen = q.dlen
      /\ q' \in QFieldsAt({q'.avail})
  <2>1. q \in QFields
    BY <1>1 DEF TypeInv, QType, QFields, QFieldsAt
  <2> HIDE DEF B
  <2> QED BY <1>1, <2>1, RefilledIs
<1>5. /\ card'.next = card.next /\ card'.pidx = card.pidx /\ card'.cidx = card.cidx /\ card'.sent = card.sent
      /\ CardType' /\ (q.stopWait => Spare' = Spare) /\ (~q.stopWait => Spare' = q.pidxPend)
  <2> DEFINE p == Decr(q.pidxPend, 1, RingSize)
  <2>1. p \in Bufs /\ Incr(p, 1, RingSize) = q.pidxPend
    BY <1>3, SpareIs
  <2>2. card' = card \/ card' = [card EXCEPT !.posted = p]
    BY <1>1 DEF LastPosted
  <2>3. q.stopWait => card' = card
    BY <1>1
  <2>4. ~q.stopWait => card' = [card EXCEPT !.posted = p]
    BY <1>1 DEF LastPosted
  <2> HIDE DEF p
  <2>5. card'.next = card.next /\ card'.pidx = card.pidx /\ card'.cidx = card.cidx /\ card'.sent = card.sent
        /\ CardType' /\ (~q.stopWait => card'.posted = p)
    BY <1>1, <2>1, <2>2, <2>4 DEF TypeInv, CardType
  <2> QED BY <2>1, <2>3, <2>5 DEF Spare
<1>6. GiveBack(q.pidxPend, sdesc)
  <2>1. Received' = q.pidx
    BY <1>2, <1>4 DEF Received
  <2>2. sdesc \in [Bufs -> [len : 0 .. DescBufSize, off : Nat]]
    BY <1>1 DEF TypeInv, DescType
  <2>3. Spare' \in {Spare, q.pidxPend}
    BY <1>5
  <2> QED BY <1>1, <1>2, <1>3, <1>4, <1>5, <2>1, <2>2, <2>3 DEF GiveBack, FreshInv
<1>7. /\ OrderInv' /\ ValidInv' /\ FreshInv' /\ DescType' /\ q'.avail \in 0 .. RingSize - 1
      /\ valid' \subseteq Bufs /\ From' = q.pidxPend
  BY <1>1, <1>6, GiveBackKeeps
<1>8. TypeInv'
  <2>1. SvcType'
    BY <1>1 DEF SvcType
  <2>2. MemType' /\ CmptType' /\ RingType' /\ ReqType'
    BY <1>1 DEF TypeInv, MemType, CmptType, RingType, ReqType
  <2>3. OtherType'
    BY <1>1, <1>7 DEF TypeInv, OtherType
  <2>4. QType'
    BY <1>4, <1>7 DEF QType, QFieldsAt
  <2> QED BY <1>5, <1>7, <2>1, <2>2, <2>3, <2>4 DEF TypeInv
<1>9. ServiceInv'
  BY <1>2, <1>3, <1>4, <1>5, <1>7 DEF ServiceInv
<1>10. WaitInv'
  BY <1>1, <1>2, <1>4 DEF WaitInv
<1>11. Received' = Received /\ Left' = Left /\ Held' = Held /\ Held = Count /\ \A k : Slot(k)' = Slot(k) /\ Buf(k)' = Buf(k)
  BY <1>1, <1>2, <1>3, <1>4, <1>5 DEF Received, Left, Held, Count, Slot, Buf
<1>12. CmptInv' /\ StreamInOrder'
  BY <1>1, <1>4, <1>5 DEF CmptInv, StreamInOrder
<1>13. ChainInv'
  <2>1. PICK A \in [0 .. Left -> 0 .. Delta(card.next, Received, RingSize)], T \in [0 .. Left -> Nat] : ChainOf(A, T)
    BY <1>1, <1>3 DEF ChainInv
  <2>2. ChainOf(A, T)'
    BY <1>1, <1>4, <1>5, <1>11, <2>1 DEF ChainOf
  <2> QED BY <1>5, <1>11, <2>1, <2>2 DEF ChainInv
<1>14. StreamInv'
  <2>1. PICK L \in [0 .. Held -> Nat] : StreamOf(L)
    BY <1>1 DEF StreamInv
  <2>2. \A k \in 0 .. Held - 1 : sdesc'[Buf(k)] = sdesc[Buf(k)]
    <3> TAKE k \in 0 .. Held - 1
    <3>1. Buf(k) \in Bufs /\ Buf(k) \notin B
      BY <1>1, <1>3, <1>11, KeptApart
    <3> HIDE DEF B
    <3> QED BY <1>1, <3>1 DEF Recycled
  <2>3. StreamOf(L)'
    <3>1. /\ L[0] = 0
          /\ \A k \in 0 .. Held' - 1 : L[k + 1] = L[k] + sdesc'[Buf(k)'].len
      BY <1>11, <2>1, <2>2 DEF StreamOf
    <3>2. L[Held'] <= q'.dlen /\ (~q'.err => L[Held'] = q'.dlen)
      BY <1>4, <1>11, <2>1 DEF StreamOf
    <3>3. ~q'.skewed => \A k \in 0 .. Held' - 1 : HoldsFrom(sdesc', mem', Buf(k)', Len(readOut') + L[k])
      BY <1>1, <1>4, <1>11, <2>1, <2>2 DEF StreamOf, HoldsFrom
    <3> QED BY <3>1, <3>2, <3>3 DEF StreamOf
  <2> QED BY <1>11, <2>1, <2>3 DEF StreamInv
<1> QED BY <1>7, <1>8, <1>9, <1>10, <1>12, <1>13, <1>14 DEF IInv


-----------------------------------------------------------------------------
(* Callers read at once. *)

\* What a read leaves in the buffers that are not marked is what was there.
LEMMA LeftInFresh ==
  ASSUME TypeInv, OrderInv, ValidInv, FreshInv, StreamInv, ~Receiving, NEW room \in Nat, NEW b \in Bufs \ valid
  PROVE  LeftIn(ReadFor(room))[b].len = C2hBufsz /\ (~q.skewed => LeftIn(ReadFor(room))[b].off = 0)
<1> DEFINE d == ReadFor(room)
           n == d.emptied
           h == Count
<1>1. PICK L \in [0 .. Held -> Nat] : StreamOf(L)
  BY DEF StreamInv
<1>2. h \in 0 .. RingSize - 1 /\ n \in 0 .. h /\ RingSize \in Nat
  BY <1>1, ReadFacts, Sizes DEF Reading
<1>3. (n = h \/ b # Buf(n)) => LeftIn(d)[b] = sdesc[b]
  BY <1>1, LeftInIs
<1>4. n # h => Buf(n) \in valid
  <2>1. n # h => n \in 0 .. h - 1
    <3> HIDE DEF n, h
    <3> QED BY <1>2
  <2> HIDE DEF n
  <2> QED BY <2>1, StopIsMarked
<1>5. LeftIn(d)[b] = sdesc[b]
  BY <1>3, <1>4
<1> QED BY <1>5 DEF FreshInv

\* A caller's read, with nothing of the rest changed.
ReadsNow(r, room, list) ==
  /\ Free /\ q.state = "online" /\ ReadNow(r, room, list)
  /\ UNCHANGED <<mode, mem, cmpt, iring, svc, work>>

LEMMA ReadNowIs ==
  ASSUME TypeInv, StreamInv, NEW r \in Requests, NEW room \in Nat, NEW list, ReadsNow(r, room, list)
  PROVE  LET d == ReadFor(room)
             P == Incr(q.pidxPend, d.emptied, RingSize)
             B == {Unread[k] : k \in 1 .. d.emptied}
         IN  /\ readOut' = Copied(r, d.copied) /\ sdesc' = Recycled(LeftIn(d), B) /\ valid' = valid \ B
             /\ q'.avail = q.avail + Cardinality(B)
             /\ (~q'.skewed => ~q.skewed /\ \A b \in B : sdesc[b].off = 0)
             /\ q'.state = q.state /\ q'.stopWait = q.stopWait /\ q'.err = q.err /\ q'.pidx = q.pidx
             /\ q'.pidxPend = P /\ q'.cidxCmpt = q.cidxCmpt /\ q'.dlen = q.dlen - d.copied
             /\ (q'.avail \in 0 .. RingSize - 1 => QType')
             /\ card'.next = card.next /\ card'.pidx = card.pidx /\ card'.cidx = card.cidx /\ card'.sent = card.sent
             /\ CardType' /\ (B = {} => Spare' = Spare) /\ (B # {} => Spare' = P)
<1> DEFINE d == ReadFor(room)
           P == Incr(q.pidxPend, d.emptied, RingSize)
           B == {Unread[k] : k \in 1 .. d.emptied}
           x == q.dlen - d.copied
           qq == [q EXCEPT !.pidxPend = P, !.dlen = x]
           new == IF B = {} THEN qq ELSE Refilled(qq, sdesc, B, list)
           l == new.listEmpty /\ (r \in Direct \/ d.copied = room)
<1>1. /\ readOut' = Copied(r, d.copied) /\ sdesc' = Recycled(LeftIn(d), B) /\ valid' = valid \ B
      /\ q' = [new EXCEPT !.listEmpty = l]
      /\ card' = (IF B = {} THEN card ELSE [card EXCEPT !.posted = Decr(qq.pidxPend, 1, RingSize)])
  BY DEF ReadsNow, ReadNow, Unmarked, LastPosted
<1>2. P \in Bufs /\ x \in Nat
  <2>1. PICK L \in [0 .. Held -> Nat] : StreamOf(L)
    BY DEF StreamInv
  <2>2. ~Receiving
    BY DEF ReadsNow, Free, Receiving
  <2>3. /\ d.emptied \in 0 .. Count /\ Count \in 0 .. RingSize - 1 /\ d.copied \in Nat
        /\ d.copied <= q.dlen /\ q.dlen \in Nat
    BY <2>1, <2>2, ReadFacts DEF Reading
  <2>4. d.emptied \in 0 .. RingSize - 1
    <3> DEFINE n == d.emptied
               h == Count
    <3>1. n \in 0 .. h /\ h \in 0 .. RingSize - 1 /\ RingSize \in Nat
      BY <2>3, Sizes
    <3> HIDE DEF n, h
    <3>2. n \in 0 .. RingSize - 1
      BY <3>1
    <3> QED BY <3>2 DEF n
  <2>5. x \in Nat
    <3> DEFINE c == d.copied
               y == q.dlen
    <3>1. c \in Nat /\ y \in Nat /\ c <= y
      BY <2>3
    <3> HIDE DEF c, y
    <3>2. y - c \in Nat
      BY <3>1
    <3> QED BY <3>2 DEF c, y
  <2>6. q.pidxPend \in Bufs
    BY PlacesAre
  <2> HIDE DEF d
  <2> QED BY <2>4, <2>5, <2>6, BufIncr
<1> HIDE DEF d, P, B, x
<1>3. q \in QFields
  BY DEF TypeInv, QType, QFields, QFieldsAt
<1>4. /\ qq \in QFields /\ qq.avail = q.avail /\ qq.skewed = q.skewed /\ qq.state = q.state
      /\ qq.stopWait = q.stopWait /\ qq.err = q.err /\ qq.pidx = q.pidx /\ qq.pidxPend = P
      /\ qq.cidxCmpt = q.cidxCmpt /\ qq.dlen = x
  BY <1>2, <1>3 DEF QFields, QFieldsAt
<1> HIDE DEF qq
<1>5. /\ new.avail = qq.avail + Cardinality(B)
      /\ (~new.skewed => ~qq.skewed /\ \A b \in B : sdesc[b].off = 0)
      /\ new.state = qq.state /\ new.stopWait = qq.stopWait /\ new.err = qq.err /\ new.pidx = qq.pidx
      /\ new.pidxPend = qq.pidxPend /\ new.cidxCmpt = qq.cidxCmpt /\ new.dlen = qq.dlen
      /\ new \in QFieldsAt({new.avail})
  <2>1. CASE B = {}
    <3>1. Cardinality(B) = 0
      BY <2>1, FS_EmptySet
    <3>2. qq.avail + 0 = qq.avail
      <4>1. qq.avail \in 0 .. RingSize - 1 /\ RingSize \in Nat
        BY <1>4, Sizes DEF QFields, QFieldsAt
      <4> QED BY <4>1
    <3>3. qq \in QFieldsAt({qq.avail})
      BY <1>4 DEF QFields, QFieldsAt
    <3>4. new = qq /\ \A b \in B : sdesc[b].off = 0
      BY <2>1
    <3> HIDE DEF new
    <3>5. new.avail = qq.avail + Cardinality(B) /\ new \in QFieldsAt({new.avail})
      BY <3>1, <3>2, <3>3, <3>4
    <3> QED BY <3>4, <3>5
  <2>2. CASE B # {}
    <3>1. new = Refilled(qq, sdesc, B, list)
      BY <2>2
    <3>2. qq \in QFields
      BY <1>4
    <3> HIDE DEF new
    <3> QED BY <3>1, <3>2, RefilledIs
  <2> QED BY <2>1, <2>2
<1> HIDE DEF new
<1>6. l \in BOOLEAN
  BY <1>5 DEF QFieldsAt
<1> HIDE DEF l
<1>7. /\ q'.avail = new.avail /\ q'.skewed = new.skewed /\ q'.state = new.state /\ q'.stopWait = new.stopWait
      /\ q'.err = new.err /\ q'.pidx = new.pidx /\ q'.pidxPend = new.pidxPend /\ q'.cidxCmpt = new.cidxCmpt
      /\ q'.dlen = new.dlen /\ q' \in QFieldsAt({new.avail})
  BY <1>1, <1>5, <1>6 DEF QFieldsAt
<1>8. q'.avail \in 0 .. RingSize - 1 => QType'
  BY <1>7 DEF QType, QFieldsAt
<1>9. /\ card'.next = card.next /\ card'.pidx = card.pidx /\ card'.cidx = card.cidx /\ card'.sent = card.sent
      /\ CardType' /\ (B = {} => Spare' = Spare) /\ (B # {} => Spare' = P)
  <2> DEFINE p == Decr(P, 1, RingSize)
  <2>1. p \in Bufs /\ Incr(p, 1, RingSize) = P
    BY <1>2, SpareIs
  <2>2. (B = {} => card' = card) /\ (B # {} => card' = [card EXCEPT !.posted = p])
    BY <1>1, <1>4
  <2> HIDE DEF p
  <2>3. card'.next = card.next /\ card'.pidx = card.pidx /\ card'.cidx = card.cidx /\ card'.sent = card.sent
        /\ CardType' /\ (B # {} => card'.posted = p)
    BY <2>1, <2>2 DEF TypeInv, CardType
  <2> QED BY <2>1, <2>2, <2>3 DEF Spare
<1> QED BY <1>1, <1>4, <1>5, <1>7, <1>8, <1>9 DEF d, P, B, x


\* What a caller's read does to the queue.
LEMMA ReadNowKeeps ==
  ASSUME IInv, NEW r \in Requests, NEW room \in Nat, NEW list, ReadsNow(r, room, list)
  PROVE  /\ Books' /\ CardType' /\ DescType' /\ QType' /\ MemType' /\ CmptType' /\ RingType' /\ SvcType'
         /\ valid' \in SUBSET Bufs /\ readOut' \in Seq([unit : Nat, to : Requests]) /\ ServiceInv'
         /\ room - ReadFor(room).copied \in Nat
         /\ (room - ReadFor(room).copied # 0 => q'.pidx = q'.pidxPend)
         /\ (q.pidx = q.pidxPend => q'.pidx = q'.pidxPend)
         /\ q'.state = "online" /\ readOut' = Copied(r, ReadFor(room).copied) /\ ReadFor(room).copied \in Nat
<1> DEFINE d == ReadFor(room)
           n == d.emptied
           P == Incr(q.pidxPend, n, RingSize)
           B == {Unread[k] : k \in 1 .. n}
           sd == LeftIn(d)
<1>1. /\ TypeInv /\ OrderInv /\ ServiceInv /\ ValidInv /\ FreshInv /\ CmptInv /\ ChainInv /\ StreamInv /\ StreamInOrder
  BY DEF IInv
<1>2. /\ Free /\ q.state = "online" /\ UNCHANGED <<mode, mem, cmpt, iring, svc, work>>
      /\ Free' /\ ~Receiving /\ ~Receiving' /\ From = q.pidxPend /\ Received = q.pidx
  BY DEF ReadsNow, Free, Receiving, From, Received
<1>3. /\ readOut' = Copied(r, d.copied) /\ sdesc' = Recycled(sd, B) /\ valid' = valid \ B
      /\ q'.avail = q.avail + Cardinality(B)
      /\ (~q'.skewed => ~q.skewed /\ \A b \in B : sdesc[b].off = 0)
      /\ q'.state = q.state /\ q'.stopWait = q.stopWait /\ q'.err = q.err /\ q'.pidx = q.pidx
      /\ q'.pidxPend = P /\ q'.cidxCmpt = q.cidxCmpt /\ q'.dlen = q.dlen - d.copied
      /\ (q'.avail \in 0 .. RingSize - 1 => QType')
      /\ card'.next = card.next /\ card'.pidx = card.pidx /\ card'.cidx = card.cidx /\ card'.sent = card.sent
      /\ CardType' /\ (B = {} => Spare' = Spare) /\ (B # {} => Spare' = P)
  BY <1>1, ReadNowIs
<1>4. PICK L \in [0 .. Held -> Nat] : StreamOf(L)
  BY <1>1 DEF StreamInv
<1>5. /\ Reading(d, room, L) /\ Count \in 0 .. RingSize - 1
  BY <1>1, <1>2, <1>4, ReadFacts
<1>6. /\ sd \in [Bufs -> [len : 0 .. DescBufSize, off : Nat]]
      /\ \A b \in Bufs : (n = Count \/ b # Buf(n)) => sd[b] = sdesc[b]
  BY <1>1, <1>2, <1>4, LeftInIs
<1>7. \A b \in Bufs \ valid : sd[b].len = C2hBufsz /\ (~q.skewed => sd[b].off = 0)
  BY <1>1, <1>2, LeftInFresh
<1>8. P \in Bufs /\ Buf(n) = P
  <2>1. n \in 0 .. RingSize - 1
    <3> DEFINE h == Count
    <3>1. n \in 0 .. h /\ h \in 0 .. RingSize - 1 /\ RingSize \in Nat
      BY <1>5, Sizes DEF Reading
    <3> HIDE DEF n, h
    <3>2. n \in 0 .. RingSize - 1
      BY <3>1
    <3> QED BY <3>2
  <2>2. q.pidxPend \in Bufs
    BY <1>1, PlacesAre
  <2> HIDE DEF n
  <2> QED BY <2>1, <2>2, BufIncr DEF Buf
<1> HIDE DEF sd
<1>9. /\ B = Between(q.pidxPend, P) /\ Place(From) <= Place(P) /\ Place(P) <= Place(q.pidx)
      /\ Place(q.pidxPend) <= Place(P) /\ Delta(P, q.pidxPend, RingSize) = n
  BY <1>1, <1>2, ReadPlaces
<1>10. ReadStep(r, room)
  <2>1. \A b \in Bufs \ Between(q.pidxPend, P) : sdesc'[b] = sd[b]
    <3> HIDE DEF B, P
    <3> QED BY <1>3, <1>9 DEF Recycled
  <2> QED BY <1>2, <1>3, <2>1 DEF ReadStep, sd
<1> HIDE DEF d, n, P, B
<1>11. /\ StreamInv' /\ q'.dlen \in Nat /\ readOut' \in Seq([unit : Nat, to : Requests]) /\ StreamInOrder'
       /\ ChainInv' /\ CmptInv' /\ Received' = q.pidx
  BY <1>1, <1>3, <1>10, ReadStream, ReadChain
<1>12. From' = P
  BY <1>2, <1>3 DEF From
<1>13. Spare' \in {Spare, P} /\ (B = {} => P = From)
  <2>1. B = {} => P = From
    <3>1. q.pidxPend \in Bufs
      BY <1>1, PlacesAre
    <3> QED BY <1>2, <1>8, <1>9, <3>1, NoneBetween
  <2> QED BY <1>3, <2>1
<1>14. GiveBack(P, sd)
  <2>1. ~q'.skewed => ~q.skewed /\ \A b \in B : sd[b].off = 0
    <3> SUFFICES ASSUME ~q'.skewed, NEW b \in B PROVE sd[b].off = 0
      BY <1>3
    <3>1. b \in Bufs /\ b # P
      <4>1. B = {x \in Bufs : Place(From) <= Place(x) /\ Place(x) < Place(P)}
        <5>1. q.pidxPend \in Bufs /\ Place(q.pidxPend) <= Place(P)
          BY <1>1, <1>9, PlacesAre
        <5> QED BY <1>1, <1>2, <1>8, <1>9, <5>1, BetweenPlaces
      <4>2. Place(P) \in Nat
        <5>1. Place(P) \in 0 .. RingSize - 1
          BY <1>1, <1>8, PlacesAre
        <5> QED BY <5>1, Sizes
      <4> QED BY <4>1, <4>2
    <3>2. sd[b] = sdesc[b]
      BY <1>6, <1>8, <3>1
    <3> QED BY <1>3, <3>2
  <2> QED BY <1>2, <1>3, <1>6, <1>7, <1>8, <1>9, <1>11, <1>13, <2>1 DEF GiveBack
<1>15. /\ OrderInv' /\ ValidInv' /\ FreshInv' /\ DescType' /\ q'.avail \in 0 .. RingSize - 1
       /\ valid' \subseteq Bufs
  BY <1>1, <1>14, GiveBackKeeps
<1>16. ServiceInv'
  <2>1. q.state = "online" /\ ~q.stopWait => Spare' = From'
    <3>1. ~q.stopWait => Spare = From
      BY <1>1, <1>2 DEF ServiceInv
    <3> QED BY <1>3, <1>12, <1>13, <3>1
  <2>2. svc'.at = "idle"
    BY <1>2 DEF Free
  <2> QED BY <1>2, <1>3, <2>1, <2>2 DEF ServiceInv
<1>17. /\ room - d.copied \in Nat /\ d.copied \in Nat /\ (room - d.copied # 0 => n = Count)
  <2> DEFINE c == d.copied
             h == Count
  <2>1. c \in Nat /\ c <= room /\ (c < room => n = h)
    BY <1>5 DEF Reading, n
  <2> HIDE DEF c, h
  <2>2. room - c \in Nat /\ c \in Nat /\ (room - c # 0 => n = h)
    BY <2>1
  <2> QED BY <2>2 DEF c, h
<1>18. n = Count => P = q.pidx
  <2>1. q.pidxPend \in Bufs /\ q.pidx \in Bufs
    BY <1>1, PlacesAre
  <2>2. Incr(q.pidxPend, Count, RingSize) = q.pidx
    BY <2>1, BufDist DEF Count
  <2> QED BY <2>2 DEF P
<1>19. q.pidx = q.pidxPend => n = Count
  <2>1. q.pidx = q.pidxPend => Count = 0
    <3>1. q.pidxPend \in Bufs
      BY <1>1, PlacesAre
    <3> QED BY <3>1, BufDist DEF Count
  <2>2. n \in 0 .. Count
    BY <1>5 DEF Reading, n
  <2> QED BY <2>1, <2>2
<1>20. MemType' /\ CmptType' /\ RingType' /\ SvcType'
  BY <1>1, <1>2 DEF TypeInv, MemType, CmptType, RingType, SvcType
<1> QED BY <1>2, <1>3, <1>11, <1>15, <1>16, <1>17, <1>18, <1>19, <1>20 DEF Books, d


\* The list after a stop.
LEMMA BlockingIs ==
  ASSUME pend \in Seq(Requests)
  PROVE  Blocking[Len(pend)] \in Seq(Requests)
<1> DEFINE N == Len(pend)
           Take(x, i) == IF pend[i] \in Async THEN x ELSE Append(x, pend[i])
           Step(g, n) == g[0] = <<>> /\ \A i \in 1 .. n : g[i] = Take(g[i - 1], i)
           S == {n \in 0 .. N : ~\E g \in [0 .. n -> Seq(Requests)] : Step(g, n)}
<1>1. N \in Nat /\ \A i \in 1 .. N : pend[i] \in Requests
  OBVIOUS
<1>2. \A x \in Seq(Requests) : \A i \in 1 .. N : Take(x, i) \in Seq(Requests)
  BY <1>1
<1> HIDE DEF N, Take
<1>3. S = {}
  <2> SUFFICES ASSUME S # {} PROVE FALSE
    OBVIOUS
  <2>1. PICK k \in S : \A j \in S : k <= j
    <3>1. S \subseteq 0 .. N /\ 0 .. N \subseteq Nat
      BY <1>1
    <3>2. S \subseteq Nat
      BY <3>1
    <3> HIDE DEF S
    <3> QED BY <3>2, LeastIn
  <2>2. k # 0
    <3> DEFINE Z == [i \in 0 .. 0 |-> <<>>]
    <3>1. Z \in [0 .. 0 -> Seq(Requests)] /\ Step(Z, 0)
      OBVIOUS
    <3> QED BY <2>1, <3>1
  <2>3. k \in 1 .. N /\ k - 1 \in 0 .. N /\ ~(k <= k - 1)
    BY <1>1, <2>1, <2>2
  <2>4. PICK g \in [0 .. k - 1 -> Seq(Requests)] : Step(g, k - 1)
    BY <2>1, <2>3
  <2> DEFINE h == [i \in 0 .. k |-> IF i = k THEN Take(g[k - 1], k) ELSE g[i]]
  <2>5. g[k - 1] \in Seq(Requests) /\ k - 1 \in 0 .. k - 1
    BY <2>3
  <2>6. \A i \in 0 .. k : i = k \/ i \in 0 .. k - 1
    BY <2>3
  <2>7. h \in [0 .. k -> Seq(Requests)]
    BY <1>2, <2>3, <2>5, <2>6
  <2>8. Step(h, k)
    <3>1. h[0] = <<>>
      BY <2>3, <2>4
    <3>2. ASSUME NEW i \in 1 .. k PROVE h[i] = Take(h[i - 1], i)
      <4>1. i - 1 \in 0 .. k /\ i - 1 # k /\ i \in 0 .. k
        BY <2>3
      <4>2. h[i - 1] = g[i - 1]
        BY <4>1
      <4>3. CASE i = k
        BY <4>1, <4>2, <4>3
      <4>4. CASE i # k
        <5>1. i \in 1 .. k - 1
          BY <2>3, <4>4
        <5>2. g[i] = Take(g[i - 1], i)
          BY <2>4, <5>1
        <5> QED BY <4>1, <4>2, <4>4, <5>2
      <4> QED BY <4>3, <4>4
    <3> QED BY <3>1, <3>2
  <2> HIDE DEF h
  <2> QED BY <2>1, <2>7, <2>8
<1>4. PICK g \in [0 .. N -> Seq(Requests)] : Step(g, N)
  <2>1. N \in 0 .. N
    BY <1>1
  <2> QED BY <1>3, <2>1
<1> DEFINE F(b) == [i \in 0 .. N |-> IF i = 0 THEN <<>> ELSE Take(b[i - 1], i)]
<1>5. g = F(g)
  <2>1. \A i \in 0 .. N : g[i] = IF i = 0 THEN <<>> ELSE Take(g[i - 1], i)
    <3> TAKE i \in 0 .. N
    <3>1. i # 0 => i \in 1 .. N
      BY <1>1
    <3> QED BY <1>4, <3>1
  <2> QED BY <2>1
<1>6. Blocking = CHOOSE b : b = F(b)
  BY DEF Blocking, Take, N
<1>7. Blocking = F(Blocking)
  <2> HIDE DEF F
  <2> QED BY <1>5, <1>6
<1>8. ASSUME NEW n \in 0 .. N, Blocking[n] # g[n] PROVE FALSE
  <2> DEFINE R == {i \in 0 .. N : Blocking[i] # g[i]}
  <2>1. R \subseteq Nat /\ R # {}
    <3>1. n \in R
      BY <1>8
    <3>2. R \subseteq 0 .. N /\ 0 .. N \subseteq Nat
      BY <1>1
    <3> QED BY <3>1, <3>2
  <2>2. PICK k \in R : \A j \in R : k <= j
    BY <2>1, LeastIn
  <2>3. Blocking[k] = IF k = 0 THEN <<>> ELSE Take(Blocking[k - 1], k)
    BY <1>7, <2>2
  <2>4. k # 0
    BY <1>4, <2>2, <2>3
  <2>5. k \in 1 .. N /\ k - 1 \in 0 .. N /\ ~(k <= k - 1)
    BY <1>1, <2>2, <2>4
  <2>6. Blocking[k - 1] = g[k - 1]
    BY <2>2, <2>5
  <2> QED BY <1>4, <2>2, <2>3, <2>4, <2>5, <2>6
<1>9. N \in 0 .. N
  BY <1>1
<1> QED BY <1>4, <1>8, <1>9 DEF N


LEMMA SubmitKeeps ==
  ASSUME IInv, NEW r \in Requests, Submit(r)
  PROVE  IInv'
<1> DEFINE size == Asked[r]
           left == size - ReadFor(size).copied
           t == [st |-> IF left = 0 THEN "done" ELSE "waiting", left |-> left, ret |-> IF left = 0 THEN size ELSE 0]
<1>1. /\ TypeInv /\ WaitInv /\ ServiceInv /\ Free /\ q.state = "online" /\ r \notin Direct
      /\ UNCHANGED <<mode, mem, cmpt, iring, svc, work>>
      /\ size \in Nat
  BY SizesAssumption DEF IInv, Submit
<1>2. Free' /\ ~Receiving' /\ ~Receiving /\ svc'.at = "idle"
  BY <1>1 DEF Free, Receiving
<1>3. /\ req \in [Requests -> [st : {"new", "waiting", "done", "failed"}, left : Int, ret : Int]]
      /\ pend \in Seq(Requests)
  BY <1>1 DEF TypeInv, ReqType, OtherType
<1>4. CASE q.stopWait
  <2>1. /\ req' = [req EXCEPT ![r].st = "done", ![r].left = size]
        /\ UNCHANGED <<card, sdesc, valid, q, pend, readOut>>
    BY <1>4 DEF Submit
  <2>2. ReqType' /\ \A x \in Requests : req'[x].left = IF x = r THEN size ELSE req[x].left
    <3> DEFINE A == [req EXCEPT ![r] = [req[r] EXCEPT !.st = "done"]]
               B == [A EXCEPT ![r] = [A[r] EXCEPT !.left = size]]
    <3>1. req' = B
      BY <2>1
    <3>2. A[r] = [req[r] EXCEPT !.st = "done"] /\ B[r] = [A[r] EXCEPT !.left = size]
      BY <1>3
    <3>3. B = [x \in Requests |-> B[x]] /\ \A x \in Requests : x # r => B[x] = req[x]
      BY <1>3
    <3> HIDE DEF A, B, size
    <3>4. req[r] \in [st : {"new", "waiting", "done", "failed"}, left : Int, ret : Int]
      BY <1>3
    <3>5. A[r] = [st |-> "done", left |-> req[r].left, ret |-> req[r].ret]
      BY <3>2, <3>4
    <3>6. B[r] = [st |-> "done", left |-> size, ret |-> req[r].ret]
      BY <3>2, <3>5
    <3> QED BY <1>1, <1>3, <3>1, <3>3, <3>4, <3>6 DEF ReqType
  <2>3. From' = From /\ Received' = Received /\ Spare' = Spare
    BY <1>1, <1>2, <2>1 DEF From, Received, Spare
  <2>4. Books'
    BY <1>1, <2>1, <2>3, SameBooks DEF IInv, Books
  <2>5. ServiceInv'
    BY <1>1, <1>2, <2>1, <2>3 DEF ServiceInv
  <2>6. WaitInv'
    <3>1. \A i \in DOMAIN pend : req'[pend[i]].left >= 0 /\ pend[i] \notin Direct
      <4> TAKE i \in DOMAIN pend
      <4>1. req[pend[i]].left >= 0 /\ pend[i] \notin Direct /\ pend[i] \in Requests
        BY <1>1, <1>3 DEF WaitInv
      <4> HIDE DEF size
      <4> QED BY <1>1, <2>2, <4>1
    <3> QED BY <1>1, <1>2, <2>1, <3>1 DEF WaitInv
  <2>7. TypeInv'
    <3> HIDE DEF size
    <3>1. CardType' /\ MemType' /\ CmptType' /\ RingType'
      BY <1>1, <2>1 DEF TypeInv, CardType, MemType, CmptType, RingType
    <3>3. DescType' /\ QType' /\ SvcType'
      BY <1>1, <2>1 DEF TypeInv, DescType, QType, SvcType
    <3>2. OtherType'
      BY <1>1, <2>1 DEF TypeInv, OtherType
    <3> QED BY <2>2, <3>1, <3>2, <3>3 DEF TypeInv
  <2> QED BY <2>4, <2>5, <2>6, <2>7 DEF IInv, Books
<1>5. CASE ~q.stopWait
  <2>1. /\ ReadsNow(r, size, Append(pend, r)) /\ req' = [req EXCEPT ![r] = t]
        /\ pend' = (IF left = 0 THEN pend ELSE Append(pend, r))
    BY <1>1, <1>5 DEF Submit, ReadsNow, Missing
  <2>2. /\ Books' /\ CardType' /\ DescType' /\ QType' /\ MemType' /\ CmptType' /\ RingType' /\ SvcType'
        /\ valid' \in SUBSET Bufs /\ readOut' \in Seq([unit : Nat, to : Requests]) /\ ServiceInv'
        /\ left \in Nat /\ (left # 0 => q'.pidx = q'.pidxPend)
        /\ (q.pidx = q.pidxPend => q'.pidx = q'.pidxPend)
    <3> HIDE DEF size
    <3> QED BY <1>1, <2>1, ReadNowKeeps DEF left
  <2>3. t \in [st : {"new", "waiting", "done", "failed"}, left : Int, ret : Int] /\ t.left = left
    <3> HIDE DEF left, size
    <3> QED BY <1>1, <2>2
  <2> HIDE DEF left, size, t
  <2>4. ReqType' /\ \A x \in Requests : req'[x].left = IF x = r THEN left ELSE req[x].left
    BY <1>3, <2>1, <2>3 DEF ReqType
  <2>5. pend' \in Seq(Requests) /\ \A i \in DOMAIN pend' : pend'[i] = r \/ \E j \in DOMAIN pend : pend'[i] = pend[j]
    <3>1. /\ Append(pend, r) \in Seq(Requests)
          /\ \A i \in DOMAIN Append(pend, r) :
               Append(pend, r)[i] = r \/ (i \in DOMAIN pend /\ Append(pend, r)[i] = pend[i])
      BY <1>3
    <3> QED BY <1>3, <2>1, <3>1
  <2>6. WaitInv'
    <3>1. \A i \in DOMAIN pend' : req'[pend'[i]].left >= 0 /\ pend'[i] \notin Direct
      <4> TAKE i \in DOMAIN pend'
      <4>1. CASE pend'[i] = r
        BY <1>1, <2>2, <2>4, <4>1
      <4>2. CASE pend'[i] # r
        <5>1. PICK j \in DOMAIN pend : pend'[i] = pend[j]
          BY <2>5, <4>2
        <5>2. req[pend[j]].left >= 0 /\ pend[j] \notin Direct /\ pend[j] \in Requests
          BY <1>1, <1>3 DEF WaitInv
        <5> QED BY <2>4, <4>2, <5>1, <5>2
      <4> QED BY <4>1, <4>2
    <3>2. pend' # <<>> => q'.pidx = q'.pidxPend
      <4>1. CASE left = 0
        BY <1>1, <2>1, <2>2, <4>1 DEF WaitInv
      <4>2. CASE left # 0
        BY <2>2, <4>2
      <4> QED BY <4>1, <4>2
    <3> QED BY <1>2, <3>1, <3>2 DEF WaitInv
  <2>7. OtherType'
    BY <1>1, <2>2, <2>5 DEF TypeInv, OtherType
  <2> QED BY <2>2, <2>4, <2>6, <2>7 DEF IInv, Books, TypeInv
<1> QED BY <1>4, <1>5, <1>1 DEF TypeInv, QType

LEMMA PacketReadKeeps ==
  ASSUME IInv, NEW r \in Requests, PacketRead(r)
  PROVE  IInv'
<1> DEFINE size == Asked[r]
           c == ReadFor(size).copied
           t == [st |-> "done", left |-> 0 - c, ret |-> size - (0 - c)]
<1>1. /\ TypeInv /\ WaitInv /\ ServiceInv /\ Free /\ q.state = "online" /\ r \in Direct
      /\ UNCHANGED <<mode, mem, cmpt, iring, svc, work, pend>>
      /\ ReadsNow(r, size, pend) /\ req' = [req EXCEPT ![r] = t] /\ size \in Nat
  BY SizesAssumption DEF IInv, PacketRead, ReadsNow
<1>2. Free' /\ ~Receiving' /\ ~Receiving /\ svc'.at = "idle"
  BY <1>1 DEF Free, Receiving
<1>3. /\ req \in [Requests -> [st : {"new", "waiting", "done", "failed"}, left : Int, ret : Int]]
      /\ pend \in Seq(Requests)
  BY <1>1 DEF TypeInv, ReqType, OtherType
<1>4. /\ Books' /\ CardType' /\ DescType' /\ QType' /\ MemType' /\ CmptType' /\ RingType' /\ SvcType'
      /\ valid' \in SUBSET Bufs /\ readOut' \in Seq([unit : Nat, to : Requests]) /\ ServiceInv'
      /\ c \in Nat /\ (q.pidx = q.pidxPend => q'.pidx = q'.pidxPend) /\ q'.state = "online"
  <2> HIDE DEF size
  <2> QED BY <1>1, ReadNowKeeps
<1>5. t \in [st : {"new", "waiting", "done", "failed"}, left : Int, ret : Int]
  <2> HIDE DEF c, size
  <2> QED BY <1>1, <1>4
<1> HIDE DEF c, size, t
<1>6. ReqType' /\ \A x \in Requests : x # r => req'[x] = req[x]
  BY <1>1, <1>3, <1>5 DEF ReqType
<1>7. WaitInv'
  <2>1. \A i \in DOMAIN pend : req'[pend[i]].left >= 0 /\ pend[i] \notin Direct
    <3> TAKE i \in DOMAIN pend
    <3>1. req[pend[i]].left >= 0 /\ pend[i] \notin Direct /\ pend[i] \in Requests
      BY <1>1, <1>3 DEF WaitInv
    <3> QED BY <1>1, <1>6, <3>1
  <2> QED BY <1>1, <1>2, <1>4, <2>1 DEF WaitInv
<1>8. OtherType'
  BY <1>1, <1>4 DEF TypeInv, OtherType
<1> QED BY <1>4, <1>6, <1>7, <1>8 DEF IInv, Books, TypeInv

\* A request that times out leaves the list.
LEMMA TimeOutIs ==
  ASSUME TypeInv, NEW r \in Requests, TimeOut(r)
  PROVE  /\ ReqType'
         /\ \A x \in Requests : /\ req'[x].left = req[x].left /\ req'[x].ret = req[x].ret
                                /\ req'[x].st = IF x = r THEN "failed" ELSE req[x].st
         /\ pend' \in Seq(Requests)
         /\ \A i \in DOMAIN pend' : \E j \in DOMAIN pend : pend'[i] = pend[j]
<1>0. /\ req \in [Requests -> [st : {"new", "waiting", "done", "failed"}, left : Int, ret : Int]]
      /\ pend \in Seq(Requests)
  BY DEF TypeInv, ReqType, OtherType
<1>1. req' = [req EXCEPT ![r].st = "failed"]
  BY DEF TimeOut
<1>2. PICK i \in DOMAIN pend : pend' = SubSeq(pend, 1, i - 1) \o SubSeq(pend, i + 1, Len(pend))
  BY DEF TimeOut, RemoveAt
<1>3. pend' \in Seq(Requests) /\ \A k \in DOMAIN pend' : \E j \in DOMAIN pend : pend'[k] = pend[j]
  <2> DEFINE A == SubSeq(pend, 1, i - 1)
             B == SubSeq(pend, i + 1, Len(pend))
             n == Len(pend)
  <2>0. n \in Nat /\ i \in 1 .. n /\ DOMAIN pend = 1 .. n /\ \A k \in 1 .. n : pend[k] \in Requests
    BY <1>0
  <2> HIDE DEF n
  <2>1. /\ A \in Seq(Requests) /\ \A k \in DOMAIN A : k \in DOMAIN pend /\ A[k] = pend[k]
    <3>1. /\ SubSeq(pend, 1, i - 1) \in Seq(Requests)
          /\ Len(SubSeq(pend, 1, i - 1)) = IF 1 <= i - 1 THEN (i - 1) - 1 + 1 ELSE 0
          /\ \A k \in 1 .. (i - 1) - 1 + 1 : SubSeq(pend, 1, i - 1)[k] = pend[1 + k - 1]
      BY <2>0, SubSeqProperties
    <3>2. Len(A) = i - 1 /\ DOMAIN A = 1 .. i - 1 /\ \A k \in 1 .. i - 1 : A[k] = pend[k]
      BY <2>0, <3>1
    <3> QED BY <2>0, <3>1, <3>2
  <2>2. /\ B \in Seq(Requests) /\ \A k \in DOMAIN B : k + i \in DOMAIN pend /\ B[k] = pend[k + i]
    <3>1. /\ SubSeq(pend, i + 1, n) \in Seq(Requests)
          /\ Len(SubSeq(pend, i + 1, n)) = IF i + 1 <= n THEN n - (i + 1) + 1 ELSE 0
          /\ \A k \in 1 .. n - (i + 1) + 1 : SubSeq(pend, i + 1, n)[k] = pend[(i + 1) + k - 1]
      BY <2>0, SubSeqProperties
    <3>2. Len(B) = n - i /\ DOMAIN B = 1 .. n - i /\ \A k \in 1 .. n - i : B[k] = pend[k + i]
      BY <2>0, <3>1 DEF n
    <3>3. \A k \in 1 .. n - i : k + i \in 1 .. n
      BY <2>0
    <3> QED BY <2>0, <3>1, <3>2, <3>3 DEF n
  <2> HIDE DEF A, B
  <2>3. A \o B \in Seq(Requests) /\ \A k \in DOMAIN (A \o B) :
          \/ k \in DOMAIN A /\ (A \o B)[k] = A[k]
          \/ k - Len(A) \in DOMAIN B /\ (A \o B)[k] = B[k - Len(A)]
    BY <2>1, <2>2
  <2>4. pend' = A \o B
    BY <1>2 DEF A, B
  <2> QED BY <2>1, <2>2, <2>3, <2>4
<1>4. /\ ReqType'
      /\ \A x \in Requests : /\ req'[x].left = req[x].left /\ req'[x].ret = req[x].ret
                             /\ req'[x].st = IF x = r THEN "failed" ELSE req[x].st
  BY <1>0, <1>1 DEF ReqType
<1> QED BY <1>3, <1>4

\* Calls that move no data.
LEMMA CallKeeps ==
  ASSUME IInv, (\E r \in Requests : TimeOut(r)) \/ StopBegin \/ StopEnd
  PROVE  IInv'
<1>1. /\ TypeInv /\ WaitInv /\ ServiceInv /\ Free
      /\ UNCHANGED <<mode, card, mem, cmpt, iring, sdesc, valid, svc, work, readOut>>
  BY DEF IInv, TimeOut, StopBegin, StopEnd
<1>2. /\ req \in [Requests -> [st : {"new", "waiting", "done", "failed"}, left : Int, ret : Int]]
      /\ pend \in Seq(Requests)
  BY <1>1 DEF TypeInv, ReqType, OtherType
<1>3. Free' /\ ~Receiving' /\ ~Receiving /\ svc'.at = "idle"
  BY <1>1 DEF Free, Receiving
<1>4. /\ q'.pidx = q.pidx /\ q'.pidxPend = q.pidxPend /\ q'.cidxCmpt = q.cidxCmpt /\ q'.dlen = q.dlen
      /\ q'.err = q.err /\ q'.avail = q.avail /\ q'.skewed = q.skewed /\ QType'
      /\ q'.state \in {q.state, "enabled"}
      /\ (q'.state = "online" => q'.stopWait = q.stopWait \/ q'.stopWait)
  <2>1. q' \in {q, [q EXCEPT !.stopWait = TRUE], [q EXCEPT !.state = "enabled", !.stopWait = FALSE]}
    BY DEF TimeOut, StopBegin, StopEnd
  <2>2. q.stopWait \in BOOLEAN
    BY <1>1 DEF TypeInv, QType
  <2>4. CASE q' = q
    <3>1. QType
      BY <1>1 DEF TypeInv
    <3>2. QType'
      BY <2>4, <3>1 DEF QType
    <3> QED BY <2>4, <3>2
  <2>5. CASE q' = [q EXCEPT !.stopWait = TRUE]
    BY <1>1, <2>5 DEF TypeInv, QType
  <2>6. CASE q' = [q EXCEPT !.state = "enabled", !.stopWait = FALSE]
    BY <1>1, <2>6 DEF TypeInv, QType
  <2> QED BY <2>1, <2>4, <2>5, <2>6
<1>5. From' = From /\ Received' = Received /\ Spare' = Spare
  BY <1>1, <1>3, <1>4 DEF From, Received, Spare
<1>6. Books'
  BY <1>1, <1>4, <1>5, SameBooks DEF IInv, Books
<1>7. /\ ReqType' /\ \A x \in Requests : req'[x].left = req[x].left
      /\ pend' \in Seq(Requests)
      /\ q'.state = "online" => \A i \in DOMAIN pend' : \E j \in DOMAIN pend : pend'[i] = pend[j]
  <2>1. ASSUME NEW r \in Requests, TimeOut(r)
        PROVE  /\ ReqType' /\ \A x \in Requests : req'[x].left = req[x].left
               /\ pend' \in Seq(Requests)
               /\ \A i \in DOMAIN pend' : \E j \in DOMAIN pend : pend'[i] = pend[j]
    BY <1>1, <2>1, TimeOutIs
  <2>2. CASE StopBegin
    BY <1>1, <1>2, <2>2 DEF StopBegin, TypeInv, ReqType
  <2>3. CASE StopEnd
    <3>1. q'.state = "enabled"
      BY <1>1, <2>3 DEF StopEnd, TypeInv, QType
    <3>2. pend' \in Seq(Requests)
      BY <1>2, <2>3, BlockingIs DEF StopEnd
    <3>3. req' = [x \in Requests |-> IF req[x].st = "waiting" THEN [req[x] EXCEPT !.st = "failed"] ELSE req[x]]
      BY <2>3 DEF StopEnd
    <3> QED BY <1>2, <3>1, <3>2, <3>3 DEF ReqType
  <2> QED BY <2>1, <2>2, <2>3
<1>8. ServiceInv'
  BY <1>1, <1>3, <1>4, <1>5 DEF ServiceInv
<1>9. WaitInv'
  <2>1. q'.state = "online" => \A i \in DOMAIN pend' : req'[pend'[i]].left >= 0 /\ pend'[i] \notin Direct
    <3> SUFFICES ASSUME q'.state = "online", NEW i \in DOMAIN pend'
                 PROVE  req'[pend'[i]].left >= 0 /\ pend'[i] \notin Direct
      OBVIOUS
    <3>1. PICK j \in DOMAIN pend : pend'[i] = pend[j]
      BY <1>7
    <3>2. req[pend[j]].left >= 0 /\ pend[j] \notin Direct /\ pend[j] \in Requests
      BY <1>1, <1>2, <1>4 DEF WaitInv
    <3> QED BY <1>7, <3>1, <3>2
  <2>2. q'.state = "online" /\ pend' # <<>> => q'.pidx = q'.pidxPend
    <3> SUFFICES ASSUME q'.state = "online", pend' # <<>> PROVE q.pidx = q.pidxPend
      BY <1>4
    <3>1. 1 \in DOMAIN pend'
      BY <1>7
    <3>2. pend # <<>>
      BY <1>2, <1>7, <3>1
    <3> QED BY <1>1, <1>4, <3>2 DEF WaitInv
  <2> QED BY <1>3, <2>1, <2>2 DEF WaitInv
<1>10. TypeInv'
  <2>1. CardType' /\ MemType' /\ CmptType' /\ RingType' /\ DescType' /\ SvcType'
    BY <1>1 DEF TypeInv, CardType, MemType, CmptType, RingType, DescType, SvcType
  <2>2. OtherType'
    BY <1>1, <1>7 DEF TypeInv, OtherType
  <2> QED BY <1>4, <1>7, <2>1, <2>2 DEF TypeInv
<1> QED BY <1>6, <1>8, <1>9, <1>10 DEF IInv, Books


-----------------------------------------------------------------------------
(* The theorems. *)

LEMMA NextKeeps ==
  ASSUME SameBuffers, IInv, [Next]_vars
  PROVE  IInv'
<1>1. CASE \E len \in Lengths : HwPacket(len)
  BY <1>1, PacketKeeps
<1>2. CASE HwError
  BY <1>2, ErrorKeeps
<1>3. CASE Notices \/ OtherInterrupt
  BY <1>3, NewsKeeps DEF Notices, NewsStep
<1>4. CASE Handler
  BY <1>4, BeginKeeps, SvcEntryKeeps, SvcCidxKeeps, SvcDeliverKeeps, SvcRefillKeeps DEF Handler
<1>5. CASE \E r \in Requests : Submit(r) \/ PacketRead(r)
  BY <1>5, SubmitKeeps, PacketReadKeeps
<1>6. CASE (\E r \in Requests : TimeOut(r)) \/ StopBegin \/ StopEnd
  BY <1>6, CallKeeps
<1>7. CASE UNCHANGED vars
  <2>1. /\ q' = q /\ readOut' = readOut /\ svc' = svc /\ pend' = pend /\ req' = req /\ card' = card
        /\ mem' = mem /\ cmpt' = cmpt /\ sdesc' = sdesc /\ valid' = valid /\ iring' = iring
        /\ mode' = mode /\ work' = work
    BY <1>7 DEF vars
  <2>2. From' = From /\ Received' = Received /\ Spare' = Spare /\ Left' = Left
    BY <2>1 DEF From, Received, Receiving, Free, Spare, Left
  <2>3. Books'
    BY <2>1, <2>2, SameBooks DEF IInv, Books
  <2>4. ServiceInv' /\ WaitInv'
    BY <2>1, <2>2 DEF IInv, ServiceInv, WaitInv, Free, Receiving
  <2>5. TypeInv'
    <3>1. CardType' /\ MemType' /\ CmptType' /\ RingType'
      BY <2>1 DEF IInv, TypeInv, CardType, MemType, CmptType, RingType
    <3>2. DescType' /\ QType' /\ SvcType' /\ ReqType'
      BY <2>1 DEF IInv, TypeInv, DescType, QType, SvcType, ReqType
    <3>3. OtherType'
      BY <2>1 DEF IInv, TypeInv, OtherType
    <3> QED BY <3>1, <3>2, <3>3 DEF TypeInv
  <2> QED BY <2>3, <2>4, <2>5 DEF IInv, Books
<1> QED BY <1>1, <1>2, <1>3, <1>4, <1>5, <1>6, <1>7 DEF Next

LEMMA TypesHold ==
  ASSUME IInv
  PROVE  TypeOK
<1>1. TypeInv
  BY DEF IInv
<1>2. /\ mode \in {"poll", "direct", "indirect"} /\ work \in BOOLEAN /\ valid \subseteq Bufs
      /\ pend \in Seq(Requests)
  BY <1>1 DEF TypeInv, OtherType
<1>3. /\ card.next \in Bufs /\ card.posted \in Bufs
      /\ card.pidx \in 0 .. CmptSize - 1 /\ card.cidx \in 0 .. CmptSize - 1
      /\ card.armed \in BOOLEAN /\ card.packets \in 0 .. MaxPackets
      /\ iring.cidx \in 0 .. IntrSize - 1 /\ iring.hwPidx \in 0 .. IntrSize - 1
  BY <1>1 DEF TypeInv, CardType, RingType
<1>4. \A b \in Bufs : sdesc[b].len \in 0 .. DescBufSize /\ sdesc[b].off \in Nat
  BY <1>1 DEF TypeInv, DescType
<1>5. /\ q.state \in {"online", "enabled"} /\ q.avail \in 0 .. RingSize - 1
      /\ q.pidx \in Bufs /\ q.pidxPend \in Bufs /\ q.cidxCmpt \in 0 .. CmptSize - 1
  BY <1>1 DEF TypeInv, QType
<1>6. svc.at \in {"idle", "entries", "cidx", "deliver", "refill"}
  BY <1>1 DEF TypeInv, SvcType
<1>7. \A r \in Requests : req[r].st \in {"new", "waiting", "done", "failed"}
  BY <1>1 DEF TypeInv, ReqType
<1> QED BY <1>2, <1>3, <1>4, <1>5, <1>6, <1>7 DEF TypeOK

\* The card's buffers lie between its next one and the last posted.
LEMMA NothingOverwritten ==
  ASSUME IInv
  PROVE  NoOverwrite
<1>1. TypeInv /\ OrderInv
  BY DEF IInv
<1>2. /\ q.pidxPend \in Bufs /\ q.pidx \in Bufs /\ Received \in Bufs /\ card.next \in Bufs
      /\ card.posted \in Bufs /\ RingSize \in Nat
      /\ \A b \in Bufs : Place(b) \in 0 .. RingSize - 1
      /\ Place(card.posted) = RingSize - 1
  BY <1>1, PlacesAre, PostedIs DEF TypeInv, CardType
<1> DEFINE a == Place(q.pidxPend)
           b == Place(q.pidx)
           c == Place(Received)
           e == Place(card.next)
           N == RingSize
<1>3. /\ a \in 0 .. N - 1 /\ b \in 0 .. N - 1 /\ c \in 0 .. N - 1 /\ e \in 0 .. N - 1 /\ N \in Nat
      /\ a <= b /\ b <= c /\ c <= e
  BY <1>1, <1>2 DEF OrderInv
<1> HIDE DEF a, b, c, e, N
<1>4. a <= b /\ b <= e /\ e <= N - 1
  BY <1>3
<1>5. /\ Between(card.next, card.posted) = {x \in Bufs : e <= Place(x) /\ Place(x) < N - 1}
      /\ Between(q.pidxPend, q.pidx) = {x \in Bufs : a <= Place(x) /\ Place(x) < b}
      /\ Between(q.pidx, card.next) = {x \in Bufs : b <= Place(x) /\ Place(x) < e}
  BY <1>1, <1>2, <1>4, BetweenPlaces DEF a, b, e, N
<1>6. \A x \in Bufs : e <= Place(x) => ~(Place(x) < b) /\ ~(Place(x) < e)
  <2> TAKE x \in Bufs
  <2> DEFINE p == Place(x)
  <2>1. p \in Nat
    BY <1>2
  <2> HIDE DEF p
  <2>2. e <= p => ~(p < b) /\ ~(p < e)
    BY <1>3, <1>4, <2>1
  <2> QED BY <2>2 DEF p
<1> QED BY <1>5, <1>6 DEF NoOverwrite

\* A packet lies behind those received.
LEMMA ReceivedOnce ==
  ASSUME SameBuffers, IInv
  PROVE  NothingReceivedTwice
<1> SUFFICES ASSUME svc.at = "entries", svc.left > 0, Entry.kind = "data"
             PROVE  EntryBufs \cap valid = {}
  BY DEF NothingReceivedTwice
<1>1. /\ TypeInv /\ ~q.err /\ Received = svc.pidx /\ FlNr(Entry.len) = CardUses(Entry.len)
      /\ CardUses(Entry.len) <= Place(card.next) - Place(Received) /\ Entry.len \in Nat
  BY EntryIs
<1>2. /\ Received \in Bufs /\ From \in Bufs /\ card.next \in Bufs /\ RingSize \in Nat /\ Spare \in Bufs
      /\ Place(Received) \in 0 .. RingSize - 1 /\ Place(card.next) \in 0 .. RingSize - 1
      /\ Place(From) \in 0 .. RingSize - 1
  BY <1>1, PlacesAre
<1>3. valid = Between(From, Received) /\ Place(From) <= Place(Received)
  BY <1>1, AvailIs DEF IInv, ValidInv
<1>4. valid = {x \in Bufs : Place(From) <= Place(x) /\ Place(x) < Place(Received)}
  BY <1>1, <1>2, <1>3, BetweenPlaces
<1> DEFINE n == CardUses(Entry.len)
           d == Place(Received)
           e == Place(card.next)
           N == RingSize
<1>5. n \in Nat /\ d \in 0 .. N - 1 /\ e \in 0 .. N - 1 /\ n <= e - d /\ N \in Nat
  BY <1>1, <1>2, CardUsesIs
<1> HIDE DEF n, d, e, N
<1>6. ASSUME NEW k \in 0 .. n - 1 PROVE Incr(Received, k, RingSize) \notin valid
  <2>1. k \in 0 .. N - 1 /\ d + k <= N - 1 /\ ~(d + k < d)
    BY <1>5
  <2>2. Place(Incr(Received, k, RingSize)) = d + k
    <3>1. k \in 0 .. RingSize - 1 /\ Delta(Received, Spare, RingSize) + k <= RingSize - 1
      BY <2>1 DEF d, N, Place
    <3> QED BY <1>2, <3>1, BufDistIncr DEF Place, d
  <2> QED BY <1>4, <2>1, <2>2 DEF d
<1>7. EntryBufs = {Incr(Received, k, RingSize) : k \in 0 .. n - 1}
  BY <1>1 DEF EntryBufs, n
<1> QED BY <1>6, <1>7

\* With the lock free, the marks, the counters and the posted index say so.
LEMMA BooksAreTrue ==
  ASSUME IInv
  PROVE  BuffersAccounted
<1> SUFFICES ASSUME Free, q.state = "online", ~q.err
             PROVE  /\ valid = Between(q.pidxPend, q.pidx)
                    /\ q.avail = RingSize - 1 - Cardinality(valid)
                    /\ q.dlen = Len(UnreadData)
                    /\ ~q.stopWait => card.posted = LastPosted(q)
  BY DEF BuffersAccounted
<1>1. /\ TypeInv /\ ValidInv /\ ServiceInv /\ ~Receiving /\ From = q.pidxPend /\ Received = q.pidx
  BY DEF IInv, Free, Receiving, From, Received
<1>2. valid = Between(q.pidxPend, q.pidx)
  BY <1>1 DEF ValidInv
<1>3. q.avail = RingSize - 1 - Cardinality(valid)
  <2>1. q.avail \in 0 .. RingSize - 1 /\ Cardinality(valid) \in Nat
    <3>1. IsFiniteSet(valid)
      BY <1>1, BufsCount, FS_Subset DEF TypeInv, OtherType
    <3> QED BY <1>1, <3>1, FS_CardinalityType DEF TypeInv, QType
  <2> DEFINE c == Cardinality(valid)
             v == q.avail
  <2>2. c \in Nat /\ v \in Nat /\ c + v = RingSize - 1 /\ RingSize \in Nat
    BY <1>1, <2>1, Sizes DEF ValidInv
  <2> HIDE DEF c, v
  <2>3. v = RingSize - 1 - c
    BY <2>2
  <2> QED BY <2>3 DEF c, v
<1>4. q.dlen = Len(UnreadData)
  <2>1. PICK L \in [0 .. Held -> Nat] : StreamOf(L)
    BY DEF IInv, StreamInv
  <2> DEFINE m == Count
  <2>2. Held = m /\ m \in 0 .. RingSize - 1 /\ DescType /\ QType /\ MemType
    BY <1>1, <2>1, ReadFacts DEF TypeInv, Held, Count
  <2>3. /\ L \in [0 .. m -> Nat] /\ L[0] = 0 /\ L[m] = q.dlen
        /\ \A d \in 0 .. m - 1 : L[d + 1] = L[d] + sdesc[Buf(d)].len
    BY <2>1, <2>2 DEF StreamOf
  <2>4. Count <= m
    BY <2>2, Sizes
  <2> HIDE DEF m
  <2>5. Len(UnreadData) = L[Count]
    BY <2>2, <2>3, <2>4, UnitsAre
  <2> QED BY <2>3, <2>5 DEF m
<1>5. ~q.stopWait => card.posted = LastPosted(q)
  <2>1. ~q.stopWait => Incr(card.posted, 1, RingSize) = q.pidxPend
    BY <1>1 DEF ServiceInv, Spare
  <2>2. card.posted \in Bufs
    BY <1>1 DEF TypeInv, CardType
  <2>3. Decr(Incr(card.posted, 1, RingSize), 1, RingSize) = card.posted
    BY <2>2, Sizes DEF Decr, Incr, Bufs
  <2> QED BY <2>1, <2>3 DEF LastPosted
<1> QED BY <1>2, <1>3, <1>4, <1>5

\* With the lock free and the queue on, nobody waits while data lies unread.
LEMMA NobodyWaits ==
  ASSUME IInv
  PROVE  NoDataWhileWaiting
<1> SUFFICES ASSUME Free, pend # <<>>, q.state = "online"
             PROVE  Unread = <<>>
  BY DEF NoDataWhileWaiting
<1>1. q.pidx = q.pidxPend /\ q.pidxPend \in Bufs
  BY PlacesAre DEF IInv, WaitInv
<1>2. Delta(q.pidx, q.pidxPend, RingSize) = 0
  BY <1>1, BufDist
<1> QED BY <1>2 DEF Unread

\* The invariant holds, if the lengths the card sends are divided alike by the
\* card and by the driver.
THEOREM Inductive ==
  ASSUME SameBuffers
  PROVE  Spec => []IInv
<1>1. Init => IInv
  BY InitInv
<1>2. IInv /\ [Next]_vars => IInv'
  BY NextKeeps
<1> QED BY <1>1, <1>2, PTL DEF Spec


\* The free list is sound: no buffer is overwritten or received into twice and
\* the marks and counters of rcv_pkt, descq_st_c2h_read and
\* qdma_c2h_packets_proc agree, for rings of any size.
THEOREM FreeListAlwaysSound ==
  ASSUME SameBuffers
  PROVE  Spec => []FreeListSound
<1>1. IInv => FreeListSound
  BY TypesHold, NothingOverwritten, ReceivedOnce, BooksAreTrue DEF FreeListSound
<1> QED BY <1>1, Inductive, PTL

\* Whenever the lock is free, a waiting request finds nothing to read: what the
\* handler leaves nobody wanted, and no newcomer takes what an earlier request
\* is owed (qdma_c2h_packets_proc_dflt, qdma_request_submit_st_c2h).
THEOREM NobodyWaitsForData ==
  ASSUME SameBuffers
  PROVE  Spec => []NoDataWhileWaiting
<1>1. IInv => NoDataWhileWaiting
  BY NobodyWaits
<1> QED BY <1>1, Inductive, PTL


-----------------------------------------------------------------------------
(* What the readers are told. *)

\* The places of a request's units.
Given(r) == {i \in DOMAIN readOut : readOut[i].to = r}

\* A copy for one request counts for it alone.
LEMMA UnitsGiven ==
  ASSUME readOut \in Seq([unit : Nat, to : Requests]), NEW r \in Requests, NEW c \in Nat, readOut' = Copied(r, c)
  PROVE  /\ UnitsFor(r) \in Nat /\ UnitsFor(r)' = UnitsFor(r) + c
         /\ \A x \in Requests : x # r => UnitsFor(x)' = UnitsFor(x)
<1> DEFINE u == Len(readOut)
           new == [k \in 1 .. c |-> [unit |-> UnreadData[k], to |-> r]]
<1>1. u \in Nat /\ DOMAIN readOut = 1 .. u
  OBVIOUS
<1>2. readOut' = readOut \o new /\ Len(new) = c /\ \A k \in 1 .. c : new[k].to = r
  BY DEF Copied
<1>3. /\ DOMAIN readOut' = 1 .. u + c
      /\ \A i \in 1 .. u : readOut'[i] = readOut[i]
      /\ \A i \in u + 1 .. u + c : readOut'[i].to = r
  <2> DEFINE V == {new[k] : k \in 1 .. c}
             T == [unit : Nat, to : Requests]
             W == V \cup T
  <2>0. readOut \in Seq(W) /\ new \in Seq(W)
    <3>1. readOut \in Seq(T)
      OBVIOUS
    <3>2. new \in [1 .. c -> W]
      OBVIOUS
    <3> HIDE DEF new, V, T
    <3>3. readOut \in [1 .. u -> W]
      BY <1>1, <3>1
    <3> HIDE DEF W, u
    <3> QED BY <1>1, <3>2, <3>3
  <2> HIDE DEF new, W
  <2>1. /\ readOut' \in Seq(W) /\ Len(readOut') = u + c
        /\ \A i \in 1 .. u + c : readOut'[i] = IF i <= u THEN readOut[i] ELSE new[i - u]
    <3>1. /\ readOut \o new \in Seq(W)
          /\ Len(readOut \o new) = Len(readOut) + Len(new)
          /\ \A i \in 1 .. Len(readOut) + Len(new) :
               (readOut \o new)[i] = IF i <= Len(readOut) THEN readOut[i] ELSE new[i - Len(readOut)]
      BY <2>0, ConcatProperties
    <3> QED BY <1>2, <3>1
  <2> HIDE DEF u
  <2>2. DOMAIN readOut' = 1 .. u + c
    BY <2>1
  <2>3. \A i \in 1 .. u : i \in 1 .. u + c /\ i <= u
    BY <1>1
  <2>4. \A i \in u + 1 .. u + c : i \in 1 .. u + c /\ ~(i <= u) /\ i - u \in 1 .. c
    BY <1>1
  <2>5. ASSUME NEW i \in u + 1 .. u + c PROVE readOut'[i].to = r
    <3>1. readOut'[i] = new[i - u]
      BY <2>1, <2>4
    <3>2. new[i - u].to = r
      BY <1>2, <2>4
    <3> QED BY <3>1, <3>2
  <2> QED BY <2>1, <2>2, <2>3, <2>5
<1> HIDE DEF new, u
<1>4. \A i \in 1 .. u + c : i \in 1 .. u \/ i \in u + 1 .. u + c
  BY <1>1
<1>5. Given(r)' = Given(r) \cup (u + 1 .. u + c) /\ Given(r) \cap (u + 1 .. u + c) = {}
  <2>1. \A i \in u + 1 .. u + c : readOut'[i].to = r /\ i \in 1 .. u + c /\ i \notin 1 .. u
    BY <1>1, <1>3
  <2>2. \A i \in 1 .. u : i \in 1 .. u + c
    BY <1>1
  <2> QED BY <1>1, <1>3, <1>4, <2>1, <2>2 DEF Given
<1>6. ASSUME NEW x \in Requests, x # r PROVE Given(x)' = Given(x)
  <2>1. \A i \in u + 1 .. u + c : readOut'[i].to # x
    BY <1>3, <1>6
  <2>2. \A i \in 1 .. u : i \in 1 .. u + c
    BY <1>1
  <2> QED BY <1>1, <1>3, <1>4, <2>1, <2>2 DEF Given
<1>7. IsFiniteSet(Given(r)) /\ Cardinality(Given(r)) \in Nat
  <2>1. IsFiniteSet(1 .. u)
    BY <1>1, FS_Interval
  <2>2. Given(r) \subseteq 1 .. u
    BY <1>1 DEF Given
  <2>3. IsFiniteSet(Given(r))
    BY <2>1, <2>2, FS_Subset
  <2> QED BY <2>3, FS_CardinalityType
<1>8. IsFiniteSet(u + 1 .. u + c) /\ Cardinality(u + 1 .. u + c) = c
  <2>1. u + 1 \in Int /\ u + c \in Int
    BY <1>1
  <2>2. IsFiniteSet(u + 1 .. u + c) /\ Cardinality(u + 1 .. u + c) = IF u + 1 > u + c THEN 0 ELSE (u + c) - (u + 1) + 1
    BY <2>1, FS_Interval
  <2> QED BY <1>1, <2>2
<1>9. Cardinality(Given(r)') = Cardinality(Given(r)) + c
  <2> DEFINE A == Given(r)
             B == u + 1 .. u + c
  <2>1. IsFiniteSet(A) /\ IsFiniteSet(B) /\ A \cap B = {} /\ Cardinality(B) = c /\ Cardinality(A) \in Nat
        /\ Given(r)' = A \cup B
    BY <1>5, <1>7, <1>8
  <2> HIDE DEF A, B
  <2>2. Cardinality(A \cup B) = Cardinality(A) + Cardinality(B) - Cardinality({})
    BY <2>1, FS_Union
  <2> QED BY <2>1, <2>2, FS_EmptySet DEF A
<1>10. \A x : UnitsFor(x) = Cardinality(Given(x)) /\ UnitsFor(x)' = Cardinality(Given(x)')
  BY DEF UnitsFor, Given
<1> QED BY <1>6, <1>7, <1>9, <1>10

\* What waits was given what it does not lack; nothing new was given anything.
Owed(r) == /\ UnitsFor(r) = Asked[r] - req[r].left /\ req[r].st # "new"
           /\ (req[r].st = "done" => req[r].left = 0)
Untold(r) == /\ req[r].st = "new" => UnitsFor(r) = 0 /\ req[r].ret = 0
             /\ r \notin Async \cup Direct /\ req[r].st = "done" => req[r].ret = UnitsFor(r)
GivenInv ==
  /\ q.state = "online" => \A i \in DOMAIN pend : Owed(pend[i])
  /\ \A r \in Requests : Untold(r)

\* Steps that copy nothing.
LEMMA NothingGiven ==
  ASSUME GivenInv, readOut' = readOut, req' = req, pend' = pend, q'.state = "online" => q.state = "online"
  PROVE  GivenInv'
<1>1. \A r : UnitsFor(r)' = UnitsFor(r)
  BY DEF UnitsFor
<1>2. \A r : Owed(r)' = Owed(r) /\ Untold(r)' = Untold(r)
  BY <1>1 DEF Owed, Untold
<1> QED BY <1>2 DEF GivenInv


\* The step of a request that reads: what it is told is what it was given.
LEMMA ReaderTold ==
  ASSUME TypeInv, GivenInv, NEW r \in Requests, NEW c \in Nat, NEW t,
         readOut' = Copied(r, c), req' = [req EXCEPT ![r] = t]
  PROVE  /\ UnitsFor(r) \in Nat /\ UnitsFor(r)' = UnitsFor(r) + c /\ req'[r] = t
         /\ \A x \in Requests : x # r => (Owed(x)' <=> Owed(x)) /\ Untold(x)'
<1>1. /\ readOut \in Seq([unit : Nat, to : Requests])
      /\ req \in [Requests -> [st : {"new", "waiting", "done", "failed"}, left : Int, ret : Int]]
  BY DEF TypeInv, OtherType, ReqType
<1>2. /\ UnitsFor(r) \in Nat /\ UnitsFor(r)' = UnitsFor(r) + c
      /\ \A x \in Requests : x # r => UnitsFor(x)' = UnitsFor(x)
  BY <1>1, UnitsGiven
<1>3. req'[r] = t /\ \A x \in Requests : x # r => req'[x] = req[x]
  BY <1>1
<1> QED BY <1>2, <1>3 DEF GivenInv, Owed, Untold

LEMMA DeliverTells ==
  ASSUME IInv, GivenInv, SvcDeliver
  PROVE  GivenInv'
<1>1. PICK r \in Requests, room \in Nat, c \in Nat, left \in Nat :
        /\ 1 \in DOMAIN pend /\ pend[1] = r /\ room = req[r].left /\ left = room - c
        /\ req' = [req EXCEPT ![r] = [st |-> IF left = 0 THEN "done" ELSE req[r].st, left |-> left,
                                      ret |-> IF left = 0 /\ r \notin Async THEN Asked[r] ELSE req[r].ret]]
        /\ readOut' = Copied(r, c) /\ pend' = (IF left = 0 THEN Tail(pend) ELSE pend)
  BY DeliverIs
<1>2. /\ TypeInv /\ pend \in Seq(Requests) /\ pend # <<>> /\ Asked[r] \in Nat /\ q.state = "online"
  BY <1>1, DeliverIs, SizesAssumption DEF IInv, TypeInv, OtherType
<1>3. Owed(r)
  BY <1>1, <1>2 DEF GivenInv
<1>4. PICK s \in {req[r].st, "done"}, v \in {req[r].ret, Asked[r]} :
        /\ req' = [req EXCEPT ![r] = [st |-> s, left |-> left, ret |-> v]]
        /\ s = (IF left = 0 THEN "done" ELSE req[r].st)
        /\ v = (IF left = 0 /\ r \notin Async THEN Asked[r] ELSE req[r].ret)
  BY <1>1
<1>5. \A i \in DOMAIN pend' : \E x \in Requests : pend'[i] = x /\ \E j \in DOMAIN pend : pend[j] = x
  <2>1. CASE left = 0
    <3>1. pend' = Tail(pend)
      BY <1>1, <2>1
    <3>2. \A i \in DOMAIN Tail(pend) : i + 1 \in DOMAIN pend /\ Tail(pend)[i] = pend[i + 1] /\ pend[i + 1] \in Requests
      BY <1>2
    <3> QED BY <3>1, <3>2
  <2>2. CASE left # 0
    BY <1>1, <1>2, <2>2
  <2> QED BY <2>1, <2>2
<1>6. PICK t : t = [st |-> s, left |-> left, ret |-> v]
  OBVIOUS
<1>7. /\ UnitsFor(r) \in Nat /\ UnitsFor(r)' = UnitsFor(r) + c
      /\ req'[r].st = s /\ req'[r].left = left /\ req'[r].ret = v
      /\ \A x \in Requests : x # r => (Owed(x)' <=> Owed(x)) /\ Untold(x)'
  <2>1. req' = [req EXCEPT ![r] = t] /\ readOut' = Copied(r, c)
    BY <1>1, <1>4, <1>6
  <2>2. /\ UnitsFor(r) \in Nat /\ UnitsFor(r)' = UnitsFor(r) + c /\ req'[r] = t
        /\ \A x \in Requests : x # r => (Owed(x)' <=> Owed(x)) /\ Untold(x)'
    BY <1>2, <2>1, ReaderTold
  <2>3. t.st = s /\ t.left = left /\ t.ret = v
    BY <1>6
  <2> QED BY <2>2, <2>3
<1>8. UnitsFor(r)' = Asked[r] - left /\ (room = 0 => left = 0) /\ Asked[r] - 0 = Asked[r]
  <2> DEFINE u == UnitsFor(r)
             a == Asked[r]
  <2>1. u \in Nat /\ a \in Nat /\ u = a - room /\ left = room - c /\ UnitsFor(r)' = u + c
    BY <1>1, <1>2, <1>3, <1>7 DEF Owed
  <2> HIDE DEF u, a
  <2>2. u + c = a - left /\ (room = 0 => left = 0) /\ a - 0 = a
    BY <2>1
  <2> QED BY <2>1, <2>2 DEF a
<1>9. s # "new" /\ (s = "done" => left = 0)
  BY <1>1, <1>3, <1>4, <1>8 DEF Owed
<1>10. Owed(r)'
  BY <1>7, <1>8, <1>9 DEF Owed
<1>11. Untold(r)'
  <2>1. r \notin Async \cup Direct /\ s = "done" => v = UnitsFor(r)'
    BY <1>4, <1>8, <1>9
  <2> QED BY <1>7, <1>9, <2>1 DEF Untold
<1>12. ASSUME NEW x \in Requests, \E j \in DOMAIN pend : pend[j] = x PROVE Owed(x)'
  <2>1. Owed(x)
    BY <1>2, <1>12 DEF GivenInv
  <2> QED BY <1>7, <1>10, <2>1
<1>13. \A i \in DOMAIN pend' : \E x \in Requests : pend'[i] = x /\ Owed(x)'
  BY <1>5, <1>12
<1>14. \A x \in Requests : Untold(x)'
  BY <1>7, <1>11
<1> QED BY <1>13, <1>14 DEF GivenInv, Owed, UnitsFor


LEMMA SubmitTells ==
  ASSUME IInv, GivenInv, NEW r \in Requests, Submit(r)
  PROVE  GivenInv'
<1>1. /\ TypeInv /\ q.state = "online" /\ req[r].st = "new" /\ r \notin Direct /\ Asked[r] \in Nat
      /\ pend \in Seq(Requests)
      /\ req \in [Requests -> [st : {"new", "waiting", "done", "failed"}, left : Int, ret : Int]]
  BY SizesAssumption DEF IInv, Submit, TypeInv, OtherType, ReqType
<1>2. /\ UnitsFor(r) = 0 /\ req[r].ret = 0 /\ \A i \in DOMAIN pend : pend[i] # r /\ pend[i] \in Requests
  BY <1>1 DEF GivenInv, Owed, Untold
<1>3. CASE q.stopWait
  <2>1. /\ req' = [req EXCEPT ![r].st = "done", ![r].left = Asked[r]] /\ pend' = pend /\ readOut' = readOut /\ q' = q
    BY <1>3 DEF Submit
  <2>2. \A x \in Requests : x # r => req'[x] = req[x]
    BY <1>1, <2>1
  <2>3. req'[r].ret = req[r].ret /\ req'[r].st = "done"
    BY <1>1, <2>1
  <2>4. \A x \in Requests : UnitsFor(x)' = UnitsFor(x)
    BY <2>1 DEF UnitsFor
  <2>5. \A x \in Requests : Untold(x)'
    BY <1>2, <2>2, <2>3, <2>4 DEF GivenInv, Untold
  <2>6. \A i \in DOMAIN pend : Owed(pend[i])'
    BY <1>1, <1>2, <2>1, <2>2, <2>4 DEF GivenInv, Owed
  <2> QED BY <2>1, <2>5, <2>6 DEF GivenInv
<1>4. CASE ~q.stopWait
  <2>1. PICK size \in Nat : size = Asked[r]
    BY <1>1
  <2>2. /\ ReadsNow(r, size, Append(pend, r))
        /\ pend' = IF size - ReadFor(size).copied = 0 THEN pend ELSE Append(pend, r)
        /\ req' = [req EXCEPT ![r] = [st |-> IF size - ReadFor(size).copied = 0 THEN "done" ELSE "waiting",
                     left |-> size - ReadFor(size).copied,
                     ret |-> IF size - ReadFor(size).copied = 0 THEN size ELSE 0]]
    BY <1>4, <2>1 DEF Submit, ReadsNow, Missing
  <2>3. /\ readOut' = Copied(r, ReadFor(size).copied) /\ ReadFor(size).copied \in Nat
        /\ size - ReadFor(size).copied \in Nat
    BY <2>2, ReadNowKeeps
  <2>4. PICK c \in Nat, left \in Nat : c = ReadFor(size).copied /\ left = size - c
    BY <2>3
  <2>5. PICK t : t = [st |-> IF left = 0 THEN "done" ELSE "waiting", left |-> left, ret |-> IF left = 0 THEN size ELSE 0]
    OBVIOUS
  <2>6. readOut' = Copied(r, c) /\ req' = [req EXCEPT ![r] = t] /\ pend' = (IF left = 0 THEN pend ELSE Append(pend, r))
    BY <2>2, <2>3, <2>4, <2>5
  <2>7. /\ UnitsFor(r)' = UnitsFor(r) + c /\ req'[r] = t
        /\ \A x \in Requests : x # r => (Owed(x)' <=> Owed(x)) /\ Untold(x)'
    BY <1>1, <2>6, ReaderTold
  <2>8. UnitsFor(r)' = c /\ c = size - left /\ (left = 0 => c = size)
    <3>1. UnitsFor(r)' = 0 + c
      BY <1>2, <2>7
    <3> QED BY <2>4, <3>1
  <2>9. t.st = (IF left = 0 THEN "done" ELSE "waiting") /\ t.left = left /\ t.ret = (IF left = 0 THEN size ELSE 0)
    BY <2>5
  <2>10. Owed(r)' /\ Untold(r)'
    BY <2>1, <2>7, <2>8, <2>9 DEF Owed, Untold
  <2>11. ASSUME NEW x \in Requests, \E j \in DOMAIN pend : pend[j] = x PROVE Owed(x)'
    <3>1. Owed(x) /\ x # r
      BY <1>1, <1>2, <2>11 DEF GivenInv
    <3> QED BY <2>7, <3>1
  <2>12. \A i \in DOMAIN pend' : \E x \in Requests : pend'[i] = x /\ Owed(x)'
    <3>1. \A i \in DOMAIN Append(pend, r) : Append(pend, r)[i] = r \/ (i \in DOMAIN pend /\ Append(pend, r)[i] = pend[i])
      BY <1>1
    <3>2. \A i \in DOMAIN pend' : \/ pend'[i] = r
                                  \/ i \in DOMAIN pend /\ pend'[i] = pend[i]
      BY <2>6, <3>1
    <3> QED BY <1>2, <2>10, <2>11, <3>2
  <2>13. \A x \in Requests : Untold(x)'
    BY <2>7, <2>10
  <2> QED BY <2>12, <2>13 DEF GivenInv
<1> QED BY <1>1, <1>3, <1>4

LEMMA PacketReadTells ==
  ASSUME IInv, GivenInv, NEW r \in Requests, PacketRead(r)
  PROVE  GivenInv'
<1>1. /\ TypeInv /\ q.state = "online" /\ req[r].st = "new" /\ r \in Direct /\ pend' = pend
      /\ pend \in Seq(Requests)
  BY DEF IInv, PacketRead, TypeInv, OtherType
<1>2. PICK size \in Nat : size = Asked[r]
  BY SizesAssumption
<1>3. PICK t : /\ t = [st |-> "done", left |-> 0 - ReadFor(size).copied, ret |-> size - (0 - ReadFor(size).copied)]
               /\ req' = [req EXCEPT ![r] = t] /\ ReadsNow(r, size, pend)
  BY <1>2 DEF PacketRead, ReadsNow
<1>4. readOut' = Copied(r, ReadFor(size).copied) /\ ReadFor(size).copied \in Nat
  BY <1>3, ReadNowKeeps
<1>5. /\ req'[r] = t /\ t.st = "done"
      /\ \A x \in Requests : x # r => (Owed(x)' <=> Owed(x)) /\ Untold(x)'
  <2>1. PICK c \in Nat : c = ReadFor(size).copied
    BY <1>4
  <2>2. readOut' = Copied(r, c) /\ t.st = "done"
    BY <1>3, <1>4, <2>1
  <2> QED BY <1>1, <1>3, <2>2, ReaderTold
<1>6. ASSUME NEW i \in DOMAIN pend PROVE \E x \in Requests : pend[i] = x /\ Owed(x)'
  <2>1. PICK x \in Requests : x = pend[i] /\ Owed(x) /\ x # r
    BY <1>1 DEF GivenInv, Owed
  <2> QED BY <1>5, <2>1
<1>7. \A i \in DOMAIN pend' : \E x \in Requests : pend'[i] = x /\ Owed(x)'
  BY <1>1, <1>6
<1>8. \A x \in Requests : Untold(x)'
  BY <1>1, <1>5 DEF Untold
<1> QED BY <1>7, <1>8 DEF GivenInv

\* Time-outs and stops tell nobody of success.
LEMMA CallTells ==
  ASSUME IInv, GivenInv, (\E r \in Requests : TimeOut(r)) \/ StopBegin \/ StopEnd
  PROVE  GivenInv'
<1>1. /\ TypeInv /\ readOut' = readOut /\ pend \in Seq(Requests)
      /\ req \in [Requests -> [st : {"new", "waiting", "done", "failed"}, left : Int, ret : Int]]
      /\ q \in [state : {"online", "enabled"}, stopWait : BOOLEAN, listEmpty : BOOLEAN, err : BOOLEAN,
                avail : 0 .. RingSize - 1, pidx : Bufs, pidxPend : Bufs, cidxCmpt : 0 .. CmptSize - 1,
                color : {0, 1}, dlen : Nat, skewed : BOOLEAN]
  BY DEF IInv, TimeOut, StopBegin, StopEnd, TypeInv, OtherType, ReqType, QType
<1>2. \A x : UnitsFor(x)' = UnitsFor(x)
  BY <1>1 DEF UnitsFor
<1>3. ASSUME NEW r \in Requests, TimeOut(r) PROVE GivenInv'
  <2>1. /\ \A x \in Requests : /\ req'[x].left = req[x].left /\ req'[x].ret = req[x].ret
                               /\ req'[x].st = IF x = r THEN "failed" ELSE req[x].st
        /\ \A i \in DOMAIN pend' : \E j \in DOMAIN pend : pend'[i] = pend[j]
    BY <1>1, <1>3, TimeOutIs
  <2>2. \A x \in Requests : Untold(x)'
    BY <1>2, <2>1 DEF GivenInv, Untold
  <2>3. \A x \in Requests : Owed(x) => Owed(x)'
    BY <1>2, <2>1 DEF Owed
  <2>4. q' = q
    BY <1>3 DEF TimeOut
  <2>5. ASSUME q.state = "online", NEW i \in DOMAIN pend'
        PROVE  \E x \in Requests : pend'[i] = x /\ Owed(x)'
    <3>1. PICK j \in DOMAIN pend : pend'[i] = pend[j]
      BY <2>1
    <3>2. PICK x \in Requests : x = pend[j] /\ Owed(x)
      BY <1>1, <2>5 DEF GivenInv
    <3>3. Owed(x)'
      BY <2>3, <3>2
    <3> QED BY <3>1, <3>2, <3>3
  <2>6. q'.state = "online" => \A i \in DOMAIN pend' : \E x \in Requests : pend'[i] = x /\ Owed(x)'
    BY <2>4, <2>5
  <2> QED BY <2>2, <2>6 DEF GivenInv
<1>4. CASE StopBegin
  <2>1. readOut' = readOut /\ req' = req /\ pend' = pend /\ q.state = "online"
    BY <1>4 DEF StopBegin
  <2> QED BY <2>1, NothingGiven
<1>5. CASE StopEnd
  <2>1. q'.state = "enabled"
    BY <1>1, <1>5 DEF StopEnd
  <2>2. req' = [x \in Requests |-> IF req[x].st = "waiting" THEN [req[x] EXCEPT !.st = "failed"] ELSE req[x]]
    BY <1>5 DEF StopEnd
  <2>3. \A x \in Requests : /\ req'[x].ret = req[x].ret
                            /\ req'[x].st = IF req[x].st = "waiting" THEN "failed" ELSE req[x].st
    BY <1>1, <2>2
  <2>4. \A x \in Requests : Untold(x)'
    BY <1>2, <2>3 DEF GivenInv, Untold
  <2> QED BY <2>1, <2>4 DEF GivenInv
<1> QED BY <1>3, <1>4, <1>5


\* A queue that stopped stays stopped, whatever the handler does.
LEMMA HandlerTellsNobody ==
  ASSUME IInv, GivenInv, SvcEntry \/ SvcCidx \/ SvcRefill
  PROVE  GivenInv'
<1>1. q \in QFields
  BY DEF IInv, TypeInv, QType, QFields, QFieldsAt
<1>2. readOut' = readOut /\ req' = req /\ pend' = pend
  BY DEF SvcEntry, SvcCidx, SvcRefill
<1>3. q'.state = q.state
  <2>1. CASE SvcEntry
    <3>1. CASE ErrorEntry
      BY <1>1, <3>1 DEF ErrorEntry, QFields, QFieldsAt
    <3>2. CASE StopAtEntry
      BY <3>2 DEF StopAtEntry
    <3>3. CASE RcvPkt
      <4>1. PICK n, m : q' = NextEntry([q EXCEPT !.avail = n, !.dlen = m])
        BY <3>3 DEF RcvPkt
      <4>2. [q EXCEPT !.avail = n, !.dlen = m].state = q.state
        BY <1>1 DEF QFields, QFieldsAt
      <4>3. PICK p : p = [q EXCEPT !.avail = n, !.dlen = m]
        OBVIOUS
      <4>4. p = [state |-> q.state, stopWait |-> q.stopWait, listEmpty |-> q.listEmpty, err |-> q.err,
                 avail |-> n, pidx |-> q.pidx, pidxPend |-> q.pidxPend, cidxCmpt |-> q.cidxCmpt,
                 color |-> q.color, dlen |-> m, skewed |-> q.skewed]
        BY <1>1, <4>3 DEF QFields, QFieldsAt
      <4>5. PICK i, c : q' = [p EXCEPT !.cidxCmpt = i, !.color = c]
        BY <4>1, <4>3 DEF NextEntry
      <4> QED BY <4>4, <4>5
    <3> QED BY <2>1, <3>1, <3>2, <3>3 DEF SvcEntry
  <2>2. CASE SvcCidx
    <3>1. q' = q \/ q' = [q EXCEPT !.pidx = svc.pidx]
      BY <2>2 DEF SvcCidx
    <3> QED BY <1>1, <3>1 DEF QFields, QFieldsAt
  <2>3. CASE SvcRefill
    <3> DEFINE B == Between(svc.from, q.pidxPend)
               v == q.avail + Cardinality(B)
               l == q.listEmpty \/ pend = <<>>
               k == q.skewed \/ \E b \in B : sdesc[b].off # 0
    <3>1. q' = q \/ q' = [q EXCEPT !.avail = v, !.listEmpty = l, !.skewed = k]
      BY <2>3 DEF SvcRefill, Refilled
    <3> HIDE DEF B, v, l, k
    <3>2. [q EXCEPT !.avail = v, !.listEmpty = l, !.skewed = k].state = q.state
      BY <1>1 DEF QFields, QFieldsAt
    <3> QED BY <3>1, <3>2
  <2> QED BY <2>1, <2>2, <2>3
<1> QED BY <1>2, <1>3, NothingGiven

LEMMA InitTells ==
  ASSUME Init
  PROVE  GivenInv
<1>1. readOut = <<>> /\ pend = <<>> /\ req = [r \in Requests |-> [st |-> "new", left |-> 0, ret |-> 0]]
  BY DEF Init
<1>2. ASSUME NEW r \in Requests PROVE UnitsFor(r) = 0
  <2>1. {i \in DOMAIN readOut : readOut[i].to = r} = {}
    BY <1>1
  <2> QED BY <2>1, FS_EmptySet DEF UnitsFor
<1>3. \A r \in Requests : req[r].st = "new" /\ req[r].ret = 0
  BY <1>1
<1>4. \A r \in Requests : Untold(r)
  BY <1>2, <1>3 DEF Untold
<1>5. DOMAIN pend = {}
  BY <1>1
<1> QED BY <1>4, <1>5 DEF GivenInv

LEMMA NextTells ==
  ASSUME IInv, GivenInv, [Next]_vars
  PROVE  GivenInv'
<1>1. CASE \E len \in Lengths : HwPacket(len)
  BY <1>1, NothingGiven DEF HwPacket
<1>2. CASE HwError
  BY <1>2, NothingGiven DEF HwError
<1>3. CASE Notices \/ OtherInterrupt
  BY <1>3, NothingGiven DEF Notices, HwInterrupt, HwRingEntry, Isr, OtherInterrupt
<1>4. CASE IntrWork \/ PollWork
  BY <1>4, NothingGiven DEF IntrWork, PollWork
<1>5. CASE SvcEntry \/ SvcCidx \/ SvcRefill
  BY <1>5, HandlerTellsNobody
<1>6. CASE SvcDeliver
  BY <1>6, DeliverTells
<1>7. CASE \E r \in Requests : Submit(r) \/ PacketRead(r)
  BY <1>7, SubmitTells, PacketReadTells
<1>8. CASE (\E r \in Requests : TimeOut(r)) \/ StopBegin \/ StopEnd
  BY <1>8, CallTells
<1>9. CASE UNCHANGED vars
  BY <1>9, NothingGiven DEF vars
<1> QED BY <1>1, <1>2, <1>3, <1>4, <1>5, <1>6, <1>7, <1>8, <1>9 DEF Next, Handler

\* Readers get the stream: unit by unit in the order sent, as long as no
\* half-read buffer was recycled, and a caller that waited and succeeds is told
\* the number of units it was given (qdma_request_submit_st_c2h,
\* qdma_c2h_packets_proc_dflt, qdma_sgt_req_done).
THEOREM ReadersAlwaysGetTheStream ==
  ASSUME SameBuffers
  PROVE  Spec => []ReadersGetTheStream
<1>1. Init => IInv /\ GivenInv
  BY InitInv, InitTells
<1>2. (IInv /\ GivenInv) /\ [Next]_vars => (IInv /\ GivenInv)'
  BY NextKeeps, NextTells
<1>3. IInv /\ GivenInv => ReadersGetTheStream
  <2>1. GivenInv => ReturnsWhatItCopied
    BY DEF GivenInv, Untold, ReturnsWhatItCopied
  <2> QED BY <2>1 DEF IInv, ReadersGetTheStream
<1> QED BY <1>1, <1>2, <1>3, PTL DEF Spec
=============================================================================
