-------------------------- MODULE QdmaResourceProofs --------------------------
(***************************************************************************)
(* Proofs about QdmaResource for a board of any size, any number of        *)
(* functions and any kinds of queue.  First come the operations on the     *)
(* free list, each by what it does to the set of free queues; from them    *)
(* follows that the ranges partition the board.                            *)
(***************************************************************************)
EXTENDS QdmaResource, SequenceTheorems, FiniteSetTheorems, WellFoundedInduction, TLAPS

\* A set of naturals that is not empty has a least element.
LEMMA LeastOf ==
  ASSUME NEW S, S \subseteq Nat, S # {}
  PROVE  \E n \in S : \A m \in S : n <= m
<1>1. PICK n \in S : \A m \in S : ~(<<m, n>> \in OpToRel(<, Nat))
  BY NatLessThanWellFounded, WFMin
<1>2. OpToRel(<, Nat) = {ss \in Nat \X Nat : ss[1] < ss[2]}
  BY DEF OpToRel
<1>3. ASSUME NEW m \in S PROVE n <= m
  <2>1. ~(m < n)
    BY <1>1, <1>2
  <2> QED BY <2>1
<1> QED BY <1>3

LEMMA MinIn ==
  ASSUME NEW S, S \subseteq Nat, S # {}
  PROVE  Min(S) \in S /\ \A m \in S : Min(S) <= m
<1>1. \E n \in S : \A m \in S : n <= m
  BY LeastOf
<1> QED BY <1>1 DEF Min

\* And a greatest when it has a bound.
LEMMA MaxIn ==
  ASSUME NEW S, S # {}, NEW b \in Nat, S \subseteq 1 .. b
  PROVE  Max(S) \in S /\ \A m \in S : m <= Max(S)
<1> DEFINE G == {b - m : m \in S}
<1>1. G \subseteq Nat /\ G # {}
  <2>1. \A m \in S : b - m \in Nat
    OBVIOUS
  <2> QED BY <2>1
<1>2. PICK g \in G : \A k \in G : g <= k
  <2> HIDE DEF G
  <2> QED BY <1>1, LeastOf
<1>3. PICK n \in S : g = b - n
  BY <1>2
<1>4. ASSUME NEW m \in S PROVE n >= m
  <2>1. g <= b - m
    BY <1>2
  <2> QED BY <1>3, <2>1
<1>5. Max(S) \in S /\ \A y \in S : Max(S) >= y
  BY <1>4 DEF Max
<1> QED BY <1>5

-----------------------------------------------------------------------------
(* Lists of chunks and the queues they cover.                              *)

Chunks == [qbase : Nat, total_q : Nat \ {0}]

\* The chunks are in order and do not overlap.
Sorted(l) ==
  /\ l \in Seq(Chunks)
  /\ \A i, j \in DOMAIN l : i < j => End(l[i]) <= l[j].qbase

\* The queues in the chunks of list l.
Free(l) == UNION {Covers(l[i]) : i \in DOMAIN l}

\* Chunk c lies in one chunk of list l.
Within(c, l) == \E i \in DOMAIN l : l[i].qbase <= c.qbase /\ End(c) <= End(l[i])

LEMMA InChunk ==
  ASSUME NEW c, c.qbase \in Int, c.total_q \in Int
  PROVE  \A x : x \in Covers(c) <=> (x \in Int /\ c.qbase <= x /\ x < End(c))
BY DEF Covers, End

LEMMA InFree ==
  ASSUME NEW l, NEW x
  PROVE  x \in Free(l) <=> \E i \in DOMAIN l : x \in Covers(l[i])
BY DEF Free

\* A chunk is not empty: it has a first and a last queue.
LEMMA Ends ==
  ASSUME NEW c \in Chunks
  PROVE  /\ c.qbase \in Nat /\ c.total_q \in Nat /\ End(c) \in Nat /\ c.qbase < End(c)
         /\ c.qbase \in Covers(c) /\ End(c) - 1 \in Covers(c)
<1>1. c.qbase \in Nat /\ c.total_q \in Nat \ {0}
  BY DEF Chunks
<1> QED BY <1>1 DEF Covers, End

LEMMA Elements ==
  ASSUME NEW l, Sorted(l)
  PROVE  /\ Len(l) \in Nat /\ DOMAIN l = 1 .. Len(l)
         /\ \A i \in 1 .. Len(l) : l[i] \in Chunks
BY DEF Sorted

LEMMA EmptySorted == Sorted(<<>>) /\ Free(<<>>) = {}
BY DEF Sorted, Free

LEMMA SingleSorted ==
  ASSUME NEW c \in Chunks
  PROVE  Sorted(<<c>>) /\ Free(<<c>>) = Covers(c)
<1>1. <<c>> \in Seq(Chunks) /\ Len(<<c>>) = 1 /\ <<c>>[1] = c /\ DOMAIN <<c>> = {1}
  OBVIOUS
<1> QED BY <1>1 DEF Sorted, Free

\* Two lists, the queues of the first before those of the second, make one.
LEMMA Together ==
  ASSUME NEW a, NEW b, Sorted(a), Sorted(b),
         \A x \in Free(a), y \in Free(b) : x < y
  PROVE  /\ Sorted(a \o b) /\ Free(a \o b) = Free(a) \cup Free(b)
         /\ \A c : Within(c, a) \/ Within(c, b) => Within(c, a \o b)
<1> DEFINE r == a \o b
           m == Len(a)
           n == Len(b)
<1>1. /\ m \in Nat /\ DOMAIN a = 1 .. m /\ \A i \in 1 .. m : a[i] \in Chunks
      /\ n \in Nat /\ DOMAIN b = 1 .. n /\ \A i \in 1 .. n : b[i] \in Chunks
      /\ a \in Seq(Chunks) /\ b \in Seq(Chunks)
  BY Elements DEF Sorted
<1>2. /\ r \in Seq(Chunks) /\ Len(r) = m + n /\ DOMAIN r = 1 .. m + n
      /\ \A i \in 1 .. m + n : r[i] = IF i <= m THEN a[i] ELSE b[i - m]
  BY <1>1, ConcatProperties, LenProperties
<1>3. /\ \A i \in 1 .. m : i \in 1 .. m + n /\ r[i] = a[i]
      /\ \A i \in 1 .. n : i + m \in 1 .. m + n /\ r[i + m] = b[i]
      /\ \A i \in 1 .. m + n : i \in 1 .. m \/ (i - m \in 1 .. n /\ (i - m) + m = i)
  BY <1>1, <1>2
<1> HIDE DEF r, m, n
<1>4. ASSUME NEW i \in 1 .. m, NEW j \in 1 .. n PROVE End(a[i]) <= b[j].qbase
  <2>1. End(a[i]) - 1 \in Free(a) /\ b[j].qbase \in Free(b)
    BY <1>1, Ends, InFree
  <2>2. End(a[i]) - 1 < b[j].qbase
    BY <2>1
  <2>3. End(a[i]) \in Nat /\ b[j].qbase \in Nat
    BY <1>1, Ends
  <2> QED BY <2>2, <2>3
<1>5. ASSUME NEW i \in 1 .. m + n, NEW j \in 1 .. m + n, i < j
      PROVE  End(r[i]) <= r[j].qbase
  <2>1. CASE i \in 1 .. m /\ j \in 1 .. m
    BY <1>1, <1>3, <1>5, <2>1 DEF Sorted
  <2>2. CASE i \in 1 .. m /\ j \notin 1 .. m
    <3>1. j - m \in 1 .. n /\ r[j] = b[j - m]
      BY <1>1, <1>2, <1>3, <2>2
    <3> QED BY <1>3, <1>4, <2>2, <3>1
  <2>3. CASE i \notin 1 .. m
    <3>1. /\ i - m \in 1 .. n /\ r[i] = b[i - m]
          /\ j - m \in 1 .. n /\ r[j] = b[j - m] /\ i - m < j - m
      BY <1>1, <1>2, <1>5, <2>3
    <3> QED BY <1>1, <3>1 DEF Sorted
  <2> QED BY <2>1, <2>2, <2>3
<1>6. Sorted(r)
  BY <1>2, <1>5 DEF Sorted
<1>7. ASSUME NEW x PROVE x \in Free(r) <=> x \in Free(a) \cup Free(b)
  <2>1. ASSUME x \in Free(r) PROVE x \in Free(a) \cup Free(b)
    <3>1. PICK i \in 1 .. m + n : x \in Covers(r[i])
      BY <1>2, <2>1, InFree
    <3>2. CASE i \in 1 .. m
      BY <1>1, <1>3, <3>1, <3>2, InFree
    <3>3. CASE i \notin 1 .. m
      <4>1. i - m \in 1 .. n /\ r[i] = b[i - m]
        BY <1>1, <1>2, <1>3, <3>3
      <4> QED BY <1>1, <3>1, <4>1, InFree
    <3> QED BY <3>2, <3>3
  <2>2. ASSUME x \in Free(a) PROVE x \in Free(r)
    <3>1. PICK i \in 1 .. m : x \in Covers(a[i])
      BY <1>1, <2>2, InFree
    <3> QED BY <1>2, <1>3, <3>1, InFree
  <2>3. ASSUME x \in Free(b) PROVE x \in Free(r)
    <3>1. PICK i \in 1 .. n : x \in Covers(b[i])
      BY <1>1, <2>3, InFree
    <3> QED BY <1>2, <1>3, <3>1, InFree
  <2> QED BY <2>1, <2>2, <2>3
<1>8. ASSUME NEW c, Within(c, a) \/ Within(c, b) PROVE Within(c, r)
  <2>1. CASE Within(c, a)
    <3>1. PICK i \in 1 .. m : a[i].qbase <= c.qbase /\ End(c) <= End(a[i])
      BY <1>1, <2>1 DEF Within
    <3> QED BY <1>2, <1>3, <3>1 DEF Within
  <2>2. CASE Within(c, b)
    <3>1. PICK i \in 1 .. n : b[i].qbase <= c.qbase /\ End(c) <= End(b[i])
      BY <1>1, <2>2 DEF Within
    <3> QED BY <1>2, <1>3, <3>1 DEF Within
  <2> QED BY <1>8, <2>1, <2>2
<1> QED BY <1>6, <1>7, <1>8 DEF r

\* A part of a list.
LEMMA PartSorted ==
  ASSUME NEW l, Sorted(l), NEW m \in 1 .. Len(l) + 1, NEW n \in m - 1 .. Len(l)
  PROVE  /\ Sorted(SubSeq(l, m, n))
         /\ \A x : x \in Free(SubSeq(l, m, n)) <=> \E i \in m .. n : x \in Covers(l[i])
         /\ \A c, i : (/\ i \in m .. n /\ l[i].qbase <= c.qbase /\ End(c) <= End(l[i]))
                        => Within(c, SubSeq(l, m, n))
<1> DEFINE s == SubSeq(l, m, n)
           k == n - m + 1
<1>1. Len(l) \in Nat /\ DOMAIN l = 1 .. Len(l) /\ \A i \in 1 .. Len(l) : l[i] \in Chunks
  BY Elements
<1>2. m \in Int /\ n \in Int /\ k \in Nat /\ \A i \in m .. n : i \in 1 .. Len(l)
  BY <1>1
<1>3. s \in Seq(Chunks) /\ Len(s) = k /\ \A i \in 1 .. k : s[i] = l[m + i - 1]
  BY <1>1, <1>2, SubSeqProperties
<1>4. DOMAIN s = 1 .. k
  BY <1>3, LenProperties
<1>5. /\ \A i \in 1 .. k : m + i - 1 \in m .. n
      /\ \A i \in m .. n : i - m + 1 \in 1 .. k /\ m + (i - m + 1) - 1 = i
  BY <1>2
<1> HIDE DEF s, k
<1>6. ASSUME NEW i \in 1 .. k, NEW j \in 1 .. k, i < j PROVE End(s[i]) <= s[j].qbase
  <2> DEFINE x == m + i - 1
             y == m + j - 1
  <2>1. x < y /\ x \in 1 .. Len(l) /\ y \in 1 .. Len(l)
    BY <1>1, <1>2, <1>5, <1>6
  <2>2. s[i] = l[x] /\ s[j] = l[y]
    BY <1>3
  <2> HIDE DEF x, y
  <2> QED BY <1>1, <2>1, <2>2 DEF Sorted
<1>7. Sorted(s)
  BY <1>3, <1>4, <1>6 DEF Sorted
<1>8. ASSUME NEW x PROVE x \in Free(s) <=> \E i \in m .. n : x \in Covers(l[i])
  <2>1. ASSUME NEW i \in m .. n, x \in Covers(l[i]) PROVE x \in Free(s)
    <3>1. i - m + 1 \in 1 .. k /\ s[i - m + 1] = l[i]
      BY <1>3, <1>5
    <3> QED BY <1>4, <2>1, <3>1, InFree
  <2>2. ASSUME x \in Free(s) PROVE \E i \in m .. n : x \in Covers(l[i])
    <3>1. PICK i \in 1 .. k : x \in Covers(s[i])
      BY <1>4, <2>2, InFree
    <3> QED BY <1>3, <1>5, <3>1
  <2> QED BY <2>1, <2>2
<1>9. ASSUME NEW c, NEW i \in m .. n, l[i].qbase <= c.qbase, End(c) <= End(l[i])
      PROVE  Within(c, s)
  <2>1. i - m + 1 \in 1 .. k /\ s[i - m + 1] = l[i]
    BY <1>3, <1>5
  <2> QED BY <1>4, <1>9, <2>1 DEF Within
<1> QED BY <1>7, <1>8, <1>9 DEF s


-----------------------------------------------------------------------------
(* Giving queues back.                                                     *)

\* Of two chunks without a common queue the one that begins first ends first.
LEMMA Apart ==
  ASSUME NEW c \in Chunks, NEW d \in Chunks, Covers(c) \cap Covers(d) = {},
         d.qbase <= c.qbase
  PROVE  End(d) <= c.qbase /\ \A x \in Covers(d), y \in Covers(c) : x < y
<1>1. /\ c.qbase \in Nat /\ c.total_q \in Nat \ {0} /\ d.qbase \in Nat
      /\ d.total_q \in Nat \ {0}
  BY DEF Chunks
<1>2. c.qbase \notin Covers(d)
  BY Ends
<1>3. End(d) <= c.qbase
  BY <1>1, <1>2 DEF Covers, End
<1> QED BY <1>1, <1>3 DEF Covers, End

LEMMA AppendIs ==
  ASSUME NEW l \in Seq(Chunks), NEW c \in Chunks
  PROVE  Append(l, c) = l \o <<c>>
OBVIOUS

\* A chunk of other queues is put in its place.
LEMMA Inserted ==
  ASSUME NEW l, Sorted(l), NEW c \in Chunks, Covers(c) \cap Free(l) = {}
  PROVE  /\ Sorted(InsertChunk(c, l)) /\ Free(InsertChunk(c, l)) = Free(l) \cup Covers(c)
         /\ Within(c, InsertChunk(c, l))
<1> DEFINE later == {i \in DOMAIN l : l[i].qbase > c.qbase}
           n == Len(l)
<1>1. n \in Nat /\ DOMAIN l = 1 .. n /\ \A i \in 1 .. n : l[i] \in Chunks
  BY Elements
<1>2. \A i \in 1 .. n : Covers(c) \cap Covers(l[i]) = {}
  BY <1>1, InFree
<1>3. c.qbase \in Nat /\ \A i \in 1 .. n : l[i].qbase \in Nat
  BY <1>1, Ends
<1>4. Sorted(<<c>>) /\ Free(<<c>>) = Covers(c)
  BY SingleSorted
<1>5. Within(c, <<c>>)
  <2>1. DOMAIN <<c>> = {1} /\ <<c>>[1] = c
    OBVIOUS
  <2>2. c.qbase \in Nat /\ End(c) \in Nat
    BY Ends
  <2> QED BY <2>1, <2>2 DEF Within
<1>6. CASE later = {}
  <2>1. InsertChunk(c, l) = l \o <<c>>
    BY <1>6, AppendIs DEF InsertChunk, Sorted
  <2>2. ASSUME NEW x \in Free(l), NEW y \in Covers(c) PROVE x < y
    <3>1. PICK i \in 1 .. n : x \in Covers(l[i])
      BY <1>1, InFree
    <3>2. l[i].qbase <= c.qbase
      BY <1>1, <1>3, <1>6
    <3> QED BY <1>1, <1>2, <3>1, <3>2, Apart
  <2> QED BY <1>4, <1>5, <2>1, <2>2, Together
<1>7. CASE later # {}
  <2> DEFINE k == Min(later)
             a == SubSeq(l, 1, k - 1)
             b == SubSeq(l, k, n)
  <2>1. later \subseteq Nat /\ later \subseteq 1 .. n
    BY <1>1
  <2>2. k \in later /\ \A m \in later : k <= m
    <3> HIDE DEF later
    <3> QED BY <1>7, <2>1, MinIn
  <2>3. k \in 1 .. n /\ l[k].qbase > c.qbase
    BY <1>1, <2>2
  <2>4. InsertChunk(c, l) = a \o <<c>> \o b
    <3> HIDE DEF k
    <3> QED BY <1>7, Zenon DEF InsertChunk, InsertAt, k, a, b, n, later
  <2>5. \A i \in 1 .. k - 1 : l[i].qbase <= c.qbase
    <3> SUFFICES ASSUME NEW i \in 1 .. k - 1, ~(l[i].qbase <= c.qbase) PROVE FALSE
      OBVIOUS
    <3>1. i \in 1 .. n /\ ~(k <= i)
      BY <1>1, <2>3
    <3>2. i \in later
      BY <1>1, <1>3, <3>1
    <3> QED BY <2>2, <3>1, <3>2
  <2>6. \A i \in k .. n : c.qbase <= l[i].qbase
    <3> SUFFICES ASSUME NEW i \in k .. n PROVE c.qbase <= l[i].qbase
      OBVIOUS
    <3>1. i \in 1 .. n /\ (i = k \/ k < i)
      BY <1>1, <2>3
    <3>2. CASE k < i
      <4>1. End(l[k]) <= l[i].qbase /\ l[k].qbase < End(l[k]) /\ End(l[k]) \in Nat
        BY <1>1, <2>3, <3>1, <3>2, Ends DEF Sorted
      <4> QED BY <1>3, <2>3, <3>1, <4>1
    <3> QED BY <1>3, <2>3, <3>1, <3>2
  <2> HIDE DEF later, k
  <2>7. k - 1 \in 0 .. n /\ 1 \in 1 .. n + 1 /\ k \in 1 .. n + 1 /\ n \in k - 1 .. n
    BY <1>1, <2>3
  <2>8. Sorted(a) /\ \A x : x \in Free(a) <=> \E i \in 1 .. k - 1 : x \in Covers(l[i])
    <3> DEFINE o == 1
               m == k - 1
    <3>1. o \in 1 .. Len(l) + 1 /\ m \in o - 1 .. Len(l)
      BY <1>1, <2>7
    <3> HIDE DEF o, m
    <3>2. /\ Sorted(SubSeq(l, o, m))
          /\ \A x : x \in Free(SubSeq(l, o, m)) <=> \E i \in o .. m : x \in Covers(l[i])
      BY <3>1, PartSorted
    <3> QED BY <3>2 DEF o, m
  <2>9. Sorted(b) /\ \A x : x \in Free(b) <=> \E i \in k .. n : x \in Covers(l[i])
    BY <2>7, PartSorted
  <2>10. \A i \in 1 .. n : i \in 1 .. k - 1 \/ i \in k .. n
    BY <1>1, <2>3
  <2>11. \A i \in 1 .. k - 1 : i \in 1 .. n
    BY <1>1, <2>3
  <2>12. \A i \in k .. n : i \in 1 .. n
    BY <1>1, <2>3
  <2>13. ASSUME NEW x \in Free(a), NEW y \in Covers(c) PROVE x < y
    <3>1. PICK i \in 1 .. k - 1 : x \in Covers(l[i])
      BY <2>8
    <3> QED BY <1>1, <1>2, <2>5, <2>11, <3>1, Apart
  <2>14. ASSUME NEW x \in Covers(c), NEW y \in Free(b) PROVE x < y
    <3>1. PICK i \in k .. n : y \in Covers(l[i])
      BY <2>9
    <3> QED BY <1>1, <1>2, <2>6, <2>12, <3>1, Apart
  <2>15. ASSUME NEW x \in Free(a), NEW y \in Free(b) PROVE x < y
    <3>1. c.qbase \in Covers(c) /\ c.qbase \in Nat
      BY Ends
    <3>2. x < c.qbase /\ c.qbase < y
      BY <2>13, <2>14, <3>1
    <3>3. x \in Int /\ y \in Int
      <4>1. \A i \in 1 .. n : Covers(l[i]) \subseteq Int
        BY <1>1, Ends DEF Covers
      <4> QED BY <2>8, <2>9, <2>11, <2>12, <4>1
    <3> QED BY <3>1, <3>2, <3>3
  <2> HIDE DEF a, b
  <2>16. Sorted(a \o <<c>>) /\ Free(a \o <<c>>) = Free(a) \cup Covers(c) /\ Within(c, a \o <<c>>)
    BY <1>4, <1>5, <2>8, <2>13, Together
  <2>17. \A x \in Free(a \o <<c>>), y \in Free(b) : x < y
    BY <2>14, <2>15, <2>16
  <2>18. /\ Sorted(a \o <<c>> \o b)
         /\ Free(a \o <<c>> \o b) = Free(a) \cup Covers(c) \cup Free(b)
         /\ Within(c, a \o <<c>> \o b)
    BY <2>9, <2>16, <2>17, Together
  <2>19. Free(a) \cup Free(b) = Free(l)
    <3>1. ASSUME NEW x PROVE x \in Free(l) <=> x \in Free(a) \cup Free(b)
      BY <1>1, <2>8, <2>9, <2>10, <2>11, <2>12, InFree
    <3> QED BY <3>1
  <2> QED BY <2>4, <2>18, <2>19
<1> QED BY <1>6, <1>7


\* A chunk behind the others joins the last one or follows it.
LEMMA StretchedOK ==
  ASSUME NEW l, Sorted(l), NEW c \in Chunks, \A x \in Free(l) : x < c.qbase
  PROVE  /\ Sorted(Stretched(l, c)) /\ Free(Stretched(l, c)) = Free(l) \cup Covers(c)
         /\ Within(c, Stretched(l, c))
         /\ \A d \in Chunks : Within(d, l) => Within(d, Stretched(l, c))
<1> DEFINE n == Len(l)
           r == Stretched(l, c)
<1>1. n \in Nat /\ DOMAIN l = 1 .. n /\ \A i \in 1 .. n : l[i] \in Chunks
  BY Elements
<1>2. /\ c.qbase \in Nat /\ c.total_q \in Nat \ {0} /\ End(c) \in Nat
      /\ \A i \in 1 .. n : l[i].qbase \in Nat /\ l[i].total_q \in Nat \ {0}
  BY <1>1 DEF Chunks, End
<1>3. CASE l # <<>> /\ End(l[n]) = c.qbase
  <2>1. n \in 1 .. n
    BY <1>1, <1>3 DEF Sorted
  <2>2. r = [l EXCEPT ![n].total_q = @ + c.total_q]
    BY <1>3 DEF Stretched, Last
  <2> DEFINE e == [qbase |-> l[n].qbase, total_q |-> l[n].total_q + c.total_q]
  <2>3. r[n] = e /\ e \in Chunks /\ DOMAIN r = 1 .. n
        /\ \A i \in 1 .. n : i # n => r[i] = l[i]
    BY <1>1, <1>2, <2>1, <2>2 DEF Chunks
  <2>4. r = [l EXCEPT ![n] = e]
    <3>1. \A i \in 1 .. n : r[i] = [l EXCEPT ![n] = e][i]
      BY <1>1, <2>1, <2>3
    <3> QED BY <1>1, <2>2, <3>1
  <2>5. r \in Seq(Chunks) /\ Len(r) = n
    <3>1. l \in Seq(Chunks)
      BY DEF Sorted
    <3> HIDE DEF e, r
    <3> QED BY <2>1, <2>3, <2>4, <3>1, ExceptSeq
  <2>6. End(l[n]) = c.qbase /\ End(e) = End(c) /\ e.qbase = l[n].qbase
    BY <1>2, <1>3, <2>1 DEF End
  <2>7. Covers(e) = Covers(l[n]) \cup Covers(c)
    <3>1. /\ l[n].qbase \in Nat /\ End(l[n]) = c.qbase /\ End(l[n]) \in Nat
          /\ l[n].qbase < End(l[n]) /\ c.qbase < End(c)
      BY <1>1, <1>2, <2>1, <2>6, Ends
    <3> QED BY <1>2, <2>6, <3>1 DEF Covers
  <2> HIDE DEF e, r
  <2>8. \A i, j \in 1 .. n : i < j => End(r[i]) <= r[j].qbase
    <3> SUFFICES ASSUME NEW i \in 1 .. n, NEW j \in 1 .. n, i < j
                 PROVE  End(r[i]) <= r[j].qbase
      OBVIOUS
    <3>1. i # n /\ r[i] = l[i]
      <4>1. n \in Nat /\ i \in Nat /\ j \in Nat /\ j <= n
        BY <1>1
      <4>2. i # n
        BY <4>1
      <4> QED BY <2>3, <4>2
    <3>2. r[j].qbase = l[j].qbase
      <4>1. CASE j = n
        BY <2>3, <2>6, <4>1
      <4>2. CASE j # n
        BY <2>3, <4>2
      <4> QED BY <4>1, <4>2
    <3> QED BY <1>1, <3>1, <3>2 DEF Sorted
  <2>9. Sorted(r)
    BY <2>3, <2>5, <2>8 DEF Sorted
  <2>10. ASSUME NEW x PROVE x \in Free(r) <=> x \in Free(l) \cup Covers(c)
    <3>1. x \in Free(r) <=> \E i \in 1 .. n : x \in Covers(r[i])
      BY <2>3, InFree
    <3>2. x \in Free(l) <=> \E i \in 1 .. n : x \in Covers(l[i])
      BY <1>1, InFree
    <3> QED BY <2>1, <2>3, <2>7, <3>1, <3>2
  <2>11. Within(c, r)
    <3>1. r[n].qbase <= c.qbase /\ End(c) <= End(r[n])
      BY <1>2, <2>1, <2>3, <2>6 DEF End
    <3> QED BY <2>1, <2>3, <3>1 DEF Within
  <2>12. ASSUME NEW d \in Chunks, Within(d, l) PROVE Within(d, r)
    <3>1. PICK i \in 1 .. n : l[i].qbase <= d.qbase /\ End(d) <= End(l[i])
      BY <1>1, <2>12 DEF Within
    <3>2. CASE i # n
      BY <2>3, <3>1, <3>2 DEF Within
    <3>3. CASE i = n
      <4>1. End(l[n]) \in Nat /\ End(l[n]) <= End(e)
        BY <1>2, <2>1, <2>6 DEF End
      <4>2. d.qbase \in Nat /\ End(d) \in Nat
        BY Ends
      <4>3. End(d) <= End(e)
        BY <1>2, <2>6, <3>1, <3>3, <4>1, <4>2
      <4>4. r[n].qbase <= d.qbase /\ End(d) <= End(r[n])
        BY <2>3, <2>6, <3>1, <3>3, <4>3
      <4> QED BY <2>1, <2>3, <4>4 DEF Within
    <3> QED BY <3>2, <3>3
  <2> QED BY <2>9, <2>10, <2>11, <2>12 DEF r
<1>4. CASE ~(l # <<>> /\ End(l[n]) = c.qbase)
  <2>1. r = l \o <<c>>
    BY <1>4, AppendIs DEF Stretched, Last, Sorted
  <2>2. Sorted(<<c>>) /\ Free(<<c>>) = Covers(c)
    BY SingleSorted
  <2>3. Within(c, <<c>>)
    <3>1. DOMAIN <<c>> = {1} /\ <<c>>[1] = c
      OBVIOUS
    <3> QED BY <1>2, <3>1 DEF Within
  <2>4. ASSUME NEW x \in Free(l), NEW y \in Covers(c) PROVE x < y
    <3>1. x < c.qbase /\ c.qbase <= y /\ y \in Int
      BY <1>2 DEF Covers
    <3>2. PICK i \in 1 .. n : x \in Covers(l[i])
      BY <1>1, InFree
    <3>3. x \in Int
      BY <1>2, <3>2 DEF Covers
    <3> QED BY <1>2, <3>1, <3>3
  <2> QED BY <2>1, <2>2, <2>3, <2>4, Together
<1> QED BY <1>3, <1>4

\* One turn of the loop that merges chunks.
MergeTurn(list, f, n) == IF n = 0 THEN <<>> ELSE Stretched(f[n - 1], list[n])

\* The loop has a run over the first n chunks.
LEMMA MergeRuns ==
  ASSUME NEW list, NEW n \in Nat
  PROVE  \E f : f = [v \in 0 .. n |-> MergeTurn(list, f, v)]
<1> DEFINE Bad == {m \in Nat : ~(\E f : f = [v \in 0 .. m |-> MergeTurn(list, f, v)])}
<1> SUFFICES ASSUME Bad # {} PROVE FALSE
  BY Zenon
<1>1. Bad \subseteq Nat
  OBVIOUS
<1>2. PICK m \in Bad : \A k \in Bad : m <= k
  <2> HIDE DEF Bad
  <2> QED BY <1>1, LeastOf
<1>3. ~(\E f : f = [v \in 0 .. m |-> MergeTurn(list, f, v)]) /\ m \in Nat
  BY <1>2, Zenon
<1>4. CASE m = 0
  <2> DEFINE g == [v \in 0 .. 0 |-> <<>>]
  <2>1. g = [v \in 0 .. 0 |-> MergeTurn(list, g, v)]
    BY DEF MergeTurn
  <2> QED BY <1>3, <1>4, <2>1, Zenon
<1>5. CASE m # 0
  <2>1. m - 1 \in Nat /\ m - 1 < m
    BY <1>3, <1>5
  <2>2. m - 1 \notin Bad
    BY <1>2, <2>1, <1>3
  <2>3. PICK f : f = [v \in 0 .. m - 1 |-> MergeTurn(list, f, v)]
    BY <2>1, <2>2, Zenon
  <2> HIDE DEF Bad
  <2> DEFINE g == [v \in 0 .. m |-> IF v < m THEN f[v] ELSE MergeTurn(list, f, m)]
  <2>4. \A v \in 0 .. m - 1 : g[v] = f[v] /\ f[v] = MergeTurn(list, f, v)
    BY <1>3, <2>1, <2>3
  <2>5. g[m] = MergeTurn(list, f, m)
    BY <1>3
  <2>6. \A v \in 0 .. m : MergeTurn(list, g, v) = MergeTurn(list, f, v)
    <3> SUFFICES ASSUME NEW v \in 0 .. m, v # 0 PROVE g[v - 1] = f[v - 1]
      BY DEF MergeTurn
    <3>1. v - 1 \in 0 .. m - 1
      BY <1>3
    <3> QED BY <2>4, <3>1
  <2>7. \A v \in 0 .. m : g[v] = MergeTurn(list, g, v)
    <3> SUFFICES ASSUME NEW v \in 0 .. m PROVE g[v] = MergeTurn(list, g, v)
      OBVIOUS
    <3>1. v \in 0 .. m - 1 \/ v = m
      BY <1>3
    <3> HIDE DEF g
    <3> QED BY <2>4, <2>5, <2>6, <3>1
  <2>8. g = [v \in 0 .. m |-> g[v]]
    OBVIOUS
  <2>9. g = [v \in 0 .. m |-> MergeTurn(list, g, v)]
    <3> HIDE DEF g
    <3> QED BY <2>7, <2>8
  <2> QED BY <1>3, <2>9, Zenon
<1> QED BY <1>4, <1>5

\* Merging keeps the queues and the order, and breaks no chunk up.
LEMMA Merged ==
  ASSUME NEW list, Sorted(list)
  PROVE  /\ Sorted(MergeChunks(list)) /\ Free(MergeChunks(list)) = Free(list)
         /\ \A d \in Chunks : Within(d, list) => Within(d, MergeChunks(list))
<1> DEFINE n == Len(list)
           m == CHOOSE f : f = [v \in 0 .. n |-> MergeTurn(list, f, v)]
<1>1. n \in Nat /\ DOMAIN list = 1 .. n /\ \A i \in 1 .. n : list[i] \in Chunks
  BY Elements
<1>2. m = [v \in 0 .. n |-> MergeTurn(list, m, v)]
  BY <1>1, MergeRuns, Zenon
<1>3. MergeChunks(list) = m[n]
  BY Zenon DEF MergeChunks, MergeTurn
<1> HIDE DEF m
<1>4. \A v \in 0 .. n : m[v] = MergeTurn(list, m, v)
  BY <1>2
<1> DEFINE Done(v) ==
             /\ Sorted(m[v])
             /\ \A x : x \in Free(m[v]) <=> \E i \in 1 .. v : x \in Covers(list[i])
             /\ \A i \in 1 .. v, d \in Chunks : (list[i].qbase <= d.qbase /\ End(d) <= End(list[i]))
                                        => Within(d, m[v])
           Bad == {v \in 0 .. n : ~Done(v)}
<1>5. Done(0)
  <2>1. m[0] = <<>>
    BY <1>1, <1>4 DEF MergeTurn
  <2> QED BY <2>1, EmptySorted
<1>6. ASSUME NEW v \in 1 .. n, Done(v - 1) PROVE Done(v)
  <2> DEFINE a == m[v - 1]
             c == list[v]
  <2>1. m[v] = Stretched(a, c) /\ c \in Chunks
    BY <1>1, <1>4 DEF MergeTurn
  <2>2. /\ Sorted(a)
        /\ \A x : x \in Free(a) <=> \E i \in 1 .. v - 1 : x \in Covers(list[i])
        /\ \A i \in 1 .. v - 1, d \in Chunks : (list[i].qbase <= d.qbase /\ End(d) <= End(list[i]))
                                      => Within(d, a)
    BY <1>6
  <2>3. \A i \in 1 .. v - 1 : i \in 1 .. n /\ i < v
    BY <1>1
  <2>4. \A i \in 1 .. v : i \in 1 .. v - 1 \/ i = v
    BY <1>1
  <2>5. \A i \in 1 .. v - 1 : i \in 1 .. v
    BY <1>1
  <2>6. v \in 1 .. v
    BY <1>1
  <2> HIDE DEF a, Done, c
  <2>7. ASSUME NEW x \in Free(a) PROVE x < c.qbase
    <3>1. PICK i \in 1 .. v - 1 : x \in Covers(list[i])
      BY <2>2
    <3>2. End(list[i]) <= c.qbase /\ list[i] \in Chunks
      BY <1>1, <2>3 DEF Sorted, c
    <3>3. x \in Int /\ x < End(list[i]) /\ End(list[i]) \in Nat
      BY <3>1, <3>2, Ends DEF Covers
    <3>4. c.qbase \in Nat
      BY <2>1, Ends
    <3> QED BY <3>2, <3>3, <3>4
  <2>8. /\ Sorted(m[v]) /\ Free(m[v]) = Free(a) \cup Covers(c)
        /\ Within(c, m[v])
        /\ \A d \in Chunks : Within(d, a) => Within(d, m[v])
    BY <2>1, <2>2, <2>7, StretchedOK
  <2>9. ASSUME NEW x PROVE x \in Free(m[v]) <=> \E i \in 1 .. v : x \in Covers(list[i])
    BY <2>2, <2>4, <2>5, <2>6, <2>8 DEF c
  <2>10. ASSUME NEW i \in 1 .. v, NEW d \in Chunks, list[i].qbase <= d.qbase, End(d) <= End(list[i])
         PROVE  Within(d, m[v])
    <3>1. CASE i \in 1 .. v - 1
      BY <2>2, <2>8, <2>10, <3>1
    <3>2. CASE i = v
      <4>1. PICK j \in DOMAIN m[v] : m[v][j].qbase <= c.qbase /\ End(c) <= End(m[v][j])
        BY <2>8 DEF Within
      <4>2. /\ m[v][j].qbase \in Nat /\ End(m[v][j]) \in Nat
            /\ c.qbase \in Nat /\ End(c) \in Nat
            /\ d.qbase \in Nat /\ End(d) \in Nat
        BY <2>1, <2>8, <4>1, Ends, Elements
      <4>3. m[v][j].qbase <= d.qbase
        BY <2>10, <3>2, <4>1, <4>2 DEF c
      <4>4. End(d) <= End(m[v][j])
        BY <2>10, <3>2, <4>1, <4>2 DEF c
      <4> QED BY <4>3, <4>4 DEF Within
    <3> QED BY <2>4, <3>1, <3>2
  <2> QED BY <2>8, <2>9, <2>10 DEF Done
<1> HIDE DEF Done
<1>7. Bad = {}
  <2> SUFFICES ASSUME Bad # {} PROVE FALSE
    OBVIOUS
  <2>1. Bad \subseteq Nat
    OBVIOUS
  <2>2. PICK v \in Bad : \A u \in Bad : v <= u
    <3> HIDE DEF Bad
    <3> QED BY <2>1, LeastOf
  <2>3. v \in 1 .. n /\ ~Done(v)
    BY <1>1, <1>5, <2>2
  <2>4. v - 1 \in 0 .. n /\ ~(v <= v - 1)
    BY <1>1, <2>3
  <2>5. Done(v - 1)
    BY <2>2, <2>4
  <2> QED BY <1>6, <2>3, <2>5
<1>8. Done(n)
  BY <1>1, <1>7
<1>9. \A x : x \in Free(m[n]) <=> x \in Free(list)
  BY <1>1, <1>8, InFree DEF Done
<1>10. ASSUME NEW d \in Chunks, Within(d, list) PROVE Within(d, m[n])
  BY <1>1, <1>8, <1>10 DEF Done, Within
<1> QED BY <1>3, <1>8, <1>9, <1>10 DEF Done


-----------------------------------------------------------------------------
(* Taking queues.                                                          *)

\* The run of n queues from b on.
Run(b, n) == b .. b + n - 1

LEMMA RunIsChunk ==
  ASSUME NEW b \in Nat, NEW n \in Nat \ {0}
  PROVE  /\ Chunk(b, n) \in Chunks /\ Covers(Chunk(b, n)) = Run(b, n)
         /\ Chunk(b, n).qbase = b /\ Chunk(b, n).total_q = n /\ End(Chunk(b, n)) = b + n
BY DEF Chunk, Chunks, Covers, End, Run

\* A run cut out of one chunk is missing afterwards, and nothing else.
LEMMA CutOutOK ==
  ASSUME NEW l, Sorted(l), NEW i \in DOMAIN l, NEW b \in Nat, NEW n \in Nat,
         l[i].qbase <= b, b + n <= End(l[i])
  PROVE  /\ Sorted(CutOut(l, i, b, n))
         /\ Free(CutOut(l, i, b, n)) = Free(l) \ Run(b, n)
<1> DEFINE len == Len(l)
           first == l[i].qbase
           stop == End(l[i])
           head == IF b > first THEN <<Chunk(first, b - first)>> ELSE <<>>
           tail == IF b + n < stop THEN <<Chunk(b + n, stop - b - n)>> ELSE <<>>
           left == SubSeq(l, 1, i - 1)
           right == SubSeq(l, i + 1, len)
<1>1. /\ len \in Nat /\ DOMAIN l = 1 .. len /\ \A j \in 1 .. len : l[j] \in Chunks
      /\ i \in 1 .. len
  BY Elements
<1>2. /\ first \in Nat /\ stop \in Nat /\ first < stop
      /\ \A x : x \in Covers(l[i]) <=> (x \in Int /\ first <= x /\ x < stop)
  BY <1>1, Ends, InChunk
<1>3. CutOut(l, i, b, n) = left \o head \o tail \o right
  BY DEF CutOut
<1>4. Sorted(head) /\ \A x : x \in Free(head) <=> (x \in Int /\ first <= x /\ x < b)
  <2>1. CASE b > first
    <3>1. b - first \in Nat \ {0}
      BY <1>2, <2>1
    <3>2. /\ Chunk(first, b - first) \in Chunks
          /\ Covers(Chunk(first, b - first)) = Run(first, b - first)
      BY <1>2, <3>1, RunIsChunk
    <3>3. Run(first, b - first) = first .. b - 1
      BY <1>2 DEF Run
    <3> HIDE DEF first
    <3>4. head = <<Chunk(first, b - first)>>
      BY <2>1
    <3> QED BY <1>2, <3>2, <3>3, <3>4, SingleSorted
  <2>2. CASE ~(b > first)
    <3> HIDE DEF first
    <3>1. head = <<>> /\ ~\E x \in Int : first <= x /\ x < b
      BY <1>2, <2>2
    <3> QED BY <3>1, EmptySorted
  <2> QED BY <2>1, <2>2
<1>5. Sorted(tail) /\ \A x : x \in Free(tail) <=> (x \in Int /\ b + n <= x /\ x < stop)
  <2>1. CASE b + n < stop
    <3>1. stop - b - n \in Nat \ {0} /\ b + n \in Nat
      BY <1>2, <2>1
    <3>2. /\ Chunk(b + n, stop - b - n) \in Chunks
          /\ Covers(Chunk(b + n, stop - b - n)) = Run(b + n, stop - b - n)
      BY <3>1, RunIsChunk
    <3>3. Run(b + n, stop - b - n) = b + n .. stop - 1
      BY <1>2 DEF Run
    <3> HIDE DEF stop
    <3>4. tail = <<Chunk(b + n, stop - b - n)>>
      BY <2>1
    <3> QED BY <1>2, <3>2, <3>3, <3>4, SingleSorted
  <2>2. CASE ~(b + n < stop)
    <3> HIDE DEF stop
    <3>1. tail = <<>> /\ ~\E x \in Int : b + n <= x /\ x < stop
      BY <1>2, <2>2
    <3> QED BY <3>1, EmptySorted
  <2> QED BY <2>1, <2>2
<1>6. /\ Sorted(left)
      /\ \A x : x \in Free(left) <=> \E j \in 1 .. i - 1 : x \in Covers(l[j])
  <2>1. 1 \in 1 .. len + 1 /\ i - 1 \in 1 - 1 .. len
    BY <1>1
  <2> QED BY <2>1, PartSorted
<1>7. /\ Sorted(right)
      /\ \A x : x \in Free(right) <=> \E j \in i + 1 .. len : x \in Covers(l[j])
  <2>1. i + 1 \in 1 .. len + 1 /\ len \in (i + 1) - 1 .. len
    BY <1>1
  <2> QED BY <2>1, PartSorted
<1>8. ASSUME NEW x \in Free(left) PROVE x \in Int /\ x < first
  <2>1. PICK j \in 1 .. i - 1 : x \in Covers(l[j])
    BY <1>6
  <2>2. j \in 1 .. len /\ j < i
    BY <1>1
  <2>3. End(l[j]) <= l[i].qbase /\ l[j] \in Chunks
    BY <1>1, <2>2 DEF Sorted
  <2>4. x \in Int /\ x < End(l[j]) /\ End(l[j]) \in Nat
    BY <2>1, <2>3, Ends, InChunk
  <2> QED BY <1>2, <2>3, <2>4
<1>9. ASSUME NEW x \in Free(right) PROVE x \in Int /\ stop <= x
  <2>1. PICK j \in i + 1 .. len : x \in Covers(l[j])
    BY <1>7
  <2>2. j \in 1 .. len /\ i < j
    BY <1>1
  <2>3. End(l[i]) <= l[j].qbase /\ l[j] \in Chunks
    BY <1>1, <2>2 DEF Sorted
  <2>4. x \in Int /\ l[j].qbase <= x /\ l[j].qbase \in Nat
    BY <2>1, <2>3, Ends, InChunk
  <2> QED BY <1>2, <2>3, <2>4
<1>10. ASSUME NEW x
       PROVE  x \in Free(l) <=> (x \in Free(left) \/ x \in Covers(l[i]) \/ x \in Free(right))
  <2>1. \A j \in 1 .. len : j \in 1 .. i - 1 \/ j = i \/ j \in i + 1 .. len
    BY <1>1
  <2>2. /\ \A j \in 1 .. i - 1 : j \in 1 .. len
        /\ \A j \in i + 1 .. len : j \in 1 .. len
    BY <1>1
  <2> HIDE DEF left, right, len
  <2> QED BY <1>1, <1>6, <1>7, <2>1, <2>2, InFree
<1>11. first <= b /\ b + n <= stop /\ b \in Nat /\ n \in Nat
  OBVIOUS
<1> HIDE DEF len, first, stop, head, tail, left, right
<1>12. \A x \in Free(left), y \in Free(head) : x < y
  BY <1>2, <1>4, <1>8
<1>13. Sorted(left \o head) /\ Free(left \o head) = Free(left) \cup Free(head)
  BY <1>4, <1>6, <1>12, Together
<1>14. ASSUME NEW x \in Free(left \o head) PROVE x \in Int /\ x < b
  BY <1>2, <1>4, <1>8, <1>11, <1>13
<1>15. \A x \in Free(left \o head), y \in Free(tail) : x < y
  BY <1>2, <1>5, <1>11, <1>14
<1>16. /\ Sorted(left \o head \o tail)
       /\ Free(left \o head \o tail) = Free(left) \cup Free(head) \cup Free(tail)
  BY <1>5, <1>13, <1>15, Together
<1>17. ASSUME NEW x \in Free(left \o head \o tail) PROVE x \in Int /\ x < stop
  BY <1>2, <1>4, <1>5, <1>8, <1>11, <1>16
<1>18. \A x \in Free(left \o head \o tail), y \in Free(right) : x < y
  BY <1>2, <1>9, <1>17
<1>19. /\ Sorted(left \o head \o tail \o right)
       /\ Free(left \o head \o tail \o right) =
            Free(left) \cup Free(head) \cup Free(tail) \cup Free(right)
  BY <1>7, <1>16, <1>18, Together
<1>20. \A x : x \in Run(b, n) <=> (x \in Int /\ b <= x /\ x < b + n)
  BY <1>11 DEF Run
<1>21. ASSUME NEW x
       PROVE  (x \in Free(left) \/ x \in Free(head) \/ x \in Free(tail) \/ x \in Free(right))
                <=> (x \in Free(l) /\ x \notin Run(b, n))
  <2>1. CASE x \in Free(left)
    BY <1>2, <1>8, <1>10, <1>11, <1>20, <2>1
  <2>2. CASE x \in Free(right)
    BY <1>2, <1>9, <1>10, <1>11, <1>20, <2>2
  <2>3. CASE x \notin Free(left) /\ x \notin Free(right)
    <3>1. x \in Free(l) <=> (x \in Int /\ first <= x /\ x < stop)
      BY <1>2, <1>10, <2>3
    <3> QED BY <1>2, <1>4, <1>5, <1>11, <1>20, <2>3, <3>1
  <2> QED BY <2>1, <2>2, <2>3
<1> QED BY <1>3, <1>19, <1>21

\* A chunk that is picked can hold the request, one that can is found, and
\* one around the place that was asked for gives that place.
LEMMA Picked ==
  ASSUME NEW l, Sorted(l), NEW n \in Nat, NEW q \in Int
  PROVE  LET i == PickChunk(n, q, l)
         IN /\ i # 0 => (i \in DOMAIN l /\ l[i].total_q >= n)
            /\ i = 0 => \A j \in DOMAIN l : l[j].total_q < n
            /\ (q >= 0 /\ \E j \in DOMAIN l : q >= l[j].qbase /\ End(l[j]) >= q + n)
                 => (i # 0 /\ q >= l[i].qbase /\ End(l[i]) >= q + n)
<1> DEFINE honoured == {i \in DOMAIN l : q >= l[i].qbase /\ End(l[i]) >= q + n}
           fitting  == {i \in DOMAIN l : l[i].total_q >= n}
           tightest == {i \in fitting : \A j \in fitting : l[i].total_q <= l[j].total_q}
           len == Len(l)
<1>1. len \in Nat /\ DOMAIN l = 1 .. len /\ \A j \in 1 .. len : l[j] \in Chunks
  BY Elements
<1>2. \A j \in 1 .. len : l[j].qbase \in Nat /\ l[j].total_q \in Nat
  BY <1>1, Ends
<1>3. honoured \subseteq 1 .. len /\ honoured \subseteq Nat /\ tightest \subseteq 1 .. len
  BY <1>1
<1>4. ASSUME NEW i \in honoured PROVE l[i].total_q >= n
  BY <1>2, <1>3 DEF End
<1>5. CASE q >= 0 /\ honoured # {}
  <2>1. PickChunk(n, q, l) = Min(honoured)
    BY <1>5 DEF PickChunk
  <2>2. Min(honoured) \in honoured
    <3> HIDE DEF honoured
    <3> QED BY <1>3, <1>5, MinIn
  <2>3. Min(honoured) # 0 /\ l[Min(honoured)].total_q >= n
    <3> DEFINE k == Min(honoured)
    <3>1. k \in honoured /\ k \in 1 .. len
      <4> HIDE DEF honoured
      <4> QED BY <1>3, <2>2
    <3> HIDE DEF k
    <3>2. k # 0 /\ l[k].total_q >= n
      BY <1>1, <1>4, <3>1
    <3> QED BY <3>2 DEF k
  <2> QED BY <2>1, <2>2, <2>3
<1>6. CASE ~(q >= 0 /\ honoured # {}) /\ fitting # {}
  <2>1. PickChunk(n, q, l) = Max(tightest)
    BY <1>6 DEF PickChunk
  <2>2. tightest # {}
    <3> DEFINE sizes == {l[i].total_q : i \in fitting}
    <3>1. sizes \subseteq Nat /\ sizes # {}
      BY <1>1, <1>2, <1>6
    <3>2. PICK s \in sizes : \A u \in sizes : s <= u
      <4> HIDE DEF sizes
      <4> QED BY <3>1, LeastOf
    <3>3. PICK i \in fitting : s = l[i].total_q
      BY <3>2
    <3> QED BY <3>2, <3>3
  <2>3. Max(tightest) \in tightest
    <3> HIDE DEF tightest
    <3> QED BY <1>1, <1>3, <2>2, MaxIn
  <2>4. Max(tightest) # 0
    <3> HIDE DEF tightest
    <3> QED BY <1>3, <2>3
  <2> QED BY <1>6, <2>1, <2>3, <2>4
<1>7. CASE ~(q >= 0 /\ honoured # {}) /\ fitting = {}
  <2>1. PickChunk(n, q, l) = 0
    BY <1>7 DEF PickChunk
  <2>2. \A j \in DOMAIN l : l[j].total_q < n
    BY <1>1, <1>2, <1>7
  <2> QED BY <1>7, <2>1, <2>2
<1> QED BY <1>5, <1>6, <1>7


\* What is found is a run of free queues, at the place asked for if it can
\* be, and is missing from the list afterwards.
LEMMA NodeFound ==
  ASSUME NEW l, Sorted(l), NEW n \in Nat, NEW q \in Int
  PROVE  LET r == GetResourceNode(n, q, l)
         IN /\ r.found \in BOOLEAN
            /\ r.found = FALSE => (r.list = l /\ r.qbase = -1 /\ r.total_q = 0)
            /\ r.found = TRUE =>
                 /\ r.total_q = n /\ r.qbase \in Nat /\ Run(r.qbase, n) \subseteq Free(l)
                 /\ r.qbase = q \/ r.qbase \in Free(l)
                 /\ Sorted(r.list) /\ Free(r.list) = Free(l) \ Run(r.qbase, n)
            /\ (q >= 0 /\ \E j \in DOMAIN l : q >= l[j].qbase /\ End(l[j]) >= q + n)
                 => (r.found = TRUE /\ r.qbase = q)
<1> DEFINE i == PickChunk(n, q, l)
           b == PlaceIn(l[i], n, q)
           r == GetResourceNode(n, q, l)
<1>1. /\ i # 0 => (i \in DOMAIN l /\ l[i].total_q >= n)
      /\ (q >= 0 /\ \E j \in DOMAIN l : q >= l[j].qbase /\ End(l[j]) >= q + n)
           => (i # 0 /\ q >= l[i].qbase /\ End(l[i]) >= q + n)
  BY Picked
<1>2. CASE i = 0
  <2>1. r = [found |-> FALSE, qbase |-> -1, total_q |-> 0, list |-> l]
    BY <1>2 DEF GetResourceNode
  <2> HIDE DEF r, i
  <2>2. ~(q >= 0 /\ \E j \in DOMAIN l : q >= l[j].qbase /\ End(l[j]) >= q + n)
    BY <1>1, <1>2
  <2> QED BY <2>1, <2>2 DEF r
<1>3. CASE i # 0
  <2>1. r = [found |-> TRUE, qbase |-> b, total_q |-> n, list |-> CutOut(l, i, b, n)]
    BY <1>3 DEF GetResourceNode
  <2>2. i \in DOMAIN l /\ l[i].total_q >= n
    BY <1>1, <1>3
  <2> HIDE DEF i
  <2>3. l[i] \in Chunks
    BY <2>2, Elements
  <2>4. /\ l[i].qbase \in Nat /\ l[i].total_q \in Nat /\ End(l[i]) = l[i].qbase + l[i].total_q
        /\ l[i].qbase \in Covers(l[i])
    BY <2>3, Ends DEF End
  <2>5. /\ b \in Nat /\ l[i].qbase <= b /\ b + n <= End(l[i])
        /\ b = q \/ b = l[i].qbase
        /\ (q >= l[i].qbase /\ End(l[i]) >= q + n) => b = q
    BY <2>2, <2>4 DEF PlaceIn
  <2> HIDE DEF b
  <2>6. Sorted(CutOut(l, i, b, n)) /\ Free(CutOut(l, i, b, n)) = Free(l) \ Run(b, n)
    BY <2>2, <2>5, CutOutOK
  <2>7. Covers(l[i]) \subseteq Free(l)
    BY <2>2, InFree
  <2>8. Run(b, n) \subseteq Covers(l[i])
    BY <2>4, <2>5 DEF Run, Covers
  <2>9. b = q \/ b \in Free(l)
    BY <2>4, <2>5, <2>7
  <2>10. (q >= 0 /\ \E j \in DOMAIN l : q >= l[j].qbase /\ End(l[j]) >= q + n) => b = q
    BY <1>1, <2>5 DEF i
  <2> HIDE DEF r
  <2> QED BY <2>1, <2>5, <2>6, <2>7, <2>8, <2>9, <2>10 DEF r
<1> QED BY <1>2, <1>3

\* The queues of an entry are the run it names.
HasRun(e) ==
  /\ e.qbase \in Int /\ e.total_q \in Nat
  /\ e.total_q # 0 => e.qbase \in Nat

LEMMA CoversRun ==
  ASSUME NEW e, HasRun(e)
  PROVE  /\ Covers(e) = Run(e.qbase, e.total_q)
         /\ e.total_q = 0 => Covers(e) = {}
         /\ e.total_q # 0 => (Chunk(e.qbase, e.total_q) \in Chunks /\ e.qbase \in Covers(e))
<1>1. Covers(e) = Run(e.qbase, e.total_q)
  BY DEF HasRun, Covers, Run, End
<1>2. ASSUME e.total_q = 0 PROVE Covers(e) = {}
  BY <1>1, <1>2 DEF HasRun, Run
<1>3. ASSUME e.total_q # 0
      PROVE  Chunk(e.qbase, e.total_q) \in Chunks /\ e.qbase \in Covers(e)
  <2>1. e.qbase \in Nat /\ e.total_q \in Nat \ {0}
    BY <1>3 DEF HasRun
  <2>2. e.qbase \in Run(e.qbase, e.total_q)
    BY <2>1 DEF Run
  <2> QED BY <1>1, <2>1, <2>2, RunIsChunk
<1> QED BY <1>1, <1>2, <1>3

\* Giving back the queues of an entry adds them to the list.
LEMMA Submitted ==
  ASSUME NEW e, HasRun(e), NEW l, Sorted(l), Covers(e) \cap Free(l) = {}
  PROVE  LET p == SubmitToFreeList(e, l)
         IN /\ Sorted(p) /\ Free(p) = Free(l) \cup Covers(e)
            /\ e.total_q # 0 => \E j \in DOMAIN p :
                 p[j].qbase <= e.qbase /\ e.qbase + e.total_q <= End(p[j])
<1>1. CASE e.total_q = 0
  BY <1>1, CoversRun DEF SubmitToFreeList
<1>2. CASE e.total_q # 0
  <2> DEFINE c == Chunk(e.qbase, e.total_q)
             k == InsertChunk(c, l)
  <2>1. /\ e.qbase \in Nat /\ e.total_q \in Nat \ {0}
        /\ c \in Chunks /\ Covers(c) = Covers(e) /\ c.qbase = e.qbase
        /\ End(c) = e.qbase + e.total_q
    BY <1>2, CoversRun, RunIsChunk DEF HasRun
  <2>2. SubmitToFreeList(e, l) = MergeChunks(k)
    BY <1>2 DEF SubmitToFreeList
  <2> HIDE DEF c
  <2>3. Sorted(k) /\ Free(k) = Free(l) \cup Covers(e) /\ Within(c, k)
    BY <2>1, Inserted
  <2> HIDE DEF k
  <2>4. /\ Sorted(MergeChunks(k)) /\ Free(MergeChunks(k)) = Free(l) \cup Covers(e)
        /\ Within(c, MergeChunks(k))
    BY <2>1, <2>3, Merged
  <2>5. \E j \in DOMAIN MergeChunks(k) :
          MergeChunks(k)[j].qbase <= e.qbase /\ e.qbase + e.total_q <= End(MergeChunks(k)[j])
    BY <2>1, <2>4 DEF Within
  <2> QED BY <2>2, <2>4, <2>5
<1> QED BY <1>1, <1>2


LEMMA EntryWith ==
  ASSUME NEW A, NEW e \in [qbase : Int, total_q : Nat, active : A], NEW b, NEW n
  PROVE  [e EXCEPT !.qbase = b, !.total_q = n] =
           [qbase |-> b, total_q |-> n, active |-> e.active]
<1> DEFINE f == [e EXCEPT !.qbase = b]
<1>1. PICK x \in Int, y \in Nat, z \in A : e = [qbase |-> x, total_q |-> y, active |-> z]
  OBVIOUS
<1>2. f = [qbase |-> b, total_q |-> y, active |-> z]
  BY <1>1
<1> HIDE DEF f
<1>3. [f EXCEPT !.total_q = n] = [qbase |-> b, total_q |-> n, active |-> z]
  BY <1>2
<1> QED BY <1>1, <1>3 DEF f

\* A request exchanges the run of an entry for one that is free or its own;
\* one that is refused leaves the entry the very run it had.
LEMMA Requested ==
  ASSUME NEW e, HasRun(e), NEW l, Sorted(l), Covers(e) \cap Free(l) = {},
         NEW n \in Nat,
         NEW A, e \in [qbase : Int, total_q : Nat, active : A]
  PROVE  LET u == RequestQResource(e, n, -1, l)
             all == Free(l) \cup Covers(e)
         IN /\ u.entry \in [qbase : Int, total_q : Nat, active : A]
            /\ u.entry.active = e.active /\ HasRun(u.entry) /\ Sorted(u.list)
            /\ Covers(u.entry) \cap Free(u.list) = {}
            /\ Covers(u.entry) \cup Free(u.list) = all
            /\ u.entry.qbase = -1 \/ u.entry.qbase = e.qbase \/ u.entry.qbase \in all
            /\ u.rv = "ok" => u.entry.total_q = n
            /\ u.rv # "ok" =>
                 /\ u.entry.total_q = e.total_q
                 /\ e.total_q # 0 => u.entry.qbase = e.qbase
<1> DEFINE pool  == SubmitToFreeList(e, l)
           wish  == GetResourceNode(n, -1, pool)
           old   == GetResourceNode(e.total_q, e.qbase, pool)
           all   == Free(l) \cup Covers(e)
           u     == RequestQResource(e, n, -1, l)
<1>1. e.qbase \in Int /\ e.total_q \in Nat /\ e.active \in A
      /\ (e.total_q # 0 => e.qbase \in Nat)
  BY DEF HasRun
<1>2. /\ Sorted(pool) /\ Free(pool) = all
      /\ e.total_q # 0 => \E j \in DOMAIN pool :
           pool[j].qbase <= e.qbase /\ e.qbase + e.total_q <= End(pool[j])
  BY Submitted
<1> HIDE DEF pool, all
<1>3. /\ wish.found \in BOOLEAN
      /\ wish.found = TRUE =>
           /\ wish.total_q = n /\ wish.qbase \in Nat /\ Run(wish.qbase, n) \subseteq all
           /\ wish.qbase = -1 \/ wish.qbase \in all
           /\ Sorted(wish.list) /\ Free(wish.list) = all \ Run(wish.qbase, n)
  <2> DEFINE q == -1
             w == GetResourceNode(n, q, pool)
  <2>1. q \in Int
    OBVIOUS
  <2>2. w = wish
    OBVIOUS
  <2> HIDE DEF q
  <2>3. /\ w.found \in BOOLEAN
        /\ w.found = TRUE =>
             /\ w.total_q = n /\ w.qbase \in Nat /\ Run(w.qbase, n) \subseteq all
             /\ w.qbase = q \/ w.qbase \in all
             /\ Sorted(w.list) /\ Free(w.list) = all \ Run(w.qbase, n)
    BY <1>2, <2>1, NodeFound
  <2> HIDE DEF w, wish
  <2> QED BY <2>2, <2>3 DEF q
<1>4. /\ old.found \in BOOLEAN
      /\ old.found = FALSE => (old.list = pool /\ old.qbase = -1 /\ old.total_q = 0)
      /\ old.found = TRUE =>
           /\ old.total_q = e.total_q /\ old.qbase \in Nat
           /\ Run(old.qbase, e.total_q) \subseteq all
           /\ old.qbase = e.qbase \/ old.qbase \in all
           /\ Sorted(old.list) /\ Free(old.list) = all \ Run(old.qbase, e.total_q)
      /\ e.total_q # 0 => (old.found = TRUE /\ old.qbase = e.qbase)
  <2>1. ASSUME e.total_q # 0
        PROVE  /\ e.qbase >= 0
               /\ \E j \in DOMAIN pool :
                    e.qbase >= pool[j].qbase /\ End(pool[j]) >= e.qbase + e.total_q
    <3>1. PICK j \in DOMAIN pool :
            pool[j].qbase <= e.qbase /\ e.qbase + e.total_q <= End(pool[j])
      BY <1>2, <2>1
    <3>2. pool[j].qbase \in Nat /\ End(pool[j]) \in Nat
      BY <1>2, Elements, Ends
    <3> QED BY <1>1, <2>1, <3>1, <3>2
  <2> QED BY <1>1, <1>2, <2>1, NodeFound
<1>5. CASE n = 0
  <2> DEFINE b == IF e.total_q = 0 THEN e.qbase ELSE -1
             emptied == [e EXCEPT !.qbase = b, !.total_q = 0]
  <2>1. u = [rv |-> "ok", entry |-> emptied, list |-> pool]
    BY <1>5 DEF RequestQResource, pool
  <2>2. emptied = [qbase |-> b, total_q |-> 0, active |-> e.active] /\ b \in Int
    <3>1. b \in Int
      BY <1>1
    <3> HIDE DEF b
    <3>2. emptied = [qbase |-> b, total_q |-> 0, active |-> e.active]
      BY EntryWith
    <3> QED BY <3>1, <3>2
  <2> HIDE DEF u, b, emptied
  <2>3. HasRun(emptied) /\ emptied.total_q = 0
    BY <2>2 DEF HasRun
  <2>4. Covers(emptied) = {}
    BY <2>3, CoversRun
  <2>5. b = -1 \/ b = e.qbase
    BY DEF b
  <2> QED BY <1>1, <1>2, <1>5, <2>1, <2>2, <2>3, <2>4, <2>5 DEF u, all
<1>6. CASE n # 0 /\ wish.found = TRUE
  <2> DEFINE new == [e EXCEPT !.qbase = wish.qbase, !.total_q = wish.total_q]
  <2>1. u = [rv |-> "ok", entry |-> new, list |-> wish.list]
    BY <1>6 DEF RequestQResource, pool
  <2>2. new = [qbase |-> wish.qbase, total_q |-> n, active |-> e.active]
    <3>1. wish.total_q = n
      BY <1>3, <1>6
    <3> HIDE DEF wish
    <3> QED BY <3>1, EntryWith
  <2> HIDE DEF u, new, wish
  <2>3. HasRun(new) /\ new.qbase = wish.qbase /\ new.total_q = n
    BY <1>3, <1>6, <2>2 DEF HasRun
  <2>4. Covers(new) = Run(wish.qbase, n)
    BY <2>3, CoversRun
  <2> QED BY <1>1, <1>3, <1>6, <2>1, <2>2, <2>3, <2>4 DEF u, all
<1>7. CASE n # 0 /\ wish.found = FALSE
  <2> DEFINE new == [e EXCEPT !.qbase = old.qbase, !.total_q = old.total_q]
  <2>1. u = [rv |-> "no_queues_left", entry |-> new, list |-> old.list]
    BY <1>7 DEF RequestQResource, pool
  <2>2. new = [qbase |-> old.qbase, total_q |-> e.total_q, active |-> e.active]
    <3>1. old.total_q = e.total_q
      BY <1>4
    <3> HIDE DEF old
    <3> QED BY <3>1, EntryWith
  <2>3. old.qbase \in Int
    BY <1>4
  <2> HIDE DEF u, new, old
  <2>4. HasRun(new) /\ new.qbase = old.qbase /\ new.total_q = e.total_q
    BY <1>1, <1>4, <2>2, <2>3 DEF HasRun
  <2>5. /\ Covers(new) = Run(old.qbase, e.total_q)
        /\ e.total_q = 0 => Covers(new) = {}
    BY <2>4, CoversRun
  <2>6. /\ Sorted(old.list) /\ Covers(new) \cap Free(old.list) = {}
        /\ Covers(new) \cup Free(old.list) = all
        /\ old.qbase = -1 \/ old.qbase = e.qbase \/ old.qbase \in all
    <3>1. CASE old.found = TRUE
      BY <1>4, <2>5, <3>1
    <3>2. CASE old.found = FALSE
      BY <1>2, <1>4, <2>5, <3>2
    <3> QED BY <1>4, <3>1, <3>2
  <2>7. u.rv # "ok" /\ (e.total_q # 0 => new.qbase = e.qbase)
    BY <1>4, <2>1, <2>4
  <2> QED BY <1>1, <2>1, <2>2, <2>3, <2>4, <2>6, <2>7 DEF u, all
<1> QED BY <1>3, <1>5, <1>6, <1>7


-----------------------------------------------------------------------------
(* The ranges partition the board.                                         *)

Entries == [qbase : -1 .. TotalQ - 1, total_q : Nat, active : [QTypes -> Nat]]
Drivers == [open : BOOLEAN, qbase : -1 .. TotalQ - 1, qmax : Nat, init_qrange : BOOLEAN,
            queues : SUBSET QueueSet]

\* Who is there: a function has an entry while its driver is open, a virtual
\* function only under its parent, and the master goes with the last entry.
Members ==
  /\ entry \in [Func -> Entries] /\ drv \in [Func -> Drivers]
  /\ master \in BOOLEAN /\ dev_list \subseteq Func /\ (master <=> dev_list # {})
  /\ \A f \in Func : drv[f].open <=> f \in dev_list
  /\ \A f \in Func \ dev_list : entry[f] = FreshEntry /\ drv[f] = ClosedDrv
  /\ \A v \in VF : drv[v].open => drv[Parent[v]].open

\* The ranges of the entries and the free chunks share the board out.
Parts ==
  /\ Sorted(free_list) /\ (~master => free_list = <<>>)
  /\ \A f \in Func : HasRun(entry[f]) /\ Covers(entry[f]) \cap Free(free_list) = {}
  /\ \A f, g \in Func : f # g => Covers(entry[f]) \cap Covers(entry[g]) = {}
  /\ master => \A x : x \in 0 .. TotalQ - 1 <=>
                        (x \in Free(free_list) \/ \E f \in Func : x \in Covers(entry[f]))

PInv == Members /\ Parts

LEMMA QueuesFinite ==
  ASSUME NEW qs, qs \subseteq QueueSet
  PROVE  IsFiniteSet(qs) /\ \A t : CountedIn(t, qs) \in Nat
<1>1. IsFiniteSet(QueueSet)
  <2>1. IsFiniteSet(0 .. TotalQ - 1) /\ IsFiniteSet(QTypes) /\ IsFiniteSet(BOOLEAN)
    <3>1. QTypes = {"H2C"} \cup ({"C2H"} \cup {"CMPT"}) /\ BOOLEAN = {TRUE} \cup {FALSE}
      BY DEF QTypes
    <3>2. IsFiniteSet({"H2C"}) /\ IsFiniteSet({"C2H"}) /\ IsFiniteSet({"CMPT"})
          /\ IsFiniteSet({TRUE}) /\ IsFiniteSet({FALSE})
      BY FS_Singleton
    <3>3. IsFiniteSet({"C2H"} \cup {"CMPT"}) /\ IsFiniteSet({TRUE} \cup {FALSE})
      BY <3>2, FS_Union
    <3>4. IsFiniteSet({"H2C"} \cup ({"C2H"} \cup {"CMPT"}))
      BY <3>2, <3>3, FS_Union
    <3>5. IsFiniteSet(BOOLEAN)
      BY <3>1, <3>3, Zenon
    <3>6. IsFiniteSet(0 .. TotalQ - 1)
      BY FS_Interval, TotalAssumption
    <3>7. IsFiniteSet(QTypes)
      BY <3>1, <3>4, Zenon
    <3> QED BY <3>5, <3>6, <3>7
  <2> DEFINE P == (0 .. TotalQ - 1) \X ((QTypes \X QTypes) \X (BOOLEAN \X BOOLEAN))
             g == [p \in P |-> [idx |-> p[1], t |-> p[2][1][1], conf |-> p[2][1][2],
                                st |-> p[2][2][1], told |-> p[2][2][2]]]
  <2>2. IsFiniteSet(P)
    <3>1. IsFiniteSet(QTypes \X QTypes) /\ IsFiniteSet(BOOLEAN \X BOOLEAN)
      BY <2>1, FS_Product
    <3>2. IsFiniteSet((QTypes \X QTypes) \X (BOOLEAN \X BOOLEAN))
      BY <3>1, FS_Product
    <3> QED BY <2>1, <3>2, FS_Product
  <2>3. \A q \in QueueSet : \E p \in P : g[p] = q
    <3> SUFFICES ASSUME NEW q \in QueueSet PROVE \E p \in P : g[p] = q
      OBVIOUS
    <3> DEFINE p == <<q.idx, <<<<q.t, q.conf>>, <<q.st, q.told>>>>>>
    <3>1. p \in P /\ g[p] = [idx |-> q.idx, t |-> q.t, conf |-> q.conf, st |-> q.st,
                             told |-> q.told]
      BY DEF QueueSet
    <3>2. q = [idx |-> q.idx, t |-> q.t, conf |-> q.conf, st |-> q.st, told |-> q.told]
      BY DEF QueueSet
    <3> QED BY <3>1, <3>2
  <2>4. QueueSet \subseteq {g[p] : p \in P}
    BY <2>3
  <2>5. IsFiniteSet({g[p] : p \in P})
    <3> DEFINE h == [p \in P |-> g[p]]
               R == {g[p] : p \in P}
    <3>1. h \in Surjection(P, R)
      BY DEF Surjection
    <3> HIDE DEF h, R, P
    <3> QED BY <2>2, <3>1, FS_Surjection DEF R
  <2> QED BY <2>4, <2>5, FS_Subset
<1>2. IsFiniteSet(qs)
  BY <1>1, FS_Subset
<1>3. ASSUME NEW t PROVE CountedIn(t, qs) \in Nat
  <2>1. IsFiniteSet({q \in qs : t \in Counted(KindOf(q))})
    BY <1>2, FS_Subset
  <2> QED BY <2>1, FS_CardinalityType DEF CountedIn
<1> QED BY <1>2, <1>3

\* Counting changes no range.
LEMMA CountKeepsRun ==
  ASSUME NEW e, e \in [qbase : -1 .. TotalQ - 1, total_q : Nat, active : [QTypes -> Nat]]
  PROVE  /\ \A qs \in SUBSET QueueSet :
              /\ Decremented(e, qs) \in Entries
              /\ Decremented(e, qs).qbase = e.qbase /\ Decremented(e, qs).total_q = e.total_q
         /\ \A ts :
              /\ IncrementedIn(e, ts) \in Entries
              /\ IncrementedIn(e, ts).qbase = e.qbase /\ IncrementedIn(e, ts).total_q = e.total_q
<1>1. PICK b \in -1 .. TotalQ - 1, n \in Nat, a \in [QTypes -> Nat] :
        e = [qbase |-> b, total_q |-> n, active |-> a]
  OBVIOUS
<1>2. ASSUME NEW qs \in SUBSET QueueSet
      PROVE  /\ Decremented(e, qs) \in Entries
             /\ Decremented(e, qs).qbase = e.qbase /\ Decremented(e, qs).total_q = e.total_q
  <2> DEFINE d == [t \in QTypes |-> IF a[t] > CountedIn(t, qs)
                                    THEN a[t] - CountedIn(t, qs) ELSE 0]
  <2>1. d \in [QTypes -> Nat]
    <3>1. \A t \in QTypes : CountedIn(t, qs) \in Nat /\ a[t] \in Nat
      BY QueuesFinite
    <3> QED BY <3>1
  <2>2. Decremented(e, qs) = [qbase |-> b, total_q |-> n, active |-> d]
    BY <1>1 DEF Decremented
  <2> HIDE DEF d
  <2> QED BY <1>1, <2>1, <2>2 DEF Entries
<1>3. ASSUME NEW ts
      PROVE  /\ IncrementedIn(e, ts) \in Entries
             /\ IncrementedIn(e, ts).qbase = e.qbase /\ IncrementedIn(e, ts).total_q = e.total_q
  <2> DEFINE d == [t \in QTypes |-> IF t \in ts THEN a[t] + 1 ELSE a[t]]
  <2>1. d \in [QTypes -> Nat]
    OBVIOUS
  <2>2. IncrementedIn(e, ts) = [qbase |-> b, total_q |-> n, active |-> d]
    BY <1>1 DEF IncrementedIn
  <2> HIDE DEF d
  <2> QED BY <1>1, <2>1, <2>2 DEF Entries
<1> QED BY <1>2, <1>3


\* A driver's record after it was told its range.
Ready(b, n) == [OpenedDrv EXCEPT !.qbase = b, !.qmax = n]

LEMMA ReadyIs ==
  ASSUME NEW b \in -1 .. TotalQ - 1, NEW n \in Nat
  PROVE  /\ Ready(b, n) \in Drivers /\ Ready(b, n).open
         /\ Ready(b, n).qbase = b /\ Ready(b, n).qmax = n /\ Ready(b, n).queues = {}
<1> DEFINE yes  == TRUE
           no   == FALSE
           none == {}
<1>1. yes \in BOOLEAN /\ no \in BOOLEAN /\ none \in SUBSET QueueSet
  OBVIOUS
<1>2. ClosedDrv = [open |-> no, qbase |-> -1, qmax |-> 0, init_qrange |-> no, queues |-> none]
  BY DEF ClosedDrv
<1>3. OpenedDrv = [ClosedDrv EXCEPT !.open = yes]
  BY DEF OpenedDrv
<1>4. yes = TRUE /\ none = {}
  OBVIOUS
<1> HIDE DEF yes, no, none
<1>5. OpenedDrv = [open |-> yes, qbase |-> -1, qmax |-> 0, init_qrange |-> no, queues |-> none]
  BY <1>2, <1>3
<1>6. Ready(b, n) = [open |-> yes, qbase |-> b, qmax |-> n, init_qrange |-> no, queues |-> none]
  <2>1. Ready(b, n) = [[OpenedDrv EXCEPT !.qbase = b] EXCEPT !.qmax = n]
    BY Zenon DEF Ready
  <2>2. [OpenedDrv EXCEPT !.qbase = b]
          = [open |-> yes, qbase |-> b, qmax |-> 0, init_qrange |-> no, queues |-> none]
    BY <1>5
  <2> QED BY <2>1, <2>2
<1>7. Ready(b, n) \in Drivers
  BY <1>1, <1>6 DEF Drivers
<1>8. /\ Ready(b, n).open = yes /\ Ready(b, n).qbase = b /\ Ready(b, n).qmax = n
      /\ Ready(b, n).queues = none
  BY <1>6
<1> QED BY <1>4, <1>7, <1>8

\* A driver keeps its range when its queues change.
LEMMA DriverQueues ==
  ASSUME drv \in [Func -> Drivers], NEW f \in Func, NEW qs \in SUBSET QueueSet,
         \/ drv' = [drv EXCEPT ![f].queues = qs]
         \/ \E b \in BOOLEAN : drv' = [drv EXCEPT ![f].init_qrange = b, ![f].queues = qs]
  PROVE  /\ drv' \in [Func -> Drivers] /\ \A g \in Func : g # f => drv'[g] = drv[g]
         /\ drv'[f].open = drv[f].open /\ drv'[f].qbase = drv[f].qbase
         /\ drv'[f].qmax = drv[f].qmax /\ drv'[f].queues = qs
<1>1. PICK o \in BOOLEAN, x \in -1 .. TotalQ - 1, y \in Nat, w \in BOOLEAN, z \in SUBSET QueueSet :
        drv[f] = [open |-> o, qbase |-> x, qmax |-> y, init_qrange |-> w, queues |-> z]
  BY DEF Drivers
<1>2. \E v \in BOOLEAN : drv'[f] =
        [open |-> o, qbase |-> x, qmax |-> y, init_qrange |-> v, queues |-> qs]
  <2>1. CASE drv' = [drv EXCEPT ![f].queues = qs]
    <3>1. drv'[f] = [drv[f] EXCEPT !.queues = qs]
      BY <2>1
    <3> QED BY <1>1, <3>1
  <2>2. ASSUME NEW b \in BOOLEAN, drv' = [drv EXCEPT ![f].init_qrange = b, ![f].queues = qs]
        PROVE  drv'[f] = [open |-> o, qbase |-> x, qmax |-> y, init_qrange |-> b, queues |-> qs]
    <3>1. drv' = [[drv EXCEPT ![f].init_qrange = b] EXCEPT ![f].queues = qs]
      BY <2>2, Zenon
    <3> DEFINE e == [drv EXCEPT ![f].init_qrange = b]
    <3>2. e \in [Func -> Drivers] /\ e[f] = [drv[f] EXCEPT !.init_qrange = b]
      BY DEF Drivers
    <3>3. e[f] = [open |-> o, qbase |-> x, qmax |-> y, init_qrange |-> b, queues |-> z]
      BY <1>1, <3>2
    <3>4. drv'[f] = [e[f] EXCEPT !.queues = qs]
      BY <3>1, <3>2
    <3> HIDE DEF e
    <3> QED BY <3>3, <3>4
  <2> QED BY <2>1, <2>2
<1>3. PICK v \in BOOLEAN : drv'[f] =
        [open |-> o, qbase |-> x, qmax |-> y, init_qrange |-> v, queues |-> qs]
  BY <1>2
<1>4. /\ drv'[f] \in Drivers /\ drv'[f].open = drv[f].open /\ drv'[f].qbase = drv[f].qbase
      /\ drv'[f].qmax = drv[f].qmax /\ drv'[f].queues = qs
  BY <1>1, <1>3 DEF Drivers
<1>5. \A g \in Func : g # f => drv'[g] = drv[g]
  OBVIOUS
<1>6. drv' = [g \in Func |-> drv'[g]]
  OBVIOUS
<1>7. drv' \in [Func -> Drivers]
  BY <1>4, <1>5, <1>6
<1> QED BY <1>4, <1>5, <1>7

\* What a function asks for is what it gets or nothing changes for it.
LEMMA QmaxSet ==
  ASSUME PInv, NEW f \in Func, NEW n \in Nat, SetQmax(f, n)
  PROVE  /\ f \in dev_list /\ drv[f].open /\ master' = master /\ dev_list' = dev_list
         /\ \/ /\ HasActive(entry[f]) /\ free_list' = free_list /\ entry' = entry
               /\ drv' = drv /\ active_qcnt' = active_qcnt /\ drained' = drained
            \/ \E e \in Entries :
                 /\ ~HasActive(entry[f]) /\ e.active = entry[f].active /\ HasRun(e)
                 /\ Sorted(free_list') /\ Covers(e) \cap Free(free_list') = {}
                 /\ Covers(e) \cup Free(free_list') = Covers(entry[f]) \cup Free(free_list)
                 /\ \/ /\ e.total_q = n
                       /\ entry' = [entry EXCEPT ![f] = Decremented(e, CleanedUp(f, e))]
                       /\ active_qcnt' = BoardDecremented(CleanedUp(f, e))
                       /\ drained' = Drained(CleanedUp(f, e))
                       /\ drv' = [drv EXCEPT ![f] = Ready(e.qbase, n)]
                    \/ /\ e.total_q = entry[f].total_q
                       /\ e.total_q # 0 => e.qbase = entry[f].qbase
                       /\ entry' = [entry EXCEPT ![f] = e]
                       /\ active_qcnt' = active_qcnt /\ drv' = drv /\ drained' = drained
<1> DEFINE u == DevUpdate(f, n, -1)
           r == RequestQResource(entry[f], n, -1, free_list)
<1>1. /\ drv[f].open /\ free_list' = u.list /\ master' = master /\ dev_list' = dev_list
      /\ IF u.rv = "ok"
         THEN /\ entry' = [entry EXCEPT ![f] = Decremented(u.entry, CleanedUp(f, u.entry))]
              /\ active_qcnt' = BoardDecremented(CleanedUp(f, u.entry))
              /\ drained' = Drained(CleanedUp(f, u.entry))
              /\ drv' = [drv EXCEPT ![f] = Ready(u.entry.qbase, u.entry.total_q)]
         ELSE /\ entry' = [entry EXCEPT ![f] = u.entry]
              /\ active_qcnt' = active_qcnt /\ drv' = drv /\ drained' = drained
  BY DEF SetQmax, Ready
<1>2. f \in dev_list
  BY <1>1 DEF PInv, Members
<1>3. entry[f] \in Entries /\ drv[f] \in Drivers
  BY DEF PInv, Members
<1>4. CASE HasActive(entry[f])
  <2>1. u.rv # "ok" /\ u.entry = entry[f] /\ u.list = free_list
    BY <1>4 DEF DevUpdate
  <2>2. [entry EXCEPT ![f] = entry[f]] = entry
    BY DEF PInv, Members
  <2> HIDE DEF u
  <2> QED BY <1>1, <1>2, <1>4, <2>1, <2>2
<1>5. CASE ~HasActive(entry[f])
  <2>1. u = r
    BY <1>5 DEF DevUpdate
  <2>2. /\ HasRun(entry[f]) /\ Sorted(free_list)
        /\ Covers(entry[f]) \cap Free(free_list) = {}
    BY DEF PInv, Parts
  <2>3. entry[f] \in [qbase : Int, total_q : Nat, active : [QTypes -> Nat]]
    BY <1>3 DEF Entries
  <2> DEFINE e == r.entry
             all == Free(free_list) \cup Covers(entry[f])
  <2>4. /\ e \in [qbase : Int, total_q : Nat, active : [QTypes -> Nat]]
        /\ e.active = entry[f].active /\ HasRun(e) /\ Sorted(r.list)
        /\ Covers(e) \cap Free(r.list) = {}
        /\ Covers(e) \cup Free(r.list) = all
        /\ e.qbase = -1 \/ e.qbase = entry[f].qbase \/ e.qbase \in all
        /\ r.rv = "ok" => e.total_q = n
        /\ r.rv # "ok" =>
             /\ e.total_q = entry[f].total_q
             /\ entry[f].total_q # 0 => e.qbase = entry[f].qbase
    BY <2>2, <2>3, Requested
  <2>5. all \subseteq 0 .. TotalQ - 1
    <3>1. master
      BY <1>2 DEF PInv, Members
    <3> QED BY <3>1 DEF PInv, Parts
  <2>6. entry[f].qbase \in -1 .. TotalQ - 1 /\ -1 \in -1 .. TotalQ - 1
    BY <1>3, TotalAssumption DEF Entries
  <2> HIDE DEF u, r, all
  <2>7. e \in Entries
    BY <2>4, <2>5, <2>6, TotalAssumption DEF Entries
  <2>8. CASE r.rv = "ok"
    <3>2. /\ entry' = [entry EXCEPT ![f] = Decremented(e, CleanedUp(f, e))]
          /\ active_qcnt' = BoardDecremented(CleanedUp(f, e))
          /\ drained' = Drained(CleanedUp(f, e))
          /\ drv' = [drv EXCEPT ![f] = Ready(e.qbase, n)]
      BY <1>1, <2>1, <2>4, <2>8
    <3> QED BY <1>1, <1>2, <1>5, <2>1, <2>4, <2>7, <2>8, <3>2 DEF all
  <2>9. CASE r.rv # "ok"
    BY <1>1, <1>2, <1>5, <2>1, <2>4, <2>7, <2>9 DEF all
  <2> QED BY <2>8, <2>9
<1> QED BY <1>4, <1>5

\* The ranges still partition the board when one function exchanges its run.
LEMMA Exchanged ==
  ASSUME PInv, NEW f \in Func, master, master', NEW e, HasRun(e),
         Sorted(free_list'), Covers(e) \cap Free(free_list') = {},
         Covers(e) \cup Free(free_list') = Covers(entry[f]) \cup Free(free_list),
         entry'[f].qbase = e.qbase, entry'[f].total_q = e.total_q,
         \A g \in Func : g # f => entry'[g] = entry[g]
  PROVE  Parts'
<1>1. HasRun(entry'[f]) /\ Covers(entry'[f]) = Covers(e)
  BY DEF HasRun, Covers, End
<1>2. ASSUME NEW g \in Func
      PROVE  HasRun(entry'[g]) /\ Covers(entry'[g]) \cap Free(free_list') = {}
  <2>1. CASE g = f
    BY <1>1, <2>1
  <2>2. CASE g # f
    BY <2>2 DEF PInv, Parts
  <2> QED BY <2>1, <2>2
<1>3. ASSUME NEW g \in Func, NEW h \in Func, g # h
      PROVE  Covers(entry'[g]) \cap Covers(entry'[h]) = {}
  <2>1. \A k \in Func : k # f => Covers(e) \cap Covers(entry'[k]) = {}
    BY DEF PInv, Parts
  <2>2. CASE g = f
    BY <1>1, <1>3, <2>1, <2>2
  <2>3. CASE h = f
    BY <1>1, <1>3, <2>1, <2>3
  <2>4. CASE g # f /\ h # f
    BY <1>3, <2>4 DEF PInv, Parts
  <2> QED BY <2>2, <2>3, <2>4
<1>4. ASSUME NEW x
      PROVE  x \in 0 .. TotalQ - 1 <=>
               (x \in Free(free_list') \/ \E g \in Func : x \in Covers(entry'[g]))
  <2>1. x \in 0 .. TotalQ - 1 <=>
          (x \in Free(free_list) \/ \E g \in Func : x \in Covers(entry[g]))
    BY DEF PInv, Parts
  <2>2. (\E g \in Func : x \in Covers(entry'[g])) <=>
          (x \in Covers(e) \/ \E g \in Func : g # f /\ x \in Covers(entry[g]))
    BY <1>1
  <2>3. (\E g \in Func : x \in Covers(entry[g])) <=>
          (x \in Covers(entry[f]) \/ \E g \in Func : g # f /\ x \in Covers(entry[g]))
    OBVIOUS
  <2> QED BY <2>1, <2>2, <2>3
<1>5. (Free(free_list))' = Free(free_list')
  BY DEF Free
<1> QED BY <1>2, <1>3, <1>4 DEF Parts, Sorted, HasRun, Covers, End, Free


LEMMA RunsKept ==
  ASSUME PInv, free_list' = free_list, master' = master,
         \A g \in Func : entry'[g].qbase = entry[g].qbase /\ entry'[g].total_q = entry[g].total_q
  PROVE  Parts'
<1>1. \A g \in Func : Covers(entry'[g]) = Covers(entry[g]) /\ (HasRun(entry[g]) => HasRun(entry'[g]))
  BY DEF Covers, End, HasRun
<1>2. /\ Sorted(free_list) /\ (~master => free_list = <<>>)
      /\ \A f \in Func : HasRun(entry[f]) /\ Covers(entry[f]) \cap Free(free_list) = {}
      /\ \A f, g \in Func : f # g => Covers(entry[f]) \cap Covers(entry[g]) = {}
      /\ master => \A x : x \in 0 .. TotalQ - 1 <=>
                            (x \in Free(free_list) \/ \E f \in Func : x \in Covers(entry[f]))
  BY DEF PInv, Parts
<1>3. /\ Sorted(free_list') /\ (~master' => free_list' = <<>>)
      /\ \A f \in Func : HasRun(entry'[f]) /\ Covers(entry'[f]) \cap Free(free_list') = {}
      /\ \A f, g \in Func : f # g => Covers(entry'[f]) \cap Covers(entry'[g]) = {}
      /\ master' => \A x : x \in 0 .. TotalQ - 1 <=>
                            (x \in Free(free_list') \/ \E f \in Func : x \in Covers(entry'[f]))
  BY <1>1, <1>2
<1> QED BY <1>3 DEF Parts, Sorted, HasRun, Covers, End, Free

LEMMA FreshIs ==
  /\ FreshEntry \in Entries /\ HasRun(FreshEntry) /\ Covers(FreshEntry) = {}
  /\ FreshEntry.qbase = -1 /\ FreshEntry.total_q = 0
  /\ FreshEntry.active = [t \in QTypes |-> 0]
  /\ ClosedDrv \in Drivers /\ ~ClosedDrv.open /\ ClosedDrv.qmax = 0 /\ ClosedDrv.queues = {}
  /\ OpenedDrv \in Drivers /\ OpenedDrv.open /\ OpenedDrv.qmax = 0 /\ OpenedDrv.queues = {}
<1>1. -1 \in -1 .. TotalQ - 1
  BY TotalAssumption
<1>2. FreshEntry \in Entries /\ HasRun(FreshEntry) /\ Covers(FreshEntry) = {}
      /\ FreshEntry.qbase = -1 /\ FreshEntry.total_q = 0
      /\ FreshEntry.active = [t \in QTypes |-> 0]
  BY <1>1 DEF FreshEntry, Entries, HasRun, Covers, End
<1> DEFINE yes  == TRUE
           no   == FALSE
           none == {}
<1>3. yes \in BOOLEAN /\ no \in BOOLEAN /\ none \in SUBSET QueueSet
  OBVIOUS
<1>4. ClosedDrv = [open |-> no, qbase |-> -1, qmax |-> 0, init_qrange |-> no, queues |-> none]
  BY DEF ClosedDrv
<1>5. OpenedDrv = [ClosedDrv EXCEPT !.open = yes]
  BY DEF OpenedDrv
<1>6. yes = TRUE /\ no = FALSE /\ none = {}
  OBVIOUS
<1> HIDE DEF yes, no, none
<1>7. OpenedDrv = [open |-> yes, qbase |-> -1, qmax |-> 0, init_qrange |-> no, queues |-> none]
  BY <1>4, <1>5
<1>8. ClosedDrv \in Drivers /\ OpenedDrv \in Drivers
  BY <1>1, <1>3, <1>4, <1>7 DEF Drivers
<1>9. /\ ClosedDrv.open = no /\ ClosedDrv.qmax = 0 /\ ClosedDrv.queues = none
      /\ OpenedDrv.open = yes /\ OpenedDrv.qmax = 0 /\ OpenedDrv.queues = none
  BY <1>4, <1>7
<1> QED BY <1>2, <1>6, <1>8, <1>9

LEMMA InitPInv == Init => PInv
<1> SUFFICES ASSUME Init PROVE PInv
  OBVIOUS
<1>1. /\ master = FALSE /\ free_list = <<>> /\ dev_list = {}
      /\ entry = [f \in Func |-> FreshEntry] /\ drv = [f \in Func |-> ClosedDrv]
  BY DEF Init
<1>2. \A v \in VF : v \in Func
  BY DEF Func
<1>3. \A f \in Func : entry[f] = FreshEntry /\ drv[f] = ClosedDrv
  BY <1>1
<1>4. entry \in [Func -> Entries] /\ drv \in [Func -> Drivers]
  BY <1>1, FreshIs
<1>5. \A f \in Func : ~drv[f].open
  BY <1>3, FreshIs
<1>6. Members
  BY <1>1, <1>2, <1>3, <1>4, <1>5 DEF Members
<1>7. Parts
  BY <1>1, <1>3, FreshIs, EmptySorted DEF Parts
<1> QED BY <1>6, <1>7 DEF PInv

LEMMA OpenPInv ==
  ASSUME PInv, NEW f \in Func, Open(f)
  PROVE  PInv'
<1>1. /\ ~drv[f].open /\ (f \in VF => drv[Parent[f]].open) /\ drv' = [drv EXCEPT ![f] = OpenedDrv]
      /\ master' = TRUE /\ dev_list' = dev_list \cup {f}
      /\ IF master THEN free_list' = free_list ELSE free_list' = <<Chunk(0, TotalQ)>>
      /\ entry' = [entry EXCEPT ![f] = FreshEntry]
  BY DEF Open, MasterResourceCreate, DevEntryCreate
<1>2. entry \in [Func -> Entries] /\ drv \in [Func -> Drivers] /\ f \notin dev_list
  BY <1>1 DEF PInv, Members
<1>3. entry[f] = FreshEntry
  BY <1>2 DEF PInv, Members
<1>4. entry' = entry
  BY <1>1, <1>2, <1>3
<1>5. Members'
  <2>1. drv' \in [Func -> Drivers]
    BY <1>1, <1>2, FreshIs
  <2>2. drv'[f].open = TRUE /\ \A g \in Func : g # f => drv'[g] = drv[g]
    BY <1>1, <1>2, FreshIs
  <2>3. \A g \in Func : drv'[g].open <=> g \in dev_list'
    BY <1>1, <2>2 DEF PInv, Members
  <2>4. \A g \in Func \ dev_list' : entry'[g] = FreshEntry /\ drv'[g] = ClosedDrv
    BY <1>1, <1>4, <2>2 DEF PInv, Members
  <2>5. \A v \in VF : drv'[v].open => drv'[Parent[v]].open
    <3> SUFFICES ASSUME NEW v \in VF, drv'[v].open PROVE drv'[Parent[v]].open
      OBVIOUS
    <3>1. Parent[v] \in Func /\ v \in Func
      BY ParentAssumption DEF Func
    <3>2. drv[Parent[v]].open
      BY <1>1, <2>2, <3>1 DEF PInv, Members
    <3> QED BY <2>2, <3>1, <3>2
  <2>6. dev_list' \subseteq Func /\ (master' <=> dev_list' # {}) /\ master' \in BOOLEAN
    BY <1>1 DEF PInv, Members
  <2> QED BY <1>2, <1>4, <2>1, <2>3, <2>4, <2>5, <2>6 DEF Members
<1>6. Parts'
  <2>1. CASE master
    <3>1. master' = master
      BY <1>1, <2>1 DEF PInv, Members
    <3> QED BY <1>1, <1>4, <2>1, <3>1, RunsKept
  <2>2. CASE ~master
    <3>1. \A g \in Func : Covers(entry'[g]) = {} /\ HasRun(entry'[g])
      BY <1>4, <2>2, FreshIs DEF PInv, Members
    <3>2. Sorted(free_list') /\ Free(free_list') = 0 .. TotalQ - 1
      <4>1. /\ Chunk(0, TotalQ) \in Chunks
            /\ Covers(Chunk(0, TotalQ)) = Run(0, TotalQ)
        BY TotalAssumption, RunIsChunk
      <4>2. Run(0, TotalQ) = 0 .. TotalQ - 1
        BY TotalAssumption DEF Run
      <4> QED BY <1>1, <2>2, <4>1, <4>2, SingleSorted
    <3>3. /\ Sorted(free_list') /\ (~master' => free_list' = <<>>)
          /\ \A g \in Func : HasRun(entry'[g]) /\ Covers(entry'[g]) \cap Free(free_list') = {}
          /\ \A g, h \in Func : g # h => Covers(entry'[g]) \cap Covers(entry'[h]) = {}
          /\ master' => \A x : x \in 0 .. TotalQ - 1 <=>
                                 (x \in Free(free_list') \/ \E g \in Func : x \in Covers(entry'[g]))
      BY <1>1, <3>1, <3>2
    <3> QED BY <3>3 DEF Parts, Sorted, HasRun, Covers, End, Free
  <2> QED BY <2>1, <2>2
<1> QED BY <1>5, <1>6 DEF PInv

LEMMA SetQmaxPInv ==
  ASSUME PInv, NEW f \in Func, NEW n \in Nat, SetQmax(f, n)
  PROVE  PInv'
<1>1. entry \in [Func -> Entries] /\ drv \in [Func -> Drivers]
  BY DEF PInv, Members
<1>2. f \in dev_list /\ drv[f].open /\ master' = master /\ dev_list' = dev_list /\ master
  <2>1. f \in dev_list /\ drv[f].open /\ master' = master /\ dev_list' = dev_list
    BY QmaxSet
  <2> QED BY <2>1 DEF PInv, Members
<1>3. CASE /\ free_list' = free_list /\ entry' = entry /\ drv' = drv
  <2>1. Parts'
    BY <1>2, <1>3, RunsKept
  <2>2. Members'
    BY <1>2, <1>3 DEF PInv, Members
  <2> QED BY <2>1, <2>2 DEF PInv
<1>4. ASSUME NEW e \in Entries, HasRun(e),
             Sorted(free_list'), Covers(e) \cap Free(free_list') = {},
             Covers(e) \cup Free(free_list') = Covers(entry[f]) \cup Free(free_list),
             NEW new \in Entries, new.qbase = e.qbase, new.total_q = e.total_q,
             entry' = [entry EXCEPT ![f] = new],
             drv' \in [Func -> Drivers], \A g \in Func : drv'[g].open = drv[g].open,
             \A g \in Func : g # f => drv'[g] = drv[g]
      PROVE  PInv'
  <2>1. entry'[f] = new /\ \A g \in Func : g # f => entry'[g] = entry[g]
    BY <1>1, <1>4
  <2>2. Parts'
    BY <1>2, <1>4, <2>1, Exchanged
  <2>3. Members'
    <3>1. entry' \in [Func -> Entries]
      BY <1>1, <1>4
    <3>2. \A g \in Func \ dev_list' : entry'[g] = FreshEntry /\ drv'[g] = ClosedDrv
      BY <1>2, <1>4, <2>1 DEF PInv, Members
    <3>3. \A v \in VF : drv'[v].open => drv'[Parent[v]].open
      <4>1. \A v \in VF : v \in Func /\ Parent[v] \in Func
        BY ParentAssumption DEF Func
      <4> QED BY <1>4, <4>1 DEF PInv, Members
    <3> QED BY <1>2, <1>4, <3>1, <3>2, <3>3 DEF PInv, Members
  <2> QED BY <2>2, <2>3 DEF PInv
<1>5. ASSUME NEW e \in Entries, HasRun(e),
             Sorted(free_list'), Covers(e) \cap Free(free_list') = {},
             Covers(e) \cup Free(free_list') = Covers(entry[f]) \cup Free(free_list),
             e.total_q = n, entry' = [entry EXCEPT ![f] = Decremented(e, CleanedUp(f, e))],
             drv' = [drv EXCEPT ![f] = Ready(e.qbase, n)]
      PROVE  PInv'
  <2> DEFINE new == Decremented(e, CleanedUp(f, e))
             nd == Ready(e.qbase, n)
  <2>1. CleanedUp(f, e) \in SUBSET QueueSet
    BY <1>1 DEF CleanedUp, Drivers
  <2>2. e \in [qbase : -1 .. TotalQ - 1, total_q : Nat, active : [QTypes -> Nat]]
    BY DEF Entries
  <2>3. new \in Entries /\ new.qbase = e.qbase /\ new.total_q = e.total_q
    BY <2>1, <2>2, CountKeepsRun
  <2>4. nd \in Drivers /\ nd.open = drv[f].open
    <3>1. e.qbase \in -1 .. TotalQ - 1 /\ drv[f].open
      BY <1>2 DEF Entries
    <3> QED BY <3>1, ReadyIs
  <2> HIDE DEF nd, new
  <2>5. /\ drv' \in [Func -> Drivers] /\ drv'[f] = nd
        /\ \A g \in Func : g # f => drv'[g] = drv[g]
    BY <1>1, <1>5, <2>4 DEF nd
  <2>6. \A g \in Func : drv'[g].open = drv[g].open
    BY <2>4, <2>5
  <2>7. entry' = [entry EXCEPT ![f] = new]
    BY <1>5 DEF new
  <2> QED BY <1>4, <1>5, <2>3, <2>5, <2>6, <2>7
<1> QED
  <2>1. \/ /\ free_list' = free_list /\ entry' = entry /\ drv' = drv
        \/ \E e \in Entries :
             /\ HasRun(e)
             /\ Sorted(free_list') /\ Covers(e) \cap Free(free_list') = {}
             /\ Covers(e) \cup Free(free_list') = Covers(entry[f]) \cup Free(free_list)
             /\ \/ /\ e.total_q = n
                   /\ entry' = [entry EXCEPT ![f] = Decremented(e, CleanedUp(f, e))]
                   /\ drv' = [drv EXCEPT ![f] = Ready(e.qbase, n)]
                \/ entry' = [entry EXCEPT ![f] = e] /\ drv' = drv
    BY QmaxSet
  <2> QED BY <1>1, <1>3, <1>4, <1>5, <2>1

\* A function adds a queue of kind k at index i, whatever comes of it.
Adds(f, k, i) ==
  \/ QueueAdd(f, k, i)
  \/ QueueAddUnprepared(f, k, i)
  \/ \E ts \in SUBSET QTypes : QueueAddUnanswered(f, k, i, ts)

\* The queue it enables, and the counters that go up.
AddsAs(f, q, ts) ==
  /\ \/ drv' = [drv EXCEPT ![f].queues = drv[f].queues \cup {q}]
     \/ \E b \in BOOLEAN : drv' = [drv EXCEPT ![f].init_qrange = b,
                                            ![f].queues = drv[f].queues \cup {q}]
  /\ \/ ts = {} /\ entry' = entry /\ active_qcnt' = active_qcnt
     \/ /\ entry' = [entry EXCEPT ![f] = IncrementedIn(entry[f], ts)]
        /\ active_qcnt' = active_qcnt + Cardinality(ts)
  /\ drv[f].open /\ master' = master /\ free_list' = free_list /\ dev_list' = dev_list
  /\ drained' = drained

LEMMA NewIn ==
  ASSUME NEW k \in Kinds, NEW i \in 0 .. TotalQ - 1
  PROVE  /\ \A b \in BOOLEAN : NewQueue(k, i, b) \in QueueSet
         /\ Unprepared(k, i) \in QueueSet
<1>1. k.t \in QTypes /\ k.st \in BOOLEAN /\ "H2C" \in QTypes
  BY KindAssumption DEF QTypes
<1> QED BY <1>1 DEF NewQueue, Unprepared, QueueSet

LEMMA Added ==
  ASSUME NEW f \in Func, NEW k \in Kinds, NEW i \in 0 .. TotalQ - 1, Adds(f, k, i)
  PROVE  /\ MayAdd(f, k, i)
         /\ \/ /\ CountAccepted(f, k, drv[f].qbase + i)
               /\ AddsAs(f, NewQueue(k, i, TRUE), Counted(k))
            \/ /\ ~CountAccepted(f, k, drv[f].qbase + i)
               /\ AddsAs(f, NewQueue(k, i, FALSE), {})
            \/ f \in PF /\ AddsAs(f, Unprepared(k, i), {})
            \/ /\ CountAccepted(f, k, drv[f].qbase + i) /\ f \in VF
               /\ \E ts \in SUBSET Counted(k) : AddsAs(f, NewQueue(k, i, FALSE), ts)
<1> DEFINE ok == CountAccepted(f, k, drv[f].qbase + i)
<1>1. CASE QueueAdd(f, k, i)
  <2>1. /\ MayAdd(f, k, i) /\ drv[f].open
        /\ drv' = [drv EXCEPT ![f].init_qrange = f \in PF,
                              ![f].queues = drv[f].queues \cup {NewQueue(k, i, ok)}]
        /\ IF ok THEN /\ entry' = [entry EXCEPT ![f] = Incremented(entry[f], k)]
                      /\ active_qcnt' = active_qcnt + BoardIncrement(k)
           ELSE entry' = entry /\ active_qcnt' = active_qcnt
        /\ master' = master /\ free_list' = free_list /\ dev_list' = dev_list
        /\ drained' = drained
    BY <1>1 DEF QueueAdd, MayAdd
  <2> DEFINE b == f \in PF
  <2>2. b \in BOOLEAN
    OBVIOUS
  <2>3. CASE ok
    <3>1. ok = TRUE
      BY <2>3 DEF CountAccepted
    <3>2. NewQueue(k, i, ok) = NewQueue(k, i, TRUE)
      BY <3>1, Zenon
    <3>3. drv' = [drv EXCEPT ![f].init_qrange = b,
                             ![f].queues = drv[f].queues \cup {NewQueue(k, i, TRUE)}]
      BY <2>1, <3>2
    <3> HIDE DEF b
    <3>4. \E c \in BOOLEAN : drv' =
            [drv EXCEPT ![f].init_qrange = c,
                        ![f].queues = drv[f].queues \cup {NewQueue(k, i, TRUE)}]
      BY <2>2, <3>3
    <3> HIDE DEF ok
    <3>5. AddsAs(f, NewQueue(k, i, TRUE), Counted(k))
      BY <2>1, <2>3, <3>4 DEF AddsAs, Incremented, BoardIncrement
    <3> QED BY <2>1, <2>3, <3>5 DEF ok
  <2>4. CASE ~ok
    <3>1. ok = FALSE
      BY <2>4 DEF CountAccepted
    <3>2. NewQueue(k, i, ok) = NewQueue(k, i, FALSE)
      BY <3>1, Zenon
    <3>3. drv' = [drv EXCEPT ![f].init_qrange = b,
                             ![f].queues = drv[f].queues \cup {NewQueue(k, i, FALSE)}]
      BY <2>1, <3>2
    <3> HIDE DEF b
    <3>4. \E c \in BOOLEAN : drv' =
            [drv EXCEPT ![f].init_qrange = c,
                        ![f].queues = drv[f].queues \cup {NewQueue(k, i, FALSE)}]
      BY <2>2, <3>3
    <3> HIDE DEF ok
    <3>5. AddsAs(f, NewQueue(k, i, FALSE), {})
      BY <2>1, <2>4, <3>4 DEF AddsAs
    <3> QED BY <2>1, <2>4, <3>5 DEF ok
  <2> QED BY <2>3, <2>4
<1>2. CASE QueueAddUnprepared(f, k, i)
  <2>1. f \in PF /\ MayAdd(f, k, i) /\ AddsAs(f, Unprepared(k, i), {})
    BY <1>2 DEF QueueAddUnprepared, Left, MayAdd, AddsAs
  <2> QED BY <2>1
<1>3. ASSUME NEW ts \in SUBSET QTypes, QueueAddUnanswered(f, k, i, ts)
      PROVE  /\ f \in VF /\ MayAdd(f, k, i) /\ ok /\ ts \in SUBSET Counted(k)
             /\ AddsAs(f, NewQueue(k, i, FALSE), ts)
  BY <1>3 DEF QueueAddUnanswered, Left, MayAdd, AddsAs
<1> QED BY <1>1, <1>2, <1>3 DEF Adds

LEMMA AddsPInv ==
  ASSUME PInv, NEW f \in Func, NEW k \in Kinds, NEW i \in 0 .. TotalQ - 1, Adds(f, k, i)
  PROVE  PInv'
<1>1. \E q \in QueueSet : \E ts : AddsAs(f, q, ts)
  <2>1. \/ AddsAs(f, NewQueue(k, i, TRUE), Counted(k))
        \/ AddsAs(f, NewQueue(k, i, FALSE), {})
        \/ AddsAs(f, Unprepared(k, i), {})
        \/ \E ts \in SUBSET Counted(k) : AddsAs(f, NewQueue(k, i, FALSE), ts)
    BY Added
  <2>2. /\ NewQueue(k, i, TRUE) \in QueueSet /\ NewQueue(k, i, FALSE) \in QueueSet
        /\ Unprepared(k, i) \in QueueSet
    BY NewIn
  <2> QED BY <2>1, <2>2, Zenon
<1>2. PICK q \in QueueSet : \E ts : AddsAs(f, q, ts)
  BY <1>1
<1>a. PICK ts : AddsAs(f, q, ts)
  BY <1>2
<1> DEFINE qs == drv[f].queues \cup {q}
<1>3. /\ drv[f].open
      /\ \/ drv' = [drv EXCEPT ![f].queues = qs]
         \/ \E b \in BOOLEAN : drv' = [drv EXCEPT ![f].init_qrange = b, ![f].queues = qs]
      /\ entry' = [entry EXCEPT ![f] = IncrementedIn(entry[f], ts)] \/ entry' = entry
      /\ master' = master /\ free_list' = free_list /\ dev_list' = dev_list
  BY <1>a DEF AddsAs
<1>4. entry \in [Func -> Entries] /\ drv \in [Func -> Drivers] /\ f \in dev_list
  BY <1>3 DEF PInv, Members
<1>5. qs \in SUBSET QueueSet
  BY <1>4 DEF Drivers
<1> HIDE DEF qs
<1>6. /\ entry' \in [Func -> Entries] /\ \A g \in Func : g # f => entry'[g] = entry[g]
      /\ entry'[f].qbase = entry[f].qbase /\ entry'[f].total_q = entry[f].total_q
  <2>1. /\ IncrementedIn(entry[f], ts) \in Entries
        /\ IncrementedIn(entry[f], ts).qbase = entry[f].qbase
        /\ IncrementedIn(entry[f], ts).total_q = entry[f].total_q
    <3>1. entry[f] \in [qbase : -1 .. TotalQ - 1, total_q : Nat, active : [QTypes -> Nat]]
      BY <1>4 DEF Entries
    <3> QED BY <3>1, CountKeepsRun
  <2> QED BY <1>3, <1>4, <2>1
<1>7. /\ drv' \in [Func -> Drivers] /\ \A g \in Func : g # f => drv'[g] = drv[g]
      /\ drv'[f].open = drv[f].open
  BY <1>3, <1>4, <1>5, DriverQueues
<1>8. Parts'
  BY <1>3, <1>6, RunsKept
<1>9. Members'
  <2>1. \A g \in Func \ dev_list' : entry'[g] = FreshEntry /\ drv'[g] = ClosedDrv
    BY <1>3, <1>4, <1>6, <1>7 DEF PInv, Members
  <2>2. \A v \in VF : drv'[v].open => drv'[Parent[v]].open
    <3>1. \A v \in VF : v \in Func /\ Parent[v] \in Func
      BY ParentAssumption DEF Func
    <3> QED BY <1>7, <3>1 DEF PInv, Members
  <2>3. \A g \in Func : drv'[g].open <=> g \in dev_list'
    BY <1>3, <1>7 DEF PInv, Members
  <2> QED BY <1>3, <1>6, <1>7, <2>1, <2>2, <2>3 DEF PInv, Members
<1> QED BY <1>8, <1>9 DEF PInv

LEMMA QueueRemovePInv ==
  ASSUME PInv, NEW f \in Func, NEW q \in drv[f].queues, QueueRemove(f, q)
  PROVE  PInv'
<1> DEFINE qs == drv[f].queues \ {q}
           gone == {q}
<1>1. /\ drv[f].open /\ drv' = [drv EXCEPT ![f].queues = qs]
      /\ entry' = [entry EXCEPT ![f] = Decremented(entry[f], gone)]
      /\ master' = master /\ free_list' = free_list /\ dev_list' = dev_list
  BY DEF QueueRemove
<1>2. entry \in [Func -> Entries] /\ drv \in [Func -> Drivers] /\ f \in dev_list
  BY <1>1 DEF PInv, Members
<1>3. qs \in SUBSET QueueSet /\ gone \in SUBSET QueueSet
  BY <1>2 DEF Drivers
<1> HIDE DEF qs, gone
<1>4. /\ entry' \in [Func -> Entries] /\ \A g \in Func : g # f => entry'[g] = entry[g]
      /\ entry'[f].qbase = entry[f].qbase /\ entry'[f].total_q = entry[f].total_q
  <2>1. /\ Decremented(entry[f], gone) \in Entries
        /\ Decremented(entry[f], gone).qbase = entry[f].qbase
        /\ Decremented(entry[f], gone).total_q = entry[f].total_q
    <3>1. entry[f] \in [qbase : -1 .. TotalQ - 1, total_q : Nat, active : [QTypes -> Nat]]
      BY <1>2 DEF Entries
    <3> QED BY <1>3, <3>1, CountKeepsRun
  <2> QED BY <1>1, <1>2, <2>1
<1>5. /\ drv' \in [Func -> Drivers] /\ \A g \in Func : g # f => drv'[g] = drv[g]
      /\ drv'[f].open = drv[f].open
  BY <1>1, <1>2, <1>3, DriverQueues
<1>6. Parts'
  BY <1>1, <1>4, RunsKept
<1>7. Members'
  <2>1. \A g \in Func \ dev_list' : entry'[g] = FreshEntry /\ drv'[g] = ClosedDrv
    BY <1>1, <1>2, <1>4, <1>5 DEF PInv, Members
  <2>2. \A v \in VF : drv'[v].open => drv'[Parent[v]].open
    <3>1. \A v \in VF : v \in Func /\ Parent[v] \in Func
      BY ParentAssumption DEF Func
    <3> QED BY <1>5, <3>1 DEF PInv, Members
  <2>3. \A g \in Func : drv'[g].open <=> g \in dev_list'
    BY <1>1, <1>5 DEF PInv, Members
  <2> QED BY <1>1, <1>4, <1>5, <2>1, <2>2, <2>3 DEF PInv, Members
<1> QED BY <1>6, <1>7 DEF PInv

\* A function that is the last one is a physical function: the parent of a
\* virtual function is there as long as the virtual function is.
LEMMA ClosePInv ==
  ASSUME PInv, NEW f \in Func, Close(f)
  PROVE  PInv'
<1>1. /\ drv[f].open /\ (\A v \in VF : Parent[v] = f => ~drv[v].open)
      /\ drv' = [drv EXCEPT ![f] = ClosedDrv]
      /\ dev_list' = dev_list \ {f} /\ entry' = [entry EXCEPT ![f] = FreshEntry]
      /\ IF DestroysMaster(f) THEN free_list' = <<>>
         ELSE free_list' = SubmitToFreeList(entry[f], free_list)
      /\ master' = ~DestroysMaster(f)
  BY DEF Close, DevEntryDestroy
<1>2. entry \in [Func -> Entries] /\ drv \in [Func -> Drivers] /\ f \in dev_list /\ master
  BY <1>1 DEF PInv, Members
<1>3. \A v \in VF : v \in Func /\ Parent[v] \in PF /\ Parent[v] \in Func /\ v \notin PF
  BY ParentAssumption DEF Func
<1>4. DestroysMaster(f) <=> dev_list' = {}
  <2>1. ASSUME dev_list = {f} PROVE f \in PF
    <3> SUFFICES ASSUME f \in VF PROVE FALSE
      BY DEF Func
    <3>1. Parent[f] \in dev_list
      BY <1>1, <1>3 DEF PInv, Members
    <3> QED BY <1>3, <2>1, <3>1
  <2> QED BY <1>1, <1>2, <2>1 DEF DestroysMaster
<1>5. /\ entry'[f] = FreshEntry /\ drv'[f] = ClosedDrv
      /\ \A g \in Func : g # f => (entry'[g] = entry[g] /\ drv'[g] = drv[g])
  BY <1>1, <1>2
<1>6. Members'
  <2>1. entry' \in [Func -> Entries] /\ drv' \in [Func -> Drivers]
    BY <1>1, <1>2, FreshIs
  <2>2. \A g \in Func \ dev_list' : entry'[g] = FreshEntry /\ drv'[g] = ClosedDrv
    BY <1>1, <1>5 DEF PInv, Members
  <2>3. \A g \in Func : drv'[g].open <=> g \in dev_list'
    BY <1>1, <1>5, FreshIs DEF PInv, Members
  <2>4. \A v \in VF : drv'[v].open => drv'[Parent[v]].open
    BY <1>1, <1>3, <1>5, FreshIs DEF PInv, Members
  <2>5. dev_list' \subseteq Func /\ (master' <=> dev_list' # {}) /\ master' \in BOOLEAN
    BY <1>1, <1>4 DEF PInv, Members
  <2> QED BY <2>1, <2>2, <2>3, <2>4, <2>5 DEF Members
<1>7. Parts'
  <2>1. CASE DestroysMaster(f)
    <3>1. \A g \in Func : Covers(entry'[g]) = {} /\ HasRun(entry'[g])
      <4>1. \A g \in Func : entry'[g] = FreshEntry
        BY <1>4, <1>6, <2>1 DEF Members
      <4> QED BY <4>1, FreshIs
    <3>2. free_list' = <<>> /\ ~master' /\ Sorted(free_list') /\ Free(free_list') = {}
      BY <1>1, <2>1, EmptySorted
    <3>3. /\ Sorted(free_list') /\ (~master' => free_list' = <<>>)
          /\ \A g \in Func : HasRun(entry'[g]) /\ Covers(entry'[g]) \cap Free(free_list') = {}
          /\ \A g, h \in Func : g # h => Covers(entry'[g]) \cap Covers(entry'[h]) = {}
          /\ master' => \A x : x \in 0 .. TotalQ - 1 <=>
                                 (x \in Free(free_list') \/ \E g \in Func : x \in Covers(entry'[g]))
      BY <3>1, <3>2
    <3> QED BY <3>3 DEF Parts, Sorted, HasRun, Covers, End, Free
  <2>2. CASE ~DestroysMaster(f)
    <3> DEFINE e == FreshEntry
               p == SubmitToFreeList(entry[f], free_list)
    <3>1. /\ HasRun(entry[f]) /\ Sorted(free_list)
          /\ Covers(entry[f]) \cap Free(free_list) = {}
      BY DEF PInv, Parts
    <3>2. Sorted(p) /\ Free(p) = Free(free_list) \cup Covers(entry[f])
      BY <3>1, Submitted
    <3>3. free_list' = p /\ master'
      BY <1>1, <2>2
    <3>4. /\ HasRun(e) /\ Covers(e) = {}
          /\ entry'[f].qbase = e.qbase /\ entry'[f].total_q = e.total_q
      BY <1>5, FreshIs
    <3> HIDE DEF e, p
    <3>5. /\ Sorted(free_list') /\ Covers(e) \cap Free(free_list') = {}
          /\ Covers(e) \cup Free(free_list') = Covers(entry[f]) \cup Free(free_list)
      BY <3>2, <3>3, <3>4
    <3> QED BY <1>2, <1>5, <3>3, <3>4, <3>5, Exchanged
  <2> QED BY <2>1, <2>2
<1> QED BY <1>6, <1>7 DEF PInv

LEMMA StepPInv == PInv /\ [Next]_vars => PInv'
<1> SUFFICES ASSUME PInv, [Next]_vars PROVE PInv'
  OBVIOUS
<1>1. CASE UNCHANGED vars
  <2>1. Members'
    BY <1>1 DEF PInv, Members, vars
  <2>2. Parts'
    BY <1>1, RunsKept DEF vars
  <2> QED BY <2>1, <2>2 DEF PInv
<1>2. ASSUME NEW f \in Func, Open(f) PROVE PInv'
  BY <1>2, OpenPInv
<1>3. ASSUME NEW f \in Func, NEW n \in 0 .. TotalQ + 1, SetQmax(f, n) PROVE PInv'
  <2>1. n \in Nat
    BY TotalAssumption
  <2> QED BY <1>3, <2>1, SetQmaxPInv
<1>4. ASSUME NEW f \in Func, NEW k \in Kinds, NEW i \in 0 .. TotalQ - 1, Adds(f, k, i)
      PROVE  PInv'
  BY <1>4, AddsPInv
<1>5. ASSUME NEW f \in Func, NEW q \in drv[f].queues, QueueRemove(f, q) PROVE PInv'
  BY <1>5, QueueRemovePInv
<1>6. ASSUME NEW f \in Func, Close(f) PROVE PInv'
  BY <1>6, ClosePInv
<1> QED BY <1>1, <1>2, <1>3, <1>4, <1>5, <1>6 DEF Next, Adds

LEMMA PInvPartitions == PInv => QueuesPartitioned
<1> SUFFICES ASSUME PInv, master PROVE QueuesPartitioned
  BY DEF QueuesPartitioned
<1>1. /\ dev_list \subseteq Func /\ \A f \in Func \ dev_list : entry[f] = FreshEntry
  BY DEF PInv, Members
<1>2. \A i, j \in DOMAIN free_list : i < j => End(free_list[i]) <= free_list[j].qbase
  <2> SUFFICES ASSUME NEW i \in DOMAIN free_list, NEW j \in DOMAIN free_list, i < j
               PROVE  End(free_list[i]) <= free_list[j].qbase
    OBVIOUS
  <2>1. Sorted(free_list)
    BY DEF PInv, Parts
  <2> QED BY <2>1 DEF Sorted
<1>3. \A f, g \in dev_list : f # g => Covers(entry[f]) \cap Covers(entry[g]) = {}
  BY <1>1 DEF PInv, Parts
<1>4. \A f \in dev_list, i \in DOMAIN free_list :
         Covers(entry[f]) \cap Covers(free_list[i]) = {}
  BY <1>1 DEF PInv, Parts, Free
<1>5. (UNION {Covers(entry[f]) : f \in dev_list})
         \cup (UNION {Covers(free_list[i]) : i \in DOMAIN free_list}) = 0 .. TotalQ - 1
  <2>1. \A x : x \in 0 .. TotalQ - 1 <=>
                 (x \in Free(free_list) \/ \E f \in Func : x \in Covers(entry[f]))
    BY DEF PInv, Parts
  <2>2. \A f \in Func : f \notin dev_list => Covers(entry[f]) = {}
    BY <1>1, FreshIs
  <2> QED BY <1>1, <2>1, <2>2 DEF Free
<1> QED BY <1>2, <1>3, <1>4, <1>5 DEF QueuesPartitioned

\* However often functions come and go and ranges are resized, refused and
\* given back, for every board: the free chunks and the ranges of the entries
\* partition its queues, and the free list stays sorted
\* (qdma_request_q_resource, qdma_submit_to_free_list, qdma_get_resource_node).
THEOREM RangesPartition == Spec => []QueuesPartitioned
<1>1. Init => PInv
  BY InitPInv
<1>2. PInv /\ [Next]_vars => PInv'
  BY StepPInv
<1>3. PInv => QueuesPartitioned
  BY PInvPartitions
<1> QED BY <1>1, <1>2, <1>3, PTL DEF Spec


-----------------------------------------------------------------------------
(* Counting queues.                                                        *)

\* The queues of qs that are counted in t.
In(t, qs) == {q \in qs : t \in Counted(KindOf(q))}

One(b) == IF b THEN 1 ELSE 0

\* Every queue is counted in its own type, a stream C2H queue in CMPT too.
LEMMA CountedTypes ==
  ASSUME NEW q \in QueueSet
  PROVE  /\ q.conf \in QTypes /\ q.conf \in Counted(KindOf(q))
         /\ Counted(KindOf(q)) \subseteq QTypes
<1>1. q.conf \in QTypes /\ KindOf(q).t = q.conf
  BY DEF QueueSet, KindOf
<1> QED BY <1>1 DEF Counted, QTypes

LEMMA Counts ==
  ASSUME NEW qs \in SUBSET QueueSet, NEW t
  PROVE  /\ IsFiniteSet(In(t, qs)) /\ CountedIn(t, qs) = Cardinality(In(t, qs))
         /\ CountedIn(t, qs) \in Nat
         /\ \A ps \in SUBSET qs : CountedIn(t, ps) <= CountedIn(t, qs)
         /\ qs = {} => CountedIn(t, qs) = 0
         /\ CountedIn(t, qs) = 0 => In(t, qs) = {}
<1>1. IsFiniteSet(qs) /\ CountedIn(t, qs) \in Nat
  BY QueuesFinite
<1>2. IsFiniteSet(In(t, qs))
  <2>1. In(t, qs) \in SUBSET qs
    BY DEF In
  <2> QED BY <1>1, <2>1, FS_Subset
<1>3. CountedIn(t, qs) = Cardinality(In(t, qs))
  BY DEF CountedIn, In
<1>4. ASSUME NEW ps \in SUBSET qs PROVE CountedIn(t, ps) <= CountedIn(t, qs)
  <2>1. In(t, ps) \in SUBSET In(t, qs) /\ CountedIn(t, ps) = Cardinality(In(t, ps))
    BY DEF In, CountedIn
  <2> QED BY <1>2, <1>3, <2>1, FS_Subset
<1>5. (qs = {} => In(t, qs) = {}) /\ (CountedIn(t, qs) = 0 <=> In(t, qs) = {})
  BY <1>2, <1>3, FS_EmptySet DEF In
<1> QED BY <1>1, <1>2, <1>3, <1>4, <1>5

LEMMA CountsOne ==
  ASSUME NEW q \in QueueSet, NEW t
  PROVE  CountedIn(t, {q}) = One(t \in Counted(KindOf(q)))
<1>1. CountedIn(t, {q}) = Cardinality(In(t, {q}))
  BY DEF CountedIn, In
<1>2. CASE t \in Counted(KindOf(q))
  <2>1. In(t, {q}) = {q}
    BY <1>2 DEF In
  <2> QED BY <1>1, <1>2, <2>1, FS_Singleton DEF One
<1>3. CASE t \notin Counted(KindOf(q))
  <2>1. In(t, {q}) = {}
    BY <1>3 DEF In
  <2> QED BY <1>1, <1>3, <2>1, FS_EmptySet DEF One
<1> QED BY <1>2, <1>3

LEMMA CountsAdded ==
  ASSUME NEW qs \in SUBSET QueueSet, NEW q \in QueueSet, q \notin qs, NEW t
  PROVE  CountedIn(t, qs \cup {q}) = CountedIn(t, qs) + One(t \in Counted(KindOf(q)))
<1>1. /\ IsFiniteSet(In(t, qs)) /\ CountedIn(t, qs) = Cardinality(In(t, qs))
      /\ CountedIn(t, qs) \in Nat
  BY Counts
<1>2. CountedIn(t, qs \cup {q}) = Cardinality(In(t, qs \cup {q}))
  BY DEF CountedIn, In
<1>3. CASE t \in Counted(KindOf(q))
  <2>1. In(t, qs \cup {q}) = In(t, qs) \cup {q} /\ q \notin In(t, qs)
    BY <1>3 DEF In
  <2>2. Cardinality(In(t, qs) \cup {q}) = Cardinality(In(t, qs)) + 1
    BY <1>1, <2>1, FS_AddElement
  <2> QED BY <1>1, <1>2, <1>3, <2>1, <2>2 DEF One
<1>4. CASE t \notin Counted(KindOf(q))
  <2>1. In(t, qs \cup {q}) = In(t, qs)
    BY <1>4 DEF In
  <2> QED BY <1>1, <1>2, <1>4, <2>1 DEF One
<1> QED BY <1>3, <1>4

LEMMA CountsRemoved ==
  ASSUME NEW qs \in SUBSET QueueSet, NEW q \in qs, NEW t
  PROVE  CountedIn(t, qs) = CountedIn(t, qs \ {q}) + One(t \in Counted(KindOf(q)))
<1> DEFINE ps == qs \ {q}
<1>1. ps \in SUBSET QueueSet /\ q \in QueueSet /\ q \notin ps /\ ps \cup {q} = qs
  OBVIOUS
<1> HIDE DEF ps
<1>2. CountedIn(t, ps \cup {q}) = CountedIn(t, ps) + One(t \in Counted(KindOf(q)))
  BY <1>1, CountsAdded
<1> QED BY <1>1, <1>2 DEF ps

\* The number of counters of all types together.
Total(qs) == CountedIn("H2C", qs) + CountedIn("C2H", qs) + CountedIn("CMPT", qs)

LEMMA TotalOne ==
  ASSUME NEW k, k \in [t : QTypes, st : BOOLEAN]
  PROVE  BoardIncrement(k) = One("H2C" \in Counted(k)) + One("C2H" \in Counted(k))
                               + One("CMPT" \in Counted(k))
<1>1. CASE k.t = "C2H" /\ k.st
  <2>1. Counted(k) = {"C2H"} \cup {"CMPT"}
    BY <1>1 DEF Counted
  <2>2. Cardinality({"C2H"}) = 1 /\ IsFiniteSet({"C2H"}) /\ "CMPT" \notin {"C2H"}
    BY FS_Singleton
  <2>3. Cardinality({"C2H"} \cup {"CMPT"}) = 2
    BY <2>2, FS_AddElement
  <2> QED BY <2>1, <2>3 DEF BoardIncrement, One
<1>2. CASE ~(k.t = "C2H" /\ k.st)
  <2>1. Counted(k) = {k.t} /\ k.t \in QTypes
    BY <1>2 DEF Counted
  <2>2. Cardinality({k.t}) = 1
    BY FS_Singleton
  <2> QED BY <2>1, <2>2 DEF BoardIncrement, One, QTypes
<1> QED BY <1>1, <1>2

\* The counters that the known queues of all functions take up, by function and
\* type.
Held(d) ==
  {u \in Func \X QTypes \X QueueSet :
     u[3] \in ToldOf(d[u[1]].queues) /\ u[2] \in Counted(KindOf(u[3]))}
HeldOf(f, t, qs) == {u \in {f} \X {t} \X QueueSet : u[3] \in In(t, qs)}
HeldByOthers(d, f) == {u \in Held(d) : u[1] # f}

LEMMA HeldOfCount ==
  ASSUME NEW f, NEW t, NEW qs \in SUBSET QueueSet
  PROVE  IsFiniteSet(HeldOf(f, t, qs)) /\ Cardinality(HeldOf(f, t, qs)) = CountedIn(t, qs)
<1> DEFINE S == In(t, qs)
           T == HeldOf(f, t, qs)
           g == [q \in S |-> <<f, t, q>>]
<1>1. IsFiniteSet(S) /\ CountedIn(t, qs) = Cardinality(S)
  BY Counts
<1>2. g \in Bijection(S, T)
  <2>1. \A q \in S : g[q] \in T /\ g[q][3] = q
    BY DEF In, HeldOf
  <2>2. \A u \in T : u[3] \in S /\ g[u[3]] = u
    BY DEF In, HeldOf
  <2>3. g \in [S -> T]
    BY <2>1
  <2> HIDE DEF g, S, T
  <2>4. \A p, q \in S : g[p] = g[q] => p = q
    BY <2>1
  <2>5. g \in Injection(S, T) /\ g \in Surjection(S, T)
    BY <2>2, <2>3, <2>4 DEF Injection, IsInjective, Surjection
  <2> QED BY <2>5 DEF Bijection
<1> HIDE DEF g, S, T
<1>3. ExistsBijection(S, T)
  BY <1>2 DEF ExistsBijection
<1> QED BY <1>1, <1>3, FS_Bijection DEF T


LEMMA HeldFinite ==
  ASSUME NEW d
  PROVE  IsFiniteSet(Held(d))
<1> DEFINE F == Func
           T == QTypes
           Q == QueueSet
           P == F \X (T \X Q)
           U == {u \in F \X T \X Q : TRUE}
           g == [u \in U |-> <<u[1], <<u[2], u[3]>>>>]
<1>1. IsFiniteSet(F) /\ IsFiniteSet(T) /\ IsFiniteSet(Q)
  <2>1. IsFiniteSet(F)
    BY FunctionAssumption, FS_Union DEF Func
  <2>2. IsFiniteSet(Q)
    BY QueuesFinite
  <2>3. IsFiniteSet(T)
    <3>1. IsFiniteSet({"H2C"}) /\ IsFiniteSet({"C2H"}) /\ IsFiniteSet({"CMPT"})
      BY FS_Singleton
    <3>2. IsFiniteSet({"C2H"} \cup {"CMPT"})
      BY <3>1, FS_Union
    <3>3. IsFiniteSet({"H2C"} \cup ({"C2H"} \cup {"CMPT"}))
      BY <3>1, <3>2, FS_Union
    <3>4. QTypes = {"H2C"} \cup ({"C2H"} \cup {"CMPT"})
      BY DEF QTypes
    <3> QED BY <3>3, <3>4, Zenon
  <2> QED BY <2>1, <2>2, <2>3
<1>2. Held(d) \in SUBSET U
  BY DEF Held
<1> HIDE DEF F, T, Q
<1>3. IsFiniteSet(P)
  <2>1. IsFiniteSet(T \X Q)
    BY <1>1, FS_Product
  <2> QED BY <1>1, <2>1, FS_Product
<1>4. g \in Injection(U, P)
  <2>1. \A u \in U : g[u] \in P /\ u = <<g[u][1], g[u][2][1], g[u][2][2]>>
    OBVIOUS
  <2>2. g \in [U -> P]
    BY <2>1
  <2> HIDE DEF g, U, P
  <2>3. \A u, v \in U : g[u] = g[v] => u = v
    BY <2>1
  <2> QED BY <2>2, <2>3 DEF Injection, IsInjective
<1> HIDE DEF U, P, g
<1>5. IsFiniteSet(U)
  BY <1>3, <1>4, FS_Injection
<1> QED BY <1>2, <1>5, FS_Subset

\* What all functions hold is what the others hold and what f holds.
LEMMA HeldSum ==
  ASSUME NEW d, d \in [Func -> Drivers], NEW f \in Func
  PROVE  /\ Cardinality(HeldByOthers(d, f)) \in Nat
         /\ Cardinality(Held(d)) = Cardinality(HeldByOthers(d, f)) + Total(ToldOf(d[f].queues))
<1> DEFINE qs == ToldOf(d[f].queues)
           H == HeldOf(f, "H2C", qs)
           C == HeldOf(f, "C2H", qs)
           M == HeldOf(f, "CMPT", qs)
           O == HeldByOthers(d, f)
           A == H \cup C
           B == A \cup M
<1>1. qs \in SUBSET QueueSet
  BY DEF Drivers, ToldOf
<1>2. Held(d) = O \cup B
  <2>1. \A u \in Held(d) : u[1] = f => u \in B
    <3> SUFFICES ASSUME NEW u \in Held(d), u[1] = f PROVE u \in B
      OBVIOUS
    <3>1. PICK t \in QTypes, q \in QueueSet : u = <<f, t, q>> /\ q \in qs /\ t \in Counted(KindOf(q))
      BY DEF Held
    <3>2. q \in In(t, qs)
      BY <3>1 DEF In
    <3>3. u \in HeldOf(f, t, qs)
      BY <3>1, <3>2 DEF HeldOf
    <3> QED BY <3>3 DEF QTypes
  <2>2. \A t \in QTypes : HeldOf(f, t, qs) \subseteq Held(d)
    BY DEF HeldOf, Held, In
  <2>3. H \subseteq Held(d) /\ C \subseteq Held(d) /\ M \subseteq Held(d)
    BY <2>2 DEF QTypes
  <2> QED BY <2>1, <2>3 DEF HeldByOthers
<1>3. O \cap B = {} /\ A \cap M = {} /\ H \cap C = {}
  <2>1. \A t : \A u \in HeldOf(f, t, qs) : u[1] = f /\ u[2] = t
    BY DEF HeldOf
  <2>2. \A u \in O : u[1] # f
    BY DEF HeldByOthers
  <2> QED BY <2>1, <2>2
<1>4. /\ IsFiniteSet(H) /\ Cardinality(H) = CountedIn("H2C", qs)
      /\ IsFiniteSet(C) /\ Cardinality(C) = CountedIn("C2H", qs)
      /\ IsFiniteSet(M) /\ Cardinality(M) = CountedIn("CMPT", qs)
  <2> HIDE DEF qs
  <2>1. \A t : IsFiniteSet(HeldOf(f, t, qs)) /\ Cardinality(HeldOf(f, t, qs)) = CountedIn(t, qs)
    BY <1>1, HeldOfCount
  <2> QED BY <2>1
<1>5. IsFiniteSet(O)
  <2>1. IsFiniteSet(Held(d)) /\ O \in SUBSET Held(d)
    BY HeldFinite DEF HeldByOthers
  <2> QED BY <2>1, FS_Subset
<1> HIDE DEF H, C, M, O, qs
<1>6. IsFiniteSet(A) /\ Cardinality(A) = Cardinality(H) + Cardinality(C)
  <2>1. IsFiniteSet(H \cup C)
        /\ Cardinality(H \cup C) = Cardinality(H) + Cardinality(C) - Cardinality(H \cap C)
    BY <1>4, FS_Union
  <2>2. Cardinality(H \cap C) = 0
    BY <1>3, FS_EmptySet
  <2>3. Cardinality(H) \in Nat /\ Cardinality(C) \in Nat
    BY <1>4, FS_CardinalityType
  <2> QED BY <2>1, <2>2, <2>3
<1> HIDE DEF A
<1>7. IsFiniteSet(B) /\ Cardinality(B) = Cardinality(A) + Cardinality(M)
  <2>1. IsFiniteSet(A \cup M)
        /\ Cardinality(A \cup M) = Cardinality(A) + Cardinality(M) - Cardinality(A \cap M)
    BY <1>4, <1>6, FS_Union
  <2>2. Cardinality(A \cap M) = 0
    BY <1>3, FS_EmptySet
  <2>3. Cardinality(A) \in Nat /\ Cardinality(M) \in Nat
    BY <1>4, <1>6, FS_CardinalityType
  <2> QED BY <2>1, <2>2, <2>3
<1> HIDE DEF B
<1>8. Cardinality(O \cup B) = Cardinality(O) + Cardinality(B)
  <2>1. Cardinality(O \cup B) = Cardinality(O) + Cardinality(B) - Cardinality(O \cap B)
    BY <1>5, <1>7, FS_Union
  <2>2. Cardinality(O \cap B) = 0
    BY <1>3, FS_EmptySet
  <2>3. Cardinality(O) \in Nat /\ Cardinality(B) \in Nat
    BY <1>5, <1>7, FS_CardinalityType
  <2> QED BY <2>1, <2>2, <2>3
<1>9. Cardinality(H) \in Nat /\ Cardinality(C) \in Nat /\ Cardinality(M) \in Nat
      /\ Cardinality(O) \in Nat
  BY <1>4, <1>5, FS_CardinalityType
<1>10. Cardinality(Held(d)) = Cardinality(O) + (Cardinality(H) + Cardinality(C) + Cardinality(M))
  BY <1>2, <1>6, <1>7, <1>8, <1>9
<1> QED BY <1>4, <1>9, <1>10 DEF O, qs, Total

\* Nothing changes for the others when only the driver of f changes.
LEMMA OthersKept ==
  ASSUME NEW c, NEW d, NEW f \in Func, \A g \in Func : g # f => c[g] = d[g]
  PROVE  HeldByOthers(c, f) = HeldByOthers(d, f)
<1>1. \A u \in Func \X QTypes \X QueueSet : u[1] # f => c[u[1]] = d[u[1]]
  OBVIOUS
<1> QED BY <1>1 DEF HeldByOthers, Held


-----------------------------------------------------------------------------
(* The books.                                                              *)

\* No two queues at one index are counted in the same counter.
Spread(qs) ==
  \A p, q \in qs : p.idx = q.idx /\ p # q => Counted(KindOf(p)) \cap Counted(KindOf(q)) = {}

\* The queues of the driver that the counters of function f may count.
Counting(f, d) == IF f \in VF THEN d.queues ELSE ToldOf(d.queues)

\* The driver's picture of its range is the entry's, its queues lie in it, and
\* the counters count the known queues and no more than may be counted.
Agree(f, e, d) ==
  /\ d.qmax = e.total_q /\ (e.total_q # 0 => d.qbase = e.qbase)
  /\ \A q \in d.queues : q.idx < d.qmax
  /\ Spread(Counting(f, d)) /\ \A q \in Counting(f, d) : q.conf = q.t
  /\ \A t \in QTypes : /\ CountedIn(t, ToldOf(d.queues)) <= e.active[t]
                       /\ e.active[t] <= CountedIn(t, Counting(f, d))
                       /\ e.active[t] <= e.total_q

Ledger == \A f \in Func : Agree(f, entry[f], drv[f])

\* The board's counter covers the known queues until it is lowered for another.
Board ==
  /\ active_qcnt \in 0 .. QcntMod - 1 /\ drained \in BOOLEAN
  /\ master /\ ~drained => Cardinality(Held(drv)) <= active_qcnt

RInv == PInv /\ Ledger /\ Board

LEMMA CountedBy ==
  ASSUME NEW q \in QueueSet, NEW t
  PROVE  t \in Counted(KindOf(q)) <=> (t = q.conf \/ (t = "CMPT" /\ q.conf = "C2H" /\ q.st))
<1>1. KindOf(q).t = q.conf /\ KindOf(q).st = q.st
  BY DEF KindOf
<1> QED BY <1>1 DEF Counted

\* The known queues are among those that may be counted.
LEMMA ToldIn ==
  ASSUME NEW f, NEW d \in Drivers
  PROVE  /\ d.queues \in SUBSET QueueSet
         /\ ToldOf(d.queues) \in SUBSET QueueSet /\ Counting(f, d) \in SUBSET QueueSet
         /\ ToldOf(d.queues) \subseteq Counting(f, d) /\ Counting(f, d) \subseteq d.queues
BY DEF Drivers, ToldOf, Counting

\* A function that has no active counter has no queue that is known.
LEMMA Idle ==
  ASSUME PInv, Ledger, NEW f \in Func, ~HasActive(entry[f])
  PROVE  ToldOf(drv[f].queues) = {} /\ \A t \in QTypes : entry[f].active[t] = 0
<1>1. entry[f] \in Entries /\ drv[f] \in Drivers
  BY DEF PInv, Members
<1>2. \A t \in QTypes : entry[f].active[t] = 0
  BY <1>1 DEF HasActive, Entries
<1> DEFINE qs == ToldOf(drv[f].queues)
<1>3. qs \in SUBSET QueueSet
  BY <1>1, ToldIn
<1>4. \A t \in QTypes : CountedIn(t, qs) <= 0
  BY <1>2 DEF Ledger, Agree
<1> HIDE DEF qs
<1>5. ASSUME NEW q \in qs PROVE FALSE
  <2>1. q \in QueueSet
    BY <1>3
  <2>2. q.conf \in QTypes /\ q.conf \in Counted(KindOf(q))
    BY <2>1, CountedTypes
  <2> DEFINE t == q.conf
  <2>3. q \in In(t, qs)
    BY <2>2 DEF In
  <2>4. t \in QTypes
    BY <2>2
  <2> HIDE DEF t
  <2>5. CountedIn(t, qs) = 0
    <3>1. CountedIn(t, qs) \in Nat /\ CountedIn(t, qs) <= 0
      BY <1>3, <1>4, <2>4, Counts
    <3> QED BY <3>1
  <2>6. In(t, qs) = {}
    BY <1>3, <2>5, Counts
  <2> QED BY <2>3, <2>6
<1> QED BY <1>2, <1>5 DEF qs

\* The queues of one counter have different indices below n, and i is one more.
LEMMA RoomLeft ==
  ASSUME NEW qs \in SUBSET QueueSet, Spread(qs), NEW n \in Nat, NEW i \in Nat, i < n,
         \A q \in qs : q.idx < n,
         NEW t, \A q \in In(t, qs) : q.idx # i
  PROVE  CountedIn(t, qs) + 1 <= n
<1> DEFINE S == In(t, qs)
           N == 0 .. n - 1
           T == N \ {i}
           g == [q \in S |-> q.idx]
<1>1. IsFiniteSet(N) /\ Cardinality(N) = n /\ i \in N
  <2>1. IsFiniteSet(0 .. n - 1)
        /\ Cardinality(0 .. n - 1) = IF 0 > n - 1 THEN 0 ELSE n - 1 - 0 + 1
    BY FS_Interval
  <2> QED BY <2>1
<1>2. g \in Injection(S, T)
  <2>1. \A q \in S : q.idx \in T
    BY DEF In, QueueSet
  <2>2. \A p, q \in S : p.idx = q.idx => p = q
    BY DEF In, Spread
  <2>3. g \in [S -> T] /\ \A q \in S : g[q] = q.idx
    BY <2>1
  <2> HIDE DEF g, S, T
  <2> QED BY <2>2, <2>3 DEF Injection, IsInjective
<1> HIDE DEF S, N, g
<1>3. IsFiniteSet(T) /\ Cardinality(T) = n - 1
  <2>1. IsFiniteSet(N \ {i}) /\ Cardinality(N \ {i}) = Cardinality(N) - 1
    BY <1>1, FS_RemoveElement
  <2> QED BY <1>1, <2>1
<1> HIDE DEF T
<1>4. Cardinality(S) <= n - 1
  BY <1>2, <1>3, FS_Injection
<1>5. CountedIn(t, qs) = Cardinality(S) /\ CountedIn(t, qs) \in Nat
  BY Counts DEF S
<1> QED BY <1>4, <1>5

\* What is_usable_queue asks for keeps a queue q that is configured as added
\* apart from those that are, too.
LEMMA UsableApart ==
  ASSUME NEW qs \in SUBSET QueueSet, NEW i \in 0 .. TotalQ - 1, NEW k \in Kinds,
         UsableQueue(qs, i, k), NEW q \in QueueSet, q.idx = i, q.t = k.t
  PROVE  /\ q \notin qs
         /\ q.conf = k.t /\ q.st = k.st =>
              \A p \in qs : p.idx = i /\ p.conf = p.t =>
                             Counted(KindOf(p)) \cap Counted(KindOf(q)) = {}
<1>1. /\ \A p \in qs : p.idx = i => p.t # k.t
      /\ k.t = "CMPT" => \A p \in qs : p.idx = i => ~(p.t # "CMPT" /\ p.st)
      /\ k.t # "CMPT" /\ k.st => \A p \in qs : p.idx = i => p.t # "CMPT"
  BY DEF UsableQueue
<1>2. ASSUME q.conf = k.t, q.st = k.st, NEW p \in qs, p.idx = i, p.conf = p.t,
             NEW t \in Counted(KindOf(p)), t \in Counted(KindOf(q))
      PROVE  FALSE
  <2>1. /\ t = p.t \/ (t = "CMPT" /\ p.t = "C2H" /\ p.st)
        /\ t = k.t \/ (t = "CMPT" /\ k.t = "C2H" /\ k.st)
    <3>1. p \in QueueSet
      OBVIOUS
    <3> QED BY <1>2, <3>1, CountedBy
  <2> QED BY <1>1, <1>2, <2>1
<1> QED BY <1>1, <1>2

LEMMA RangeBound ==
  ASSUME PInv
  PROVE  /\ \A f \in Func : entry[f].total_q \in 0 .. TotalQ
         /\ \A f \in Func : entry[f].total_q # 0 =>
              entry[f].qbase \in Nat /\ Covers(entry[f]) \subseteq 0 .. TotalQ - 1
         /\ \A i \in DOMAIN free_list :
              free_list[i].qbase \in 0 .. TotalQ - 1 /\ free_list[i].total_q \in 1 .. TotalQ
<1>1. \A c : \A b \in Nat, n \in Nat \ {0} :
         c.qbase = b /\ c.total_q = n /\ Covers(c) \subseteq 0 .. TotalQ - 1
           => b \in 0 .. TotalQ - 1 /\ n \in 1 .. TotalQ
  <2> SUFFICES ASSUME NEW c, NEW b \in Nat, NEW n \in Nat \ {0},
                      c.qbase = b, c.total_q = n, Covers(c) \subseteq 0 .. TotalQ - 1
               PROVE  b \in 0 .. TotalQ - 1 /\ n \in 1 .. TotalQ
    OBVIOUS
  <2>1. b \in Covers(c) /\ b + n - 1 \in Covers(c)
    BY DEF Covers, End
  <2>2. b \in 0 .. TotalQ - 1 /\ b + n - 1 \in 0 .. TotalQ - 1
    BY <2>1
  <2> QED BY <2>2, TotalAssumption
<1>2. ASSUME NEW f \in Func, entry[f].total_q # 0
      PROVE  /\ Covers(entry[f]) \subseteq 0 .. TotalQ - 1
             /\ entry[f].qbase \in Nat /\ entry[f].total_q \in Nat \ {0}
  <2>1. master
    BY <1>2, FreshIs DEF PInv, Members
  <2>2. HasRun(entry[f])
    BY DEF PInv, Parts
  <2> QED BY <1>2, <2>1, <2>2 DEF PInv, Parts, HasRun
<1>3. ASSUME NEW i \in DOMAIN free_list
      PROVE  /\ Covers(free_list[i]) \subseteq 0 .. TotalQ - 1
             /\ free_list[i].qbase \in Nat /\ free_list[i].total_q \in Nat \ {0}
  <2>1. master
    <3>1. free_list # <<>>
      BY <1>3
    <3> QED BY <3>1 DEF PInv, Parts
  <2>2. free_list[i].qbase \in Nat /\ free_list[i].total_q \in Nat \ {0}
    <3>1. free_list[i] \in Chunks
      BY Elements DEF PInv, Parts
    <3> QED BY <3>1 DEF Chunks
  <2>3. Covers(free_list[i]) \subseteq Free(free_list)
    BY DEF Free
  <2> QED BY <2>1, <2>2, <2>3 DEF PInv, Parts
<1>4. \A f \in Func : entry[f].total_q \in Nat
  BY DEF PInv, Members, Entries
<1>5. \A f \in Func : entry[f].total_q # 0 => entry[f].total_q \in 1 .. TotalQ
  BY <1>1, <1>2
<1> QED BY <1>1, <1>2, <1>3, <1>4, <1>5, TotalAssumption

\* What qdma_queue_add checks leaves room in the counters: the type that has a
\* free index below qmax has a counter below qmax, and the handler finds the
\* queue in range.
LEMMA AlwaysCounted ==
  ASSUME RInv, NEW f \in Func, NEW k \in Kinds, NEW i \in 0 .. TotalQ - 1, MayAdd(f, k, i)
  PROVE  /\ CountAccepted(f, k, drv[f].qbase + i)
         /\ \A t \in Counted(k) : entry[f].active[t] + 1 <= entry[f].total_q
         /\ Counted(k) \subseteq QTypes
<1> DEFINE q  == NewQueue(k, i, TRUE)
           qs == Counting(f, drv[f])
<1>1. i < drv[f].qmax /\ UsableQueue(drv[f].queues, i, k)
  BY DEF MayAdd, RoomFor
<1>2. /\ entry[f] \in Entries /\ drv[f] \in Drivers /\ qs \in SUBSET QueueSet
      /\ drv[f].queues \in SUBSET QueueSet /\ qs \subseteq drv[f].queues
  <2>1. entry[f] \in Entries /\ drv[f] \in Drivers
    BY DEF RInv, PInv, Members
  <2> QED BY <2>1, ToldIn
<1>3. /\ q \in QueueSet /\ q.idx = i /\ q.t = k.t /\ q.conf = k.t /\ q.st = k.st
      /\ Counted(KindOf(q)) = Counted(k)
  <2>1. q \in QueueSet
    BY NewIn
  <2> QED BY <2>1 DEF NewQueue, KindOf, Counted
<1> HIDE DEF q
<1>4. Agree(f, entry[f], drv[f])
  BY DEF RInv, Ledger
<1>5. \A p \in qs : p.idx = i => Counted(KindOf(p)) \cap Counted(k) = {}
  <2>1. \A p \in drv[f].queues : p.idx = i /\ p.conf = p.t =>
                                 Counted(KindOf(p)) \cap Counted(KindOf(q)) = {}
    BY <1>1, <1>2, <1>3, UsableApart
  <2>2. \A p \in qs : p.conf = p.t
    BY <1>4 DEF Agree
  <2> HIDE DEF qs
  <2> QED BY <1>2, <1>3, <2>1, <2>2
<1>6. Counted(k) \subseteq QTypes
  BY <1>3, CountedTypes
<1>7. ASSUME NEW t \in Counted(k) PROVE entry[f].active[t] + 1 <= entry[f].total_q
  <2>1. t \in QTypes
    BY <1>6
  <2>2. entry[f].active[t] <= CountedIn(t, qs) /\ drv[f].qmax = entry[f].total_q
    BY <1>4, <2>1 DEF Agree
  <2>3. Spread(qs) /\ \A p \in drv[f].queues : p.idx < drv[f].qmax
    BY <1>4 DEF Agree
  <2> DEFINE n == drv[f].qmax
  <2>4. n \in Nat /\ i \in Nat /\ i < n
    BY <1>1, <1>2 DEF Drivers
  <2> HIDE DEF qs
  <2>5. (\A p \in In(t, qs) : p.idx # i) /\ \A p \in qs : p.idx < n
    BY <1>2, <1>5, <1>7, <2>3 DEF In
  <2> HIDE DEF n
  <2>6. CountedIn(t, qs) + 1 <= n
    BY <1>2, <2>3, <2>4, <2>5, RoomLeft
  <2>7. CountedIn(t, qs) \in Nat /\ entry[f].active[t] \in Nat
    BY <1>2, <2>1, Counts DEF Entries
  <2> QED BY <2>2, <2>4, <2>6, <2>7 DEF n
<1>8. CountAccepted(f, k, drv[f].qbase + i)
  <2>1. /\ entry[f].total_q \in Nat /\ entry[f].qbase \in Int
        /\ \A t \in QTypes : entry[f].active[t] \in Nat
    BY <1>2 DEF Entries
  <2>2. \A t \in Counted(k) : entry[f].total_q >= entry[f].active[t] + 1
    BY <1>6, <1>7, <2>1
  <2>3. InRange(f, drv[f].qbase + i)
    <3>1. drv[f].qmax = entry[f].total_q /\ i < entry[f].total_q /\ drv[f].qbase = entry[f].qbase
      BY <1>1, <1>4, <2>1 DEF Agree
    <3> QED BY <2>1, <3>1 DEF InRange, End
  <2> QED BY <2>2, <2>3 DEF CountAccepted
<1> QED BY <1>6, <1>7, <1>8

\* So an addition either succeeds and is counted, or leaves a queue behind that
\* a physical function does not count and a virtual one counts at most as much.
LEMMA QueueAdded ==
  ASSUME RInv, NEW f \in Func, NEW k \in Kinds, NEW i \in 0 .. TotalQ - 1, Adds(f, k, i)
  PROVE  \E q \in QueueSet : \E ts \in SUBSET Counted(k) :
           /\ AddsAs(f, q, ts) /\ active_qcnt + BoardIncrement(k) <= MaxQcnt
           /\ q.idx = i /\ i < drv[f].qmax /\ q \notin drv[f].queues
           /\ Counted(k) \subseteq QTypes
           /\ \A t \in Counted(k) : entry[f].active[t] + 1 <= entry[f].total_q
           /\ q.told => ts = Counted(k)
           /\ IF f \in VF \/ q.told
              THEN /\ q.conf = q.t /\ Counted(KindOf(q)) = Counted(k)
                   /\ \A p \in Counting(f, drv[f]) : p.idx = i =>
                        Counted(KindOf(p)) \cap Counted(k) = {}
              ELSE ts = {}
<1> DEFINE ok == CountAccepted(f, k, drv[f].qbase + i)
           qs == Counting(f, drv[f])
           a  == NewQueue(k, i, TRUE)
           b  == NewQueue(k, i, FALSE)
           u  == Unprepared(k, i)
<1>1. /\ MayAdd(f, k, i)
      /\ \/ ok /\ AddsAs(f, a, Counted(k))
         \/ ~ok /\ AddsAs(f, b, {})
         \/ f \in PF /\ AddsAs(f, u, {})
         \/ ok /\ f \in VF /\ \E ts \in SUBSET Counted(k) : AddsAs(f, b, ts)
  BY Added
<1>2. /\ ok /\ Counted(k) \subseteq QTypes
      /\ \A t \in Counted(k) : entry[f].active[t] + 1 <= entry[f].total_q
  BY <1>1, AlwaysCounted
<1> HIDE DEF ok
<1>3. /\ a \in QueueSet /\ a.idx = i /\ a.t = k.t /\ a.conf = k.t /\ a.st = k.st /\ a.told
      /\ b \in QueueSet /\ b.idx = i /\ b.t = k.t /\ b.conf = k.t /\ b.st = k.st /\ ~b.told
      /\ u \in QueueSet /\ u.idx = i /\ u.t = k.t /\ ~u.told
      /\ Counted(KindOf(a)) = Counted(k) /\ Counted(KindOf(b)) = Counted(k)
  <2>1. a \in QueueSet /\ b \in QueueSet /\ u \in QueueSet
    BY NewIn
  <2> QED BY <2>1 DEF NewQueue, Unprepared, KindOf, Counted
<1> HIDE DEF a, b, u
<1>4. /\ active_qcnt + BoardIncrement(k) <= MaxQcnt /\ i < drv[f].qmax
      /\ UsableQueue(drv[f].queues, i, k)
  BY <1>1 DEF MayAdd, RoomFor
<1>5. drv[f].queues \in SUBSET QueueSet /\ qs \subseteq drv[f].queues
  BY ToldIn DEF RInv, PInv, Members
<1>6. \A p \in qs : p.conf = p.t
  BY DEF RInv, Ledger, Agree
<1> HIDE DEF qs
<1>7. ASSUME NEW q \in QueueSet, q.idx = i, q.t = k.t, q.conf = k.t, q.st = k.st,
             Counted(KindOf(q)) = Counted(k)
      PROVE  \A p \in qs : p.idx = i => Counted(KindOf(p)) \cap Counted(k) = {}
  BY <1>4, <1>5, <1>6, <1>7, UsableApart
<1>8. a \notin drv[f].queues /\ b \notin drv[f].queues /\ u \notin drv[f].queues
  BY <1>3, <1>4, <1>5, UsableApart
<1>9. CASE AddsAs(f, a, Counted(k))
  BY <1>2, <1>3, <1>4, <1>7, <1>8, <1>9 DEF qs
<1>10. CASE f \in PF /\ AddsAs(f, u, {})
  <2>1. f \notin VF
    BY <1>10, ParentAssumption
  <2> QED BY <1>2, <1>3, <1>4, <1>8, <1>10, <2>1
<1>11. ASSUME f \in VF, NEW ts \in SUBSET Counted(k), AddsAs(f, b, ts)
       PROVE  /\ AddsAs(f, b, ts) /\ b.conf = b.t /\ ~b.told
              /\ \A p \in qs : p.idx = i => Counted(KindOf(p)) \cap Counted(k) = {}
  BY <1>3, <1>7, <1>11
<1>12. CASE f \in VF /\ \E ts \in SUBSET Counted(k) : AddsAs(f, b, ts)
  BY <1>2, <1>3, <1>4, <1>8, <1>11, <1>12 DEF qs
<1> QED BY <1>1, <1>2, <1>9, <1>10, <1>12

LEMMA LedgerKept ==
  ASSUME Ledger, NEW f \in Func, Agree(f, entry'[f], drv'[f]),
         \A g \in Func : g # f => entry'[g] = entry[g] /\ drv'[g] = drv[g]
  PROVE  Ledger'
<1>1. \A g \in Func : Agree(g, entry'[g], drv'[g])
  BY DEF Ledger
<1> QED BY <1>1 DEF Ledger, Agree, Spread, CountedIn, Counted, KindOf, Counting, ToldOf

\* The counters of all change by what those of one function change by.
LEMMA HeldMoves ==
  ASSUME PInv, PInv', NEW f \in Func, \A g \in Func : g # f => drv'[g] = drv[g]
  PROVE  /\ Total(ToldOf(drv[f].queues)) \in Nat /\ Total(ToldOf(drv'[f].queues)) \in Nat
         /\ Cardinality(Held(drv)) \in Nat /\ Cardinality(Held(drv')) \in Nat
         /\ Total(ToldOf(drv[f].queues)) <= Cardinality(Held(drv))
         /\ Cardinality(Held(drv')) =
              (Cardinality(Held(drv)) - Total(ToldOf(drv[f].queues))) + Total(ToldOf(drv'[f].queues))
<1> DEFINE c == drv
           d == drv'
           x == ToldOf(c[f].queues)
           y == ToldOf(d[f].queues)
<1>1. c \in [Func -> Drivers] /\ d \in [Func -> Drivers]
  BY DEF PInv, Members, Drivers
<1>2. \A g \in Func : g # f => d[g] = c[g]
  OBVIOUS
<1> HIDE DEF c, d
<1>3. HeldByOthers(d, f) = HeldByOthers(c, f)
  BY <1>2, OthersKept
<1>4. Cardinality(HeldByOthers(c, f)) \in Nat
      /\ Cardinality(Held(c)) = Cardinality(HeldByOthers(c, f)) + Total(x)
  BY <1>1, HeldSum
<1>5. Cardinality(HeldByOthers(d, f)) \in Nat
      /\ Cardinality(Held(d)) = Cardinality(HeldByOthers(d, f)) + Total(y)
  BY <1>1, HeldSum
<1>6. x \in SUBSET QueueSet /\ y \in SUBSET QueueSet
  BY <1>1, ToldIn
<1> HIDE DEF x, y
<1>7. Total(x) \in Nat /\ Total(y) \in Nat
  <2>1. \A t : CountedIn(t, x) \in Nat /\ CountedIn(t, y) \in Nat
    BY <1>6, Counts
  <2> QED BY <2>1 DEF Total
<1> QED BY <1>3, <1>4, <1>5, <1>7 DEF x, y, c, d


LEMMA ModSmall ==
  ASSUME NEW x \in 0 .. QcntMod - 1
  PROVE  x % QcntMod = x
BY CountAssumption

LEMMA CountedSum ==
  ASSUME NEW q \in QueueSet
  PROVE  /\ Total({q}) = Cardinality(Counted(KindOf(q)))
         /\ \A qs \in SUBSET QueueSet :
              /\ q \notin qs => Total(qs \cup {q}) = Total(qs) + Cardinality(Counted(KindOf(q)))
              /\ q \in qs => Total(qs) = Total(qs \ {q}) + Cardinality(Counted(KindOf(q)))
<1> DEFINE k == KindOf(q)
           a(t) == One(t \in Counted(k))
<1>1. k \in [t : QTypes, st : BOOLEAN]
  BY DEF KindOf, QueueSet
<1>2. Cardinality(Counted(k)) = a("H2C") + a("C2H") + a("CMPT")
  <2> HIDE DEF k
  <2> QED BY <1>1, TotalOne DEF BoardIncrement
<1>3. \A t : a(t) \in Nat
  BY DEF One
<1>4. Total({q}) = Cardinality(Counted(k))
  <2>1. \A t : CountedIn(t, {q}) = a(t)
    BY CountsOne
  <2> QED BY <1>2, <2>1 DEF Total
<1>5. ASSUME NEW qs \in SUBSET QueueSet, q \notin qs
      PROVE  Total(qs \cup {q}) = Total(qs) + Cardinality(Counted(k))
  <2> DEFINE more == qs \cup {q}
  <2>1. \A t : CountedIn(t, more) = CountedIn(t, qs) + a(t) /\ CountedIn(t, qs) \in Nat
    BY <1>5, CountsAdded, Counts
  <2> HIDE DEF a, k, more
  <2>2. /\ CountedIn("H2C", more) = CountedIn("H2C", qs) + a("H2C")
        /\ CountedIn("C2H", more) = CountedIn("C2H", qs) + a("C2H")
        /\ CountedIn("CMPT", more) = CountedIn("CMPT", qs) + a("CMPT")
        /\ CountedIn("H2C", qs) \in Nat /\ CountedIn("C2H", qs) \in Nat
        /\ CountedIn("CMPT", qs) \in Nat
        /\ a("H2C") \in Nat /\ a("C2H") \in Nat /\ a("CMPT") \in Nat
    BY <1>3, <2>1
  <2>3. Total(more) = Total(qs) + Cardinality(Counted(k))
    BY <1>2, <2>2 DEF Total
  <2> QED BY <2>3 DEF more
<1>6. ASSUME NEW qs \in SUBSET QueueSet, q \in qs
      PROVE  Total(qs) = Total(qs \ {q}) + Cardinality(Counted(k))
  <2> DEFINE less == qs \ {q}
  <2>1. less \in SUBSET QueueSet /\ q \notin less /\ less \cup {q} = qs
    BY <1>6
  <2> HIDE DEF less, k, a
  <2>2. Total(less \cup {q}) = Total(less) + Cardinality(Counted(k))
    BY <1>5, <2>1
  <2> QED BY <2>1, <2>2 DEF less
<1> QED BY <1>4, <1>5, <1>6

LEMMA TotalEmpty ==
  /\ \A t : CountedIn(t, {}) = 0
  /\ Total({}) = 0
<1>1. \A t : CountedIn(t, {}) = 0
  <2> DEFINE none == {}
  <2>1. none \in SUBSET QueueSet /\ none = {}
    OBVIOUS
  <2> HIDE DEF none
  <2>2. \A t : CountedIn(t, none) = 0
    BY <2>1, Counts
  <2> QED BY <2>2 DEF none
<1> QED BY <1>1 DEF Total

LEMMA AddsBooks ==
  ASSUME RInv, PInv', NEW f \in Func, NEW k \in Kinds, NEW i \in 0 .. TotalQ - 1,
         Adds(f, k, i)
  PROVE  Ledger' /\ Board'
<1>1. PICK q \in QueueSet : \E ts \in SUBSET Counted(k) :
        /\ AddsAs(f, q, ts) /\ active_qcnt + BoardIncrement(k) <= MaxQcnt
        /\ q.idx = i /\ i < drv[f].qmax /\ q \notin drv[f].queues
        /\ Counted(k) \subseteq QTypes
        /\ \A t \in Counted(k) : entry[f].active[t] + 1 <= entry[f].total_q
        /\ q.told => ts = Counted(k)
        /\ IF f \in VF \/ q.told
           THEN /\ q.conf = q.t /\ Counted(KindOf(q)) = Counted(k)
                /\ \A p \in Counting(f, drv[f]) : p.idx = i =>
                     Counted(KindOf(p)) \cap Counted(k) = {}
           ELSE ts = {}
  BY QueueAdded
<1>2. PICK ts \in SUBSET Counted(k) :
        /\ AddsAs(f, q, ts) /\ active_qcnt + BoardIncrement(k) <= MaxQcnt
        /\ q.idx = i /\ i < drv[f].qmax /\ q \notin drv[f].queues
        /\ Counted(k) \subseteq QTypes
        /\ \A t \in Counted(k) : entry[f].active[t] + 1 <= entry[f].total_q
        /\ q.told => ts = Counted(k)
        /\ IF f \in VF \/ q.told
           THEN /\ q.conf = q.t /\ Counted(KindOf(q)) = Counted(k)
                /\ \A p \in Counting(f, drv[f]) : p.idx = i =>
                     Counted(KindOf(p)) \cap Counted(k) = {}
           ELSE ts = {}
  BY <1>1
<1> DEFINE all  == drv[f].queues
           more == all \cup {q}
           old  == ToldOf(drv[f].queues)
           new  == ToldOf(drv'[f].queues)
           qs   == Counting(f, drv[f])
           ps   == Counting(f, drv'[f])
<1>3. entry \in [Func -> Entries] /\ drv \in [Func -> Drivers]
  BY DEF RInv, PInv, Members
<1>4. /\ all \in SUBSET QueueSet /\ more \in SUBSET QueueSet
      /\ old \in SUBSET QueueSet /\ qs \in SUBSET QueueSet
      /\ qs \subseteq all /\ q \notin all
  BY <1>2, <1>3, ToldIn
<1>5. /\ \A g \in Func : g # f => drv'[g] = drv[g]
      /\ drv'[f].qbase = drv[f].qbase /\ drv'[f].qmax = drv[f].qmax /\ drv'[f].queues = more
  <2> HIDE DEF more
  <2>1. \/ drv' = [drv EXCEPT ![f].queues = more]
        \/ \E b \in BOOLEAN : drv' = [drv EXCEPT ![f].init_qrange = b, ![f].queues = more]
    BY <1>2 DEF AddsAs, more
  <2> QED BY <1>3, <1>4, <2>1, DriverQueues
<1>6. /\ new = IF q.told THEN old \cup {q} ELSE old
      /\ ps = IF f \in VF \/ q.told THEN qs \cup {q} ELSE qs
      /\ old \subseteq all /\ q \notin old /\ q \notin qs
  BY <1>4, <1>5 DEF ToldOf, Counting
<1>7. /\ entry'[f].total_q = entry[f].total_q /\ entry'[f].qbase = entry[f].qbase
      /\ \A t \in QTypes : entry'[f].active[t] = entry[f].active[t] + One(t \in ts)
      /\ \A g \in Func : g # f => entry'[g] = entry[g]
  <2>1. PICK b \in -1 .. TotalQ - 1, n \in Nat, a \in [QTypes -> Nat] :
          entry[f] = [qbase |-> b, total_q |-> n, active |-> a]
    BY <1>3 DEF Entries
  <2>2. IncrementedIn(entry[f], ts) = [qbase |-> b, total_q |-> n, active |->
          [t \in QTypes |-> IF t \in ts THEN a[t] + 1 ELSE a[t]]]
    BY <2>1 DEF IncrementedIn
  <2>3. CASE entry' = [entry EXCEPT ![f] = IncrementedIn(entry[f], ts)]
    <3>1. entry'[f] = IncrementedIn(entry[f], ts)
      BY <1>3, <2>3
    <3> QED BY <1>3, <2>1, <2>2, <2>3, <3>1 DEF One
  <2>4. CASE ts = {} /\ entry' = entry
    BY <2>1, <2>4 DEF One
  <2> QED BY <1>2, <2>3, <2>4 DEF AddsAs
<1>8. Agree(f, entry[f], drv[f])
  BY DEF RInv, Ledger
<1>9. /\ drv[f].qmax = entry[f].total_q /\ (entry[f].total_q # 0 => drv[f].qbase = entry[f].qbase)
      /\ (\A p \in all : p.idx < drv[f].qmax)
      /\ Spread(qs) /\ (\A p \in qs : p.conf = p.t)
      /\ \A t \in QTypes : /\ CountedIn(t, old) <= entry[f].active[t]
                           /\ entry[f].active[t] <= CountedIn(t, qs)
                           /\ entry[f].active[t] <= entry[f].total_q
  BY <1>8 DEF Agree
<1> HIDE DEF all, more, old, new, qs, ps
<1>10. Spread(ps) /\ \A p \in ps : p.conf = p.t
  <2>1. CASE f \in VF \/ q.told
    <3>1. q.conf = q.t /\ Counted(KindOf(q)) = Counted(k)
      BY <1>2, <2>1
    <3>2. \A p \in qs : p.idx = q.idx => Counted(KindOf(p)) \cap Counted(KindOf(q)) = {}
      BY <1>2, <2>1, <3>1 DEF qs
    <3>3. ps = qs \cup {q}
      BY <1>6, <2>1
    <3> QED BY <1>9, <3>1, <3>2, <3>3 DEF Spread
  <2>2. CASE ~(f \in VF \/ q.told)
    BY <1>6, <1>9, <2>2
  <2> QED BY <2>1, <2>2
<1>11. ASSUME NEW t \in QTypes
       PROVE  /\ CountedIn(t, new) <= entry'[f].active[t]
              /\ entry'[f].active[t] <= CountedIn(t, ps)
              /\ entry'[f].active[t] <= entry'[f].total_q
  <2>1. /\ CountedIn(t, old) \in Nat /\ CountedIn(t, qs) \in Nat
        /\ entry[f].active[t] \in Nat /\ entry[f].total_q \in Nat
    BY <1>3, <1>4, Counts DEF Entries
  <2>2. /\ CountedIn(t, old \cup {q}) = CountedIn(t, old) + One(t \in Counted(KindOf(q)))
        /\ CountedIn(t, qs \cup {q}) = CountedIn(t, qs) + One(t \in Counted(KindOf(q)))
    BY <1>4, <1>6, CountsAdded
  <2>3. entry'[f].active[t] = entry[f].active[t] + One(t \in ts)
    BY <1>7
  <2>4. One(t \in ts) \in {0, 1} /\ One(t \in Counted(KindOf(q))) \in {0, 1}
    BY DEF One
  <2>5. CountedIn(t, new) <= entry'[f].active[t]
    <3>1. CASE q.told
      <4>1. ts = Counted(KindOf(q))
        BY <1>2, <3>1
      <4> QED BY <1>6, <1>9, <2>1, <2>2, <2>3, <2>4, <3>1, <4>1
    <3>2. CASE ~q.told
      BY <1>6, <1>9, <2>1, <2>3, <2>4, <3>2
    <3> QED BY <3>1, <3>2
  <2>6. entry'[f].active[t] <= CountedIn(t, ps)
    <3>1. CASE f \in VF \/ q.told
      <4>1. Counted(KindOf(q)) = Counted(k)
        BY <1>2, <3>1
      <4>2. One(t \in ts) <= One(t \in Counted(KindOf(q)))
        BY <4>1 DEF One
      <4>3. ps = qs \cup {q}
        BY <1>6, <3>1
      <4> QED BY <1>9, <2>1, <2>2, <2>3, <2>4, <4>2, <4>3
    <3>2. CASE ~(f \in VF \/ q.told)
      <4>1. One(t \in ts) = 0 /\ ps = qs
        BY <1>2, <1>6, <3>2 DEF One
      <4> QED BY <1>9, <2>1, <2>3, <4>1
    <3> QED BY <3>1, <3>2
  <2>7. entry'[f].active[t] <= entry'[f].total_q
    <3>1. CASE t \in ts
      <4>1. entry[f].active[t] + 1 <= entry[f].total_q
        BY <1>2, <3>1
      <4> QED BY <1>7, <2>1, <2>3, <3>1, <4>1 DEF One
    <3>2. CASE t \notin ts
      BY <1>7, <1>9, <2>1, <2>3, <3>2 DEF One
    <3> QED BY <3>1, <3>2
  <2> QED BY <2>5, <2>6, <2>7
<1>12. \A p \in drv'[f].queues : p.idx < drv[f].qmax
  BY <1>2, <1>5, <1>9 DEF more
<1>13. Agree(f, entry'[f], drv'[f])
  BY <1>5, <1>7, <1>9, <1>10, <1>11, <1>12 DEF Agree, new, ps
<1>14. Ledger'
  BY <1>5, <1>7, <1>13, LedgerKept DEF RInv
<1>15. Board'
  <2>1. /\ Cardinality(Held(drv')) = (Cardinality(Held(drv)) - Total(old)) + Total(new)
        /\ Total(old) \in Nat /\ Cardinality(Held(drv)) \in Nat
        /\ Total(old) <= Cardinality(Held(drv))
    BY <1>5, HeldMoves DEF RInv, old, new
  <2>2. Total(old \cup {q}) = Total(old) + Cardinality(Counted(KindOf(q)))
    BY <1>4, <1>6, CountedSum
  <2>3. /\ Cardinality(ts) \in Nat /\ BoardIncrement(k) \in Nat
        /\ Cardinality(ts) <= BoardIncrement(k)
    <3>1. IsFiniteSet(Counted(k))
      <4>1. IsFiniteSet({"C2H"}) /\ IsFiniteSet({"CMPT"}) /\ IsFiniteSet({k.t})
        BY FS_Singleton
      <4>2. IsFiniteSet({"C2H"} \cup {"CMPT"})
        BY <4>1, FS_Union
      <4>3. Counted(k) = {"C2H"} \cup {"CMPT"} \/ Counted(k) = {k.t}
        BY DEF Counted
      <4> QED BY <4>1, <4>2, <4>3
    <3>2. IsFiniteSet(ts) /\ Cardinality(ts) <= Cardinality(Counted(k))
      BY <3>1, FS_Subset
    <3> QED BY <3>1, <3>2, FS_CardinalityType DEF BoardIncrement
  <2>4. /\ active_qcnt' = active_qcnt + Cardinality(ts)
        /\ master' = master /\ drained' = drained
    <3>1. Cardinality({}) = 0
      BY FS_EmptySet
    <3>2. active_qcnt \in Nat
      BY CountAssumption DEF RInv, Board
    <3>3. /\ \/ ts = {} /\ active_qcnt' = active_qcnt
             \/ active_qcnt' = active_qcnt + Cardinality(ts)
          /\ master' = master /\ drained' = drained
      BY <1>2, Zenon DEF AddsAs
    <3>4. CASE ts = {} /\ active_qcnt' = active_qcnt
      <4>1. Cardinality(ts) = 0
        BY <3>1, <3>4
      <4> QED BY <3>2, <3>3, <3>4, <4>1
    <3> QED BY <3>3, <3>4
  <2>5. /\ active_qcnt \in 0 .. QcntMod - 1 /\ drained \in BOOLEAN
        /\ master /\ ~drained => Cardinality(Held(drv)) <= active_qcnt
    BY DEF RInv, Board
  <2>6. active_qcnt' \in 0 .. QcntMod - 1
    BY <1>2, <2>3, <2>4, <2>5, CountAssumption
  <2>7. Cardinality(Held(drv')) <= Cardinality(Held(drv)) + Cardinality(ts)
    <3>1. CASE q.told
      <4>1. ts = Counted(KindOf(q)) /\ new = old \cup {q}
        BY <1>2, <1>6, <3>1
      <4> QED BY <2>1, <2>2, <2>3, <4>1
    <3>2. CASE ~q.told
      BY <1>6, <2>1, <2>3, <3>2
    <3> QED BY <3>1, <3>2
  <2>8. Cardinality(Held(drv')) \in Nat
    BY <1>5, HeldMoves DEF RInv
  <2>9. master' /\ ~drained' => Cardinality(Held(drv')) <= active_qcnt'
    BY <2>1, <2>3, <2>4, <2>5, <2>7, <2>8
  <2> QED BY <2>4, <2>5, <2>6, <2>9 DEF Board, Held, ToldOf, In, Counted, KindOf
<1> QED BY <1>14, <1>15


\* A counter that counts the queues of qs is reduced by exactly their number.
LEMMA DecrementedBy ==
  ASSUME NEW e \in Entries, NEW qs \in SUBSET QueueSet, NEW t \in QTypes,
         CountedIn(t, qs) <= e.active[t]
  PROVE  Decremented(e, qs).active[t] = e.active[t] - CountedIn(t, qs)
<1>1. PICK b \in -1 .. TotalQ - 1, n \in Nat, a \in [QTypes -> Nat] :
        e = [qbase |-> b, total_q |-> n, active |-> a]
  BY DEF Entries
<1>2. Decremented(e, qs) = [qbase |-> b, total_q |-> n, active |->
        [s \in QTypes |-> IF a[s] > CountedIn(s, qs) THEN a[s] - CountedIn(s, qs) ELSE 0]]
  BY <1>1 DEF Decremented
<1>3. CountedIn(t, qs) \in Nat /\ a[t] \in Nat
  BY QueuesFinite
<1> QED BY <1>1, <1>2, <1>3

LEMMA QueueRemoveBooks ==
  ASSUME RInv, PInv', NEW f \in Func, NEW q \in drv[f].queues, QueueRemove(f, q)
  PROVE  Ledger' /\ Board'
<1> DEFINE all  == drv[f].queues
           gone == {q}
           left == all \ {q}
           old  == ToldOf(drv[f].queues)
           new  == ToldOf(drv'[f].queues)
           qs   == Counting(f, drv[f])
           ps   == Counting(f, drv'[f])
<1>1. /\ drv' = [drv EXCEPT ![f].queues = left] /\ q.told
      /\ entry' = [entry EXCEPT ![f] = Decremented(entry[f], gone)]
      /\ active_qcnt' = (active_qcnt - BoardDecrement(gone)) % QcntMod /\ master' = master
      /\ drained' = drained
  BY DEF QueueRemove, BoardDecremented
<1>2. entry \in [Func -> Entries] /\ drv \in [Func -> Drivers]
  BY DEF RInv, PInv, Members
<1>3. /\ all \in SUBSET QueueSet /\ q \in QueueSet /\ gone \in SUBSET QueueSet
      /\ left \in SUBSET QueueSet /\ old \in SUBSET QueueSet /\ qs \in SUBSET QueueSet
      /\ old \subseteq qs /\ qs \subseteq all
  BY <1>2, ToldIn
<1>4. /\ \A g \in Func : g # f => entry'[g] = entry[g] /\ drv'[g] = drv[g]
      /\ drv'[f].queues = left /\ drv'[f].qmax = drv[f].qmax /\ drv'[f].qbase = drv[f].qbase
  <2> HIDE DEF left
  <2>1. /\ \A g \in Func : g # f => drv'[g] = drv[g]
        /\ drv'[f].queues = left /\ drv'[f].qmax = drv[f].qmax
        /\ drv'[f].qbase = drv[f].qbase
    BY <1>1, <1>2, <1>3, DriverQueues
  <2> QED BY <1>1, <1>2, <2>1
<1>5. new = old \ {q} /\ ps = qs \ {q} /\ q \in old /\ q \in qs
  BY <1>1, <1>4 DEF ToldOf, Counting
<1>6. Agree(f, entry[f], drv[f])
  BY DEF RInv, Ledger
<1>7. /\ drv[f].qmax = entry[f].total_q /\ (entry[f].total_q # 0 => drv[f].qbase = entry[f].qbase)
      /\ (\A p \in all : p.idx < drv[f].qmax)
      /\ Spread(qs) /\ (\A p \in qs : p.conf = p.t)
      /\ \A t \in QTypes : /\ CountedIn(t, old) <= entry[f].active[t]
                           /\ entry[f].active[t] <= CountedIn(t, qs)
                           /\ entry[f].active[t] <= entry[f].total_q
  BY <1>6 DEF Agree
<1>8. /\ entry'[f] = Decremented(entry[f], gone)
      /\ entry'[f].total_q = entry[f].total_q /\ entry'[f].qbase = entry[f].qbase
  <2>1. entry[f] \in [qbase : -1 .. TotalQ - 1, total_q : Nat, active : [QTypes -> Nat]]
    BY <1>2 DEF Entries
  <2>2. entry'[f] = Decremented(entry[f], gone)
    BY <1>1, <1>2
  <2> HIDE DEF gone
  <2> QED BY <1>3, <2>1, <2>2, CountKeepsRun
<1> HIDE DEF all, left, old, new, qs, ps
<1>9. ASSUME NEW t \in QTypes
      PROVE  /\ CountedIn(t, new) <= entry'[f].active[t]
             /\ entry'[f].active[t] <= CountedIn(t, ps)
             /\ entry'[f].active[t] <= entry'[f].total_q
  <2>1. CountedIn(t, gone) = One(t \in Counted(KindOf(q)))
    BY <1>3, CountsOne
  <2>2. /\ CountedIn(t, old) = CountedIn(t, new) + One(t \in Counted(KindOf(q)))
        /\ CountedIn(t, qs) = CountedIn(t, ps) + One(t \in Counted(KindOf(q)))
    BY <1>3, <1>5, CountsRemoved
  <2>3. CountedIn(t, new) \in Nat /\ CountedIn(t, ps) \in Nat /\ CountedIn(t, gone) \in Nat
    <3>1. new \in SUBSET QueueSet /\ ps \in SUBSET QueueSet
      BY <1>3, <1>5
    <3> HIDE DEF gone
    <3> QED BY <1>3, <3>1, Counts
  <2>4. entry[f].active[t] \in Nat /\ entry[f].total_q \in Nat
    BY <1>2 DEF Entries
  <2> HIDE DEF gone
  <2>5. CountedIn(t, gone) <= entry[f].active[t]
    BY <1>7, <2>1, <2>2, <2>3, <2>4
  <2>6. entry'[f].active[t] = entry[f].active[t] - CountedIn(t, gone)
    BY <1>2, <1>3, <1>8, <2>5, DecrementedBy
  <2> QED BY <1>7, <1>8, <2>1, <2>2, <2>3, <2>4, <2>6
<1>10. /\ Spread(ps) /\ (\A p \in ps : p.conf = p.t)
       /\ \A p \in drv'[f].queues : p.idx < drv[f].qmax
  BY <1>4, <1>5, <1>7 DEF Spread, left
<1>11. Agree(f, entry'[f], drv'[f])
  BY <1>4, <1>7, <1>8, <1>9, <1>10 DEF Agree, new, ps
<1>12. Ledger'
  BY <1>4, <1>11, LedgerKept DEF RInv
<1>13. Board'
  <2> DEFINE n == Cardinality(Counted(KindOf(q)))
  <2>1. /\ Cardinality(Held(drv')) = (Cardinality(Held(drv)) - Total(old)) + Total(new)
        /\ Total(old) \in Nat /\ Cardinality(Held(drv)) \in Nat
        /\ Total(new) \in Nat /\ Total(old) <= Cardinality(Held(drv))
    BY <1>4, HeldMoves DEF RInv, old, new
  <2>2. Total(old) = Total(new) + n /\ Total(gone) = n
    BY <1>3, <1>5, CountedSum
  <2>3. BoardDecrement(gone) = n
    BY <2>2 DEF BoardDecrement, Total
  <2>4. n \in Nat
    <3> HIDE DEF gone, n
    <3>1. \A t : CountedIn(t, gone) \in Nat
      BY <1>3, Counts
    <3>2. Total(gone) \in Nat
      BY <3>1 DEF Total
    <3> QED BY <2>2, <3>2
  <2> HIDE DEF gone, n
  <2>5. /\ active_qcnt \in 0 .. QcntMod - 1 /\ drained \in BOOLEAN
        /\ master /\ ~drained => Cardinality(Held(drv)) <= active_qcnt
    BY DEF RInv, Board
  <2>6. active_qcnt' \in 0 .. QcntMod - 1
    <3>1. active_qcnt - n \in Int
      BY <2>4, <2>5, CountAssumption
    <3> QED BY <1>1, <2>3, <3>1, CountAssumption
  <2>7. ASSUME master', ~drained' PROVE Cardinality(Held(drv')) <= active_qcnt'
    <3>1. Cardinality(Held(drv)) <= active_qcnt
      BY <1>1, <2>5, <2>7
    <3>2. active_qcnt - n \in 0 .. QcntMod - 1
      BY <2>1, <2>2, <2>4, <2>5, <3>1, CountAssumption
    <3>3. active_qcnt' = active_qcnt - n
      BY <1>1, <2>3, <3>2, ModSmall
    <3>4. Cardinality(Held(drv')) = Cardinality(Held(drv)) - n
      BY <2>1, <2>2, <2>4
    <3> QED BY <2>1, <2>4, <2>5, <3>1, <3>3, <3>4, CountAssumption
  <2> QED BY <1>1, <2>5, <2>6, <2>7 DEF Board, Held, ToldOf, In, Counted, KindOf
<1> QED BY <1>12, <1>13

\* Agreement of an entry and a driver that have no queues at all.
LEMMA NothingAgrees ==
  ASSUME NEW f, NEW e \in Entries, NEW d, d.queues = {}, d.qmax = e.total_q,
         e.total_q # 0 => d.qbase = e.qbase,
         \A t \in QTypes : e.active[t] = 0
  PROVE  Agree(f, e, d)
<1>1. ToldOf(d.queues) = {} /\ Counting(f, d) = {}
  BY DEF ToldOf, Counting
<1>2. \A t \in QTypes : CountedIn(t, {}) = 0
  BY TotalEmpty
<1>3. e.total_q \in Nat
  BY DEF Entries
<1>4. /\ Spread(Counting(f, d)) /\ (\A q \in Counting(f, d) : q.conf = q.t)
      /\ \A q \in d.queues : q.idx < d.qmax
  BY <1>1 DEF Spread
<1>5. \A t \in QTypes : /\ CountedIn(t, ToldOf(d.queues)) <= e.active[t]
                       /\ e.active[t] <= CountedIn(t, Counting(f, d))
                       /\ e.active[t] <= e.total_q
  BY <1>1, <1>2, <1>3
<1> QED BY <1>4, <1>5 DEF Agree

\* What the board counts is kept when f has the known queues it had.
LEMMA BoardKept ==
  ASSUME PInv, PInv', Board, NEW f \in Func, \A g \in Func : g # f => drv'[g] = drv[g],
         ToldOf(drv'[f].queues) = ToldOf(drv[f].queues), master' = master,
         \/ active_qcnt' = active_qcnt /\ drained' = drained
         \/ /\ active_qcnt' \in 0 .. QcntMod - 1 /\ drained' \in BOOLEAN
            /\ ~drained' => ~drained /\ active_qcnt' = active_qcnt
  PROVE  Board'
<1>1. Cardinality(Held(drv')) = Cardinality(Held(drv))
  BY HeldMoves
<1>2. /\ active_qcnt' \in 0 .. QcntMod - 1 /\ drained' \in BOOLEAN
      /\ master' /\ ~drained' => Cardinality(Held(drv')) <= active_qcnt'
  BY <1>1 DEF Board
<1> QED BY <1>2 DEF Board, Held, ToldOf, In, Counted, KindOf

LEMMA SetQmaxBooks ==
  ASSUME RInv, PInv', NEW f \in Func, NEW n \in Nat, SetQmax(f, n)
  PROVE  Ledger' /\ Board'
<1>1. entry \in [Func -> Entries] /\ drv \in [Func -> Drivers]
  BY DEF RInv, PInv, Members
<1>2. Agree(f, entry[f], drv[f]) /\ PInv /\ Ledger /\ Board
  BY DEF RInv, Ledger
<1>3. master' = master
  BY <1>2, QmaxSet
<1>4. CASE entry' = entry /\ drv' = drv /\ active_qcnt' = active_qcnt /\ drained' = drained
  <2>1. Agree(f, entry'[f], drv'[f]) /\ ToldOf(drv'[f].queues) = ToldOf(drv[f].queues)
    BY <1>2, <1>4
  <2>2. \A g \in Func : g # f => entry'[g] = entry[g] /\ drv'[g] = drv[g]
    BY <1>4
  <2> QED BY <1>2, <1>3, <1>4, <2>1, <2>2, LedgerKept, BoardKept
<1>5. ASSUME NEW e \in Entries, ~HasActive(entry[f]), e.active = entry[f].active,
             e.total_q = n,
             entry' = [entry EXCEPT ![f] = Decremented(e, CleanedUp(f, e))],
             active_qcnt' = BoardDecremented(CleanedUp(f, e)),
             drained' = Drained(CleanedUp(f, e)),
             drv' = [drv EXCEPT ![f] = Ready(e.qbase, n)]
      PROVE  Ledger' /\ Board'
  <2> DEFINE gone == CleanedUp(f, e)
             d    == Ready(e.qbase, n)
             new  == Decremented(e, gone)
  <2>1. ToldOf(drv[f].queues) = {} /\ \A t \in QTypes : entry[f].active[t] = 0
    BY <1>2, <1>5, Idle
  <2>2. gone \in SUBSET QueueSet /\ gone \subseteq drv[f].queues
    BY <1>1, ToldIn DEF CleanedUp
  <2>3. e.qbase \in -1 .. TotalQ - 1
    BY DEF Entries
  <2>4. d.queues = {} /\ d.qmax = n /\ d.qbase = e.qbase
    BY <2>3, ReadyIs
  <2>5. /\ entry' = [entry EXCEPT ![f] = new] /\ drv' = [drv EXCEPT ![f] = d]
        /\ active_qcnt' = (active_qcnt - BoardDecrement(gone)) % QcntMod
        /\ drained' = Drained(gone)
    BY <1>5 DEF BoardDecremented
  <2> HIDE DEF gone, d
  <2>6. new \in Entries /\ new.qbase = e.qbase /\ new.total_q = e.total_q
    <3>1. e \in [qbase : -1 .. TotalQ - 1, total_q : Nat, active : [QTypes -> Nat]]
      BY DEF Entries
    <3> QED BY <2>2, <3>1, CountKeepsRun
  <2>7. \A t \in QTypes : new.active[t] = 0
    <3>1. PICK b \in -1 .. TotalQ - 1, m \in Nat, a \in [QTypes -> Nat] :
            e = [qbase |-> b, total_q |-> m, active |-> a]
      BY DEF Entries
    <3>2. new = [qbase |-> b, total_q |-> m, active |->
            [t \in QTypes |-> IF a[t] > CountedIn(t, gone) THEN a[t] - CountedIn(t, gone) ELSE 0]]
      BY <3>1 DEF Decremented
    <3>3. \A t \in QTypes : a[t] = 0 /\ CountedIn(t, gone) \in Nat
      <4>1. \A t : CountedIn(t, gone) \in Nat
        BY <2>2, Counts
      <4> QED BY <1>5, <2>1, <3>1, <4>1
    <3> QED BY <3>2, <3>3
  <2> HIDE DEF new
  <2>8. /\ entry'[f] = new /\ drv'[f] = d
        /\ \A g \in Func : g # f => entry'[g] = entry[g] /\ drv'[g] = drv[g]
    BY <1>1, <2>5
  <2>9. Agree(f, entry'[f], drv'[f])
    BY <1>5, <2>4, <2>6, <2>7, <2>8, NothingAgrees
  <2>10. ToldOf(drv'[f].queues) = ToldOf(drv[f].queues)
    BY <2>1, <2>4, <2>8 DEF ToldOf
  <2>11. active_qcnt \in 0 .. QcntMod - 1 /\ drained \in BOOLEAN
    BY <1>2 DEF Board
  <2>12. active_qcnt' \in 0 .. QcntMod - 1
    <3>1. BoardDecrement(gone) \in Int
      <4>1. \A t : CountedIn(t, gone) \in Nat
        BY <2>2, Counts
      <4> QED BY <4>1 DEF BoardDecrement
    <3>2. active_qcnt - BoardDecrement(gone) \in Int
      BY <2>11, <3>1, CountAssumption
    <3> QED BY <2>5, <3>2, CountAssumption
  <2>13. drained' \in BOOLEAN
    BY <2>5 DEF Drained
  <2>14. ASSUME ~drained' PROVE ~drained /\ active_qcnt' = active_qcnt
    <3>1. ~drained /\ \A q \in gone : q.told
      BY <2>5, <2>14 DEF Drained
    <3>2. gone = {}
      BY <2>1, <2>2, <3>1 DEF ToldOf
    <3>3. BoardDecrement(gone) = 0
      <4>1. \A t : CountedIn(t, {}) = 0
        BY TotalEmpty
      <4> QED BY <3>2, <4>1 DEF BoardDecrement
    <3>4. active_qcnt' = (active_qcnt - 0) % QcntMod /\ active_qcnt - 0 = active_qcnt
      BY <2>5, <2>11, <3>3, CountAssumption
    <3> QED BY <2>11, <3>1, <3>4, ModSmall
  <2>15. Ledger'
    BY <1>2, <2>8, <2>9, LedgerKept
  <2>16. \A g \in Func : g # f => drv'[g] = drv[g]
    BY <2>8
  <2> QED BY <1>2, <1>3, <2>10, <2>12, <2>13, <2>14, <2>15, <2>16, BoardKept
<1>6. ASSUME NEW e \in Entries, e.active = entry[f].active, e.total_q = entry[f].total_q,
             e.total_q # 0 => e.qbase = entry[f].qbase,
             entry' = [entry EXCEPT ![f] = e], active_qcnt' = active_qcnt, drv' = drv,
             drained' = drained
      PROVE  Ledger' /\ Board'
  <2>1. /\ entry'[f] = e /\ drv'[f] = drv[f]
        /\ \A g \in Func : g # f => entry'[g] = entry[g] /\ drv'[g] = drv[g]
    BY <1>1, <1>6
  <2>2. Agree(f, e, drv[f])
    BY <1>2, <1>6 DEF Agree
  <2>3. Agree(f, entry'[f], drv'[f]) /\ ToldOf(drv'[f].queues) = ToldOf(drv[f].queues)
    BY <2>1, <2>2
  <2> QED BY <1>2, <1>3, <1>6, <2>1, <2>3, LedgerKept, BoardKept
<1> QED
  <2>1. \/ entry' = entry /\ drv' = drv /\ active_qcnt' = active_qcnt /\ drained' = drained
        \/ \E e \in Entries :
             /\ ~HasActive(entry[f]) /\ e.active = entry[f].active
             /\ \/ /\ e.total_q = n
                   /\ entry' = [entry EXCEPT ![f] = Decremented(e, CleanedUp(f, e))]
                   /\ active_qcnt' = BoardDecremented(CleanedUp(f, e))
                   /\ drained' = Drained(CleanedUp(f, e))
                   /\ drv' = [drv EXCEPT ![f] = Ready(e.qbase, n)]
                \/ /\ e.total_q = entry[f].total_q
                   /\ e.total_q # 0 => e.qbase = entry[f].qbase
                   /\ entry' = [entry EXCEPT ![f] = e]
                   /\ active_qcnt' = active_qcnt /\ drv' = drv /\ drained' = drained
    BY <1>2, QmaxSet
  <2> QED BY <1>4, <1>5, <1>6, <2>1

LEMMA OpenBooks ==
  ASSUME RInv, PInv', NEW f \in Func, Open(f)
  PROVE  Ledger' /\ Board'
<1>1. /\ ~drv[f].open /\ drv' = [drv EXCEPT ![f] = OpenedDrv] /\ master' = TRUE
      /\ entry' = [entry EXCEPT ![f] = FreshEntry]
      /\ IF master THEN active_qcnt' = active_qcnt /\ drained' = drained
         ELSE active_qcnt' = 0 /\ drained' = FALSE
  BY DEF Open, MasterResourceCreate, DevEntryCreate
<1>2. entry \in [Func -> Entries] /\ drv \in [Func -> Drivers] /\ f \notin dev_list
      /\ PInv /\ Ledger /\ Board
  BY <1>1 DEF RInv, PInv, Members
<1>3. drv[f] = ClosedDrv /\ entry[f] = FreshEntry
  BY <1>2 DEF PInv, Members
<1>4. /\ entry'[f] = FreshEntry /\ drv'[f] = OpenedDrv
      /\ \A g \in Func : g # f => entry'[g] = entry[g] /\ drv'[g] = drv[g]
  BY <1>1, <1>2
<1>5. \A t \in QTypes : FreshEntry.active[t] = 0
  BY FreshIs
<1>6. Agree(f, entry'[f], drv'[f])
  BY <1>4, <1>5, FreshIs, NothingAgrees
<1>7. drv'[f].queues = {} /\ ToldOf(drv'[f].queues) = ToldOf(drv[f].queues)
  BY <1>3, <1>4, FreshIs
<1>8. Ledger'
  BY <1>2, <1>4, <1>6, LedgerKept
<1>9. CASE master
  <2>1. master' = master
    BY <1>1, <1>9 DEF RInv, PInv, Members
  <2> QED BY <1>1, <1>2, <1>4, <1>7, <1>8, <1>9, <2>1, BoardKept
<1>10. CASE ~master
  <2>1. \A g \in Func : drv[g].queues = {}
    BY <1>2, <1>10, FreshIs DEF PInv, Members
  <2>2. \A g \in Func : drv'[g].queues = {}
    BY <1>4, <1>7, <2>1
  <2>3. Held(drv') = {}
    BY <2>2 DEF Held, ToldOf
  <2>4. Cardinality(Held(drv')) = 0
    BY <2>3, FS_EmptySet
  <2>5. active_qcnt' = 0 /\ drained' = FALSE
    BY <1>1, <1>10
  <2>6. /\ active_qcnt' \in 0 .. QcntMod - 1
        /\ master' /\ ~drained' => Cardinality(Held(drv')) <= active_qcnt'
    BY <2>4, <2>5, CountAssumption
  <2>7. drained' \in BOOLEAN
    BY <2>5, Zenon
  <2> QED BY <1>8, <2>6, <2>7 DEF Board, Held, ToldOf, In, Counted, KindOf
<1> QED BY <1>9, <1>10

LEMMA CloseBooks ==
  ASSUME RInv, PInv', NEW f \in Func, Close(f)
  PROVE  Ledger' /\ Board'
<1> DEFINE gone == CleanedUp(f, entry[f])
<1>1. /\ drv[f].open /\ drv' = [drv EXCEPT ![f] = ClosedDrv]
      /\ master' = ~DestroysMaster(f) /\ entry' = [entry EXCEPT ![f] = FreshEntry]
      /\ IF DestroysMaster(f) THEN active_qcnt' = 0 /\ drained' = FALSE
         ELSE /\ active_qcnt' = (active_qcnt - BoardDecrement(gone)) % QcntMod
              /\ drained' = Drained(gone)
  BY DEF Close, DevEntryDestroy, BoardDecremented
<1>2. entry \in [Func -> Entries] /\ drv \in [Func -> Drivers] /\ f \in dev_list /\ master
      /\ PInv /\ Ledger /\ Board
  BY <1>1 DEF RInv, PInv, Members
<1>3. /\ entry'[f] = FreshEntry /\ drv'[f] = ClosedDrv
      /\ \A g \in Func : g # f => entry'[g] = entry[g] /\ drv'[g] = drv[g]
  BY <1>1, <1>2
<1>4. \A t \in QTypes : FreshEntry.active[t] = 0
  BY FreshIs
<1>5. Agree(f, entry'[f], drv'[f])
  BY <1>3, <1>4, FreshIs, NothingAgrees
<1>6. Ledger'
  BY <1>2, <1>3, <1>5, LedgerKept
<1>7. CASE DestroysMaster(f)
  <2>1. active_qcnt' = 0 /\ drained' = FALSE
    BY <1>1, <1>7
  <2>2. ~master'
    BY <1>1, <1>7
  <2>3. active_qcnt' \in 0 .. QcntMod - 1
    BY <2>1, CountAssumption
  <2>4. drained' \in BOOLEAN
    BY <2>1, Zenon
  <2> QED BY <1>6, <2>2, <2>3, <2>4 DEF Board
<1>8. CASE ~DestroysMaster(f)
  <2> DEFINE old == ToldOf(drv[f].queues)
             new == ToldOf(drv'[f].queues)
  <2>1. /\ old \in SUBSET QueueSet /\ gone \in SUBSET QueueSet
        /\ gone \subseteq drv[f].queues
    BY <1>2, ToldIn DEF CleanedUp
  <2>2. /\ Cardinality(Held(drv')) = (Cardinality(Held(drv)) - Total(old)) + Total(new)
        /\ Total(old) \in Nat /\ Cardinality(Held(drv)) \in Nat
        /\ Total(old) <= Cardinality(Held(drv))
    BY <1>2, <1>3, HeldMoves
  <2>3. new = {}
    BY <1>3, FreshIs DEF ToldOf
  <2>4. Total(new) = 0
    BY <2>3, TotalEmpty
  <2>5. /\ active_qcnt' = (active_qcnt - BoardDecrement(gone)) % QcntMod
        /\ drained' = Drained(gone)
    BY <1>1, <1>8
  <2> HIDE DEF gone
  <2>6. /\ active_qcnt \in 0 .. QcntMod - 1 /\ drained \in BOOLEAN
        /\ ~drained => Cardinality(Held(drv)) <= active_qcnt
    BY <1>2 DEF Board
  <2>7. BoardDecrement(gone) \in Nat
    <3>1. \A t : CountedIn(t, gone) \in Nat
      BY <2>1, Counts
    <3> QED BY <3>1 DEF BoardDecrement
  <2>8. active_qcnt' \in 0 .. QcntMod - 1 /\ drained' \in BOOLEAN
    <3>1. active_qcnt - BoardDecrement(gone) \in Int
      BY <2>6, <2>7, CountAssumption
    <3> QED BY <2>5, <3>1, CountAssumption DEF Drained
  <2>9. ASSUME ~drained' PROVE Cardinality(Held(drv')) <= active_qcnt'
    <3>1. ~drained /\ \A q \in gone : q.told
      BY <2>5, <2>9 DEF Drained
    <3>2. gone \in SUBSET old
      BY <2>1, <3>1 DEF ToldOf
    <3> HIDE DEF old, new
    <3>3. BoardDecrement(gone) <= Total(old)
      <4>1. \A t : CountedIn(t, gone) \in Nat /\ CountedIn(t, old) \in Nat
        BY <2>1, Counts
      <4>2. \A t : CountedIn(t, gone) <= CountedIn(t, old)
        BY <2>1, <3>2, Counts
      <4> QED BY <4>1, <4>2 DEF BoardDecrement, Total
    <3>4. Cardinality(Held(drv)) <= active_qcnt
      BY <2>6, <3>1
    <3>5. active_qcnt - BoardDecrement(gone) \in 0 .. QcntMod - 1
      BY <2>2, <2>6, <2>7, <3>3, <3>4, CountAssumption
    <3>6. active_qcnt' = active_qcnt - BoardDecrement(gone)
      BY <2>5, <3>5, ModSmall
    <3> QED BY <2>2, <2>4, <2>6, <2>7, <3>3, <3>4, <3>6, CountAssumption
  <2> QED BY <1>6, <2>8, <2>9 DEF Board, Held, ToldOf, In, Counted, KindOf
<1> QED BY <1>7, <1>8

LEMMA InitBooks == Init => Ledger /\ Board
<1> SUFFICES ASSUME Init PROVE Ledger /\ Board
  OBVIOUS
<1>1. /\ master = FALSE /\ active_qcnt = 0 /\ drained = FALSE
      /\ \A f \in Func : entry[f] = FreshEntry /\ drv[f] = ClosedDrv
  BY DEF Init
<1>2. \A t \in QTypes : FreshEntry.active[t] = 0
  BY FreshIs
<1>3. \A f \in Func : Agree(f, FreshEntry, ClosedDrv)
  BY <1>2, FreshIs, NothingAgrees
<1>4. Ledger
  BY <1>1, <1>3 DEF Ledger
<1>5. active_qcnt \in 0 .. QcntMod - 1 /\ ~master
  BY <1>1, CountAssumption
<1>6. drained \in BOOLEAN
  BY <1>1, Zenon
<1>7. Board
  BY <1>5, <1>6 DEF Board
<1> QED BY <1>4, <1>7

LEMMA StepRInv == RInv /\ [Next]_vars => RInv'
<1> SUFFICES ASSUME RInv, [Next]_vars PROVE RInv'
  OBVIOUS
<1>1. PInv'
  BY StepPInv DEF RInv
<1>2. CASE UNCHANGED vars
  <2>1. /\ entry' = entry /\ drv' = drv /\ master' = master
        /\ active_qcnt' = active_qcnt /\ drained' = drained
    BY <1>2 DEF vars
  <2>2. Ledger'
    <3>1. \A g \in Func : Agree(g, entry'[g], drv'[g])
      BY <2>1 DEF RInv, Ledger
    <3> QED BY <3>1 DEF Ledger, Agree, Spread, CountedIn, Counted, KindOf, Counting, ToldOf
  <2>3. Board'
    BY <2>1 DEF RInv, Board, Held, ToldOf, In, Counted, KindOf
  <2> QED BY <1>1, <2>2, <2>3 DEF RInv
<1>3. ASSUME NEW f \in Func, Open(f) PROVE RInv'
  BY <1>1, <1>3, OpenBooks DEF RInv
<1>4. ASSUME NEW f \in Func, NEW n \in 0 .. TotalQ + 1, SetQmax(f, n) PROVE RInv'
  <2>1. n \in Nat
    BY TotalAssumption
  <2> QED BY <1>1, <1>4, <2>1, SetQmaxBooks DEF RInv
<1>5. ASSUME NEW f \in Func, NEW k \in Kinds, NEW i \in 0 .. TotalQ - 1, Adds(f, k, i)
      PROVE  RInv'
  BY <1>1, <1>5, AddsBooks DEF RInv
<1>6. ASSUME NEW f \in Func, NEW q \in drv[f].queues, QueueRemove(f, q) PROVE RInv'
  BY <1>1, <1>6, QueueRemoveBooks DEF RInv
<1>7. ASSUME NEW f \in Func, Close(f) PROVE RInv'
  BY <1>1, <1>7, CloseBooks DEF RInv
<1> QED BY <1>2, <1>3, <1>4, <1>5, <1>6, <1>7 DEF Next, Adds

LEMMA RInvBooks == RInv => BooksOK
<1> SUFFICES ASSUME RInv PROVE BooksOK
  OBVIOUS
<1>1. /\ entry \in [Func -> Entries] /\ drv \in [Func -> Drivers]
      /\ PInv /\ Ledger /\ Board
  BY DEF RInv, PInv, Members
<1>2. \A f \in Func : Agree(f, entry[f], drv[f]) /\ entry[f].total_q \in 0 .. TotalQ
  BY <1>1, RangeBound DEF Ledger
<1>3. CountsMatchQueues
  <2> SUFFICES ASSUME NEW f \in Func, NEW t \in QTypes
               PROVE  LET known == CountedIn(t, ToldOf(drv[f].queues)) IN
                      /\ f \in PF => entry[f].active[t] = known
                      /\ f \in VF => entry[f].active[t] \in known .. CountedIn(t, drv[f].queues)
    BY DEF CountsMatchQueues
  <2> DEFINE old == ToldOf(drv[f].queues)
             all == drv[f].queues
  <2>1. /\ CountedIn(t, old) <= entry[f].active[t]
        /\ entry[f].active[t] <= CountedIn(t, Counting(f, drv[f]))
    BY <1>2 DEF Agree
  <2>2. entry[f].active[t] \in Nat
    BY <1>1 DEF Entries
  <2>3. old \in SUBSET QueueSet /\ all \in SUBSET QueueSet
    BY <1>1, ToldIn
  <2> HIDE DEF old, all
  <2>4. CountedIn(t, old) \in Nat /\ CountedIn(t, all) \in Nat
    BY <2>3, Counts
  <2>5. /\ f \in PF => Counting(f, drv[f]) = old
        /\ f \in VF => Counting(f, drv[f]) = all
    BY ParentAssumption DEF Counting, old, all
  <2>6. /\ f \in PF => entry[f].active[t] = CountedIn(t, old)
        /\ f \in VF => entry[f].active[t] \in CountedIn(t, old) .. CountedIn(t, all)
    BY <2>1, <2>2, <2>4, <2>5
  <2> QED BY <2>6 DEF old, all
<1>4. CsrGuardHolds
  <2>1. active_qcnt \in Int
    BY <1>1, CountAssumption DEF Board
  <2>2. Cardinality(Held(drv)) \in Nat
    BY HeldFinite, FS_CardinalityType
  <2>3. master /\ ~drained => active_qcnt >= Cardinality(Held(drv))
    BY <1>1, <2>1, <2>2 DEF Board
  <2>4. Held(drv) = Active
    BY DEF Held, Active
  <2> QED BY <2>3, <2>4 DEF CsrGuardHolds, CsrGuardSafe
<1>5. TypeOK
  <2>1. entry \in [Func -> [qbase : -1 .. TotalQ - 1, total_q : 0 .. TotalQ,
                            active : [QTypes -> 0 .. TotalQ]]]
    <3> SUFFICES ASSUME NEW f \in Func
                 PROVE  entry[f] \in [qbase : -1 .. TotalQ - 1, total_q : 0 .. TotalQ,
                                      active : [QTypes -> 0 .. TotalQ]]
      BY <1>1
    <3>1. PICK b \in -1 .. TotalQ - 1, n \in Nat, a \in [QTypes -> Nat] :
            entry[f] = [qbase |-> b, total_q |-> n, active |-> a]
      BY <1>1 DEF Entries
    <3>2. n \in 0 .. TotalQ
      BY <1>2, <3>1
    <3>3. \A t \in QTypes : a[t] \in 0 .. TotalQ
      BY <1>2, <3>1, <3>2, TotalAssumption DEF Agree
    <3>4. a \in [QTypes -> 0 .. TotalQ]
      BY <3>3
    <3> QED BY <3>1, <3>2, <3>4
  <2>2. drv \in [Func -> [open : BOOLEAN, qbase : -1 .. TotalQ - 1,
                          qmax : 0 .. TotalQ, init_qrange : BOOLEAN,
                          queues : SUBSET QueueSet]]
    <3> SUFFICES ASSUME NEW f \in Func
                 PROVE  drv[f] \in [open : BOOLEAN, qbase : -1 .. TotalQ - 1,
                                    qmax : 0 .. TotalQ, init_qrange : BOOLEAN,
                                    queues : SUBSET QueueSet]
      BY <1>1
    <3>1. drv[f].qmax \in 0 .. TotalQ
      BY <1>2 DEF Agree
    <3> QED BY <1>1, <3>1 DEF Drivers
  <2>3. active_qcnt \in 0 .. QcntMod - 1 /\ drained \in BOOLEAN
    BY <1>1 DEF Board
  <2>4. \A i \in DOMAIN free_list :
          free_list[i].qbase \in 0 .. TotalQ - 1 /\ free_list[i].total_q \in 1 .. TotalQ
    BY <1>1, RangeBound
  <2> QED BY <1>1, <2>1, <2>2, <2>3, <2>4 DEF TypeOK, PInv, Members
<1> QED BY <1>3, <1>4, <1>5 DEF BooksOK

\* For every board, set of functions and kinds of queue: the types hold; the
\* counters of a function count the queues whose addition succeeded, and beyond
\* these only queues a virtual function left enabled when an answer was lost;
\* and the board's counter covers all of them until a clean-up lowers it for a
\* queue that a failed addition left.  Additions may fail before the queue is
\* counted (libqdma_export.c:1568-1576) or after (1615-1635), and requests and
\* departures come in any order (qdma_dev_increment_active_queue,
\* qdma_dev_decrement_active_queue, qdma_device_cleanup, qdma_dev_entry_destroy).
THEOREM BooksAreTrue == Spec => []BooksOK
<1>1. Init => RInv
  BY InitPInv, InitBooks DEF RInv
<1>2. RInv /\ [Next]_vars => RInv'
  BY StepRInv
<1>3. RInv => BooksOK
  BY RInvBooks
<1> QED BY <1>1, <1>2, <1>3, PTL DEF Spec


-----------------------------------------------------------------------------
(* The manager is a pool.                                                  *)

\* The owner of a queue is the function whose range covers it: ranges are
\* disjoint, so there is no choice.
OwnerOf(members, en) ==
  [q \in 0 .. TotalQ - 1 |->
     IF \E f \in members : q \in Covers(en[f])
     THEN CHOOSE f \in members : q \in Covers(en[f]) ELSE Nobody]

LEMMA OwnerIs ==
  ASSUME NEW members, NEW en, members \subseteq Func,
         \A f \in Func \ members : Covers(en[f]) = {},
         \A f, g \in Func : f # g => Covers(en[f]) \cap Covers(en[g]) = {},
         NEW q \in 0 .. TotalQ - 1
  PROVE  /\ \A f \in Func : q \in Covers(en[f]) <=> OwnerOf(members, en)[q] = f
         /\ (\A f \in Func : q \notin Covers(en[f])) => OwnerOf(members, en)[q] = Nobody
<1> DEFINE o == OwnerOf(members, en)[q]
<1>1. o = IF \E f \in members : q \in Covers(en[f])
          THEN CHOOSE f \in members : q \in Covers(en[f]) ELSE Nobody
  BY DEF OwnerOf
<1> HIDE DEF o
<1>2. CASE \E f \in members : q \in Covers(en[f])
  <2>1. o \in members /\ q \in Covers(en[o])
    BY <1>1, <1>2
  <2> QED BY <2>1 DEF o
<1>3. CASE \A f \in members : q \notin Covers(en[f])
  <2>1. o = Nobody /\ \A f \in Func : q \notin Covers(en[f])
    BY <1>1, <1>3
  <2>2. Nobody \notin Func
    BY FunctionAssumption DEF Func
  <2> QED BY <2>1, <2>2 DEF o
<1> QED BY <1>2, <1>3

LEMMA InBoard ==
  ASSUME NEW e, HasRun(e), Covers(e) \subseteq 0 .. TotalQ - 1
  PROVE  /\ e.total_q \in 0 .. TotalQ
         /\ e.total_q # 0 => e.qbase \in 0 .. TotalQ - 1
<1>1. CASE e.total_q = 0
  BY <1>1, TotalAssumption
<1>2. CASE e.total_q # 0
  <2>1. e.qbase \in Nat /\ e.total_q \in Nat \ {0}
    BY <1>2 DEF HasRun
  <2>2. e.qbase \in Covers(e) /\ e.qbase + e.total_q - 1 \in Covers(e)
    BY <2>1 DEF Covers, End
  <2>3. e.qbase \in 0 .. TotalQ - 1 /\ e.qbase + e.total_q - 1 \in 0 .. TotalQ - 1
    BY <2>2
  <2> QED BY <2>1, <2>3, TotalAssumption
<1> QED BY <1>1, <1>2

\* What a step of f does to the picture the pool has.
LEMMA Pictured ==
  ASSUME PInv, PInv', NEW f \in Func,
         \A g \in Func : g # f => entry'[g] = entry[g] /\ drv'[g] = drv[g]
  PROVE  /\ Owner' = [q \in 0 .. TotalQ - 1 |->
                        IF q \in Covers(entry'[f]) THEN f
                        ELSE IF Owner[q] = f THEN Nobody ELSE Owner[q]]
         /\ Granted' = [Granted EXCEPT ![f] = drv'[f].qmax]
         /\ Placed' = [Placed EXCEPT ![f] = {drv'[f].qbase + q.idx : q \in ToldOf(drv'[f].queues)}]
         /\ \A q \in 0 .. TotalQ - 1 :
              /\ \A g \in Func : q \in Covers(entry[g]) <=> Owner[q] = g
              /\ (\A g \in Func : q \notin Covers(entry[g])) => Owner[q] = Nobody
         /\ Covers(entry'[f]) = Covers(entry[f]) => Owner' = Owner
<1> DEFINE m == dev_list
           n == dev_list'
           a == entry
           b == entry'
           x == OwnerOf(m, a)
           y == OwnerOf(n, b)
<1>1. Owner = x /\ Owner' = y
  BY DEF Owner, OwnerOf, Covers, End
<1>2. /\ m \subseteq Func /\ \A g \in Func \ m : a[g] = FreshEntry
      /\ \A g, h \in Func : g # h => Covers(a[g]) \cap Covers(a[h]) = {}
  BY DEF PInv, Members, Parts
<1>3. /\ n \subseteq Func /\ \A g \in Func \ n : b[g] = FreshEntry
      /\ \A g, h \in Func : g # h => Covers(b[g]) \cap Covers(b[h]) = {}
  BY DEF PInv, Members, Parts, Covers, End, FreshEntry
<1>4. \A g \in Func : g # f => b[g] = a[g]
  OBVIOUS
<1>5. Owner = [q \in 0 .. TotalQ - 1 |-> Owner[q]]
  BY DEF Owner
<1> HIDE DEF m, n, a, b
<1>6. y = [q \in 0 .. TotalQ - 1 |-> y[q]]
  BY DEF OwnerOf
<1> HIDE DEF x, y
<1>7. \A q \in 0 .. TotalQ - 1 :
        /\ \A g \in Func : q \in Covers(a[g]) <=> x[q] = g
        /\ (\A g \in Func : q \notin Covers(a[g])) => x[q] = Nobody
  BY <1>2, FreshIs, OwnerIs DEF x
<1>8. \A q \in 0 .. TotalQ - 1 :
        /\ \A g \in Func : q \in Covers(b[g]) <=> y[q] = g
        /\ (\A g \in Func : q \notin Covers(b[g])) => y[q] = Nobody
  BY <1>3, FreshIs, OwnerIs DEF y
<1>9. Nobody \notin Func
  BY FunctionAssumption DEF Func
<1>10. ASSUME NEW q \in 0 .. TotalQ - 1
       PROVE  y[q] = IF q \in Covers(b[f]) THEN f ELSE IF x[q] = f THEN Nobody ELSE x[q]
  <2>1. CASE q \in Covers(b[f])
    BY <1>8, <2>1
  <2>2. CASE q \notin Covers(b[f]) /\ \E g \in Func : q \in Covers(b[g])
    <3>1. PICK g \in Func : q \in Covers(b[g])
      BY <2>2
    <3>2. g # f /\ y[q] = g /\ x[q] = g
      BY <1>4, <1>7, <1>8, <2>2, <3>1
    <3> QED BY <2>2, <3>2
  <2>3. CASE \A g \in Func : q \notin Covers(b[g])
    <3>1. y[q] = Nobody
      BY <1>8, <2>3
    <3>2. \A g \in Func : g # f => q \notin Covers(a[g])
      BY <1>4, <2>3
    <3>3. x[q] = f \/ x[q] = Nobody
      BY <1>7, <3>2
    <3> QED BY <2>3, <3>1, <3>3
  <2> QED BY <2>1, <2>2, <2>3
<1>11. y = [q \in 0 .. TotalQ - 1 |->
              IF q \in Covers(b[f]) THEN f ELSE IF x[q] = f THEN Nobody ELSE x[q]]
  BY <1>6, <1>10
<1>12. Covers(b[f]) = Covers(a[f]) => y = [q \in 0 .. TotalQ - 1 |-> x[q]]
  BY <1>6, <1>7, <1>10
<1>13. /\ drv' \in [Func -> Drivers] /\ drv \in [Func -> Drivers]
  BY DEF PInv, Members, Drivers
<1>14. Granted' = [Granted EXCEPT ![f] = drv'[f].qmax]
  <2>1. Granted' = [g \in Func |-> drv'[g].qmax]
    BY DEF Granted
  <2>2. \A g \in Func : g # f => drv'[g].qmax = drv[g].qmax
    OBVIOUS
  <2> QED BY <2>1, <2>2 DEF Granted
<1>15. Placed' = [Placed EXCEPT ![f] = {drv'[f].qbase + q.idx : q \in ToldOf(drv'[f].queues)}]
  <2> DEFINE at(d) == {d.qbase + q.idx : q \in ToldOf(d.queues)}
  <2>1. Placed' = [g \in Func |-> at(drv'[g])] /\ Placed = [g \in Func |-> at(drv[g])]
    BY DEF Placed
  <2>2. \A g \in Func : g # f => at(drv'[g]) = at(drv[g])
    BY Zenon
  <2> HIDE DEF at
  <2>3. Placed' = [Placed EXCEPT ![f] = at(drv'[f])]
    BY <2>1, <2>2
  <2> QED BY <2>3 DEF at
<1> QED BY <1>1, <1>5, <1>7, <1>11, <1>12, <1>14, <1>15 DEF a, b


LEMMA InitPicture == Init => Pool!Init
<1> SUFFICES ASSUME Init PROVE Pool!Init
  OBVIOUS
<1>1. dev_list = {} /\ \A f \in Func : drv[f] = ClosedDrv
  BY DEF Init
<1>2. Owner = [q \in Pool!Queues |-> Nobody]
  BY <1>1 DEF Owner, Pool!Queues
<1>3. Granted = [f \in Func |-> 0]
  BY <1>1, FreshIs DEF Granted
<1>4. Placed = [f \in Func |-> {}]
  BY <1>1, FreshIs DEF Placed, ToldOf
<1> QED BY <1>2, <1>3, <1>4 DEF Pool!Init

\* The picture does not change when the range, the size and the queues of f
\* stay what they were.
LEMMA PictureKept ==
  ASSUME PInv, PInv', NEW f \in Func,
         \A g \in Func : g # f => entry'[g] = entry[g] /\ drv'[g] = drv[g],
         Covers(entry'[f]) = Covers(entry[f]), drv'[f].qmax = drv[f].qmax,
         {drv'[f].qbase + q.idx : q \in ToldOf(drv'[f].queues)}
           = {drv[f].qbase + q.idx : q \in ToldOf(drv[f].queues)}
  PROVE  UNCHANGED <<Owner, Granted, Placed>>
<1>1. Owner' = Owner
  BY Pictured
<1>2. Granted' = [Granted EXCEPT ![f] = drv[f].qmax]
  BY Pictured
<1>3. Granted' = Granted
  BY <1>2 DEF Granted
<1>4. Placed' = [Placed EXCEPT ![f] = {drv[f].qbase + q.idx : q \in ToldOf(drv[f].queues)}]
  BY Pictured
<1>5. Placed' = Placed
  BY <1>4 DEF Placed
<1> QED BY <1>1, <1>3, <1>5

LEMMA OpenPicture ==
  ASSUME RInv, RInv', NEW f \in Func, Open(f)
  PROVE  UNCHANGED <<Owner, Granted, Placed>>
<1>1. /\ ~drv[f].open /\ drv' = [drv EXCEPT ![f] = OpenedDrv]
      /\ entry' = [entry EXCEPT ![f] = FreshEntry]
  BY DEF Open, DevEntryCreate
<1>2. entry \in [Func -> Entries] /\ drv \in [Func -> Drivers] /\ f \notin dev_list
      /\ PInv /\ PInv'
  BY <1>1 DEF RInv, PInv, Members
<1>3. drv[f] = ClosedDrv /\ entry[f] = FreshEntry
  BY <1>2 DEF PInv, Members
<1>4. /\ entry'[f] = entry[f] /\ drv'[f] = OpenedDrv
      /\ \A g \in Func : g # f => entry'[g] = entry[g] /\ drv'[g] = drv[g]
  BY <1>1, <1>2, <1>3
<1>5. /\ drv'[f].qmax = drv[f].qmax
      /\ ToldOf(drv'[f].queues) = {} /\ ToldOf(drv[f].queues) = {}
  BY <1>3, <1>4, FreshIs DEF ToldOf
<1> QED BY <1>2, <1>4, <1>5, PictureKept

\* A granted request hands over a run of what was free or f's own while f
\* uses no queue; a refused one changes nothing.
LEMMA SetQmaxPicture ==
  ASSUME RInv, RInv', NEW f \in Func, NEW n \in 0 .. TotalQ + 1, SetQmax(f, n)
  PROVE  (\E k \in 0 .. TotalQ : Pool!Resize(f, k)) \/ UNCHANGED <<Owner, Granted, Placed>>
<1>1. entry \in [Func -> Entries] /\ drv \in [Func -> Drivers] /\ PInv /\ PInv' /\ Ledger
      /\ n \in Nat
  BY TotalAssumption DEF RInv, PInv, Members
<1>2. f \in dev_list /\ master
  <2>1. f \in dev_list
    BY <1>1, QmaxSet
  <2> QED BY <1>1, <2>1 DEF PInv, Members
<1>3. CASE entry' = entry /\ drv' = drv
  BY <1>1, <1>3, PictureKept
<1>4. ASSUME NEW e \in Entries, ~HasActive(entry[f]), HasRun(e),
             Covers(e) \cup Free(free_list') = Covers(entry[f]) \cup Free(free_list),
             e.total_q = n,
             entry' = [entry EXCEPT ![f] = Decremented(e, CleanedUp(f, e))],
             drv' = [drv EXCEPT ![f] = Ready(e.qbase, n)]
      PROVE  \E k \in 0 .. TotalQ : Pool!Resize(f, k)
  <2> DEFINE d == Ready(e.qbase, n)
             new == Decremented(e, CleanedUp(f, e))
  <2>1. ToldOf(drv[f].queues) = {}
    BY <1>1, <1>4, Idle
  <2>2. new.qbase = e.qbase /\ new.total_q = e.total_q
    <3>1. e \in [qbase : -1 .. TotalQ - 1, total_q : Nat, active : [QTypes -> Nat]]
      BY DEF Entries
    <3>2. CleanedUp(f, e) \in SUBSET QueueSet
      BY <1>1 DEF CleanedUp, Drivers
    <3> QED BY <3>1, <3>2, CountKeepsRun
  <2>3. ToldOf(d.queues) = {} /\ d.qmax = n
    <3>1. e.qbase \in -1 .. TotalQ - 1
      BY DEF Entries
    <3>2. d.queues = {} /\ d.qmax = n
      BY <1>1, <3>1, ReadyIs
    <3> QED BY <3>2 DEF ToldOf
  <2>4. drv' = [drv EXCEPT ![f] = d]
    BY <1>4
  <2> HIDE DEF d, new
  <2>5. /\ entry'[f] = new /\ drv'[f] = d
        /\ \A g \in Func : g # f => entry'[g] = entry[g] /\ drv'[g] = drv[g]
    BY <1>1, <1>4, <2>4 DEF new
  <2>6. Covers(entry'[f]) = Covers(e)
    BY <2>2, <2>5 DEF Covers, End
  <2>7. Covers(e) \subseteq Covers(entry[f]) \cup Free(free_list)
        /\ Covers(e) \subseteq 0 .. TotalQ - 1
    <3>1. Covers(entry[f]) \cup Free(free_list) \subseteq 0 .. TotalQ - 1
      BY <1>2 DEF RInv, PInv, Parts
    <3> QED BY <1>4, <3>1
  <2>8. n \in 0 .. TotalQ /\ (n # 0 => e.qbase \in 0 .. TotalQ - 1)
    BY <1>4, <2>7, InBoard
  <2>9. Granted' = [Granted EXCEPT ![f] = n]
    <3>1. Granted' = [Granted EXCEPT ![f] = drv'[f].qmax]
      BY <1>1, <2>5, Pictured
    <3> QED BY <2>3, <2>5, <3>1
  <2>10. Placed' = Placed /\ Placed[f] = {}
    <3>1. Placed' = [Placed EXCEPT ![f] = {drv'[f].qbase + q.idx : q \in ToldOf(drv'[f].queues)}]
      BY <1>1, <2>5, Pictured
    <3>2. {drv'[f].qbase + q.idx : q \in ToldOf(drv'[f].queues)} = {}
      BY <2>3, <2>5
    <3>3. Placed[f] = {}
      BY <2>1 DEF Placed
    <3>4. Placed' = [Placed EXCEPT ![f] = {}]
      BY <3>1, <3>2
    <3> QED BY <3>3, <3>4 DEF Placed
  <2>11. \E b \in 0 .. TotalQ - 1 : b .. b + n - 1 = Covers(e)
    <3>1. Covers(e) = Run(e.qbase, e.total_q) /\ (e.total_q = 0 => Covers(e) = {})
      BY <1>4, CoversRun
    <3>2. CASE n = 0
      <4> DEFINE z == 0
      <4>1. z \in 0 .. TotalQ - 1 /\ z .. z + n - 1 = {}
        BY <3>2, TotalAssumption
      <4> QED BY <1>4, <3>1, <3>2, <4>1
    <3>3. CASE n # 0
      BY <1>4, <2>8, <3>1, <3>3 DEF Run
    <3> QED BY <3>2, <3>3
  <2>12. PICK b \in 0 .. TotalQ - 1 : b .. b + n - 1 = Covers(e)
    BY <2>11
  <2>13. Covers(e) \subseteq {q \in 0 .. TotalQ - 1 : Owner[q] \in {f, Nobody}}
    <3> SUFFICES ASSUME NEW q \in Covers(e) PROVE Owner[q] = f \/ Owner[q] = Nobody
      BY <2>7
    <3>1. q \in 0 .. TotalQ - 1
      BY <2>7
    <3>2. /\ \A g \in Func : q \in Covers(entry[g]) <=> Owner[q] = g
          /\ (\A g \in Func : q \notin Covers(entry[g])) => Owner[q] = Nobody
      BY <1>1, <2>5, <3>1, Pictured
    <3>3. CASE q \in Covers(entry[f])
      BY <3>2, <3>3
    <3>4. CASE q \in Free(free_list)
      <4>1. \A g \in Func : q \notin Covers(entry[g])
        BY <3>4 DEF RInv, PInv, Parts
      <4> QED BY <3>2, <4>1
    <3> QED BY <2>7, <3>3, <3>4
  <2>14. Owner' = [q \in 0 .. TotalQ - 1 |->
                     IF q \in Covers(e) THEN f
                     ELSE IF Owner[q] = f THEN Nobody ELSE Owner[q]]
    <3>1. Owner' = [q \in 0 .. TotalQ - 1 |->
                      IF q \in Covers(entry'[f]) THEN f
                      ELSE IF Owner[q] = f THEN Nobody ELSE Owner[q]]
      BY <1>1, <2>5, Pictured
    <3> QED BY <2>6, <3>1
  <2>15. Pool!HandOver(f, Covers(e))
    BY <2>14 DEF Pool!HandOver, Pool!Queues
  <2>16. Pool!Resize(f, n)
    BY <2>9, <2>10, <2>12, <2>13, <2>15 DEF Pool!Resize, Pool!Queues
  <2> QED BY <2>8, <2>16
<1>5. ASSUME NEW e \in Entries, HasRun(e), e.total_q = entry[f].total_q,
             e.total_q # 0 => e.qbase = entry[f].qbase,
             entry' = [entry EXCEPT ![f] = e], drv' = drv
      PROVE  UNCHANGED <<Owner, Granted, Placed>>
  <2>1. entry'[f] = e /\ \A g \in Func : g # f => entry'[g] = entry[g]
    BY <1>1, <1>5
  <2>2. HasRun(entry[f])
    BY DEF RInv, PInv, Parts
  <2>3. Covers(e) = Covers(entry[f])
    BY <1>5, <2>2, CoversRun
  <2> QED BY <1>1, <1>5, <2>1, <2>3, PictureKept
<1> QED
  <2>1. \/ entry' = entry /\ drv' = drv
        \/ \E e \in Entries :
             /\ ~HasActive(entry[f]) /\ HasRun(e)
             /\ Covers(e) \cup Free(free_list') = Covers(entry[f]) \cup Free(free_list)
             /\ \/ /\ e.total_q = n
                   /\ entry' = [entry EXCEPT ![f] = Decremented(e, CleanedUp(f, e))]
                   /\ drv' = [drv EXCEPT ![f] = Ready(e.qbase, n)]
                \/ /\ e.total_q = entry[f].total_q
                   /\ e.total_q # 0 => e.qbase = entry[f].qbase
                   /\ entry' = [entry EXCEPT ![f] = e] /\ drv' = drv
    BY <1>1, QmaxSet
  <2> QED BY <1>3, <1>4, <1>5, <2>1

\* An addition that succeeds takes a queue of the function's run; one that
\* leaves a queue behind changes nothing the pool sees.
LEMMA AddsPicture ==
  ASSUME RInv, RInv', NEW f \in Func, NEW k \in Kinds, NEW i \in 0 .. TotalQ - 1,
         Adds(f, k, i)
  PROVE  (\E h \in 0 .. TotalQ - 1 : Pool!Use(f, h)) \/ UNCHANGED <<Owner, Granted, Placed>>
<1>1. PICK q \in QueueSet : \E ts : AddsAs(f, q, ts) /\ q.idx = i /\ i < drv[f].qmax
  BY QueueAdded
<1>2. PICK ts : AddsAs(f, q, ts) /\ q.idx = i /\ i < drv[f].qmax
  BY <1>1
<1> DEFINE more == drv[f].queues \cup {q}
           old  == ToldOf(drv[f].queues)
           h    == drv[f].qbase + i
<1>3. entry \in [Func -> Entries] /\ drv \in [Func -> Drivers] /\ PInv /\ PInv'
  BY DEF RInv, PInv, Members
<1>4. /\ \A g \in Func : g # f => drv'[g] = drv[g]
      /\ drv'[f].qbase = drv[f].qbase /\ drv'[f].qmax = drv[f].qmax /\ drv'[f].queues = more
  <2>1. more \in SUBSET QueueSet
    BY <1>3, ToldIn
  <2> HIDE DEF more
  <2>2. \/ drv' = [drv EXCEPT ![f].queues = more]
        \/ \E b \in BOOLEAN : drv' = [drv EXCEPT ![f].init_qrange = b, ![f].queues = more]
    BY <1>2 DEF AddsAs, more
  <2> QED BY <1>3, <2>1, <2>2, DriverQueues
<1>5. /\ \A g \in Func : g # f => entry'[g] = entry[g]
      /\ Covers(entry'[f]) = Covers(entry[f])
  <2>1. entry[f] \in [qbase : -1 .. TotalQ - 1, total_q : Nat, active : [QTypes -> Nat]]
    BY <1>3 DEF Entries
  <2>2. /\ IncrementedIn(entry[f], ts).qbase = entry[f].qbase
        /\ IncrementedIn(entry[f], ts).total_q = entry[f].total_q
    BY <2>1, CountKeepsRun
  <2>3. entry' = [entry EXCEPT ![f] = IncrementedIn(entry[f], ts)] \/ entry' = entry
    BY <1>2 DEF AddsAs
  <2> QED BY <1>3, <2>2, <2>3 DEF Covers, End
<1>6. ToldOf(drv'[f].queues) = IF q.told THEN old \cup {q} ELSE old
  BY <1>4 DEF ToldOf
<1>7. CASE ~q.told
  <2>1. ToldOf(drv'[f].queues) = ToldOf(drv[f].queues)
    BY <1>6, <1>7
  <2>2. {drv'[f].qbase + p.idx : p \in ToldOf(drv'[f].queues)}
          = {drv[f].qbase + p.idx : p \in ToldOf(drv[f].queues)}
    BY <1>4, <2>1
  <2> QED BY <1>3, <1>4, <1>5, <2>2, PictureKept
<1>8. CASE q.told
  <2>1. h \in Covers(entry[f]) /\ h \in 0 .. TotalQ - 1
    <3>1. drv[f].qmax = entry[f].total_q /\ (entry[f].total_q # 0 => drv[f].qbase = entry[f].qbase)
      BY DEF RInv, Ledger, Agree
    <3>2. entry[f].total_q \in Nat /\ entry[f].qbase \in Int
      BY <1>3 DEF Entries
    <3>3. entry[f].total_q # 0 /\ Covers(entry[f]) \subseteq 0 .. TotalQ - 1
      BY <1>2, <1>3, <3>1, <3>2, RangeBound
    <3>4. h = entry[f].qbase + i /\ i < entry[f].total_q
      BY <1>2, <3>1, <3>3
    <3>5. h \in Covers(entry[f])
      BY <3>2, <3>4 DEF Covers, End
    <3> QED BY <3>3, <3>5
  <2>2. Owner' = Owner /\ Owner[h] = f
    BY <1>3, <1>4, <1>5, <2>1, Pictured
  <2>3. Granted' = Granted
    <3>1. Granted' = [Granted EXCEPT ![f] = drv[f].qmax]
      BY <1>3, <1>4, <1>5, Pictured
    <3> QED BY <3>1 DEF Granted
  <2>4. Placed' = [Placed EXCEPT ![f] = Placed[f] \cup {h}]
    <3>1. Placed' = [Placed EXCEPT ![f] =
                       {drv'[f].qbase + p.idx : p \in ToldOf(drv'[f].queues)}]
      BY <1>3, <1>4, <1>5, Pictured
    <3>2. {drv'[f].qbase + p.idx : p \in ToldOf(drv'[f].queues)}
            = {drv[f].qbase + p.idx : p \in old} \cup {h}
      BY <1>2, <1>4, <1>6, <1>8
    <3>3. Placed[f] = {drv[f].qbase + p.idx : p \in old}
      BY DEF Placed
    <3> QED BY <3>1, <3>2, <3>3
  <2>5. Pool!Use(f, h)
    BY <2>2, <2>3, <2>4 DEF Pool!Use
  <2> QED BY <2>1, <2>5
<1> QED BY <1>7, <1>8

\* A queue removed frees its hardware queue unless another one, of another
\* type, is at the same index.
LEMMA QueueRemovePicture ==
  ASSUME RInv, RInv', NEW f \in Func, NEW q \in drv[f].queues, QueueRemove(f, q)
  PROVE  (\E h \in 0 .. TotalQ - 1 : Pool!Unuse(f, h)) \/ UNCHANGED <<Owner, Granted, Placed>>
<1> DEFINE qs   == ToldOf(drv[f].queues)
           all  == drv[f].queues \ {q}
           left == qs \ {q}
           gone == {q}
           h    == drv[f].qbase + q.idx
<1>1. /\ drv' = [drv EXCEPT ![f].queues = all] /\ q.told
      /\ entry' = [entry EXCEPT ![f] = Decremented(entry[f], gone)]
  BY DEF QueueRemove
<1>2. entry \in [Func -> Entries] /\ drv \in [Func -> Drivers] /\ PInv /\ PInv'
  BY DEF RInv, PInv, Members
<1>3. \A g \in Func : g # f => entry'[g] = entry[g] /\ drv'[g] = drv[g]
  BY <1>1, <1>2
<1>4. /\ ToldOf(drv'[f].queues) = left
      /\ drv'[f].qmax = drv[f].qmax /\ drv'[f].qbase = drv[f].qbase
  <2>1. all \in SUBSET QueueSet
    BY <1>2, ToldIn
  <2> HIDE DEF all
  <2>2. /\ drv'[f].queues = all
        /\ drv'[f].qmax = drv[f].qmax /\ drv'[f].qbase = drv[f].qbase
    BY <1>1, <1>2, <2>1, DriverQueues
  <2> QED BY <2>2 DEF all, ToldOf
<1>5. /\ qs \in SUBSET QueueSet /\ q \in QueueSet /\ gone \in SUBSET QueueSet
      /\ q \in qs
  <2>1. qs \in SUBSET QueueSet
    BY <1>2, ToldIn
  <2>2. q \in qs
    BY <1>1 DEF ToldOf
  <2> QED BY <2>1, <2>2
<1>6. Covers(entry'[f]) = Covers(entry[f])
  <2>1. entry[f] \in [qbase : -1 .. TotalQ - 1, total_q : Nat, active : [QTypes -> Nat]]
    BY <1>2 DEF Entries
  <2>2. entry'[f] = Decremented(entry[f], gone)
    BY <1>1, <1>2
  <2>3. entry'[f].qbase = entry[f].qbase /\ entry'[f].total_q = entry[f].total_q
    <3> HIDE DEF gone
    <3> QED BY <1>5, <2>1, <2>2, CountKeepsRun
  <2> QED BY <2>3 DEF Covers, End
<1>7. CASE \E p \in left : p.idx = q.idx
  <2>1. {drv'[f].qbase + p.idx : p \in ToldOf(drv'[f].queues)}
          = {drv[f].qbase + p.idx : p \in ToldOf(drv[f].queues)}
    BY <1>4, <1>7
  <2> QED BY <1>2, <1>3, <1>4, <1>6, <2>1, PictureKept
<1>8. CASE \A p \in left : p.idx # q.idx
  <2>1. drv[f].qbase \in Int /\ \A p \in qs : p.idx \in Int
    BY <1>2, <1>5 DEF Drivers, QueueSet
  <2>2. h \in 0 .. TotalQ - 1
    <3>1. /\ drv[f].qmax = entry[f].total_q /\ q.idx < drv[f].qmax
          /\ (entry[f].total_q # 0 => drv[f].qbase = entry[f].qbase)
      BY DEF RInv, Ledger, Agree
    <3>2. entry[f].total_q \in Nat /\ entry[f].qbase \in Int /\ q.idx \in Nat
      BY <1>2, <1>5 DEF Entries, QueueSet
    <3>3. entry[f].total_q # 0 /\ Covers(entry[f]) \subseteq 0 .. TotalQ - 1
      BY <1>2, <3>1, <3>2, RangeBound
    <3>4. h = entry[f].qbase + q.idx /\ q.idx < entry[f].total_q
      BY <3>1, <3>3
    <3>5. h \in Covers(entry[f])
      BY <3>2, <3>4 DEF Covers, End
    <3> QED BY <3>3, <3>5
  <2>3. Owner' = Owner
    BY <1>2, <1>3, <1>6, Pictured
  <2>4. Granted' = Granted
    <3>1. Granted' = [Granted EXCEPT ![f] = drv[f].qmax]
      BY <1>2, <1>3, <1>4, Pictured
    <3> QED BY <3>1 DEF Granted
  <2>5. Placed' = [Placed EXCEPT ![f] = Placed[f] \ {h}]
    <3>1. Placed' = [Placed EXCEPT ![f] =
                       {drv'[f].qbase + p.idx : p \in ToldOf(drv'[f].queues)}]
      BY <1>2, <1>3, Pictured
    <3>2. {drv'[f].qbase + p.idx : p \in ToldOf(drv'[f].queues)}
            = {drv[f].qbase + p.idx : p \in left}
      BY <1>4
    <3>3. {drv[f].qbase + p.idx : p \in left} = {drv[f].qbase + p.idx : p \in qs} \ {h}
      <4> DEFINE b == drv[f].qbase
      <4>1. b \in Int /\ q \in qs /\ \A p \in qs : p.idx \in Int
        BY <1>5, <2>1
      <4> HIDE DEF b, qs
      <4>2. ASSUME NEW p \in left PROVE p \in qs /\ b + p.idx # b + q.idx
        <5>1. p \in qs /\ p.idx # q.idx
          BY <1>8
        <5>2. p.idx \in Int /\ q.idx \in Int
          BY <4>1, <5>1
        <5>3. \A x, y \in Int : x # y => b + x # b + y
          BY <4>1
        <5> QED BY <5>1, <5>2, <5>3, Zenon
      <4>3. \A p \in qs : p \in left \/ p = q
        OBVIOUS
      <4> HIDE DEF left
      <4>4. {b + p.idx : p \in left} \subseteq {b + p.idx : p \in qs} \ {b + q.idx}
        BY <4>2
      <4>5. {b + p.idx : p \in qs} \ {b + q.idx} \subseteq {b + p.idx : p \in left}
        BY <4>3
      <4> QED BY <4>4, <4>5 DEF b
    <3>4. Placed[f] = {drv[f].qbase + p.idx : p \in qs}
      BY DEF Placed
    <3> QED BY <3>1, <3>2, <3>3, <3>4
  <2>6. Pool!Unuse(f, h)
    BY <2>3, <2>4, <2>5 DEF Pool!Unuse
  <2> QED BY <2>2, <2>6
<1> QED BY <1>7, <1>8

LEMMA ClosePicture ==
  ASSUME RInv, RInv', NEW f \in Func, Close(f)
  PROVE  Pool!Leave(f)
<1>1. /\ drv' = [drv EXCEPT ![f] = ClosedDrv] /\ entry' = [entry EXCEPT ![f] = FreshEntry]
  BY DEF Close, DevEntryDestroy
<1>2. entry \in [Func -> Entries] /\ drv \in [Func -> Drivers] /\ PInv /\ PInv'
  BY DEF RInv, PInv, Members
<1>3. /\ entry'[f] = FreshEntry /\ drv'[f] = ClosedDrv
      /\ \A g \in Func : g # f => entry'[g] = entry[g] /\ drv'[g] = drv[g]
  BY <1>1, <1>2
<1>4. Covers(entry'[f]) = {} /\ drv'[f].qmax = 0 /\ ToldOf(drv'[f].queues) = {}
  BY <1>3, FreshIs DEF ToldOf
<1>5. Owner' = [q \in 0 .. TotalQ - 1 |->
                  IF q \in Covers(entry'[f]) THEN f
                  ELSE IF Owner[q] = f THEN Nobody ELSE Owner[q]]
  BY <1>2, <1>3, Pictured
<1>6. Pool!HandOver(f, {})
  BY <1>4, <1>5 DEF Pool!HandOver, Pool!Queues
<1>7. Granted' = [Granted EXCEPT ![f] = 0]
  <2>1. Granted' = [Granted EXCEPT ![f] = drv'[f].qmax]
    BY <1>2, <1>3, Pictured
  <2> QED BY <1>4, <2>1
<1>8. Placed' = [Placed EXCEPT ![f] = {}]
  <2>1. Placed' = [Placed EXCEPT ![f] = {drv'[f].qbase + q.idx : q \in ToldOf(drv'[f].queues)}]
    BY <1>2, <1>3, Pictured
  <2>2. {drv'[f].qbase + q.idx : q \in ToldOf(drv'[f].queues)} = {}
    BY <1>4
  <2> QED BY <2>1, <2>2
<1> QED BY <1>6, <1>7, <1>8 DEF Pool!Leave

\* For every board and every set of functions the resource manager behaves as
\* QueuePool: queues are handed out in contiguous runs of exactly what was
\* granted, a hardware queue has one owner, and the run of a function does not
\* move while the function uses a queue of it (qdma_dev_update refuses a
\* function with active queues; a refused request restores the old run).
THEOREM ManagerIsPool == Spec => PoolImplemented
<1>1. Init => RInv /\ Pool!Init
  BY InitPInv, InitBooks, InitPicture DEF RInv
<1>2. RInv /\ [Next]_vars => RInv'
  BY StepRInv
<1>3. RInv /\ RInv' /\ [Next]_vars => [Pool!Next]_(Pool!pvars)
  <2> SUFFICES ASSUME RInv, RInv', [Next]_vars
               PROVE  Pool!Next \/ UNCHANGED <<Owner, Granted, Placed>>
    BY DEF Pool!pvars
  <2>1. CASE UNCHANGED vars
    BY <2>1 DEF vars, Owner, Granted, Placed, ToldOf, Covers, End
  <2>2. ASSUME NEW f \in Func, Open(f) PROVE UNCHANGED <<Owner, Granted, Placed>>
    BY <2>2, OpenPicture
  <2>3. ASSUME NEW f \in Func, NEW n \in 0 .. TotalQ + 1, SetQmax(f, n)
        PROVE  Pool!Next \/ UNCHANGED <<Owner, Granted, Placed>>
    <3>1. (\E k \in 0 .. TotalQ : Pool!Resize(f, k)) \/ UNCHANGED <<Owner, Granted, Placed>>
      BY <2>3, SetQmaxPicture
    <3> QED BY <3>1 DEF Pool!Next
  <2>4. ASSUME NEW f \in Func, NEW k \in Kinds, NEW i \in 0 .. TotalQ - 1, Adds(f, k, i)
        PROVE  Pool!Next \/ UNCHANGED <<Owner, Granted, Placed>>
    <3>1. (\E h \in 0 .. TotalQ - 1 : Pool!Use(f, h)) \/ UNCHANGED <<Owner, Granted, Placed>>
      BY <2>4, AddsPicture
    <3> QED BY <3>1 DEF Pool!Next, Pool!Queues
  <2>5. ASSUME NEW f \in Func, NEW q \in drv[f].queues, QueueRemove(f, q)
        PROVE  Pool!Next \/ UNCHANGED <<Owner, Granted, Placed>>
    <3>1. (\E h \in 0 .. TotalQ - 1 : Pool!Unuse(f, h)) \/ UNCHANGED <<Owner, Granted, Placed>>
      BY <2>5, QueueRemovePicture
    <3> QED BY <3>1 DEF Pool!Next, Pool!Queues
  <2>6. ASSUME NEW f \in Func, Close(f) PROVE Pool!Next
    <3>1. Pool!Leave(f)
      BY <2>6, ClosePicture
    <3> QED BY <3>1 DEF Pool!Next
  <2> QED BY <2>1, <2>2, <2>3, <2>4, <2>5, <2>6 DEF Next, Adds
<1> QED BY <1>1, <1>2, <1>3, PTL DEF Spec, PoolImplemented, Pool!Spec
=============================================================================
