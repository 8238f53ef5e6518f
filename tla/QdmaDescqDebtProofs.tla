------------------------- MODULE QdmaDescqDebtProofs -------------------------
(***************************************************************************)
(* Proofs about QdmaDescq for every number of requests with a callback,    *)
(* every ring size and every mode, where a device that is asked to stop    *)
(* drains its ring in the time it is given: what the requests still owe,   *)
(* the credits read ahead and the descriptors in the ring agree, so that   *)
(* a request is completed by its own descriptors and none of a request     *)
(* that ended is still to be executed.  From this the queue is shown to    *)
(* implement RequestService, step by step.                                 *)
(***************************************************************************)
EXTENDS QdmaDescqProofs, FiniteSetTheorems

USE DEF qvars, cvars, rvars, lists, reqvars, hwvars, actors

-----------------------------------------------------------------------------
(* The ring, seen from the consumer index.                                 *)

\* All requests in the order of their descriptors.
All == pend_list \o work_list

InFlight == Dist(cidx, pidx)
Executed == Dist(cidx, hw.wb)

\* What of the entries lo..hi-1 is still to be executed after w entries were.
Rest(lo, hi, w) == IF hi <= w THEN 0 ELSE IF lo <= w THEN hi - w ELSE hi - lo

\* Request k has the entries b[k]..b[k+1]-1, counted from cidx; those before
\* cidx are the credits read ahead.
Chain(b) ==
  /\ b[1] = 0 - credit /\ b[Len(All) + 1] = InFlight
  /\ \A k \in 1..Len(All) : b[k + 1] = b[k] + cb[All[k]].desc_nr
  /\ \A k, l \in 1..(Len(All) + 1) : k <= l => b[k] <= b[l]

\* Only one request is written in part, the first of work_list.
Unwritten(b) == \A k \in 1..(Len(All) + 1) : k > Len(pend_list) + 1 => b[k] = InFlight

\* Each entry in use belongs to the request whose share it is in.
Cover(b) ==
  \A j \in 0..(InFlight - 1) :
    \E k \in 1..Len(All) : desc[Advance(cidx, j)] = All[k] /\ b[k] <= j /\ j < b[k + 1]

\* Of what was written for a request, all but the rest of its share was executed.
Progress(b) ==
  \A k \in 1..Len(All) : moved[All[k]] = cb[All[k]].offset - Rest(b[k], b[k + 1], Executed)

\* Between completions the credits are less than what the first request owes.
Settled(b) == (sec.at # "credit" /\ Len(All) >= 1) => b[2] >= 0

Layout(b) == Chain(b) /\ Unwritten(b) /\ Cover(b) /\ Progress(b) /\ Settled(b)

ShareInv == q_state = "online" => \E b \in [1..(Len(All) + 1) -> Int] : Layout(b)

\* A request that is done was called back; a new one was never executed; one
\* that is done well was executed in full.
DoneInv == \A r \in Req :
  /\ cb[r].done => result[r] # "none" /\ pc[r] # "new"
  /\ pc[r] = "new" => moved[r] = 0
  /\ cb[r].done /\ cb[r].status = "ok" => moved[r] = cb[r].count

\* Descriptors are being written and the doorbell is not rung yet.
Writing == sec.at \in {"fill", "refill", "doorbell"}
           \/ (sec.at \in {"cmpl", "credit"} /\ sec.ret = "refill")

\* A stop flushes the lists with an idle ring: it began with one, or nothing was
\* written since and pend_list_empty was set, or the device drained the ring.
IdleInv ==
  /\ (q_state = "online" /\ pend_list_empty /\ ~(Writing /\ sec.written > 0)) => pidx = cidx
  /\ q_state = "enabled" => pidx = cidx /\ sec.at # "credit"
  /\ q_stop_wait => /\ sec.at \notin {"fill", "refill", "doorbell"}
                    /\ sec.at \in {"cmpl", "credit"} => sec.ret \in {"exit", "service"}
  /\ ctl.at \in {"stopwait", "flush"} => q_stop_wait
  /\ ctl.at = "flush" => pidx = cidx
  /\ ctl.at \in {"program", "attach", "online"} => credit = 0
  /\ hw.on => ring_alloc /\ ctl.at # "release"

BInv == ShareInv /\ DoneInv /\ IdleInv

-----------------------------------------------------------------------------
(* Places in the ring.                                                     *)

\* An entry is found by its distance from another, and back.
LEMMA PlaceIs ==
  ASSUME NEW a \in Ring, NEW j \in Ring
  PROVE  Advance(a, j) \in Ring /\ Dist(a, Advance(a, j)) = j /\ Advance(a, Dist(a, j)) = j
BY RingAssumption DEF Advance, Dist, Ring

\* Counting on from an entry is counting on from its distance.
LEMMA PlaceFrom ==
  ASSUME NEW a \in Ring, NEW w \in Ring, NEW j \in Nat, Dist(a, w) + j <= RngSz - 1
  PROVE  Advance(w, j) = Advance(a, Dist(a, w) + j)
BY RingAssumption DEF Advance, Dist, Ring

\* Writing n entries at p touches the places after those in use.
LEMMA PlaceWritten ==
  ASSUME NEW a \in Ring, NEW p \in Ring, NEW n \in Nat, NEW j \in Nat,
         Dist(a, p) + n <= RngSz - 1, j < Dist(a, p) + n
  PROVE  (Dist(p, Advance(a, j)) < n) <=> j >= Dist(a, p)
BY RingAssumption DEF Advance, Dist, Ring

\* The ring of an online queue, or one that is allocated.
LEMMA RingFacts ==
  ASSUME IInv
  PROVE  /\ cidx \in Ring /\ pidx \in Ring /\ hw.wb \in Ring /\ hw.db \in Ring
         /\ avail \in Ring /\ credit \in Nat
         /\ InFlight \in Ring /\ Executed \in Ring /\ Dist(hw.wb, hw.db) \in Ring
         /\ (InFlight = 0 <=> pidx = cidx)
         /\ Executed = 0 <=> hw.wb = cidx
         /\ Dist(hw.wb, hw.db) = 0 <=> hw.wb = hw.db
         /\ ring_alloc => /\ avail + InFlight = RngSz - 1
                          /\ Executed + Dist(hw.wb, hw.db) <= InFlight
         /\ q_state = "online" => ring_alloc
         /\ q_state \in {"online", "enabled"}
         /\ Ring = 0..(RngSz - 1) /\ RngSz \in Nat /\ RngSz >= 2
<1>1. /\ cidx \in Ring /\ pidx \in Ring /\ hw.wb \in Ring /\ hw.db \in Ring
      /\ avail \in Ring /\ credit \in Nat /\ q_state \in {"online", "enabled"}
  BY DEF IInv, TypeOK, RingType, HwType, QueueType, Ring
<1>2. /\ InFlight \in Ring /\ Executed \in Ring /\ Dist(hw.wb, hw.db) \in Ring
      /\ Dist(hw.db, pidx) \in Ring
      /\ (InFlight = 0 <=> pidx = cidx) /\ (Executed = 0 <=> hw.wb = cidx)
      /\ (Dist(hw.wb, hw.db) = 0 <=> hw.wb = hw.db)
  BY <1>1, DistType DEF InFlight, Executed
<1>3. ring_alloc => /\ avail + InFlight = RngSz - 1
                    /\ Executed + Dist(hw.wb, hw.db) + Dist(hw.db, pidx) = InFlight
  BY DEF IInv, RingAccounting, InFlight, Executed
<1>4. q_state = "online" => ring_alloc
  BY DEF IInv, CtlInv
<1>5. ring_alloc => Executed + Dist(hw.wb, hw.db) <= InFlight
  BY <1>2, <1>3, RingAssumption DEF Ring
<1> QED BY <1>1, <1>2, <1>3, <1>4, <1>5, RingAssumption DEF Ring

\* One list after the other.
LEMMA ConcatIs ==
  \A p, w \in Seq(Req) :
    /\ p \o w \in Seq(Req) /\ Len(p \o w) = Len(p) + Len(w) /\ Len(p) \in Nat /\ Len(w) \in Nat
    /\ \A k \in 1..Len(p \o w) : (p \o w)[k] = IF k <= Len(p) THEN p[k] ELSE w[k - Len(p)]
<1> TAKE p \in Seq(Req), w \in Seq(Req)
<1>1. Len(p) \in Nat /\ Len(w) \in Nat
  OBVIOUS
<1> QED BY <1>1, ConcatProperties

\* The requests in order.
LEMMA AllFacts ==
  ASSUME IInv, ListInv
  PROVE  /\ All \in Seq(Req) /\ Len(All) \in Nat /\ Len(pend_list) \in Nat /\ Len(work_list) \in Nat
         /\ Len(All) = Len(pend_list) + Len(work_list)
         /\ \A k \in 1..Len(pend_list) : All[k] = pend_list[k]
         /\ \A k \in 1..Len(work_list) : All[Len(pend_list) + k] = work_list[k]
         /\ \A k, l \in 1..Len(All) : All[k] = All[l] => k = l
         /\ \A k \in 1..Len(All) : /\ All[k] \in Req /\ cb[All[k]] \in CbType
                                   /\ result[All[k]] = "none" /\ pc[All[k]] # "new"
<1>1. work_list \in Seq(Req) /\ pend_list \in Seq(Req)
  BY DEF IInv, TypeOK, ListType
<1>2. /\ All \in Seq(Req) /\ Len(All) = Len(pend_list) + Len(work_list)
      /\ Len(pend_list) \in Nat /\ Len(work_list) \in Nat
      /\ \A k \in 1..Len(All) : All[k] = IF k <= Len(pend_list) THEN pend_list[k]
                                         ELSE work_list[k - Len(pend_list)]
  BY <1>1, ConcatProperties DEF All
<1>3. \A k \in 1..Len(All) : \/ k \in 1..Len(pend_list) /\ All[k] = pend_list[k]
                             \/ /\ k - Len(pend_list) \in 1..Len(work_list)
                                /\ All[k] = work_list[k - Len(pend_list)]
  BY <1>2
<1>4. \A k, l \in 1..Len(All) : All[k] = All[l] => k = l
  <2> SUFFICES ASSUME NEW k \in 1..Len(All), NEW l \in 1..Len(All), All[k] = All[l]
               PROVE  k = l
    OBVIOUS
  <2>1. CASE k \in 1..Len(pend_list) /\ All[k] = pend_list[k]
    <3>1. CASE l \in 1..Len(pend_list) /\ All[l] = pend_list[l]
      BY <2>1, <3>1 DEF ListInv
    <3>2. CASE l - Len(pend_list) \in 1..Len(work_list) /\ All[l] = work_list[l - Len(pend_list)]
      BY <2>1, <3>2 DEF ListInv
    <3> QED BY <1>3, <3>1, <3>2
  <2>2. CASE k - Len(pend_list) \in 1..Len(work_list) /\ All[k] = work_list[k - Len(pend_list)]
    <3>1. CASE l \in 1..Len(pend_list) /\ All[l] = pend_list[l]
      BY <2>2, <3>1 DEF ListInv
    <3>2. CASE l - Len(pend_list) \in 1..Len(work_list) /\ All[l] = work_list[l - Len(pend_list)]
      <4>1. k - Len(pend_list) = l - Len(pend_list)
        BY <2>2, <3>2 DEF ListInv
      <4> QED BY <1>2, <4>1
    <3> QED BY <1>3, <3>1, <3>2
  <2> QED BY <1>3, <2>1, <2>2
<1>5. \A k \in 1..Len(All) : result[All[k]] = "none" /\ pc[All[k]] # "new"
  BY <1>3 DEF ListInv
<1>6. \A k \in 1..Len(All) : All[k] \in Req /\ cb[All[k]] \in CbType
  BY <1>2 DEF IInv, TypeOK, ReqType
<1>7. /\ \A k \in 1..Len(pend_list) : All[k] = pend_list[k]
      /\ \A k \in 1..Len(work_list) : All[Len(pend_list) + k] = work_list[k]
  <2>1. \A k \in 1..Len(pend_list) : k \in 1..Len(All) /\ k <= Len(pend_list)
    BY <1>2
  <2>2. \A k \in 1..Len(work_list) : /\ Len(pend_list) + k \in 1..Len(All)
                                     /\ ~(Len(pend_list) + k <= Len(pend_list))
                                     /\ (Len(pend_list) + k) - Len(pend_list) = k
    BY <1>2
  <2> QED BY <1>2, <2>1, <2>2
<1> QED BY <1>2, <1>4, <1>5, <1>6, <1>7

\* A request comes last, ends as the first, or moves from one list to the other.
LEMMA AllGrows ==
  ASSUME NEW p \in Seq(Req), NEW w \in Seq(Req), NEW r \in Req
  PROVE  LET s == p \o w
             t == p \o Append(w, r)
         IN /\ t \in Seq(Req) /\ Len(s) \in Nat /\ Len(t) = Len(s) + 1 /\ t[Len(s) + 1] = r
            /\ \A k \in 1..Len(s) : t[k] = s[k]
<1> DEFINE s == p \o w
           v == Append(w, r)
           t == p \o v
<1>1. /\ v \in Seq(Req) /\ Len(v) = Len(w) + 1 /\ v[Len(w) + 1] = r
      /\ \A k \in 1..Len(w) : v[k] = w[k]
  BY AppendProperties
<1>2. /\ s \in Seq(Req) /\ Len(s) = Len(p) + Len(w) /\ Len(p) \in Nat /\ Len(w) \in Nat
      /\ \A k \in 1..Len(s) : s[k] = IF k <= Len(p) THEN p[k] ELSE w[k - Len(p)]
  BY ConcatIs
<1> HIDE DEF v
<1>3. /\ t \in Seq(Req) /\ Len(t) = Len(p) + Len(v)
      /\ \A k \in 1..Len(t) : t[k] = IF k <= Len(p) THEN p[k] ELSE v[k - Len(p)]
  BY <1>1, ConcatIs
<1> HIDE DEF s, t
<1>4. Len(t) = Len(s) + 1
  BY <1>1, <1>2, <1>3
<1>5. t[Len(s) + 1] = r
  <2>1. Len(s) + 1 \in 1..Len(t) /\ ~(Len(s) + 1 <= Len(p)) /\ (Len(s) + 1) - Len(p) = Len(w) + 1
    BY <1>2, <1>4
  <2> QED BY <1>1, <1>3, <2>1
<1>6. ASSUME NEW k \in 1..Len(s) PROVE t[k] = s[k]
  <2>1. k \in 1..Len(t) /\ (k <= Len(p) \/ k - Len(p) \in 1..Len(w))
    BY <1>2, <1>4
  <2> QED BY <1>1, <1>2, <1>3, <2>1
<1>7. t \in Seq(Req) /\ Len(s) \in Nat
  BY <1>2, <1>3
<1> QED BY <1>4, <1>5, <1>6, <1>7 DEF s, t, v

\* The oldest request leaves.
LEMMA AllShrinks ==
  ASSUME NEW p \in Seq(Req), NEW w \in Seq(Req), p # <<>>
  PROVE  LET s == p \o w
             t == Tail(p) \o w
         IN /\ t \in Seq(Req) /\ Len(s) \in Nat /\ Len(t) = Len(s) - 1 /\ Len(s) >= 1
            /\ s[1] = Head(p) /\ \A k \in 1..Len(t) : t[k] = s[k + 1]
<1> DEFINE s == p \o w
           v == Tail(p)
           t == v \o w
<1>1. /\ v \in Seq(Req) /\ Len(v) = Len(p) - 1 /\ Len(p) \in Nat /\ Len(p) >= 1 /\ Head(p) = p[1]
      /\ \A k \in 1..Len(v) : v[k] = p[k + 1]
  BY HeadIs
<1>2. /\ Len(s) = Len(p) + Len(w) /\ Len(w) \in Nat
      /\ \A k \in 1..Len(s) : s[k] = IF k <= Len(p) THEN p[k] ELSE w[k - Len(p)]
  BY ConcatIs
<1> HIDE DEF v
<1>3. /\ t \in Seq(Req) /\ Len(t) = Len(v) + Len(w)
      /\ \A k \in 1..Len(t) : t[k] = IF k <= Len(v) THEN v[k] ELSE w[k - Len(v)]
  BY <1>1, ConcatIs
<1> HIDE DEF s, t
<1>4. Len(t) = Len(s) - 1 /\ Len(s) \in Nat /\ Len(s) >= 1 /\ s[1] = Head(p)
  BY <1>1, <1>2, <1>3
<1>5. ASSUME NEW k \in 1..Len(t) PROVE t[k] = s[k + 1]
  <2>1. k + 1 \in 1..Len(s) /\ (k <= Len(v) <=> k + 1 <= Len(p)) /\ (k + 1) - Len(p) = k - Len(v)
    BY <1>1, <1>2, <1>3
  <2>2. CASE k <= Len(v)
    BY <1>1, <1>2, <1>3, <2>1, <2>2
  <2>3. CASE ~(k <= Len(v))
    BY <1>1, <1>2, <1>3, <2>1, <2>3
  <2> QED BY <2>2, <2>3
<1> QED BY <1>3, <1>4, <1>5 DEF s, t, v

\* The oldest request not written in full moves from one list to the other.
LEMMA AllKeeps ==
  ASSUME NEW p \in Seq(Req), NEW w \in Seq(Req), w # <<>>
  PROVE  Append(p, Head(w)) \o Tail(w) = p \o w
<1> DEFINE s == p \o w
           v == Append(p, Head(w))
           u == Tail(w)
           t == v \o u
<1>1. /\ u \in Seq(Req) /\ Len(u) = Len(w) - 1 /\ Len(w) \in Nat /\ Len(w) >= 1
      /\ Head(w) = w[1] /\ Head(w) \in Req
      /\ \A k \in 1..Len(u) : u[k] = w[k + 1]
  BY HeadIs
<1>2. /\ v \in Seq(Req) /\ Len(v) = Len(p) + 1 /\ v[Len(p) + 1] = w[1] /\ Len(p) \in Nat
      /\ \A k \in 1..Len(p) : v[k] = p[k]
  BY <1>1, AppendProperties
<1>3. /\ s \in Seq(Req) /\ Len(s) = Len(p) + Len(w)
      /\ \A k \in 1..Len(s) : s[k] = IF k <= Len(p) THEN p[k] ELSE w[k - Len(p)]
  BY ConcatIs
<1> HIDE DEF v, u
<1>4. /\ t \in Seq(Req) /\ Len(t) = Len(v) + Len(u)
      /\ \A k \in 1..Len(t) : t[k] = IF k <= Len(v) THEN v[k] ELSE u[k - Len(v)]
  BY <1>1, <1>2, ConcatIs
<1> HIDE DEF s, t
<1>5. Len(t) = Len(s)
  BY <1>1, <1>2, <1>3, <1>4
<1>6. ASSUME NEW k \in 1..Len(t) PROVE t[k] = s[k]
  <2>1. CASE k <= Len(p)
    BY <1>2, <1>3, <1>4, <1>5, <2>1
  <2>2. CASE k = Len(p) + 1
    <3>1. k <= Len(v) /\ ~(k <= Len(p)) /\ k - Len(p) = 1
      BY <1>2, <2>2
    <3> QED BY <1>2, <1>3, <1>4, <1>5, <2>2, <3>1
  <2>3. CASE k > Len(p) + 1
    <3>1. ~(k <= Len(v)) /\ ~(k <= Len(p)) /\ k - Len(v) \in 1..Len(u) /\ (k - Len(v)) + 1 = k - Len(p)
      BY <1>1, <1>2, <1>4, <2>3
    <3> QED BY <1>1, <1>3, <1>4, <1>5, <3>1
  <2> QED BY <1>2, <2>1, <2>2, <2>3
<1>7. t = s
  BY <1>3, <1>4, <1>5, <1>6, SeqEqual
<1> QED BY <1>7 DEF s, t, v, u

-----------------------------------------------------------------------------
(* Steps that leave the ring and the requests alone.                       *)

\* A layout stays one while ring, lists and debts stay.
LEMMA LayoutStays ==
  ASSUME NEW b, Layout(b), UNCHANGED <<pidx, cidx, credit, desc, lists, cb, moved>>,
         hw'.wb = hw.wb, sec'.at # "credit" => sec.at # "credit"
  PROVE  Layout(b)'
BY DEF Layout, Chain, Unwritten, Cover, Progress, Settled, All, InFlight, Executed

\* So do the shares.
LEMMA ShareStays ==
  ASSUME ShareInv, q_state' = "online" => q_state = "online",
         UNCHANGED <<pidx, cidx, credit, desc, lists, cb, moved>>,
         hw'.wb = hw.wb, sec'.at # "credit" => sec.at # "credit"
  PROVE  ShareInv'
<1> SUFFICES ASSUME q_state = "online"
             PROVE  \E b \in [1..(Len(All') + 1) -> Int] : Layout(b)'
  BY DEF ShareInv
<1>1. PICK b \in [1..(Len(All) + 1) -> Int] : Layout(b)
  BY DEF ShareInv
<1>2. Layout(b)'
  BY <1>1, LayoutStays
<1>3. All' = All
  BY DEF All
<1> QED BY <1>1, <1>2, <1>3

\* Nothing is done or executed, and callers only go on.
LEMMA DoneStays ==
  ASSUME DoneInv, UNCHANGED <<cb, result, moved>>, \A r \in Req : pc'[r] = "new" => pc[r] = "new"
  PROVE  DoneInv'
BY DEF DoneInv

\* An unused queue owes nothing.
LEMMA InitBInv == Init => BInv
<1> SUFFICES ASSUME Init PROVE BInv
  OBVIOUS
<1>1. ShareInv
  BY DEF Init, ShareInv
<1>2. DoneInv
  BY DEF Init, DoneInv, NoCb
<1>3. IdleInv
  BY DEF Init, IdleInv, Free, NoHw
<1> QED BY <1>1, <1>2, <1>3 DEF BInv
-----------------------------------------------------------------------------
(* What the requests owe, step by step.                                    *)

\* A new request comes last, with nothing owed.
LEMMA SubmitShare ==
  ASSUME IInv, AInv, BInv, NEW r \in Req, NEW n \in 1..MaxNeed, Submit(r, n)
  PROVE  ShareInv'
<1>1. /\ pc[r] = "new" /\ q_state = "online" /\ Unlocked
      /\ work_list' = Append(work_list, r) /\ cb' = [cb EXCEPT ![r] = [NoCb EXCEPT !.count = n]]
      /\ UNCHANGED <<pidx, cidx, credit, desc, pend_list, hw, moved, sec>>
  BY DEF Submit, Enqueue
<1>2. PICK b \in [1..(Len(All) + 1) -> Int] : Layout(b)
  BY <1>1 DEF BInv, ShareInv
<1>3. /\ All \in Seq(Req) /\ Len(All) \in Nat /\ Len(pend_list) \in Nat /\ Len(pend_list) <= Len(All)
      /\ \A k \in 1..Len(All) : All[k] \in Req /\ All[k] # r /\ pc[All[k]] # "new"
  BY <1>1, AllFacts DEF AInv
<1>4. /\ Len(All') = Len(All) + 1 /\ All'[Len(All) + 1] = r
      /\ \A k \in 1..Len(All) : All'[k] = All[k]
  BY <1>1, AllGrows DEF All, IInv, TypeOK, ListType
<1>5. /\ \A k \in 1..Len(All) : cb'[All'[k]] = cb[All[k]]
      /\ cb'[r].desc_nr = 0 /\ cb'[r].offset = 0 /\ moved[r] = 0
  BY <1>1, <1>3, <1>4 DEF IInv, TypeOK, ReqType, NoCb, BInv, DoneInv
<1>6. InFlight' = InFlight /\ Executed' = Executed /\ InFlight \in Ring /\ Executed \in Ring
  BY <1>1, RingFacts DEF InFlight, Executed
<1>7. PICK c \in [1..(Len(All) + 2) -> Int] :
        c = [k \in 1..(Len(All) + 2) |-> IF k <= Len(All) + 1 THEN b[k] ELSE InFlight]
  <2> DEFINE f == [k \in 1..(Len(All) + 2) |-> IF k <= Len(All) + 1 THEN b[k] ELSE InFlight]
  <2>1. ASSUME NEW k \in 1..(Len(All) + 2) PROVE (IF k <= Len(All) + 1 THEN b[k] ELSE InFlight) \in Int
    <3>1. InFlight \in Int
      BY <1>6, RingAssumption DEF Ring
    <3>2. CASE k <= Len(All) + 1
      BY <1>3, <3>2
    <3> QED BY <3>1, <3>2
  <2>2. f \in [1..(Len(All) + 2) -> Int]
    BY <2>1
  <2> QED BY <2>2
<1>8. /\ \A k \in 1..(Len(All) + 1) : c[k] = b[k]
      /\ c[Len(All) + 2] = InFlight /\ c[Len(All) + 1] = InFlight
  BY <1>2, <1>3, <1>7 DEF Layout, Chain
<1>9. Chain(c)'
  <2>1. c[1] = 0 - credit /\ c[Len(All') + 1] = InFlight
    BY <1>2, <1>3, <1>4, <1>8 DEF Layout, Chain
  <2>2. ASSUME NEW k \in 1..Len(All') PROVE c[k + 1] = c[k] + cb'[All'[k]].desc_nr
    <3>1. CASE k \in 1..Len(All)
      BY <1>2, <1>3, <1>5, <1>8, <3>1 DEF Layout, Chain
    <3>2. CASE k = Len(All) + 1
      BY <1>3, <1>4, <1>5, <1>6, <1>8, <3>2, RingAssumption DEF Ring
    <3> QED BY <1>3, <1>4, <3>1, <3>2
  <2>3. ASSUME NEW k \in 1..(Len(All') + 1), NEW l \in 1..(Len(All') + 1), k <= l
        PROVE  c[k] <= c[l]
    <3>1. CASE l <= Len(All) + 1
      BY <1>2, <1>3, <1>8, <2>3, <3>1 DEF Layout, Chain
    <3>2. CASE l = Len(All) + 2 /\ k <= Len(All) + 1
      <4>1. b[k] <= b[Len(All) + 1] /\ b[Len(All) + 1] = InFlight
        BY <1>2, <1>3, <3>2 DEF Layout, Chain
      <4> QED BY <1>3, <1>8, <3>2, <4>1
    <3>3. CASE l = Len(All) + 2 /\ k = Len(All) + 2
      BY <1>6, <1>8, <3>3, RingAssumption DEF Ring
    <3> QED BY <1>3, <1>4, <2>3, <3>1, <3>2, <3>3
  <2> QED BY <1>1, <1>6, <2>1, <2>2, <2>3 DEF Chain
<1>10. Unwritten(c)'
  <2>1. ASSUME NEW k \in 1..(Len(All') + 1), k > Len(pend_list) + 1 PROVE c[k] = InFlight
    BY <1>2, <1>3, <1>4, <1>8, <2>1 DEF Layout, Unwritten
  <2> QED BY <1>1, <1>6, <2>1 DEF Unwritten
<1>11. Cover(c)'
  <2>1. ASSUME NEW j \in 0..(InFlight - 1)
        PROVE  \E k \in 1..Len(All') : desc[Advance(cidx, j)] = All'[k] /\ c[k] <= j /\ j < c[k + 1]
    <3>1. PICK k \in 1..Len(All) : desc[Advance(cidx, j)] = All[k] /\ b[k] <= j /\ j < b[k + 1]
      BY <1>2 DEF Layout, Cover
    <3> QED BY <1>3, <1>4, <1>8, <3>1
  <2> QED BY <1>1, <1>6, <2>1 DEF Cover, Advance
<1>12. Progress(c)'
  <2>1. ASSUME NEW k \in 1..Len(All')
        PROVE  moved[All'[k]] = cb'[All'[k]].offset - Rest(c[k], c[k + 1], Executed)
    <3>1. CASE k \in 1..Len(All)
      <4>1. c[k] = b[k] /\ c[k + 1] = b[k + 1]
        BY <1>3, <1>8, <3>1
      <4> QED BY <1>2, <1>4, <1>5, <3>1, <4>1 DEF Layout, Progress
    <3>2. CASE k = Len(All) + 1
      <4>1. Rest(c[k], c[k + 1], Executed) = 0
        BY <1>3, <1>6, <1>8, <3>2, RingAssumption DEF Rest, Ring
      <4> QED BY <1>4, <1>5, <3>2, <4>1
    <3> QED BY <1>3, <1>4, <3>1, <3>2
  <2> QED BY <1>1, <1>6, <2>1 DEF Progress
<1>13. Settled(c)'
  <2>1. c[2] >= 0
    <3>1. CASE Len(All) >= 1
      <4>1. sec.at # "credit"
        BY <1>1 DEF IInv, SecInv, Unlocked
      <4> QED BY <1>2, <1>3, <1>8, <3>1, <4>1 DEF Layout, Settled
    <3>2. CASE Len(All) = 0
      BY <1>6, <1>8, <3>2, RingAssumption DEF Ring
    <3> QED BY <1>3, <3>1, <3>2
  <2> QED BY <2>1 DEF Settled
<1>14. Layout(c)' /\ c \in [1..(Len(All') + 1) -> Int]
  BY <1>3, <1>4, <1>9, <1>10, <1>11, <1>12, <1>13 DEF Layout
<1> QED BY <1>14 DEF ShareInv

\* Reading the consumer index moves the start of the ring past what was executed.
LEMMA CreditsShare ==
  ASSUME IInv, AInv, BInv, CmplCredits
  PROVE  ShareInv'
<1>1. /\ cidx' = hw.wb /\ credit' = credit + NewCredits /\ sec' = [sec EXCEPT !.at = "credit"]
      /\ UNCHANGED <<q_state, pidx, desc, work_list, pend_list, cb, hw, moved>> /\ ring_alloc
  BY DEF CmplCredits, Goto
<1> SUFFICES ASSUME q_state = "online" PROVE ShareInv'
  BY <1>1 DEF ShareInv
<1>2. PICK b \in [1..(Len(All) + 1) -> Int] : Layout(b)
  BY DEF BInv, ShareInv
<1>3. /\ Len(All) \in Nat /\ Len(pend_list) \in Nat /\ Len(pend_list) <= Len(All) /\ All' = All
  BY <1>1, AllFacts DEF AInv, All
<1>a. PICK e \in Nat : e = Executed
  BY RingFacts, RingAssumption DEF Ring
<1>4. /\ cidx \in Ring /\ pidx \in Ring /\ hw.wb \in Ring /\ hw.db \in Ring
      /\ InFlight \in Nat /\ e <= InFlight /\ InFlight <= RngSz - 1
  <2>1. e + Dist(hw.wb, hw.db) <= InFlight
    BY <1>1, <1>a, RingFacts
  <2> QED BY <1>a, <2>1, RingFacts, RingAssumption
<1>5. credit' = credit + e
  BY <1>1, <1>4, <1>a, CreditsAreDist DEF Executed
<1>6. InFlight' = InFlight - e /\ Executed' = 0
  <2>1. /\ Dist(cidx, hw.wb) + Dist(hw.wb, hw.db) + Dist(hw.db, pidx) = Dist(cidx, pidx)
    BY <1>1 DEF IInv, RingAccounting
  <2>2. /\ Dist(cidx, hw.wb) \in Ring /\ Dist(hw.wb, hw.db) \in Ring /\ Dist(hw.db, pidx) \in Ring
        /\ Dist(cidx, pidx) \in Ring /\ Dist(hw.wb, hw.wb) = 0 /\ Dist(hw.wb, pidx) \in Ring
    BY <1>4, DistType
  <2>4. Dist(hw.wb, hw.db) + Dist(hw.db, pidx) <= RngSz - 1
    BY <1>4, <2>1, <2>2, RingAssumption DEF Ring, InFlight
  <2>3. Dist(hw.wb, pidx) = Dist(hw.wb, hw.db) + Dist(hw.db, pidx)
    BY <1>4, <2>4, DistAdd
  <2> QED BY <1>1, <1>a, <2>1, <2>2, <2>3, RingAssumption DEF InFlight, Executed, Ring
<1>7. credit \in Nat
  BY RingFacts
<1>8. PICK c \in [1..(Len(All) + 1) -> Int] : \A k \in 1..(Len(All) + 1) : c[k] = b[k] - e
  <2> DEFINE f == [k \in 1..(Len(All) + 1) |-> b[k] - e]
  <2>1. f \in [1..(Len(All) + 1) -> Int]
    BY <1>4
  <2> QED BY <2>1
<1>9. Chain(c)'
  <2>1. c[1] = 0 - credit' /\ c[Len(All) + 1] = InFlight'
    <3>1. b[1] = 0 - credit /\ b[Len(All) + 1] = InFlight
      BY <1>2 DEF Layout, Chain
    <3> QED BY <1>3, <1>4, <1>5, <1>6, <1>7, <1>8, <3>1
  <2>2. ASSUME NEW k \in 1..Len(All) PROVE c[k + 1] = c[k] + cb[All[k]].desc_nr
    <3>1. b[k + 1] = b[k] + cb[All[k]].desc_nr
      BY <1>2 DEF Layout, Chain
    <3>2. cb[All[k]].desc_nr \in Int /\ b[k] \in Int
      BY <1>3, AllFacts DEF AInv, CbType
    <3>3. c[k + 1] = b[k + 1] - e /\ c[k] = b[k] - e
      BY <1>3, <1>8, <1>a
    <3> QED BY <1>a, <3>1, <3>2, <3>3
  <2>3. ASSUME NEW k \in 1..(Len(All) + 1), NEW l \in 1..(Len(All) + 1), k <= l
        PROVE  c[k] <= c[l]
    <3>1. b[k] <= b[l]
      BY <1>2, <2>3 DEF Layout, Chain
    <3>2. c[k] = b[k] - e /\ c[l] = b[l] - e /\ b[k] \in Int /\ b[l] \in Int
      BY <1>8
    <3> QED BY <3>1, <3>2
  <2> QED BY <1>1, <1>3, <2>1, <2>2, <2>3 DEF Chain
<1>10. Unwritten(c)'
  <2>1. ASSUME NEW k \in 1..(Len(All) + 1), k > Len(pend_list) + 1 PROVE c[k] = InFlight'
    <3>1. b[k] = InFlight
      BY <1>2, <2>1 DEF Layout, Unwritten
    <3> QED BY <1>6, <1>8, <3>1
  <2> QED BY <1>1, <1>3, <2>1 DEF Unwritten
<1>11. Cover(c)'
  <2>1. ASSUME NEW j \in 0..((InFlight - e) - 1)
        PROVE  \E k \in 1..Len(All) : desc[Advance(cidx', j)] = All[k] /\ c[k] <= j /\ j < c[k + 1]
    <3>1. e + j \in 0..(InFlight - 1) /\ j \in Nat /\ e + j <= RngSz - 1
      BY <1>a, <1>4, RingAssumption
    <3>2. PICK k \in 1..Len(All) : desc[Advance(cidx, e + j)] = All[k] /\ b[k] <= e + j /\ e + j < b[k + 1]
      BY <1>2, <3>1 DEF Layout, Cover
    <3>3. Advance(cidx', j) = Advance(cidx, e + j)
      BY <1>1, <1>4, <3>1, <1>a, PlaceFrom DEF Executed
    <3>4. c[k] = b[k] - e /\ c[k + 1] = b[k + 1] - e
      BY <1>3, <1>8
    <3>5. b[k] \in Int /\ b[k + 1] \in Int
      BY <1>3
    <3> QED BY <1>a, <3>1, <3>2, <3>3, <3>4, <3>5
  <2> QED BY <1>1, <1>3, <1>6, <2>1 DEF Cover, Advance
<1>12. Progress(c)'
  <2>1. ASSUME NEW k \in 1..Len(All)
        PROVE  moved[All[k]] = cb[All[k]].offset - Rest(c[k], c[k + 1], 0)
    <3>1. c[k] = b[k] - e /\ c[k + 1] = b[k + 1] - e
      BY <1>3, <1>8
    <3>3. b[k] \in Int /\ b[k + 1] \in Int
      BY <1>3
    <3>2. Rest(c[k], c[k + 1], 0) = Rest(b[k], b[k + 1], e)
      BY <1>a, <3>1, <3>3 DEF Rest
    <3> QED BY <1>2, <1>a, <3>2 DEF Layout, Progress
  <2> QED BY <1>1, <1>3, <1>6, <2>1 DEF Progress
<1>13. Settled(c)'
  BY <1>1 DEF Settled, IInv, TypeOK, SecType
<1>14. Layout(c)' /\ c \in [1..(Len(All') + 1) -> Int]
  BY <1>3, <1>9, <1>10, <1>11, <1>12, <1>13 DEF Layout
<1> QED BY <1>14 DEF ShareInv

\* The first request, not covered, keeps the credits.
LEMMA PartShare ==
  ASSUME IInv, AInv, BInv, CmplPart
  PROVE  ShareInv'
<1>1. /\ cb' = [cb EXCEPT ![Head(pend_list)] = Credited(cb[Head(pend_list)], credit)]
      /\ credit' = 0 /\ pend_list # <<>> /\ credit < cb[Head(pend_list)].desc_nr /\ sec.at = "credit"
      /\ UNCHANGED <<q_state, pidx, cidx, desc, work_list, pend_list, hw, moved, sec>>
  <2>1. /\ cb' = [cb EXCEPT ![Head(pend_list)] = Credited(cb[Head(pend_list)], credit)]
        /\ credit' = 0 /\ pend_list # <<>> /\ ~(credit >= cb[Head(pend_list)].desc_nr)
        /\ sec.at = "credit"
        /\ UNCHANGED <<q_state, pidx, cidx, desc, work_list, pend_list, hw, moved, sec>>
    BY DEF CmplPart, Covered, At
  <2>2. Head(pend_list) \in Req
    BY <2>1, HeadIs DEF IInv, TypeOK, ListType
  <2>3. cb[Head(pend_list)].desc_nr \in Int /\ credit \in Nat
    BY <2>2, RingFacts DEF IInv, TypeOK, ReqType, CbType
  <2> QED BY <2>1, <2>3
<1> SUFFICES ASSUME q_state = "online" PROVE ShareInv'
  BY <1>1 DEF ShareInv
<1>2. PICK b \in [1..(Len(All) + 1) -> Int] : Layout(b)
  BY DEF BInv, ShareInv
<1>3. /\ Len(All) \in Nat /\ Len(All) >= 1 /\ Len(pend_list) \in Nat /\ Len(pend_list) <= Len(All)
      /\ All' = All /\ All[1] = Head(pend_list) /\ Len(pend_list) >= 1
      /\ \A k \in 1..Len(All) : All[k] \in Req /\ (k # 1 => All[k] # All[1])
  <2>1. Len(pend_list) >= 1 /\ Head(pend_list) = pend_list[1]
    BY <1>1, HeadIs DEF IInv, TypeOK, ListType
  <2> QED BY <1>1, <2>1, AllFacts DEF AInv, All
<1>4. /\ \A k \in 1..Len(All) : cb[All[k]] \in CbType /\ cb'[All[k]].offset = cb[All[k]].offset
      /\ \A k \in 1..Len(All) : k # 1 => cb'[All[k]] = cb[All[k]]
      /\ cb'[All[1]].desc_nr = cb[All[1]].desc_nr - credit
  <2>1. \A k \in 1..Len(All) : cb[All[k]] \in CbType
    BY <1>3 DEF IInv, TypeOK, ReqType
  <2>2. /\ \A k \in 1..Len(All) : k # 1 => cb'[All[k]] = cb[All[k]]
        /\ cb'[All[1]] = Credited(cb[All[1]], credit)
    BY <1>1, <1>3 DEF IInv, TypeOK, ReqType
  <2>3. /\ Credited(cb[All[1]], credit).desc_nr = cb[All[1]].desc_nr - credit
        /\ Credited(cb[All[1]], credit).offset = cb[All[1]].offset
    BY <1>3, <2>1 DEF Credited, CbType
  <2> QED BY <1>3, <2>1, <2>2, <2>3
<1>5. /\ credit \in Nat /\ InFlight' = InFlight /\ Executed' = Executed /\ InFlight \in Nat /\ Executed \in Nat
  BY <1>1, RingFacts DEF InFlight, Executed
<1>6. b[1] = 0 - credit /\ b[2] = b[1] + cb[All[1]].desc_nr /\ b[2] > 0
  BY <1>1, <1>2, <1>3, <1>4, <1>5 DEF Layout, Chain, CbType
<1>7. PICK c \in [1..(Len(All) + 1) -> Int] :
        c[1] = 0 /\ \A k \in 1..(Len(All) + 1) : k # 1 => c[k] = b[k]
  <2> DEFINE f == [b EXCEPT ![1] = 0]
  <2>1. f \in [1..(Len(All) + 1) -> Int] /\ f[1] = 0 /\ \A k \in 1..(Len(All) + 1) : k # 1 => f[k] = b[k]
    BY <1>3
  <2> QED BY <2>1
<1>8. Chain(c)'
  <2>1. c[1] = 0 - credit' /\ c[Len(All) + 1] = InFlight
    BY <1>1, <1>2, <1>3, <1>7 DEF Layout, Chain
  <2>2. ASSUME NEW k \in 1..Len(All) PROVE c[k + 1] = c[k] + cb'[All[k]].desc_nr
    <3>1. CASE k = 1
      BY <1>3, <1>4, <1>5, <1>6, <1>7, <3>1 DEF CbType
    <3>2. CASE k # 1
      BY <1>2, <1>3, <1>4, <1>7, <3>2 DEF Layout, Chain
    <3> QED BY <3>1, <3>2
  <2>3. ASSUME NEW k \in 1..(Len(All) + 1), NEW l \in 1..(Len(All) + 1), k <= l
        PROVE  c[k] <= c[l]
    <3>1. CASE k # 1
      BY <1>2, <1>7, <2>3, <3>1 DEF Layout, Chain
    <3>2. CASE k = 1 /\ l # 1
      <4>1. b[2] <= b[l]
        BY <1>2, <1>3, <3>2 DEF Layout, Chain
      <4> QED BY <1>6, <1>7, <3>2, <4>1
    <3>3. CASE k = 1 /\ l = 1
      BY <1>7, <3>3
    <3> QED BY <3>1, <3>2, <3>3
  <2> QED BY <1>3, <1>5, <2>1, <2>2, <2>3 DEF Chain
<1>9. Unwritten(c)'
  <2>1. ASSUME NEW k \in 1..(Len(All) + 1), k > Len(pend_list) + 1 PROVE c[k] = InFlight
    BY <1>2, <1>3, <1>7, <2>1 DEF Layout, Unwritten
  <2> QED BY <1>1, <1>3, <1>5, <2>1 DEF Unwritten
<1>10. Cover(c)'
  <2>1. ASSUME NEW j \in 0..(InFlight - 1)
        PROVE  \E k \in 1..Len(All) : desc[Advance(cidx, j)] = All[k] /\ c[k] <= j /\ j < c[k + 1]
    <3>1. PICK k \in 1..Len(All) : desc[Advance(cidx, j)] = All[k] /\ b[k] <= j /\ j < b[k + 1]
      BY <1>2 DEF Layout, Cover
    <3>2. c[k] <= j /\ c[k + 1] = b[k + 1]
      BY <1>3, <1>7, <3>1
    <3> QED BY <3>1, <3>2
  <2> QED BY <1>1, <1>3, <1>5, <2>1 DEF Cover, Advance
<1>11. Progress(c)'
  <2>1. ASSUME NEW k \in 1..Len(All)
        PROVE  moved[All[k]] = cb'[All[k]].offset - Rest(c[k], c[k + 1], Executed)
    <3>1. c[k + 1] = b[k + 1] /\ (k # 1 => c[k] = b[k])
      BY <1>3, <1>7
    <3>2. Rest(c[k], c[k + 1], Executed) = Rest(b[k], b[k + 1], Executed)
      <4>1. CASE k # 1
        BY <3>1, <4>1
      <4>2. CASE k = 1
        PROOF
        <5>1. PICK x \in Int : x = b[2]
          BY <1>3
        <5>2. Executed >= x \/ (c[1] <= Executed /\ b[1] <= Executed)
          BY <1>5, <1>6, <1>7, <5>1
        <5> QED BY <1>5, <1>6, <1>7, <3>1, <4>2, <5>1, <5>2 DEF Rest
      <4> QED BY <4>1, <4>2
    <3> QED BY <1>2, <1>4, <3>2 DEF Layout, Progress
  <2> QED BY <1>1, <1>3, <1>5, <2>1 DEF Progress
<1>12. Settled(c)'
  BY <1>1 DEF Settled
<1>13. Layout(c)' /\ c \in [1..(Len(All') + 1) -> Int]
  BY <1>3, <1>8, <1>9, <1>10, <1>11, <1>12 DEF Layout
<1> QED BY <1>13 DEF ShareInv

\* The first request, covered by the credits, is completed and executed in full.
LEMMA DoneShare ==
  ASSUME OnlyAsync, IInv, AInv, BInv, CmplDone
  PROVE  /\ ShareInv' /\ DoneInv'
<1> DEFINE r == Head(pend_list)
           status == IF cb[r].offset = cb[r].count THEN "ok" ELSE "err"
<1>0. /\ pend_list # <<>> /\ sec.at = "credit" /\ credit > 0
      /\ (credit >= cb[r].desc_nr) /\ pend_list' = Tail(pend_list) /\ r \in Req
      /\ cb' = [cb EXCEPT ![r].done = TRUE, ![r].status = status]
      /\ result' = [result EXCEPT ![r] = status]
      /\ credit' = credit - cb[r].desc_nr
      /\ UNCHANGED <<q_state, pidx, cidx, desc, work_list, pc, hw, moved, sec>>
  <2>1. r \in Req
    BY HeadIs DEF CmplDone, IInv, TypeOK, ListType
  <2>2. Kind[r] # "sync"
    BY <2>1 DEF OnlyAsync
  <2> QED BY <2>1, <2>2 DEF CmplDone, Covered, At
<1>1. /\ Len(All) \in Nat /\ Len(pend_list) \in Nat /\ Len(pend_list) <= Len(All) /\ Len(pend_list) >= 1
      /\ All[1] = r /\ pc[r] # "new"
      /\ \A k \in 1..Len(All) : All[k] \in Req /\ cb[All[k]] \in CbType /\ (k # 1 => All[k] # r)
  <2>1. Len(pend_list) >= 1 /\ Head(pend_list) = pend_list[1]
    BY <1>0, HeadIs DEF IInv, TypeOK, ListType
  <2> HIDE DEF r
  <2>2. All[1] = Head(pend_list)
    BY <2>1, AllFacts DEF AInv
  <2>3. pc[Head(pend_list)] # "new"
    BY <2>1, <2>2, AllFacts DEF AInv
  <2> QED BY <2>1, <2>2, <2>3, AllFacts DEF AInv, r
<1>2. q_state = "online"
  BY <1>0 DEF BInv, IdleInv, IInv, TypeOK, QueueType
<1>3. PICK b \in [1..(Len(All) + 1) -> Int] : Layout(b)
  BY <1>2 DEF BInv, ShareInv
<1>4. /\ Len(All') = Len(All) - 1 /\ Len(pend_list') = Len(pend_list) - 1
      /\ \A k \in 1..Len(All') : All'[k] = All[k + 1]
  BY <1>0, AllShrinks, HeadIs DEF All, IInv, TypeOK, ListType
<1> HIDE DEF status
<1>5. /\ cb'[r].offset = cb[r].offset /\ cb'[r].desc_nr = cb[r].desc_nr /\ cb'[r].count = cb[r].count
      /\ cb'[r].done /\ cb'[r].status = status
      /\ \A q \in Req : q # r => cb'[q] = cb[q] /\ result'[q] = result[q]
      /\ result'[r] = status
  BY <1>0 DEF IInv, TypeOK, ReqType, CbType
<1>6. InFlight' = InFlight /\ Executed' = Executed /\ InFlight \in Nat /\ Executed \in Nat /\ credit \in Nat
  BY <1>0, RingFacts DEF InFlight, Executed
<1>7. b[1] = 0 - credit /\ b[2] = b[1] + cb[r].desc_nr /\ b[2] <= 0 /\ cb[r].desc_nr \in Int
      /\ b[1] \in Int /\ b[2] \in Int
  <2>1. b[1] = 0 - credit /\ b[2] = b[1] + cb[r].desc_nr
    BY <1>1, <1>3 DEF Layout, Chain
  <2>2. cb[r].desc_nr \in Int
    BY <1>0 DEF IInv, TypeOK, ReqType, CbType
  <2> QED BY <1>0, <1>1, <1>6, <2>1, <2>2
<1>8. moved[r] = cb[r].offset
  <2>1. moved[r] = cb[r].offset - Rest(b[1], b[2], Executed)
    BY <1>1, <1>3 DEF Layout, Progress
  <2>2. Rest(b[1], b[2], Executed) = 0
    BY <1>6, <1>7 DEF Rest
  <2>3. cb[r].offset \in Int
    BY <1>0, NeedAssumption DEF IInv, TypeOK, ReqType, CbType
  <2> QED BY <2>1, <2>2, <2>3
<1>9. DoneInv'
  <2>1. cb'[r].done => result'[r] # "none" /\ pc'[r] # "new"
    BY <1>0, <1>1, <1>5 DEF status
  <2>2. pc'[r] = "new" => moved'[r] = 0
    BY <1>0, <1>1
  <2>3. (cb'[r].done /\ cb'[r].status = "ok") => moved'[r] = cb'[r].count
    BY <1>0, <1>5, <1>8 DEF status
  <2>4. \A q \in Req : q # r =>
          /\ cb'[q].done => result'[q] # "none" /\ pc'[q] # "new"
          /\ pc'[q] = "new" => moved'[q] = 0
          /\ (cb'[q].done /\ cb'[q].status = "ok") => moved'[q] = cb'[q].count
    BY <1>0, <1>5 DEF BInv, DoneInv
  <2> QED BY <1>0, <2>1, <2>2, <2>3, <2>4 DEF DoneInv
<1>10. PICK c \in [1..Len(All) -> Int] : \A k \in 1..Len(All) : c[k] = b[k + 1]
  <2> DEFINE f == [k \in 1..Len(All) |-> b[k + 1]]
  <2>1. f \in [1..Len(All) -> Int]
    BY <1>1
  <2> QED BY <2>1
<1>11. \A k \in 1..Len(All') : /\ k + 1 \in 1..Len(All) /\ k \in 1..Len(All)
                               /\ All'[k] = All[k + 1] /\ c[k] = b[k + 1] /\ c[k + 1] = b[k + 2]
                               /\ cb'[All'[k]] = cb[All[k + 1]]
  BY <1>1, <1>4, <1>5, <1>10
<1>12. Chain(c)'
  <2>1. c[1] = 0 - credit' /\ c[Len(All') + 1] = InFlight
    <3>1. b[Len(All) + 1] = InFlight
      BY <1>3 DEF Layout, Chain
    <3>2. c[1] = b[2] /\ c[Len(All)] = b[Len(All) + 1]
      BY <1>1, <1>10
    <3>3. (Len(All) - 1) + 1 = Len(All) /\ b[2] = 0 - (credit - cb[r].desc_nr)
      BY <1>1, <1>6, <1>7
    <3> QED BY <1>0, <1>4, <3>1, <3>2, <3>3
  <2>2. ASSUME NEW k \in 1..Len(All') PROVE c[k + 1] = c[k] + cb'[All'[k]].desc_nr
    <3>1. b[(k + 1) + 1] = b[k + 1] + cb[All[k + 1]].desc_nr
      BY <1>3, <1>11 DEF Layout, Chain
    <3> QED BY <1>11, <3>1
  <2>3. ASSUME NEW k \in 1..(Len(All') + 1), NEW l \in 1..(Len(All') + 1), k <= l
        PROVE  c[k] <= c[l]
    <3>1. /\ k + 1 \in 1..(Len(All) + 1) /\ l + 1 \in 1..(Len(All) + 1) /\ k + 1 <= l + 1
          /\ k \in 1..Len(All) /\ l \in 1..Len(All)
      BY <1>1, <1>4, <2>3
    <3>2. b[k + 1] <= b[l + 1]
      BY <1>3, <3>1 DEF Layout, Chain
    <3> QED BY <1>10, <3>1, <3>2
  <2> QED BY <1>0, <1>6, <2>1, <2>2, <2>3 DEF Chain
<1>13. Unwritten(c)'
  <2>1. ASSUME NEW k \in 1..(Len(All') + 1), k > Len(pend_list') + 1 PROVE c[k] = InFlight
    <3>1. k + 1 \in 1..(Len(All) + 1) /\ k + 1 > Len(pend_list) + 1 /\ k \in 1..Len(All)
      BY <1>1, <1>4, <2>1
    <3> QED BY <1>3, <1>10, <3>1 DEF Layout, Unwritten
  <2> QED BY <1>6, <2>1 DEF Unwritten
<1>14. Cover(c)'
  <2>1. ASSUME NEW j \in 0..(InFlight - 1)
        PROVE  \E k \in 1..Len(All') : desc[Advance(cidx, j)] = All'[k] /\ c[k] <= j /\ j < c[k + 1]
    <3>1. PICK k \in 1..Len(All) : desc[Advance(cidx, j)] = All[k] /\ b[k] <= j /\ j < b[k + 1]
      BY <1>3 DEF Layout, Cover
    <3>2. k # 1
      BY <1>6, <1>7, <3>1
    <3>3. k - 1 \in 1..Len(All') /\ (k - 1) + 1 = k /\ (k - 1) + 2 = k + 1
      BY <1>1, <1>4, <3>2
    <3>4. PICK m \in 1..Len(All') : m + 1 = k /\ m + 2 = k + 1
      BY <3>3
    <3> QED BY <1>11, <3>1, <3>4
  <2> QED BY <1>0, <1>6, <2>1 DEF Cover, Advance
<1>15. Progress(c)'
  <2>1. ASSUME NEW k \in 1..Len(All')
        PROVE  moved[All'[k]] = cb'[All'[k]].offset - Rest(c[k], c[k + 1], Executed)
    <3>1. moved[All[k + 1]] = cb[All[k + 1]].offset - Rest(b[k + 1], b[(k + 1) + 1], Executed)
      BY <1>3, <1>11 DEF Layout, Progress
    <3>2. (k + 1) + 1 = k + 2
      OBVIOUS
    <3> QED BY <1>11, <3>1, <3>2
  <2> QED BY <1>0, <1>6, <2>1 DEF Progress
<1>16. Settled(c)'
  BY <1>0 DEF Settled
<1>17. Layout(c)' /\ c \in [1..(Len(All') + 1) -> Int]
  BY <1>1, <1>4, <1>12, <1>13, <1>14, <1>15, <1>16 DEF Layout
<1> QED BY <1>9, <1>17 DEF ShareInv

\* Between completions the first request owes more than the credits.
LEMMA RearmShare ==
  ASSUME IInv, AInv, BInv, CmplRearm
  PROVE  ShareInv'
<1>1. /\ sec.at = "credit" /\ (credit = 0 \/ pend_list = <<>>)
      /\ UNCHANGED <<q_state, pidx, cidx, credit, desc, work_list, pend_list, cb, moved>>
      /\ hw'.wb = hw.wb
  BY DEF CmplRearm, At, PidxUpdate, IInv, TypeOK, HwType
<1> SUFFICES ASSUME q_state = "online" PROVE ShareInv'
  BY <1>1 DEF ShareInv
<1>2. PICK b \in [1..(Len(All) + 1) -> Int] : Layout(b)
  BY DEF BInv, ShareInv
<1>3. Len(All) \in Nat /\ Len(pend_list) \in Nat /\ All' = All
  BY <1>1, AllFacts DEF AInv, All
<1>4. InFlight \in Nat /\ credit \in Nat
  BY RingFacts
<1>5. Len(All) >= 1 => b[2] >= 0
  <2> SUFFICES ASSUME Len(All) >= 1 PROVE b[2] >= 0
    OBVIOUS
  <2>1. CASE credit = 0
    <3>1. b[1] <= b[2] /\ b[1] = 0 - credit
      BY <1>2, <1>3 DEF Layout, Chain
    <3> QED BY <1>3, <2>1, <3>1
  <2>2. CASE pend_list = <<>>
    <3>1. Len(pend_list) = 0
      BY <2>2
    <3>2. b[2] = InFlight
      BY <1>2, <1>3, <3>1 DEF Layout, Unwritten
    <3> QED BY <1>4, <3>2
  <2> QED BY <1>1, <2>1, <2>2
<1>6. Layout(b)'
  BY <1>1, <1>2, <1>3, <1>5 DEF Layout, Chain, Unwritten, Cover, Progress, Settled, InFlight, Executed
<1> QED BY <1>3, <1>6 DEF ShareInv

\* The head of work_list is given the next entries of the ring.
LEMMA WriteShare ==
  ASSUME IInv, AInv, BInv, WriteDescs, sec.at \in {"fill", "refill"}, work_list # <<>>
  PROVE  ShareInv'
<1>0. q_state = "online"
  BY DEF IInv, SecInv
<1> DEFINE r == Head(work_list)
           m == Len(pend_list) + 1
<1>1. /\ r \in Req /\ r = work_list[1] /\ Len(work_list) >= 1 /\ cb[r] \in CbType
      /\ cb[r].offset <= cb[r].count
  BY HeadIs DEF IInv, TypeOK, ListType, ReqType
<1>2. PICK n \in Nat :
        /\ n <= avail /\ pidx' = Advance(pidx, n)
        /\ desc' = [i \in 0..(RngSz - 1) |-> IF Dist(pidx, i) < n THEN r ELSE desc[i]]
        /\ cb' = [cb EXCEPT ![r] = Written(cb[r], n)]
        /\ sec' = [sec EXCEPT !.at = "fill", !.written = @ + n]
        /\ UNCHANGED <<q_state, cidx, credit, hw, moved>>
        /\ \/ UNCHANGED <<work_list, pend_list>>
           \/ work_list' = Tail(work_list) /\ pend_list' = Append(pend_list, r)
  <2> DEFINE left == cb[r].count - cb[r].offset
             x == IF avail < left THEN avail ELSE left
  <2>1. left \in Nat /\ avail \in Nat
    <3>1. cb[r].count \in 0..MaxNeed /\ cb[r].offset \in 0..MaxNeed
      BY <1>1 DEF CbType
    <3>2. avail \in Nat
      BY RingFacts, RingAssumption DEF Ring
    <3> QED BY <1>1, <3>1, <3>2, NeedAssumption
  <2>2. x \in Nat /\ x <= avail
    BY <2>1
  <2> QED BY <2>2 DEF WriteDescs, Enqueue
<1>3. PICK b \in [1..(Len(All) + 1) -> Int] : Layout(b)
  BY <1>0 DEF BInv, ShareInv
<1>4. All' = All
  <2>1. CASE UNCHANGED <<work_list, pend_list>>
    BY <2>1 DEF All
  <2>2. CASE work_list' = Tail(work_list) /\ pend_list' = Append(pend_list, r)
    BY <2>2, AllKeeps DEF All, IInv, TypeOK, ListType
  <2> QED BY <1>2, <2>1, <2>2
<1>5. /\ Len(All) \in Nat /\ m \in 1..Len(All) /\ All[m] = r /\ Len(pend_list) \in Nat
      /\ \A k \in 1..Len(All) : All[k] \in Req /\ cb[All[k]] \in CbType /\ (k # m => All[k] # r)
  <2>1. /\ Len(All) \in Nat /\ Len(pend_list) \in Nat /\ Len(work_list) \in Nat
        /\ Len(All) = Len(pend_list) + Len(work_list) /\ All[Len(pend_list) + 1] = work_list[1]
    BY <1>1, AllFacts DEF AInv
  <2>2. m \in 1..Len(All) /\ All[m] = r
    BY <1>1, <2>1
  <2> HIDE DEF m, r
  <2> QED BY <2>1, <2>2, AllFacts DEF AInv
<1>6. Len(pend_list') \in {Len(pend_list), Len(pend_list) + 1}
  <2>1. CASE UNCHANGED <<work_list, pend_list>>
    BY <2>1
  <2>2. CASE work_list' = Tail(work_list) /\ pend_list' = Append(pend_list, r)
    BY <1>1, <2>2, AppendProperties DEF IInv, TypeOK, ListType
  <2> QED BY <1>2, <2>1, <2>2
<1> HIDE DEF r, m
<1>7. /\ \A k \in 1..Len(All) : k # m => cb'[All[k]] = cb[All[k]]
      /\ cb'[All[m]].desc_nr = cb[All[m]].desc_nr + n
      /\ cb'[All[m]].offset = cb[All[m]].offset + n
  <2>1. /\ \A k \in 1..Len(All) : k # m => cb'[All[k]] = cb[All[k]]
        /\ cb'[All[m]] = Written(cb[All[m]], n)
    BY <1>2, <1>5 DEF IInv, TypeOK, ReqType
  <2>2. /\ Written(cb[All[m]], n).desc_nr = cb[All[m]].desc_nr + n
        /\ Written(cb[All[m]], n).offset = cb[All[m]].offset + n
    BY <1>5 DEF Written, CbType
  <2> QED BY <2>1, <2>2
<1>8. /\ cidx \in Ring /\ pidx \in Ring /\ InFlight + n <= RngSz - 1
      /\ InFlight \in Nat /\ Executed \in Nat /\ Executed <= InFlight
  <2>1. /\ cidx \in Ring /\ pidx \in Ring /\ InFlight \in Ring /\ Executed \in Ring
        /\ Dist(hw.wb, hw.db) \in Ring /\ avail \in Ring
        /\ avail + InFlight = RngSz - 1 /\ Executed + Dist(hw.wb, hw.db) <= InFlight
    BY <1>0, RingFacts
  <2> QED BY <1>2, <2>1, RingAssumption DEF Ring
<1>9. InFlight' = InFlight + n /\ Executed' = Executed
  BY <1>2, <1>8, DistAdvance DEF InFlight, Executed
<1>10. /\ b[Len(All) + 1] = InFlight /\ b[1] = 0 - credit
       /\ \A k \in 1..(Len(All) + 1) : b[k] \in Int /\ b[k] <= InFlight /\ (k > m => b[k] = InFlight)
  <2>1. b[Len(All) + 1] = InFlight /\ b[1] = 0 - credit
    BY <1>3 DEF Layout, Chain
  <2>2. \A k \in 1..(Len(All) + 1) : b[k] <= b[Len(All) + 1]
    <3> TAKE k \in 1..(Len(All) + 1)
    <3>1. k <= Len(All) + 1 /\ Len(All) + 1 \in 1..(Len(All) + 1)
      BY <1>5
    <3> QED BY <1>3, <3>1 DEF Layout, Chain
  <2>3. \A k \in 1..(Len(All) + 1) : k > m => b[k] = InFlight
    BY <1>3 DEF Layout, Unwritten, m
  <2> QED BY <2>1, <2>2, <2>3
<1>11. PICK c \in [1..(Len(All) + 1) -> Int] :
         \A k \in 1..(Len(All) + 1) : c[k] = IF k <= m THEN b[k] ELSE InFlight + n
  <2> DEFINE f == [k \in 1..(Len(All) + 1) |-> IF k <= m THEN b[k] ELSE InFlight + n]
  <2>1. ASSUME NEW k \in 1..(Len(All) + 1) PROVE (IF k <= m THEN b[k] ELSE InFlight + n) \in Int
    BY <1>2, <1>8, <1>10
  <2>2. f \in [1..(Len(All) + 1) -> Int]
    BY <2>1
  <2> QED BY <2>2
<1>12. /\ \A k \in 1..(Len(All) + 1) : (k <= m => c[k] = b[k]) /\ (k > m => c[k] = InFlight + n)
       /\ \A k \in 1..Len(All) : /\ k \in 1..(Len(All) + 1) /\ k + 1 \in 1..(Len(All) + 1)
                                 /\ k < m => k + 1 <= m /\ k <= m
                                 /\ k >= m => k + 1 > m
       /\ m \in 1..(Len(All) + 1) /\ m <= m
  BY <1>5, <1>11
<1>13. Chain(c)'
  <2>1. c[1] = 0 - credit /\ c[Len(All) + 1] = InFlight + n
    BY <1>5, <1>10, <1>12
  <2>2. ASSUME NEW k \in 1..Len(All) PROVE c[k + 1] = c[k] + cb'[All[k]].desc_nr
    <3>1. b[k + 1] = b[k] + cb[All[k]].desc_nr /\ cb[All[k]].desc_nr \in Int
      BY <1>3, <1>5 DEF Layout, Chain, CbType
    <3>2. CASE k < m
      <4>1. c[k + 1] = b[k + 1] /\ c[k] = b[k]
        BY <1>5, <1>12, <3>2
      <4>2. cb'[All[k]].desc_nr = cb[All[k]].desc_nr
        BY <1>5, <1>7, <3>2
      <4> QED BY <3>1, <4>1, <4>2
    <3>3. CASE k = m
      <4>1. c[k + 1] = InFlight + n /\ c[k] = b[k] /\ b[k + 1] = InFlight /\ b[k] \in Int
        BY <1>10, <1>12, <3>3
      <4>2. cb'[All[k]].desc_nr = cb[All[k]].desc_nr + n
        BY <1>7, <3>3
      <4> QED BY <1>2, <1>8, <3>1, <4>1, <4>2
    <3>4. CASE k > m
      <4>1. /\ c[k + 1] = InFlight + n /\ c[k] = InFlight + n /\ b[k + 1] = InFlight
            /\ b[k] = InFlight
        BY <1>5, <1>10, <1>12, <3>4
      <4>2. cb'[All[k]].desc_nr = cb[All[k]].desc_nr
        BY <1>5, <1>7, <3>4
      <4> QED BY <1>2, <1>8, <3>1, <4>1, <4>2
    <3> QED BY <1>5, <3>2, <3>3, <3>4
  <2>3. ASSUME NEW k \in 1..(Len(All) + 1), NEW l \in 1..(Len(All) + 1), k <= l
        PROVE  c[k] <= c[l]
    <3>1. CASE l <= m
      <4>1. b[k] <= b[l]
        BY <1>3, <2>3 DEF Layout, Chain
      <4>2. k <= m
        BY <1>5, <2>3, <3>1
      <4> QED BY <1>12, <3>1, <4>1, <4>2
    <3>2. CASE l > m /\ k <= m
      BY <1>2, <1>8, <1>10, <1>12, <3>2
    <3>3. CASE l > m /\ k > m
      BY <1>2, <1>8, <1>12, <3>3
    <3> QED BY <1>5, <3>1, <3>2, <3>3
  <2> QED BY <1>2, <1>4, <1>9, <2>1, <2>2, <2>3 DEF Chain
<1>14. Unwritten(c)'
  <2>1. ASSUME NEW k \in 1..(Len(All) + 1), k > Len(pend_list') + 1 PROVE c[k] = InFlight + n
    <3>1. k > m
      BY <1>5, <1>6, <2>1 DEF m
    <3> QED BY <1>12, <3>1
  <2> QED BY <1>4, <1>9, <2>1 DEF Unwritten
<1>15. Cover(c)'
  <2>1. ASSUME NEW j \in 0..((InFlight + n) - 1)
        PROVE  \E k \in 1..Len(All) : desc'[Advance(cidx, j)] = All[k] /\ c[k] <= j /\ j < c[k + 1]
    <3>0. /\ j \in Nat /\ j < InFlight + n /\ j \in Ring
      BY <1>2, <1>8, RingAssumption DEF Ring
    <3>1. Advance(cidx, j) \in 0..(RngSz - 1)
      BY <1>8, <3>0, PlaceIs DEF Ring
    <3>2. (Dist(pidx, Advance(cidx, j)) < n) <=> j >= InFlight
      BY <1>2, <1>8, <3>0, PlaceWritten DEF InFlight
    <3>3. CASE j >= InFlight
      <4>1. desc'[Advance(cidx, j)] = All[m]
        BY <1>2, <1>5, <3>1, <3>2, <3>3
      <4>2. c[m] <= j /\ c[m + 1] = InFlight + n
        BY <1>5, <1>8, <1>10, <1>12, <3>0, <3>3
      <4> QED BY <1>5, <3>0, <4>1, <4>2
    <3>4. CASE j < InFlight
      <4>1. desc'[Advance(cidx, j)] = desc[Advance(cidx, j)]
        BY <1>2, <1>8, <3>0, <3>1, <3>2, <3>4
      <4>2. j \in 0..(InFlight - 1)
        BY <1>8, <3>0, <3>4
      <4>3. PICK k \in 1..Len(All) : desc[Advance(cidx, j)] = All[k] /\ b[k] <= j /\ j < b[k + 1]
        BY <1>3, <4>2 DEF Layout, Cover
      <4>4. k <= m
        BY <1>5, <1>8, <1>10, <1>12, <3>0, <3>4, <4>3
      <4>5. c[k] = b[k] /\ (c[k + 1] = b[k + 1] \/ c[k + 1] = InFlight + n)
        BY <1>5, <1>12, <4>4
      <4> QED BY <3>0, <4>1, <4>3, <4>5
    <3> QED BY <1>8, <3>0, <3>3, <3>4
  <2> QED BY <1>2, <1>4, <1>9, <2>1 DEF Cover, Advance
<1>16. Progress(c)'
  <2>1. ASSUME NEW k \in 1..Len(All)
        PROVE  moved[All[k]] = cb'[All[k]].offset - Rest(c[k], c[k + 1], Executed)
    <3>1. moved[All[k]] = cb[All[k]].offset - Rest(b[k], b[k + 1], Executed)
      BY <1>3 DEF Layout, Progress
    <3>2. cb[All[k]].offset \in Int
      BY <1>5, NeedAssumption DEF CbType
    <3>3. CASE k < m
      BY <1>5, <1>7, <1>12, <3>1, <3>3
    <3>4. CASE k = m
      <4>1. c[k + 1] = InFlight + n /\ c[k] = b[k] /\ b[k + 1] = InFlight /\ b[k] \in Int
            /\ b[k] <= InFlight
        BY <1>10, <1>12, <3>4
      <4>2. Rest(c[k], c[k + 1], Executed) = Rest(b[k], b[k + 1], Executed) + n
        BY <1>2, <1>8, <4>1 DEF Rest
      <4>3. Rest(b[k], b[k + 1], Executed) \in Int
        BY <1>8, <4>1 DEF Rest
      <4>4. cb'[All[k]].offset = cb[All[k]].offset + n
        BY <1>7, <3>4
      <4> QED BY <1>2, <3>1, <3>2, <4>2, <4>3, <4>4
    <3>5. CASE k > m
      <4>1. /\ c[k + 1] = InFlight + n /\ c[k] = InFlight + n /\ b[k + 1] = InFlight
            /\ b[k] = InFlight
        BY <1>5, <1>10, <1>12, <3>5
      <4>2. Rest(c[k], c[k + 1], Executed) = 0 /\ Rest(b[k], b[k + 1], Executed) = 0
        BY <1>2, <1>8, <4>1 DEF Rest
      <4>3. cb'[All[k]].offset = cb[All[k]].offset
        BY <1>5, <1>7, <3>5
      <4> QED BY <3>1, <4>2, <4>3
    <3> QED BY <1>5, <3>3, <3>4, <3>5
  <2> QED BY <1>2, <1>4, <1>9, <2>1 DEF Progress
<1>17. Settled(c)'
  <2>1. Len(All) >= 1 => c[2] >= 0
    <3>1. CASE m >= 2
      <4>1. b[2] >= 0
        BY <1>3, <1>5, <3>1 DEF Layout, Settled
      <4> QED BY <1>5, <1>12, <3>1, <4>1
    <3>2. CASE m < 2
      BY <1>2, <1>5, <1>8, <1>12, <3>2
    <3> QED BY <1>5, <3>1, <3>2
  <2> QED BY <1>4, <2>1 DEF Settled
<1>18. Layout(c)' /\ c \in [1..(Len(All') + 1) -> Int]
  BY <1>4, <1>13, <1>14, <1>15, <1>16, <1>17 DEF Layout
<1> QED BY <1>18 DEF ShareInv

\* The device's next entry is in the share of a request that is listed.
LEMMA NextEntry ==
  ASSUME IInv, AInv, BInv, HwStep
  PROVE  /\ q_state = "online" /\ Executed \in Nat /\ Executed + 1 <= RngSz - 1
         /\ cidx \in Ring /\ hw.wb \in Ring
         /\ \A b \in [1..(Len(All) + 1) -> Int] : Layout(b) =>
              \E k \in 1..Len(All) : desc[hw.wb] = All[k] /\ b[k] <= Executed /\ Executed < b[k + 1]
<1> DEFINE w == Executed
<1>1. hw.on /\ hw.wb # hw.db
  BY DEF HwStep
<1>2. /\ cidx \in Ring /\ hw.wb \in Ring /\ w \in Nat /\ InFlight \in Nat /\ w < InFlight
      /\ w + 1 <= RngSz - 1 /\ w \in Ring
  <2>1. ring_alloc
    BY <1>1 DEF BInv, IdleInv
  <2>2. /\ cidx \in Ring /\ hw.wb \in Ring /\ Executed \in Ring /\ InFlight \in Ring
        /\ Dist(hw.wb, hw.db) \in Ring /\ Dist(hw.wb, hw.db) # 0
        /\ Executed + Dist(hw.wb, hw.db) <= InFlight
    BY <1>1, <2>1, RingFacts
  <2> QED BY <2>2, RingAssumption DEF Ring
<1>3. q_state = "online"
  <2>1. InFlight # 0
    BY <1>2
  <2>2. pidx # cidx
    BY <2>1, RingFacts
  <2> QED BY <2>2 DEF BInv, IdleInv, IInv, TypeOK, QueueType
<1>4. ASSUME NEW b \in [1..(Len(All) + 1) -> Int], Layout(b)
      PROVE  \E k \in 1..Len(All) : desc[hw.wb] = All[k] /\ b[k] <= w /\ w < b[k + 1]
  <2>1. Advance(cidx, w) = hw.wb
    BY <1>2, PlaceIs DEF Executed
  <2>2. w \in 0..(InFlight - 1)
    BY <1>2
  <2> QED BY <1>4, <2>1, <2>2 DEF Layout, Cover
<1> QED BY <1>2, <1>3, <1>4

\* The device executes the next entry, for the request whose share it is in.
LEMMA DeviceShare ==
  ASSUME IInv, AInv, BInv, HwStep
  PROVE  ShareInv' /\ DoneInv'
<1> DEFINE w == Executed
           r == desc[hw.wb]
<1>1. /\ hw.on /\ hw.wb # hw.db /\ r \in Req /\ moved' = [moved EXCEPT ![r] = @ + 1]
      /\ hw'.wb = Advance(hw.wb, 1)
      /\ UNCHANGED <<q_state, pidx, cidx, credit, desc, work_list, pend_list, cb, pc, result, sec>>
  BY DEF HwStep, IInv, TypeOK, HwType
<1>2. /\ cidx \in Ring /\ hw.wb \in Ring /\ w \in Nat /\ w + 1 <= RngSz - 1
  BY NextEntry
<1>4. PICK b \in [1..(Len(All) + 1) -> Int] : Layout(b)
  BY NextEntry DEF BInv, ShareInv
<1>5. /\ Len(All) \in Nat /\ All' = All
      /\ \A k, l \in 1..Len(All) : All[k] = All[l] => k = l
      /\ \A k \in 1..Len(All) : All[k] \in Req /\ result[All[k]] = "none" /\ pc[All[k]] # "new"
                                /\ cb[All[k]] \in CbType
  BY <1>1, AllFacts DEF AInv, All
<1>6. InFlight' = InFlight /\ Executed' = w + 1
  BY <1>1, <1>2, DistAdvance DEF InFlight, Executed
<1>7. PICK k \in 1..Len(All) : r = All[k] /\ b[k] <= w /\ w < b[k + 1]
  BY <1>4, NextEntry
<1> HIDE DEF w, r
<1>8. DoneInv'
  <2>1. ~cb[r].done /\ pc[r] # "new"
    BY <1>1, <1>5, <1>7 DEF BInv, DoneInv
  <2>2. \A q \in Req : q # r => moved'[q] = moved[q]
    BY <1>1 DEF IInv, TypeOK, HwType
  <2> QED BY <1>1, <2>1, <2>2 DEF BInv, DoneInv
<1>9. Progress(b)'
  <2>1. ASSUME NEW l \in 1..Len(All)
        PROVE  moved'[All[l]] = cb[All[l]].offset - Rest(b[l], b[l + 1], w + 1)
    <3>1. moved[All[l]] = cb[All[l]].offset - Rest(b[l], b[l + 1], w)
      BY <1>4 DEF Layout, Progress, w
    <3>2. /\ b[k] \in Int /\ b[k + 1] \in Int /\ b[l] \in Int /\ b[l + 1] \in Int
          /\ b[l] <= b[l + 1]
      BY <1>4, <1>5 DEF Layout, Chain
    <3>3. CASE l = k
      <4>1. Rest(b[l], b[l + 1], w + 1) = Rest(b[l], b[l + 1], w) - 1
        BY <1>2, <1>7, <3>2, <3>3 DEF Rest
      <4>2. moved'[All[l]] = moved[All[l]] + 1
        BY <1>1, <1>7, <3>3 DEF IInv, TypeOK, HwType
      <4>3. Rest(b[l], b[l + 1], w) \in Int /\ cb[All[l]].offset \in Int
        <5>1. Rest(b[l], b[l + 1], w) \in Int
          BY <1>2, <3>2 DEF Rest
        <5>2. cb[All[l]].offset \in 0..MaxNeed
          BY <1>5 DEF CbType
        <5> QED BY <5>1, <5>2, NeedAssumption
      <4> QED BY <3>1, <4>1, <4>2, <4>3
    <3>4. CASE l # k
      <4>1. moved'[All[l]] = moved[All[l]]
        BY <1>1, <1>5, <1>7, <3>4 DEF IInv, TypeOK, HwType
      <4>2. Rest(b[l], b[l + 1], w + 1) = Rest(b[l], b[l + 1], w)
        <5>1. CASE l < k
          <6>0. l + 1 \in 1..(Len(All) + 1) /\ k \in 1..(Len(All) + 1) /\ l + 1 <= k
            BY <1>5, <5>1
          <6>1. b[l + 1] <= b[k]
            BY <1>4, <6>0 DEF Layout, Chain
          <6> QED BY <1>2, <1>7, <3>2, <6>1 DEF Rest
        <5>2. CASE l > k
          <6>0. k + 1 \in 1..(Len(All) + 1) /\ l \in 1..(Len(All) + 1) /\ k + 1 <= l
            BY <1>5, <5>2
          <6>1. b[k + 1] <= b[l]
            BY <1>4, <6>0 DEF Layout, Chain
          <6> QED BY <1>2, <1>7, <3>2, <6>1 DEF Rest
        <5> QED BY <3>4, <5>1, <5>2
      <4> QED BY <3>1, <4>1, <4>2
    <3> QED BY <3>3, <3>4
  <2> QED BY <1>1, <1>5, <1>6, <2>1 DEF Progress
<1>10. Chain(b)' /\ Unwritten(b)' /\ Cover(b)' /\ Settled(b)'
  BY <1>1, <1>4, <1>5, <1>6 DEF Layout, Chain, Unwritten, Cover, Settled, Advance
<1>11. Layout(b)'
  BY <1>9, <1>10 DEF Layout
<1> QED BY <1>5, <1>8, <1>11 DEF ShareInv

\* A queue comes online with an empty ring and nothing listed.
LEMMA OnlineShare ==
  ASSUME IInv, AInv, BInv, StartOnline
  PROVE  ShareInv'
<1>1. /\ ctl.at = "online" /\ q_state = "enabled" /\ Unlocked
      /\ UNCHANGED <<pidx, cidx, credit, desc, work_list, pend_list, hw, cb, moved, sec>>
  BY DEF StartOnline, IInv, CtlInv, Starting
<1>2. work_list = <<>> /\ pend_list = <<>> /\ pidx = cidx /\ credit = 0
  BY <1>1 DEF AInv, StopInv, BInv, IdleInv
<1>3. All = <<>> /\ Len(All) = 0 /\ Len(pend_list) = 0
  BY <1>2 DEF All
<1>4. InFlight = 0
  BY <1>2, RingFacts
<1>5. PICK c \in [1..1 -> Int] : c[1] = 0
  <2> DEFINE f == [k \in 1..1 |-> 0]
  <2>1. f \in [1..1 -> Int] /\ f[1] = 0
    OBVIOUS
  <2> HIDE DEF f
  <2> QED BY <2>1
<1>6. All' = All /\ InFlight' = InFlight
  BY <1>1 DEF All, InFlight
<1>7. Chain(c)'
  BY <1>1, <1>2, <1>3, <1>4, <1>5, <1>6 DEF Chain
<1>8. Unwritten(c)' /\ Cover(c)' /\ Progress(c)' /\ Settled(c)'
  BY <1>1, <1>3, <1>4, <1>5, <1>6 DEF Unwritten, Cover, Progress, Settled
<1>9. Layout(c)' /\ c \in [1..(Len(All') + 1) -> Int]
  BY <1>3, <1>6, <1>7, <1>8 DEF Layout
<1> QED BY <1>9 DEF ShareInv

-----------------------------------------------------------------------------
(* Steps that execute nothing and complete nothing.                        *)

\* Callers that are refused or go on, the section's other turns and the
\* contexts leave what is owed, and what was told, alone.
LEMMA QuietShare ==
  ASSUME IInv, AInv, BInv,
         \/ \E r \in Req : Refuse(r) \/ Return(r) \/ ProcRequest(r)
         \/ CmplNothing \/ FillPoll \/ FillEnd \/ Doorbell \/ Exit \/ ServiceEnd
         \/ Thread \/ Work \/ StartCheck \/ StartAttach \/ StopBegin \/ StopWaited
         \/ UNCHANGED vars
  PROVE  ShareInv' /\ DoneInv'
<1>0. sec \in [owner : Actors \cup {NoOne},
               at : {"free", "cmpl", "credit", "fill", "refill", "doorbell", "exit",
                     "service", "flushpend", "flushwork"},
               ret : {"fill", "refill", "exit", "service"}, written : Nat, pos : Nat \ {0}]
      /\ (sec.at = "free" <=> sec.owner = NoOne)
  BY DEF IInv, TypeOK, SecType, SecInv
<1>1. UNCHANGED <<q_state, pidx, cidx, credit, desc, work_list, pend_list, cb, moved>>
  BY DEF Refuse, Return, ProcRequest, CmplNothing, FillPoll, FillEnd, Doorbell, Exit, ServiceEnd,
         Thread, ThreadCheck, ThreadWake, ThreadRun, Work, Service, ServiceProc,
         StartCheck, StartAttach, StopBegin, StopWaited, vars
<1>2. hw'.wb = hw.wb
  BY DEF Refuse, Return, ProcRequest, CmplNothing, FillPoll, FillEnd, Doorbell, Exit, ServiceEnd,
         Thread, ThreadCheck, ThreadWake, ThreadRun, Work, Service, ServiceProc,
         StartCheck, StartAttach, StopBegin, StopWaited, vars, PidxUpdate, IInv, TypeOK, HwType
<1>3. sec'.at # "credit" => sec.at # "credit"
  <2>1. CASE \/ \E r \in Req : ProcRequest(r)
             \/ ThreadRun \/ ServiceProc \/ Service
    BY <1>0, <2>1 DEF ProcRequest, ThreadRun, ServiceProc, Service, EnterProc, Enter, Unlocked
  <2>2. CASE CmplNothing \/ FillPoll \/ FillEnd \/ Doorbell \/ ServiceEnd \/ Exit
    BY <2>2 DEF CmplNothing, FillPoll, FillEnd, Doorbell, ServiceEnd, Exit, At
  <2>3. CASE \/ \E r \in Req : Refuse(r) \/ Return(r)
             \/ ThreadCheck \/ ThreadWake \/ StartCheck \/ StartAttach \/ StopBegin \/ StopWaited
             \/ UNCHANGED vars
    BY <2>3 DEF Refuse, Return, ThreadCheck, ThreadWake, StartCheck, StartAttach, StopBegin,
                StopWaited, vars
  <2> QED BY <2>1, <2>2, <2>3 DEF Thread, Work
<1>4. ShareInv'
  BY <1>1, <1>2, <1>3, ShareStays DEF BInv
<1>5. DoneInv'
  <2>1. CASE \E r \in Req : Refuse(r)
    <3>1. PICK r \in Req : Refuse(r)
      BY <2>1
    <3>2. /\ pc' = [pc EXCEPT ![r] = "out"] /\ result' = [result EXCEPT ![r] = "err"]
          /\ UNCHANGED <<cb, moved>>
      BY <3>1 DEF Refuse
    <3>3. \A q \in Req : /\ pc'[q] = "new" => pc[q] = "new"
                         /\ result[q] # "none" => result'[q] # "none"
                         /\ pc[q] # "new" => pc'[q] # "new"
      BY <3>2 DEF IInv, TypeOK, ReqType
    <3> QED BY <3>2, <3>3 DEF BInv, DoneInv
  <2>2. CASE \E r \in Req : Return(r)
    BY <2>2 DEF Return, AInv, CallerInv
  <2>3. CASE Exit
    <3>1. UNCHANGED <<cb, result, moved>>
      BY <2>3 DEF Exit
    <3>2. \A r \in Req : pc'[r] = "new" => pc[r] = "new"
      BY <2>3 DEF Exit, IInv, TypeOK, ReqType
    <3> QED BY <3>1, <3>2, DoneStays DEF BInv
  <2>4. CASE \/ \E r \in Req : ProcRequest(r)
             \/ CmplNothing \/ FillPoll \/ FillEnd \/ Doorbell \/ ServiceEnd
             \/ Thread \/ Work \/ StartCheck \/ StartAttach \/ StopBegin \/ StopWaited
             \/ UNCHANGED vars
    <3>1. UNCHANGED <<cb, result, moved, pc>>
      BY <2>4 DEF ProcRequest, CmplNothing, FillPoll, FillEnd, Doorbell, ServiceEnd,
         Thread, ThreadCheck, ThreadWake, ThreadRun, Work, Service, ServiceProc,
         StartCheck, StartAttach, StopBegin, StopWaited, vars
    <3> QED BY <3>1, DoneStays DEF BInv
  <2> QED BY <2>1, <2>2, <2>3, <2>4
<1> QED BY <1>4, <1>5

\* What was told of a request survives that one request is aborted.
LEMMA AbortDone ==
  ASSUME OnlyAsync, IInv, DoneInv, NEW r \in Req, Abort(r), pc[r] # "new", UNCHANGED <<pc, moved>>
  PROVE  DoneInv'
<1>1. /\ cb' = [cb EXCEPT ![r].done = TRUE, ![r].status = "err"]
      /\ result' = [result EXCEPT ![r] = "err"]
  BY DEF Abort, OnlyAsync
<1>2. /\ cb'[r].status = "err" /\ result'[r] = "err"
      /\ \A q \in Req : q # r => cb'[q] = cb[q] /\ result'[q] = result[q]
  BY <1>1 DEF IInv, TypeOK, ReqType, CbType
<1> QED BY <1>2 DEF DoneInv

\* A stopped queue is not online: its lists are walked, or it is being started.
LEMMA StoppedShare ==
  ASSUME OnlyAsync, IInv, AInv, BInv,
         \/ FlushPend \/ FlushNext \/ FlushWork \/ FlushEnd
         \/ StartConfig \/ StartProgram \/ StopFlush \/ StopDetach \/ StopClear \/ StopRelease
  PROVE  ShareInv' /\ DoneInv'
<1>1. q_state' = "enabled"
  BY DEF FlushPend, FlushNext, FlushWork, FlushEnd, StartConfig, StartProgram, StopFlush,
         StopDetach, StopClear, StopRelease, At, IInv, TypeOK, QueueType, CtlInv, SecInv, Starting
<1>2. ShareInv'
  BY <1>1 DEF ShareInv
<1>3. DoneInv'
  <2>1. CASE FlushPend
    <3>1. pend_list[sec.pos] \in Req /\ pc[pend_list[sec.pos]] # "new"
      <4>1. sec.pos \in 1..Len(pend_list)
        BY <2>1 DEF FlushPend, IInv, TypeOK, SecType, ListType
      <4> QED BY <4>1 DEF IInv, TypeOK, ListType, AInv, ListInv
    <3> QED BY <2>1, <3>1, AbortDone DEF FlushPend, BInv
  <2>2. CASE FlushWork
    <3>1. work_list[sec.pos] \in Req /\ pc[work_list[sec.pos]] # "new"
      <4>1. sec.pos \in 1..Len(work_list)
        BY <2>2 DEF FlushWork, IInv, TypeOK, SecType, ListType
      <4> QED BY <4>1 DEF IInv, TypeOK, ListType, AInv, ListInv
    <3> QED BY <2>2, <3>1, AbortDone DEF FlushWork, BInv
  <2>3. CASE \/ FlushNext \/ FlushEnd \/ StartConfig \/ StartProgram \/ StopFlush
             \/ StopDetach \/ StopClear \/ StopRelease
    <3>1. UNCHANGED <<cb, result, moved, pc>>
      BY <2>3 DEF FlushNext, FlushEnd, StartConfig, StartProgram, StopFlush, StopDetach,
                  StopClear, StopRelease
    <3> QED BY <3>1, DoneStays DEF BInv
  <2> QED BY <2>1, <2>2, <2>3
<1> QED BY <1>2, <1>3

\* A request that goes on is not told anything.
LEMMA OpenDone ==
  ASSUME IInv, AInv, BInv,
         \/ \E r \in Req, n \in 1..MaxNeed : Submit(r, n)
         \/ CmplCredits \/ CmplPart \/ CmplRearm \/ StartOnline
         \/ WriteDescs /\ work_list # <<>>
  PROVE  DoneInv'
<1>1. CASE \E r \in Req, n \in 1..MaxNeed : Submit(r, n)
  <2>1. PICK r \in Req, n \in 1..MaxNeed : Submit(r, n)
    BY <1>1
  <2>2. /\ pc' = [pc EXCEPT ![r] = "queued"] /\ cb' = [cb EXCEPT ![r] = [NoCb EXCEPT !.count = n]]
        /\ UNCHANGED <<result, moved>>
    BY <2>1 DEF Submit
  <2>3. /\ ~cb'[r].done /\ pc'[r] = "queued"
        /\ \A q \in Req : q # r => cb'[q] = cb[q] /\ pc'[q] = pc[q]
    BY <2>2 DEF IInv, TypeOK, ReqType, NoCb
  <2> QED BY <2>2, <2>3 DEF BInv, DoneInv
<1>2. CASE CmplPart
  <2>1. UNCHANGED <<pc, result, moved>> /\ Head(pend_list) \in Req
        /\ cb' = [cb EXCEPT ![Head(pend_list)] = Credited(cb[Head(pend_list)], credit)]
    BY <1>2, HeadIs DEF CmplPart, IInv, TypeOK, ListType
  <2>2. \A q \in Req : cb'[q].done = cb[q].done /\ cb'[q].status = cb[q].status
                       /\ cb'[q].count = cb[q].count
    BY <2>1 DEF IInv, TypeOK, ReqType, CbType, Credited
  <2> QED BY <2>1, <2>2 DEF BInv, DoneInv
<1>3. CASE WriteDescs /\ work_list # <<>>
  <2>1. PICK n : UNCHANGED <<pc, result, moved>> /\ Head(work_list) \in Req
          /\ cb' = [cb EXCEPT ![Head(work_list)] = Written(cb[Head(work_list)], n)]
    <3> DEFINE r == Head(work_list)
               left == cb[r].count - cb[r].offset
               x == IF avail < left THEN avail ELSE left
    <3>1. UNCHANGED <<pc, result, moved>> /\ cb' = [cb EXCEPT ![r] = Written(cb[r], x)]
      BY <1>3 DEF WriteDescs
    <3>2. r \in Req
      BY <1>3, HeadIs DEF IInv, TypeOK, ListType
    <3> HIDE DEF x
    <3> QED BY <3>1, <3>2
  <2>2. \A q \in Req : cb'[q].done = cb[q].done /\ cb'[q].status = cb[q].status
                       /\ cb'[q].count = cb[q].count
    BY <2>1 DEF IInv, TypeOK, ReqType, CbType, Written
  <2> QED BY <2>1, <2>2 DEF BInv, DoneInv
<1>4. CASE CmplCredits \/ CmplRearm \/ StartOnline
  <2>1. UNCHANGED <<cb, result, moved, pc>>
    BY <1>4 DEF CmplCredits, CmplRearm, StartOnline
  <2> QED BY <2>1, DoneStays DEF BInv
<1> QED BY <1>1, <1>2, <1>3, <1>4

-----------------------------------------------------------------------------
(* When the ring is idle.                                                  *)

\* Steps that leave the ring, the section and the control path alone.
LEMMA IdleStays ==
  ASSUME IdleInv, UNCHANGED <<q_state, q_stop_wait, pend_list_empty, pidx, cidx, ring_alloc, ctl>>,
         hw'.on = hw.on, credit' \in {credit, 0},
         sec' = sec
  PROVE  IdleInv'
BY DEF IdleInv, Writing

\* The section goes on; the ring, the queue and the control path stay.
LEMMA IdleGoes ==
  ASSUME IdleInv, UNCHANGED <<q_state, q_stop_wait, pend_list_empty, pidx, cidx, ring_alloc, ctl>>,
         hw'.on = hw.on, credit' = credit,
         sec'.at = "credit" => sec.at = "credit",
         (Writing /\ sec.written > 0) => (Writing' /\ sec'.written > 0),
         q_stop_wait => /\ sec'.at \notin {"fill", "refill", "doorbell"}
                        /\ sec'.at \in {"cmpl", "credit"} => sec'.ret \in {"exit", "service"}
  PROVE  IdleInv'
BY DEF IdleInv

\* The holder of the lock keeps what is known of an idle ring.
LEMMA SectionIdle ==
  ASSUME IInv, AInv, BInv,
         \/ \E r \in Req : ProcRequest(r)
         \/ CmplNothing \/ CmplRearm \/ FillPoll \/ FillEnd \/ Exit \/ ServiceEnd
         \/ FlushPend \/ FlushNext \/ FlushWork
         \/ Thread \/ Work
  PROVE  IdleInv'
<1>0. /\ sec \in [owner : Actors \cup {NoOne},
                  at : {"free", "cmpl", "credit", "fill", "refill", "doorbell", "exit",
                        "service", "flushpend", "flushwork"},
                  ret : {"fill", "refill", "exit", "service"}, written : Nat, pos : Nat \ {0}]
      /\ (sec.at = "free" <=> sec.owner = NoOne)
      /\ IdleInv
  BY DEF IInv, TypeOK, SecType, SecInv, BInv
<1>1. /\ UNCHANGED <<q_state, q_stop_wait, pend_list_empty, pidx, cidx, ring_alloc, ctl, credit>>
      /\ hw'.on = hw.on
  BY DEF ProcRequest, CmplNothing, CmplRearm, FillPoll, FillEnd, Exit, ServiceEnd, FlushPend,
         FlushNext, FlushWork, Thread, ThreadCheck, ThreadWake, ThreadRun, Work, Service,
         ServiceProc, PidxUpdate, IInv, TypeOK, HwType
<1>2. CASE sec' = sec
  BY <1>0, <1>1, <1>2, IdleStays
<1>3. CASE sec.at = "free" /\ (EnterProc(Poller) \/ EnterProc(Worker)
                               \/ (\E r \in Req : EnterProc(r)) \/ Enter(Worker, "cmpl", "service"))
  <2>1. /\ sec'.at # "credit" /\ ~Writing
        /\ q_stop_wait => sec'.at = "cmpl" /\ sec'.ret \in {"exit", "service"}
    BY <1>3 DEF EnterProc, Enter, Writing
  <2> QED BY <1>0, <1>1, <2>1, IdleGoes
<1>4. CASE CmplNothing \/ CmplRearm
  <2>1. sec.at \in {"cmpl", "credit"} /\ sec' = [sec EXCEPT !.at = sec.ret]
    BY <1>4 DEF CmplNothing, CmplRearm, At, Goto
  <2>2. /\ sec'.at = sec.ret /\ sec'.written = sec.written /\ sec'.at # "credit"
        /\ sec'.at # "cmpl"
    BY <1>0, <2>1
  <2>3. Writing => Writing'
    BY <2>1, <2>2 DEF Writing
  <2>4. q_stop_wait => sec'.at \in {"exit", "service"}
    BY <1>0, <2>1, <2>2 DEF IdleInv
  <2> QED BY <1>0, <1>1, <2>2, <2>3, <2>4, IdleGoes
<1>5. CASE FillPoll \/ FillEnd
  <2>1. /\ sec.at \in {"fill", "refill"} /\ sec'.written = sec.written
        /\ \/ sec'.at = "cmpl" /\ sec'.ret = "refill"
           \/ sec'.at = "doorbell"
    BY <1>0, <1>5 DEF FillPoll, FillEnd, At, Goto, Call
  <2>2. Writing' /\ ~q_stop_wait
    BY <1>0, <2>1 DEF IdleInv, Writing
  <2> QED BY <1>0, <1>1, <2>1, <2>2, IdleGoes
<1>6. CASE Exit \/ ServiceEnd \/ FlushPend \/ FlushNext \/ FlushWork
  <2>1. /\ sec.at \in {"exit", "service", "flushpend", "flushwork"}
        /\ sec'.at \in {"free", "flushpend", "flushwork"}
    <3>1. CASE FlushPend
      BY <1>0, <3>1 DEF FlushPend, Abort, At
    <3>2. CASE FlushWork
      BY <1>0, <3>2 DEF FlushWork, Abort, At
    <3>3. CASE Exit \/ ServiceEnd
      BY <3>3 DEF Exit, ServiceEnd, Free, At
    <3>4. CASE FlushNext
      BY <1>0, <3>4 DEF FlushNext, At
    <3> QED BY <1>6, <3>1, <3>2, <3>3, <3>4
  <2>2. ~Writing
    BY <2>1 DEF Writing
  <2> QED BY <1>0, <1>1, <2>1, <2>2, IdleGoes
<1>7. sec' = sec \/ (sec.at = "free" /\ (EnterProc(Poller) \/ EnterProc(Worker)
           \/ (\E r \in Req : EnterProc(r)) \/ Enter(Worker, "cmpl", "service")))
      \/ CmplNothing \/ CmplRearm \/ FillPoll \/ FillEnd \/ Exit \/ ServiceEnd
      \/ FlushPend \/ FlushNext \/ FlushWork
  BY <1>0 DEF ProcRequest, Thread, ThreadCheck, ThreadWake, ThreadRun, Work, Service,
              ServiceProc, EnterProc, Unlocked
<1> QED BY <1>2, <1>3, <1>4, <1>5, <1>6, <1>7

\* Credits are taken only of a ring that is not idle.
LEMMA CmplIdle ==
  ASSUME IInv, AInv, BInv, CmplCredits \/ CmplDone \/ CmplPart
  PROVE  IdleInv'
<1>0. /\ sec \in [owner : Actors \cup {NoOne},
                  at : {"free", "cmpl", "credit", "fill", "refill", "doorbell", "exit",
                        "service", "flushpend", "flushwork"},
                  ret : {"fill", "refill", "exit", "service"}, written : Nat, pos : Nat \ {0}]
      /\ q_state \in {"online", "enabled"}
  BY DEF IInv, TypeOK, SecType, QueueType
<1>1. /\ UNCHANGED <<q_state, q_stop_wait, pidx, ring_alloc, ctl, hw>>
      /\ sec.at \in {"cmpl", "credit"}
  BY DEF CmplCredits, CmplDone, CmplPart, At
<1>2. q_state = "online" /\ ctl.at \notin {"program", "attach", "online"}
  <2>1. q_state = "online"
    BY <1>0 DEF CmplCredits, CmplDone, CmplPart, At, BInv, IdleInv
  <2> QED BY <2>1 DEF IInv, CtlInv, Starting
<1>3. CASE CmplCredits
  <2>1. pidx # cidx /\ sec'.at = "credit" /\ sec'.ret = sec.ret /\ sec'.written = sec.written
        /\ sec.at = "cmpl" /\ UNCHANGED pend_list_empty
    BY <1>0, <1>3 DEF CmplCredits, At, Goto
  <2>2. Writing' <=> Writing
    BY <2>1 DEF Writing
  <2> QED BY <1>1, <1>2, <2>1, <2>2 DEF BInv, IdleInv
<1>4. CASE CmplDone
  <2>1. pend_list_empty' = (avail = RngSz - 1) /\ UNCHANGED <<cidx, sec>>
    BY <1>4 DEF CmplDone, RingIdle, UsableEntries
  <2>2. avail = RngSz - 1 => pidx = cidx
    <3>1. avail + InFlight = RngSz - 1 /\ InFlight \in Ring /\ avail \in Ring
          /\ (InFlight = 0 <=> pidx = cidx)
      BY <1>2, RingFacts
    <3> QED BY <3>1, RingAssumption DEF Ring
  <2> QED BY <1>1, <1>2, <2>1, <2>2 DEF BInv, IdleInv, Writing
<1>5. CASE CmplPart
  <2>1. UNCHANGED <<cidx, sec, pend_list_empty>>
    BY <1>5 DEF CmplPart
  <2> QED BY <1>1, <1>2, <2>1 DEF BInv, IdleInv, Writing
<1> QED BY <1>3, <1>4, <1>5

\* Writing descriptors makes the ring busy, and the doorbell says so.
LEMMA WriteIdle ==
  ASSUME IInv, AInv, BInv,
         \/ WriteDescs /\ sec.at \in {"fill", "refill"} /\ work_list # <<>>
         \/ Doorbell
  PROVE  IdleInv'
<1>0. /\ sec \in [owner : Actors \cup {NoOne},
                  at : {"free", "cmpl", "credit", "fill", "refill", "doorbell", "exit",
                        "service", "flushpend", "flushwork"},
                  ret : {"fill", "refill", "exit", "service"}, written : Nat, pos : Nat \ {0}]
      /\ sec.at \in {"fill", "refill", "doorbell"} /\ q_state = "online"
  BY DEF IInv, TypeOK, SecType, SecInv, Doorbell, At
<1>1. /\ UNCHANGED <<q_state, q_stop_wait, cidx, credit, ring_alloc, ctl>> /\ hw'.on = hw.on
  BY DEF WriteDescs, Doorbell, PidxUpdate, IInv, TypeOK, HwType
<1>2. ~q_stop_wait /\ ctl.at \notin {"stopwait", "flush"} /\ Writing
  BY <1>0 DEF BInv, IdleInv, Writing
<1>3. CASE WriteDescs /\ sec.at \in {"fill", "refill"} /\ work_list # <<>>
  <2>1. PICK n \in Nat : /\ pidx' = Advance(pidx, n) /\ UNCHANGED pend_list_empty
                         /\ sec' = [sec EXCEPT !.at = "fill", !.written = @ + n]
    <3> DEFINE r == Head(work_list)
               left == cb[r].count - cb[r].offset
               x == IF avail < left THEN avail ELSE left
    <3>1. r \in Req
      BY <1>3, HeadIs DEF IInv, TypeOK, ListType
    <3>2. left \in Nat
      <4>1. cb[r].count \in 0..MaxNeed /\ cb[r].offset \in 0..MaxNeed /\ cb[r].offset <= cb[r].count
        BY <3>1 DEF IInv, TypeOK, ReqType, CbType
      <4> QED BY <4>1, NeedAssumption
    <3>3. x \in Nat
      BY <3>2, RingFacts, RingAssumption DEF Ring
    <3> QED BY <1>3, <3>3 DEF WriteDescs
  <2>2. sec'.at = "fill" /\ sec'.written = sec.written + n /\ Writing'
    BY <1>0, <2>1 DEF Writing
  <2>3. CASE n = 0
    <3>1. pidx' = pidx
      BY <2>1, <2>3, RingFacts, RingAssumption DEF Advance, Ring
    <3>2. sec'.written = sec.written
      BY <1>0, <2>2, <2>3
    <3> QED BY <1>0, <1>1, <1>2, <2>1, <2>2, <3>1, <3>2 DEF BInv, IdleInv
  <2>4. CASE n # 0
    <3>1. sec'.written > 0
      BY <1>0, <2>1, <2>2, <2>4
    <3> QED BY <1>0, <1>1, <1>2, <2>2, <3>1 DEF BInv, IdleInv
  <2> QED BY <2>3, <2>4
<1>4. CASE Doorbell
  <2>1. /\ UNCHANGED pidx /\ sec'.at # "credit"
        /\ \/ pend_list_empty' = FALSE
           \/ UNCHANGED pend_list_empty /\ ~(sec.written > 0)
    BY <1>0, <1>4 DEF Doorbell, Call, Goto
  <2> QED BY <1>0, <1>1, <1>2, <2>1 DEF BInv, IdleInv
<1> QED BY <1>3, <1>4

\* The control path starts with an idle ring and flushes an idle ring.
LEMMA ControlIdle ==
  ASSUME ~SlowDevice, IInv, AInv, BInv,
         Start \/ StopBegin \/ Stop \/ FlushEnd
  PROVE  IdleInv'
<1>0. /\ sec \in [owner : Actors \cup {NoOne},
                  at : {"free", "cmpl", "credit", "fill", "refill", "doorbell", "exit",
                        "service", "flushpend", "flushwork"},
                  ret : {"fill", "refill", "exit", "service"}, written : Nat, pos : Nat \ {0}]
      /\ (sec.at = "free" <=> sec.owner = NoOne)
      /\ ctl \in [at : {"idle", "config", "program", "attach", "online", "stopwait", "flush",
                        "flushing", "detach", "clear", "release"},
                  starts : 0..MaxStarts, stops : 0..MaxStops]
      /\ hw \in [on : BOOLEAN, wb : 0..(RngSz - 1), db : 0..(RngSz - 1),
                 armed : BOOLEAN, no_last : BOOLEAN]
      /\ CtlInv /\ IdleInv
  BY DEF IInv, TypeOK, SecType, SecInv, ActorType, HwType, BInv
<1>1. CASE StartCheck
  BY <1>0, <1>1 DEF StartCheck, IdleInv, Writing
<1>2. CASE StartConfig
  BY <1>0, <1>2 DEF StartConfig, IdleInv, CtlInv, Starting, Writing
<1>3. CASE StartProgram
  BY <1>0, <1>3 DEF StartProgram, IdleInv, CtlInv, Starting, Writing
<1>4. CASE StartAttach
  BY <1>0, <1>4 DEF StartAttach, IdleInv, CtlInv, Starting, Writing
<1>5. CASE StartOnline
  BY <1>0, <1>5 DEF StartOnline, IdleInv, CtlInv, Starting, Writing
<1>6. CASE StopBegin
  BY <1>0, <1>6 DEF StopBegin, StopMustWait, Unlocked, IdleInv, CtlInv, Starting, Writing
<1>7. CASE StopWaited
  <2>1. /\ ctl.at = "stopwait" /\ ctl'.at = "flush" /\ q_state = "online" /\ q_stop_wait
        /\ UNCHANGED <<q_state, q_stop_wait, pend_list_empty, pidx, cidx, credit, hw, ring_alloc, sec>>
    BY <1>0, <1>7 DEF StopWaited, IdleInv, CtlInv
  <2>2. pidx = cidx
    <3>1. CASE Drained
      BY <3>1 DEF Drained
    <3>2. CASE pend_list_empty
      BY <1>0, <2>1, <3>2 DEF IdleInv, Writing
    <3> QED BY <1>7, <3>1, <3>2 DEF StopWaited, StopWaitOver
  <2> QED BY <1>0, <2>1, <2>2 DEF IdleInv, Writing
<1>8. CASE StopFlush
  BY <1>0, <1>8 DEF StopFlush, Enter, IdleInv, CtlInv, Writing
<1>9. CASE StopDetach
  BY <1>0, <1>9 DEF StopDetach, IdleInv, CtlInv, Writing
<1>10. CASE StopClear
  BY <1>0, <1>10 DEF StopClear, IdleInv, CtlInv, Writing
<1>11. CASE StopRelease
  BY <1>0, <1>11 DEF StopRelease, IdleInv, CtlInv, Writing
<1>12. CASE FlushEnd
  <2>1. q_state = "enabled"
    BY <1>12 DEF FlushEnd, At, AInv, StopInv, Flushing
  <2> QED BY <1>0, <1>12, <2>1 DEF FlushEnd, Free, IdleInv, CtlInv, Writing, Starting
<1> QED BY <1>1, <1>2, <1>3, <1>4, <1>5, <1>6, <1>7, <1>8, <1>9, <1>10, <1>11, <1>12
       DEF Start, Stop

-----------------------------------------------------------------------------
(* The invariant.                                                          *)

\* The holder of the lock keeps the shares.
LEMMA SectionBInv ==
  ASSUME OnlyAsync, ~SlowDevice, IInv, AInv, BInv, Section
  PROVE  BInv'
<1>1. CASE CmplCredits
  BY <1>1, CreditsShare, OpenDone, CmplIdle DEF BInv
<1>2. CASE CmplDone
  BY <1>2, DoneShare, CmplIdle DEF BInv
<1>3. CASE CmplPart
  BY <1>3, PartShare, OpenDone, CmplIdle DEF BInv
<1>4. CASE CmplRearm
  BY <1>4, RearmShare, OpenDone, SectionIdle DEF BInv
<1>5. CASE Fill \/ Refill
  <2>1. WriteDescs /\ sec.at \in {"fill", "refill"} /\ work_list # <<>>
    BY <1>5 DEF Fill, Refill, At, IInv, SecInv
  <2> QED BY <2>1, WriteShare, OpenDone, WriteIdle DEF BInv
<1>6. CASE Doorbell
  BY <1>6, QuietShare, WriteIdle DEF BInv
<1>7. CASE CmplNothing \/ FillPoll \/ FillEnd \/ Exit \/ ServiceEnd
  <2>1. ShareInv' /\ DoneInv'
    BY <1>7, QuietShare
  <2>2. IdleInv'
    BY <1>7, SectionIdle
  <2> QED BY <2>1, <2>2 DEF BInv
<1>8. CASE FlushPend \/ FlushNext \/ FlushWork
  <2>1. ShareInv' /\ DoneInv'
    BY <1>8, StoppedShare
  <2>2. IdleInv'
    BY <1>8, SectionIdle
  <2> QED BY <2>1, <2>2 DEF BInv
<1>9. CASE FlushEnd
  BY <1>9, StoppedShare, ControlIdle DEF BInv
<1> QED BY <1>1, <1>2, <1>3, <1>4, <1>5, <1>6, <1>7, <1>8, <1>9 DEF Section

\* So do callers.
LEMMA CallerBInv ==
  ASSUME OnlyAsync, IInv, AInv, BInv, NEW r \in Req, Caller(r)
  PROVE  BInv'
<1>1. ASSUME NEW n \in 1..MaxNeed, Submit(r, n) PROVE BInv'
  <2>1. ShareInv' /\ DoneInv'
    BY <1>1, SubmitShare, OpenDone
  <2>2. IdleInv'
    BY <1>1, IdleStays DEF Submit, BInv
  <2> QED BY <2>1, <2>2 DEF BInv
<1>2. CASE Refuse(r) \/ Return(r)
  <2>1. ShareInv' /\ DoneInv'
    BY <1>2, QuietShare
  <2>2. IdleInv'
    BY <1>2, IdleStays DEF Refuse, Return, BInv
  <2> QED BY <2>1, <2>2 DEF BInv
<1>3. CASE ProcRequest(r)
  BY <1>3, QuietShare, SectionIdle DEF BInv
<1>4. ~TimeOut(r)
  BY TimedAssumption DEF TimeOut, OnlyAsync
<1> QED BY <1>1, <1>2, <1>3, <1>4 DEF Caller

\* So does the control path.
LEMMA ControlBInv ==
  ASSUME OnlyAsync, ~SlowDevice, IInv, AInv, BInv, Start \/ StopBegin \/ Stop
  PROVE  BInv'
<1>1. IdleInv'
  BY ControlIdle
<1>2. CASE StartOnline
  BY <1>1, <1>2, OnlineShare, OpenDone DEF BInv
<1>3. CASE StartCheck \/ StartAttach \/ StopBegin \/ StopWaited
  <2>1. ShareInv' /\ DoneInv'
    BY <1>3, QuietShare
  <2> QED BY <1>1, <2>1 DEF BInv
<1>4. CASE StartConfig \/ StartProgram \/ StopFlush \/ StopDetach \/ StopClear \/ StopRelease
  <2>1. ShareInv' /\ DoneInv'
    BY <1>4, StoppedShare
  <2> QED BY <1>1, <2>1 DEF BInv
<1> QED BY <1>2, <1>3, <1>4 DEF Start, Stop

\* So does every step.
LEMMA NextBInv ==
  ASSUME OnlyAsync, ~SlowDevice, IInv, AInv, BInv, [Next]_vars
  PROVE  BInv'
<1>1. CASE Thread \/ Work
  <2>1. ShareInv' /\ DoneInv'
    BY <1>1, QuietShare
  <2>2. IdleInv'
    BY <1>1, SectionIdle
  <2> QED BY <2>1, <2>2 DEF BInv
<1>2. CASE HwStep
  <2>1. IdleInv'
    BY <1>2, IdleStays DEF HwStep, BInv, IInv, TypeOK, HwType
  <2> QED BY <1>2, <2>1, DeviceShare DEF BInv
<1>3. CASE UNCHANGED vars
  <2>1. ShareInv' /\ DoneInv'
    BY <1>3, QuietShare
  <2>2. IdleInv'
    BY <1>3, IdleStays DEF vars, BInv
  <2> QED BY <2>1, <2>2 DEF BInv
<1>4. ASSUME NEW s \in Batches, NEW n \in 1..MaxNeed, BatchSubmit(s, n) PROVE BInv'
  <2>1. 1 \in 1..Len(s) /\ s[1] \in Req
    BY DEF Batches
  <2> QED BY <1>4, <2>1 DEF BatchSubmit, OnlyAsync
<1> QED BY <1>1, <1>2, <1>3, <1>4, CallerBInv, SectionBInv, ControlBInv DEF Next

\* The shares are there in every reachable state.
LEMMA DebtsInductive ==
  ASSUME OnlyAsync, ~SlowDevice
  PROVE  Spec => [](IInv /\ AInv /\ BInv)
<1>1. Init => BInv
  BY InitBInv
<1>2. IInv /\ AInv /\ BInv /\ [Next]_vars => BInv'
  BY NextBInv
<1> QED BY <1>1, <1>2, ListsInductive, PTL DEF Spec

-----------------------------------------------------------------------------
(* What the invariant says of the outcome.                                 *)

\* The entries of a request are counted along the ring.
LEMMA PlacesCount ==
  ASSUME NEW a \in Ring, NEW lo \in Nat, NEW hi \in Nat, lo <= hi, hi <= RngSz,
         NEW S, S \subseteq Ring, \A i \in Ring : i \in S <=> (lo <= Dist(a, i) /\ Dist(a, i) < hi)
  PROVE  Cardinality(S) = hi - lo
<1> DEFINE T == lo..(hi - 1)
           f == [j \in T |-> Advance(a, j)]
<1>1. \A j \in T : j \in Ring /\ lo <= j /\ j < hi
  BY RingAssumption DEF Ring
<1>2. f \in [T -> S]
  <2>1. ASSUME NEW j \in T PROVE Advance(a, j) \in S
    BY <1>1, PlaceIs
  <2> QED BY <2>1
<1>3. \A j, k \in T : f[j] = f[k] => j = k
  <2>1. \A j \in T : Dist(a, f[j]) = j
    BY <1>1, PlaceIs
  <2> QED BY <2>1
<1>4. \A i \in S : \E j \in T : f[j] = i
  <2>1. ASSUME NEW i \in S PROVE \E j \in T : f[j] = i
    <3>1. i \in Ring /\ Dist(a, i) \in Ring
      BY DistType
    <3>2. Dist(a, i) \in T
      BY <3>1, RingAssumption DEF Ring
    <3>3. Advance(a, Dist(a, i)) = i
      BY <3>1, PlaceIs
    <3> QED BY <3>2, <3>3
  <2> QED BY <2>1
<1>5. ExistsBijection(T, S)
  <2> HIDE DEF f
  <2>1. f \in Injection(T, S)
    BY <1>2, <1>3 DEF Injection, IsInjective
  <2>2. f \in Surjection(T, S)
    BY <1>2, <1>4 DEF Surjection
  <2> QED BY <2>1, <2>2 DEF ExistsBijection, Bijection
<1>6. IsFiniteSet(T) /\ Cardinality(T) = hi - lo
  <2>1. hi - 1 \in Int /\ lo \in Int
    OBVIOUS
  <2>2. Cardinality(T) = (IF lo > hi - 1 THEN 0 ELSE ((hi - 1) - lo) + 1) /\ IsFiniteSet(T)
    BY <2>1, FS_Interval
  <2> HIDE DEF T
  <2>3. (IF lo > hi - 1 THEN 0 ELSE ((hi - 1) - lo) + 1) = hi - lo
    OBVIOUS
  <2> QED BY <2>2, <2>3
<1> QED BY <1>5, <1>6, FS_Bijection

\* Which entries are those of request k.
LEMMA ShareIs ==
  ASSUME IInv, AInv, NEW b \in [1..(Len(All) + 1) -> Int], Layout(b), q_state = "online",
         NEW k \in 1..Len(All), NEW i \in Ring
  PROVE  (Dist(cidx, i) < InFlight /\ desc[i] = All[k]) <=> (b[k] <= Dist(cidx, i) /\ Dist(cidx, i) < b[k + 1])
<1> DEFINE j == Dist(cidx, i)
<1>1. /\ j \in Nat /\ cidx \in Ring /\ Advance(cidx, j) = i /\ InFlight \in Nat
  <2>1. cidx \in Ring /\ InFlight \in Ring
    BY RingFacts
  <2>2. j \in Ring /\ Advance(cidx, j) = i
    BY <2>1, DistType, PlaceIs
  <2> QED BY <2>1, <2>2, RingAssumption DEF Ring
<1>2. /\ Len(All) \in Nat /\ \A m, l \in 1..Len(All) : All[m] = All[l] => m = l
  BY AllFacts DEF AInv
<1>3. \A m, l \in 1..(Len(All) + 1) : m <= l => b[m] <= b[l]
  BY DEF Layout, Chain
<1>4. b[Len(All) + 1] = InFlight
  BY DEF Layout, Chain
<1>5. b[k + 1] <= InFlight /\ b[k] \in Int /\ b[k + 1] \in Int
  <2>1. k + 1 \in 1..(Len(All) + 1) /\ Len(All) + 1 \in 1..(Len(All) + 1) /\ k + 1 <= Len(All) + 1
    BY <1>2
  <2> QED BY <1>3, <1>4, <2>1
<1> HIDE DEF j
<1>6. ASSUME j < InFlight
      PROVE  \E m \in 1..Len(All) : desc[i] = All[m] /\ b[m] <= j /\ j < b[m + 1]
  <2>1. j \in 0..(InFlight - 1)
    BY <1>1, <1>6
  <2> QED BY <1>1, <2>1 DEF Layout, Cover
<1>7. ASSUME j < InFlight, desc[i] = All[k] PROVE b[k] <= j /\ j < b[k + 1]
  BY <1>2, <1>6, <1>7
<1>8. ASSUME b[k] <= j, j < b[k + 1] PROVE j < InFlight /\ desc[i] = All[k]
  <2>1. j < InFlight
    BY <1>1, <1>5, <1>8
  <2>2. PICK m \in 1..Len(All) : desc[i] = All[m] /\ b[m] <= j /\ j < b[m + 1]
    BY <1>6, <2>1
  <2>3. b[m] \in Int /\ b[m + 1] \in Int
    BY <1>2
  <2>4. ~(m < k)
    <3> SUFFICES ASSUME m < k PROVE FALSE
      OBVIOUS
    <3>1. m + 1 \in 1..(Len(All) + 1) /\ k \in 1..(Len(All) + 1) /\ m + 1 <= k
      BY <1>2
    <3>2. b[m + 1] <= b[k]
      BY <1>3, <3>1
    <3> QED BY <1>1, <1>5, <1>8, <2>2, <2>3, <3>2
  <2>5. ~(k < m)
    <3> SUFFICES ASSUME k < m PROVE FALSE
      OBVIOUS
    <3>1. k + 1 \in 1..(Len(All) + 1) /\ m \in 1..(Len(All) + 1) /\ k + 1 <= m
      BY <1>2
    <3>2. b[k + 1] <= b[m]
      BY <1>3, <3>1
    <3> QED BY <1>1, <1>5, <1>8, <2>2, <2>3, <3>2
  <2>6. m = k
    BY <1>2, <2>4, <2>5
  <2> QED BY <2>1, <2>2, <2>6
<1> QED BY <1>7, <1>8 DEF j

\* The descriptors counted in the ring are what the shares say.
LEMMA DebtsMatch ==
  ASSUME IInv, AInv, BInv
  PROVE  DebtMatchesRing
<1> SUFFICES ASSUME Unlocked, hw.on, NEW k \in 1..Len(All)
             PROVE  Cardinality({i \in 0..(RngSz - 1) : Pending(i) /\ desc[i] = All[k]})
                      = cb[All[k]].desc_nr - (IF k = 1 THEN credit ELSE 0)
  BY DEF DebtMatchesRing, All
<1>1. sec.at = "free"
  BY DEF Unlocked, IInv, SecInv
<1>2. q_state = "online"
  <2> SUFFICES ASSUME q_state = "enabled" PROVE FALSE
    BY DEF IInv, TypeOK, QueueType
  <2>1. work_list = <<>> /\ pend_list = <<>>
    BY <1>1 DEF AInv, StopInv, Flushing
  <2>2. Len(All) = 0
    BY <2>1 DEF All
  <2> QED BY <2>2
<1>3. PICK b \in [1..(Len(All) + 1) -> Int] : Layout(b)
  BY <1>2 DEF BInv, ShareInv
<1>4. Len(All) \in Nat /\ cb[All[k]].desc_nr \in Int /\ credit \in Nat /\ InFlight \in Nat
      /\ InFlight <= RngSz - 1 /\ cidx \in Ring
  BY AllFacts, RingFacts, RingAssumption DEF AInv, CbType, Ring
<1>5. /\ b[1] = 0 - credit /\ b[k + 1] = b[k] + cb[All[k]].desc_nr
      /\ b[Len(All) + 1] = InFlight /\ b[2] >= 0
      /\ \A m, l \in 1..(Len(All) + 1) : m <= l => b[m] <= b[l]
  BY <1>1, <1>3, <1>4 DEF Layout, Chain, Settled
<1>6. PICK lo \in Nat : lo = IF k = 1 THEN 0 ELSE b[k]
  <2>1. CASE k = 1
    BY <2>1
  <2>2. CASE k # 1
    <3>1. 2 \in 1..(Len(All) + 1) /\ k \in 1..(Len(All) + 1) /\ 2 <= k
      BY <1>4, <2>2
    <3>2. b[2] <= b[k] /\ b[k] \in Int /\ b[2] \in Int
      BY <1>5, <3>1
    <3> QED BY <1>5, <2>2, <3>2
  <2> QED BY <2>1, <2>2
<1>7. PICK hi \in Nat : hi = b[k + 1] /\ lo <= hi /\ hi <= RngSz
  <2>1. /\ k + 1 \in 1..(Len(All) + 1) /\ Len(All) + 1 \in 1..(Len(All) + 1) /\ k + 1 <= Len(All) + 1
        /\ k \in 1..(Len(All) + 1) /\ 2 \in 1..(Len(All) + 1) /\ 2 <= k + 1 /\ k <= k + 1
    BY <1>4
  <2>2. b[k + 1] <= b[Len(All) + 1] /\ b[2] <= b[k + 1] /\ b[k] <= b[k + 1] /\ b[k + 1] \in Int
        /\ b[2] \in Int /\ b[k] \in Int
    BY <1>5, <2>1
  <2> QED BY <1>4, <1>5, <1>6, <2>2, RingAssumption
<1> DEFINE S == {i \in 0..(RngSz - 1) : Pending(i) /\ desc[i] = All[k]}
<1>8. S \subseteq Ring
  BY DEF Ring
<1>9. \A i \in Ring : i \in S <=> (lo <= Dist(cidx, i) /\ Dist(cidx, i) < hi)
  <2>1. ASSUME NEW i \in Ring
        PROVE  i \in S <=> (lo <= Dist(cidx, i) /\ Dist(cidx, i) < hi)
    <3>1. i \in S <=> (Dist(cidx, i) < InFlight /\ desc[i] = All[k])
      BY DEF Pending, InFlight, Ring
    <3>2. (Dist(cidx, i) < InFlight /\ desc[i] = All[k]) <=> (b[k] <= Dist(cidx, i) /\ Dist(cidx, i) < b[k + 1])
      BY <1>2, <1>3, ShareIs
    <3>3. Dist(cidx, i) \in Nat
      <4>1. Dist(cidx, i) \in Ring
        BY <1>4, DistType
      <4> QED BY <4>1, RingAssumption DEF Ring
    <3>4. b[k] <= Dist(cidx, i) <=> lo <= Dist(cidx, i)
      BY <1>4, <1>5, <1>6, <3>3
    <3> QED BY <1>7, <3>1, <3>2, <3>4
  <2> QED BY <2>1
<1> HIDE DEF S
<1>10. Cardinality(S) = hi - lo
  BY <1>4, <1>7, <1>8, <1>9, PlacesCount
<1>11. hi - lo = cb[All[k]].desc_nr - (IF k = 1 THEN credit ELSE 0)
  <2>1. b[k] \in Int
    BY <1>4
  <2> QED BY <1>4, <1>5, <1>6, <1>7, <2>1
<1> QED BY <1>10, <1>11 DEF S

\* What the device is still to execute belongs to requests that are listed.
LEMMA NoDmaLeft ==
  ASSUME IInv, AInv, BInv
  PROVE  NoDmaAfterReturn
<1> SUFFICES ASSUME hw.on, NEW i \in Ring, Dist(hw.wb, i) < Dist(hw.wb, hw.db)
             PROVE  result[desc[i]] = "none"
  BY DEF NoDmaAfterReturn, Ring
<1>1. /\ cidx \in Ring /\ hw.wb \in Ring /\ Executed \in Nat /\ InFlight \in Nat
      /\ Dist(hw.wb, i) \in Nat /\ Dist(hw.wb, hw.db) \in Nat /\ InFlight <= RngSz - 1
      /\ Executed + Dist(hw.wb, hw.db) <= InFlight
  <2>1. ring_alloc
    BY DEF BInv, IdleInv
  <2>2. /\ cidx \in Ring /\ hw.wb \in Ring /\ Executed \in Ring /\ InFlight \in Ring
        /\ Dist(hw.wb, hw.db) \in Ring /\ Executed + Dist(hw.wb, hw.db) <= InFlight
    BY <2>1, RingFacts
  <2>3. Dist(hw.wb, i) \in Ring
    BY <2>2, DistType
  <2> QED BY <2>2, <2>3, RingAssumption DEF Ring
<1>2. q_state = "online"
  <2>1. InFlight # 0
    BY <1>1
  <2>2. pidx # cidx
    BY <2>1, RingFacts
  <2> QED BY <2>2 DEF BInv, IdleInv, IInv, TypeOK, QueueType
<1>3. PICK b \in [1..(Len(All) + 1) -> Int] : Layout(b)
  BY <1>2 DEF BInv, ShareInv
<1>4. Dist(cidx, hw.wb) + Dist(hw.wb, i) <= RngSz - 1
  BY <1>1, RingAssumption DEF Executed
<1>5. Dist(cidx, i) = Executed + Dist(hw.wb, i)
  BY <1>1, <1>4, DistAdd DEF Executed
<1>6. Dist(cidx, i) \in 0..(InFlight - 1)
  BY <1>1, <1>5
<1>7. Advance(cidx, Dist(cidx, i)) = i
  BY <1>1, PlaceIs
<1>8. \E k \in 1..Len(All) : desc[i] = All[k]
  BY <1>3, <1>6, <1>7 DEF Layout, Cover
<1> QED BY <1>8, AllFacts DEF AInv

\* Descriptors, debts and credits agree, a request ends well only when its own
\* descriptors were executed, and none of a request that ended is executed any
\* more (descq_mm_n_h2c_cmpl_status, qdma_sgt_req_done, qdma_queue_stop).
THEOREM OutcomesAreTrue ==
  ASSUME OnlyAsync, ~SlowDevice
  PROVE  Spec => []OutcomeIsTrue
<1>1. IInv /\ AInv /\ BInv => OutcomeIsTrue
  BY DebtsMatch, NoDmaLeft DEF BInv, DoneInv, NoEarlyCompletion, OutcomeIsTrue
<1> QED BY <1>1, DebtsInductive, PTL

-----------------------------------------------------------------------------
(* What callers see.                                                       *)

\* A request is submitted once, and its size is known until it ends; one on
\* pend_list was written in full.
NewInv == \A r \in Req : /\ pc[r] = "new" => cb[r].count = 0
                         /\ (pc[r] # "new" /\ result[r] = "none") => cb[r].count > 0
FullInv == \A k \in 1..Len(pend_list) : cb[pend_list[k]].offset = cb[pend_list[k]].count
OwnerInv == sec.owner \in Req => pc[sec.owner] # "new"
CInv == NewInv /\ FullInv /\ OwnerInv

\* Nothing is known of a call before the first.
LEMMA InitCInv == Init => CInv
BY ActorAssumption DEF Init, CInv, NewInv, FullInv, OwnerInv, NoCb, Free

\* Nothing of it is touched by most steps.
LEMMA CallsStay ==
  ASSUME CInv, UNCHANGED <<pc, result, pend_list>>,
         \A r \in Req : cb'[r].count = cb[r].count /\ cb'[r].offset = cb[r].offset,
         pend_list \in Seq(Req),
         sec'.owner \in Req => (sec'.owner = sec.owner \/ pc[sec'.owner] # "new")
  PROVE  CInv'
<1>1. \A k \in 1..Len(pend_list) : pend_list[k] \in Req
  OBVIOUS
<1> QED BY <1>1 DEF CInv, NewInv, FullInv, OwnerInv

\* The callers' steps keep what is known of calls.
LEMMA CallerCalls ==
  ASSUME OnlyAsync, IInv, AInv, CInv, NEW r \in Req, Caller(r)
  PROVE  CInv'
<1>0. pend_list \in Seq(Req) /\ \A k \in 1..Len(pend_list) : pend_list[k] \in Req
  BY DEF IInv, TypeOK, ListType
<1>1. ASSUME NEW n \in 1..MaxNeed, Submit(r, n) PROVE CInv'
  <2>1. /\ pc' = [pc EXCEPT ![r] = "queued"] /\ cb' = [cb EXCEPT ![r] = [NoCb EXCEPT !.count = n]]
        /\ UNCHANGED <<result, sec, pend_list>> /\ pc[r] = "new"
    BY <1>1 DEF Submit
  <2>2. /\ cb'[r].count = n /\ pc'[r] = "queued"
        /\ \A q \in Req : q # r => cb'[q] = cb[q] /\ pc'[q] = pc[q]
    BY <2>1 DEF IInv, TypeOK, ReqType, NoCb
  <2>3. \A k \in 1..Len(pend_list) : pend_list[k] # r
    BY <2>1 DEF AInv, ListInv
  <2>4. n > 0
    BY NeedAssumption
  <2> QED BY <1>0, <2>1, <2>2, <2>3, <2>4 DEF CInv, NewInv, FullInv, OwnerInv
<1>2. CASE Refuse(r)
  <2>1. /\ pc' = [pc EXCEPT ![r] = "out"] /\ result' = [result EXCEPT ![r] = "err"]
        /\ UNCHANGED <<cb, sec, pend_list>>
    BY <1>2 DEF Refuse
  <2>2. /\ result'[r] = "err" /\ pc'[r] = "out"
        /\ \A q \in Req : q # r => result'[q] = result[q] /\ pc'[q] = pc[q]
    BY <2>1 DEF IInv, TypeOK, ReqType
  <2> QED BY <2>1, <2>2 DEF CInv, NewInv, FullInv, OwnerInv
<1>3. CASE ProcRequest(r)
  <2>1. UNCHANGED <<cb, pc, result, pend_list>> /\ pc[r] = "queued" /\ sec'.owner = r
    BY <1>3 DEF ProcRequest, EnterProc, Enter
  <2> QED BY <1>0, <2>1, CallsStay
<1>4. ~Return(r) /\ ~TimeOut(r)
  BY TimedAssumption DEF Return, TimeOut, OnlyAsync, AInv, CallerInv
<1> QED BY <1>1, <1>2, <1>3, <1>4 DEF Caller

\* So do the steps that end a request.
LEMMA EndingCalls ==
  ASSUME IInv, AInv, CInv, NEW r \in Req,
         \/ pend_list # <<>> /\ r = pend_list[1] /\ pend_list' = Tail(pend_list)
         \/ UNCHANGED pend_list,
         NEW status \in {"ok", "err"},
         cb' = [cb EXCEPT ![r].done = TRUE, ![r].status = status],
         result' = [result EXCEPT ![r] = status], UNCHANGED pc, sec'.owner = sec.owner
  PROVE  CInv'
<1>1. /\ \A q \in Req : cb'[q].count = cb[q].count /\ cb'[q].offset = cb[q].offset
      /\ result'[r] = status /\ \A q \in Req : q # r => result'[q] = result[q]
  BY DEF IInv, TypeOK, ReqType, CbType
<1>2. /\ \A k \in 1..Len(pend_list) : pend_list[k] \in Req
      /\ \A k \in 1..Len(pend_list') : \E l \in 1..Len(pend_list) : pend_list'[k] = pend_list[l]
  <2>1. pend_list \in Seq(Req)
    BY DEF IInv, TypeOK, ListType
  <2>2. CASE pend_list # <<>> /\ pend_list' = Tail(pend_list)
    BY <2>1, <2>2, HeadIs
  <2>3. CASE UNCHANGED pend_list
    BY <2>1, <2>3
  <2> QED BY <2>1, <2>2, <2>3
<1>3. FullInv'
  <2> SUFFICES ASSUME NEW k \in 1..Len(pend_list')
               PROVE  cb'[pend_list'[k]].offset = cb'[pend_list'[k]].count
    BY DEF FullInv
  <2>1. PICK l \in 1..Len(pend_list) : pend_list'[k] = pend_list[l]
    BY <1>2
  <2>2. pend_list[l] \in Req /\ cb[pend_list[l]].offset = cb[pend_list[l]].count
    BY <1>2 DEF CInv, FullInv
  <2> QED BY <1>1, <2>1, <2>2
<1>4. NewInv' /\ OwnerInv'
  BY <1>1 DEF CInv, NewInv, OwnerInv
<1> QED BY <1>3, <1>4 DEF CInv

\* And the completion of the first request.
LEMMA DoneEnds ==
  ASSUME OnlyAsync, IInv, CmplDone
  PROVE  /\ pend_list # <<>> /\ pend_list[1] \in Req /\ pend_list' = Tail(pend_list)
         /\ UNCHANGED <<work_list, pc, sec, moved>>
         /\ \E status \in {"ok", "err"} :
              /\ status = IF cb[pend_list[1]].offset = cb[pend_list[1]].count THEN "ok" ELSE "err"
              /\ cb' = [cb EXCEPT ![pend_list[1]].done = TRUE, ![pend_list[1]].status = status]
              /\ result' = [result EXCEPT ![pend_list[1]] = status]
<1>1. pend_list # <<>> /\ Head(pend_list) = pend_list[1] /\ pend_list[1] \in Req
  BY HeadIs DEF CmplDone, IInv, TypeOK, ListType
<1> DEFINE status == IF cb[pend_list[1]].offset = cb[pend_list[1]].count THEN "ok" ELSE "err"
<1>2. Kind[pend_list[1]] # "sync"
  BY <1>1 DEF OnlyAsync
<1>3. status \in {"ok", "err"}
  OBVIOUS
<1>4. /\ cb' = [cb EXCEPT ![pend_list[1]].done = TRUE, ![pend_list[1]].status = status]
      /\ result' = [result EXCEPT ![pend_list[1]] = status]
      /\ pend_list' = Tail(pend_list) /\ UNCHANGED <<work_list, pc, sec, moved>>
  BY <1>1, <1>2 DEF CmplDone
<1> QED BY <1>1, <1>3, <1>4

\* A stop ends the first request listed.
LEMMA FlushEnds ==
  ASSUME OnlyAsync, IInv, AInv, FlushPend \/ FlushWork
  PROVE  \E r \in Req :
           /\ cb' = [cb EXCEPT ![r].done = TRUE, ![r].status = "err"]
           /\ result' = [result EXCEPT ![r] = "err"]
           /\ UNCHANGED <<pc, sec, moved>>
           /\ \/ /\ pend_list # <<>> /\ r = pend_list[1] /\ pend_list' = Tail(pend_list)
                 /\ UNCHANGED work_list
              \/ /\ pend_list = <<>> /\ work_list # <<>> /\ r = work_list[1]
                 /\ work_list' = Tail(work_list) /\ UNCHANGED pend_list
<1>0. pend_list \in Seq(Req) /\ work_list \in Seq(Req)
  BY DEF IInv, TypeOK, ListType
<1>1. sec.pos = 1
  BY DEF FlushPend, FlushWork, At, AInv, StopInv, Flushing
<1>2. CASE FlushPend
  <2>1. pend_list # <<>> /\ pend_list[1] \in Req
    BY <1>0, <1>1, <1>2 DEF FlushPend
  <2>2. Kind[pend_list[1]] = "async"
    BY <2>1 DEF OnlyAsync
  <2>3. /\ cb' = [cb EXCEPT ![pend_list[1]].done = TRUE, ![pend_list[1]].status = "err"]
        /\ result' = [result EXCEPT ![pend_list[1]] = "err"]
        /\ pend_list' = ListDel(pend_list, pend_list[1]) /\ UNCHANGED <<work_list, pc, sec, moved>>
    BY <1>1, <1>2, <2>2 DEF FlushPend, Abort, StaysListed
  <2>4. pend_list' = Tail(pend_list)
    BY <1>0, <2>1, <2>3, ListDelHead
  <2> QED BY <2>1, <2>3, <2>4
<1>3. CASE FlushWork
  <2>1. work_list # <<>> /\ work_list[1] \in Req /\ pend_list = <<>>
    BY <1>0, <1>1, <1>3 DEF FlushWork, At, AInv, StopInv
  <2>2. Kind[work_list[1]] = "async"
    BY <2>1 DEF OnlyAsync
  <2>3. /\ cb' = [cb EXCEPT ![work_list[1]].done = TRUE, ![work_list[1]].status = "err"]
        /\ result' = [result EXCEPT ![work_list[1]] = "err"]
        /\ work_list' = ListDel(work_list, work_list[1]) /\ UNCHANGED <<pend_list, pc, sec, moved>>
    BY <1>1, <1>3, <2>2 DEF FlushWork, Abort, StaysListed
  <2>4. work_list' = Tail(work_list)
    BY <1>0, <2>1, <2>3, ListDelHead
  <2> QED BY <2>1, <2>3, <2>4
<1> QED BY <1>2, <1>3

\* A request that moves to pend_list was written in full.
LEMMA WriteFacts ==
  ASSUME IInv, AInv, WriteDescs, work_list # <<>>
  PROVE  /\ UNCHANGED <<pc, result, moved>> /\ sec'.owner = sec.owner
         /\ pend_list' \o work_list' = pend_list \o work_list
         /\ \A q \in Req : /\ cb'[q].count = cb[q].count /\ cb'[q].done = cb[q].done
                           /\ cb'[q].status = cb[q].status
                           /\ q # work_list[1] => cb'[q] = cb[q]
         /\ \/ UNCHANGED pend_list
            \/ /\ pend_list' = Append(pend_list, work_list[1])
               /\ cb'[work_list[1]].offset = cb'[work_list[1]].count
<1> DEFINE r == Head(work_list)
           left == cb[r].count - cb[r].offset
           x == IF avail < left THEN avail ELSE left
<1>1. r \in Req /\ r = work_list[1] /\ pend_list \in Seq(Req) /\ work_list \in Seq(Req)
  BY HeadIs DEF IInv, TypeOK, ListType
<1>2. /\ UNCHANGED <<pc, result, moved>> /\ sec' = [sec EXCEPT !.at = "fill", !.written = @ + x]
      /\ cb' = [cb EXCEPT ![r] = Written(cb[r], x)]
      /\ \/ UNCHANGED <<pend_list, work_list>>
         \/ /\ x = left /\ pend_list' = Append(pend_list, r) /\ work_list' = Tail(work_list)
  BY DEF WriteDescs, Enqueue
<1>3. pend_list' \o work_list' = pend_list \o work_list
  BY <1>1, <1>2, AllKeeps
<1>4. sec'.owner = sec.owner
  BY <1>2 DEF IInv, TypeOK, SecType
<1>5. cb[r] \in CbType /\ left \in Int
  <2>1. cb[r] \in CbType
    BY <1>1 DEF IInv, TypeOK, ReqType
  <2>2. cb[r].count \in 0..MaxNeed /\ cb[r].offset \in 0..MaxNeed
    BY <2>1 DEF CbType
  <2> QED BY <2>1, <2>2, NeedAssumption
<1> HIDE DEF x
<1>6. \A q \in Req : /\ cb'[q].count = cb[q].count /\ cb'[q].done = cb[q].done
                     /\ cb'[q].status = cb[q].status
                     /\ q # r => cb'[q] = cb[q]
  BY <1>1, <1>2 DEF IInv, TypeOK, ReqType, CbType, Written
<1>7. x = left => cb'[r].offset = cb'[r].count
  <2>1. cb'[r].offset = cb[r].offset + x /\ cb'[r].count = cb[r].count
    BY <1>1, <1>2, <1>5 DEF IInv, TypeOK, ReqType, CbType, Written
  <2>2. cb[r].count \in 0..MaxNeed /\ cb[r].offset \in 0..MaxNeed
    BY <1>5 DEF CbType
  <2> QED BY <2>1, <2>2, NeedAssumption
<1> QED BY <1>1, <1>2, <1>3, <1>4, <1>6, <1>7

\* So does writing descriptors.
LEMMA WriteCalls ==
  ASSUME IInv, AInv, CInv, WriteDescs, work_list # <<>>
  PROVE  CInv'
<1> DEFINE r == work_list[1]
<1>1. /\ pend_list \in Seq(Req) /\ r \in Req
      /\ \A k \in 1..Len(pend_list) : pend_list[k] \in Req /\ pend_list[k] # r
  <2>1. 1 \in 1..Len(work_list) /\ pend_list \in Seq(Req) /\ work_list \in Seq(Req)
    BY HeadIs DEF IInv, TypeOK, ListType
  <2> QED BY <2>1 DEF AInv, ListInv
<1>2. /\ UNCHANGED <<pc, result>> /\ sec'.owner = sec.owner
      /\ \A q \in Req : cb'[q].count = cb[q].count /\ (q # r => cb'[q] = cb[q])
      /\ \/ UNCHANGED pend_list
         \/ pend_list' = Append(pend_list, r) /\ cb'[r].offset = cb'[r].count
  BY WriteFacts
<1> HIDE DEF r
<1>3. \A k \in 1..Len(pend_list) : cb'[pend_list[k]].offset = cb'[pend_list[k]].count
  BY <1>1, <1>2 DEF CInv, FullInv
<1>4. FullInv'
  <2>1. CASE UNCHANGED pend_list
    BY <1>3, <2>1 DEF FullInv
  <2>2. CASE pend_list' = Append(pend_list, r) /\ cb'[r].offset = cb'[r].count
    <3>1. \A k \in 1..Len(pend_list') : pend_list'[k] = r \/ (k \in 1..Len(pend_list) /\ pend_list'[k] = pend_list[k])
      BY <1>1, <2>2, AppendProperties
    <3> QED BY <1>3, <2>2, <3>1 DEF FullInv
  <2> QED BY <1>2, <2>1, <2>2
<1>5. NewInv' /\ OwnerInv'
  BY <1>2 DEF CInv, NewInv, OwnerInv
<1> QED BY <1>4, <1>5 DEF CInv

\* A step ends a request, writes descriptors, is a caller's, or changes nothing
\* that callers see.
LEMMA StepKinds ==
  ASSUME OnlyAsync, IInv, AInv, [Next]_vars
  PROVE  \/ \E r \in Req : Caller(r)
         \/ CmplDone
         \/ FlushPend \/ FlushWork
         \/ WriteDescs /\ work_list # <<>>
         \/ Exit
         \/ HwStep
         \/ /\ UNCHANGED <<pc, result, pend_list, work_list, moved>>
            /\ \A q \in Req : /\ cb'[q].count = cb[q].count /\ cb'[q].offset = cb[q].offset
                              /\ cb'[q].done = cb[q].done /\ cb'[q].status = cb[q].status
            /\ sec'.owner \in Req => sec'.owner = sec.owner
<1> DEFINE Quiet == /\ UNCHANGED <<pc, result, pend_list, work_list, moved>>
                    /\ \A q \in Req : /\ cb'[q].count = cb[q].count /\ cb'[q].offset = cb[q].offset
                                      /\ cb'[q].done = cb[q].done /\ cb'[q].status = cb[q].status
                    /\ sec'.owner \in Req => sec'.owner = sec.owner
<1>0. sec \in [owner : Actors \cup {NoOne},
               at : {"free", "cmpl", "credit", "fill", "refill", "doorbell", "exit",
                     "service", "flushpend", "flushwork"},
               ret : {"fill", "refill", "exit", "service"}, written : Nat, pos : Nat \ {0}]
  BY DEF IInv, TypeOK, SecType
<1>1. ASSUME CmplPart PROVE Quiet
  <2>1. /\ UNCHANGED <<pc, result, pend_list, work_list, moved, sec>> /\ Head(pend_list) \in Req
        /\ cb' = [cb EXCEPT ![Head(pend_list)] = Credited(cb[Head(pend_list)], credit)]
    BY <1>1, HeadIs DEF CmplPart, IInv, TypeOK, ListType
  <2> QED BY <2>1 DEF IInv, TypeOK, ReqType, CbType, Credited
<1>2. ASSUME CmplNothing \/ CmplCredits \/ CmplRearm \/ FillPoll \/ FillEnd \/ Doorbell
             \/ ServiceEnd \/ FlushNext \/ FlushEnd
      PROVE  Quiet
  <2>1. UNCHANGED <<pc, result, pend_list, work_list, moved, cb>>
    BY <1>2 DEF CmplNothing, CmplCredits, CmplRearm, FillPoll, FillEnd, Doorbell, ServiceEnd,
                FlushNext, FlushEnd
  <2>2. sec'.owner \in Req => sec'.owner = sec.owner
    <3>1. CASE ServiceEnd \/ FlushEnd
      BY <3>1, ActorAssumption DEF ServiceEnd, FlushEnd, Free
    <3>2. CASE CmplNothing \/ CmplCredits \/ CmplRearm \/ FillPoll \/ FillEnd \/ Doorbell \/ FlushNext
      BY <1>0, <3>2 DEF CmplNothing, CmplCredits, CmplRearm, FillPoll, FillEnd, Doorbell, FlushNext,
                   Goto, Call
    <3> QED BY <1>2, <3>1, <3>2
  <2> QED BY <2>1, <2>2
<1>3. ASSUME Thread \/ Work PROVE Quiet
  <2>1. UNCHANGED <<pc, result, pend_list, work_list, moved, cb>>
    BY <1>3 DEF Thread, ThreadCheck, ThreadWake, ThreadRun, Work, Service, ServiceProc
  <2>2. sec'.owner \in {sec.owner, Poller, Worker}
    BY <1>3 DEF Thread, ThreadCheck, ThreadWake, ThreadRun, Work, Service, ServiceProc,
                EnterProc, Enter
  <2> QED BY <2>1, <2>2, ActorAssumption
<1>4. ASSUME Start \/ StopBegin \/ Stop \/ UNCHANGED vars PROVE Quiet
  <2>1. UNCHANGED <<pc, result, pend_list, work_list, moved, cb>>
    BY <1>4 DEF Start, StartCheck, StartConfig, StartProgram, StartAttach, StartOnline, StopBegin,
                Stop, StopWaited, StopFlush, StopDetach, StopClear, StopRelease, vars
  <2>2. sec'.owner \in {sec.owner, Ctl}
    BY <1>4 DEF Start, StartCheck, StartConfig, StartProgram, StartAttach, StartOnline, StopBegin,
                Stop, StopWaited, StopFlush, StopDetach, StopClear, StopRelease, vars, Enter
  <2> QED BY <2>1, <2>2, ActorAssumption
<1>5. ASSUME Fill \/ Refill PROVE WriteDescs /\ work_list # <<>>
  BY <1>5 DEF Fill, Refill, At, IInv, SecInv
<1>6. ASSUME NEW s \in Batches, NEW n \in 1..MaxNeed, BatchSubmit(s, n) PROVE FALSE
  <2>1. 1 \in 1..Len(s) /\ s[1] \in Req
    BY DEF Batches
  <2> QED BY <1>6, <2>1 DEF BatchSubmit, OnlyAsync
<1> HIDE DEF Quiet
<1>7. \/ \E r \in Req : Caller(r)
      \/ CmplDone \/ FlushPend \/ FlushWork
      \/ WriteDescs /\ work_list # <<>>
      \/ Exit \/ HwStep \/ Quiet
  BY <1>1, <1>2, <1>3, <1>4, <1>5, <1>6 DEF Next, Section
<1> QED BY <1>7 DEF Quiet

\* So does every step.
LEMMA NextCInv ==
  ASSUME OnlyAsync, IInv, AInv, CInv, [Next]_vars
  PROVE  CInv'
<1>0. pend_list \in Seq(Req)
  BY DEF IInv, TypeOK, ListType
<1>1. CASE CmplDone
  BY <1>1, DoneEnds, EndingCalls
<1>2. CASE FlushPend \/ FlushWork
  BY <1>2, FlushEnds, EndingCalls
<1>3. CASE Exit
  <2>1. /\ UNCHANGED <<cb, result, pend_list>> /\ sec'.owner = NoOne
        /\ \A r \in Req : pc'[r] = pc[r] \/ (r = sec.owner /\ pc'[r] # "new")
    BY <1>3 DEF Exit, Free, IInv, TypeOK, ReqType
  <2>2. sec.owner \in Req => pc[sec.owner] # "new"
    BY DEF CInv, OwnerInv
  <2>3. \A r \in Req : pc'[r] = "new" <=> pc[r] = "new"
    BY <2>1, <2>2
  <2> QED BY <2>1, <2>3, ActorAssumption DEF CInv, NewInv, FullInv, OwnerInv
<1>4. CASE HwStep
  BY <1>0, <1>4, CallsStay DEF HwStep
<1>5. CASE /\ UNCHANGED <<pc, result, pend_list, work_list, moved>>
           /\ \A q \in Req : /\ cb'[q].count = cb[q].count /\ cb'[q].offset = cb[q].offset
                             /\ cb'[q].done = cb[q].done /\ cb'[q].status = cb[q].status
           /\ sec'.owner \in Req => sec'.owner = sec.owner
  BY <1>0, <1>5, CallsStay
<1>6. CASE \E r \in Req : Caller(r)
  BY <1>6, CallerCalls
<1>7. CASE WriteDescs /\ work_list # <<>>
  BY <1>7, WriteCalls
<1> QED BY <1>1, <1>2, <1>3, <1>4, <1>5, <1>6, <1>7, StepKinds

\* All four parts of the invariant hold in every reachable state.
LEMMA CallsInductive ==
  ASSUME OnlyAsync, ~SlowDevice
  PROVE  Spec => [](IInv /\ AInv /\ BInv /\ CInv)
<1>1. Init => CInv
  BY InitCInv
<1>2. IInv /\ AInv /\ CInv /\ [Next]_vars => CInv'
  BY NextCInv
<1> QED BY <1>1, <1>2, DebtsInductive, PTL DEF Spec

-----------------------------------------------------------------------------
(* The queue implements the request service.                               *)

\* Nothing that is listed has ended.
ActiveInv == Active(pend_list \o work_list) = All

\* The abstract queue is the two lists.
LEMMA NothingEnded == IInv /\ AInv /\ BInv => ActiveInv
<1> SUFFICES ASSUME IInv, AInv, BInv PROVE ActiveInv
  OBVIOUS
<1>1. \A k \in 1..Len(All) : All[k] \in Req /\ result[All[k]] = "none"
  BY AllFacts DEF AInv
<1>2. \A k \in 1..Len(All) : ~Ended(All[k])
  BY <1>1 DEF Ended, BInv, DoneInv
<1> QED BY <1>2 DEF ActiveInv, Active, All

\* What is done to the lists together.
LEMMA ConcatAppend ==
  ASSUME NEW p \in Seq(Req), NEW w \in Seq(Req), NEW r \in Req
  PROVE  p \o Append(w, r) = (p \o w) \o <<r>>
<1> DEFINE s == p \o w
           t == p \o Append(w, r)
           v == <<r>>
           u == s \o v
<1>1. /\ t \in Seq(Req) /\ Len(s) \in Nat /\ Len(t) = Len(s) + 1 /\ t[Len(s) + 1] = r
      /\ \A k \in 1..Len(s) : t[k] = s[k]
  BY AllGrows
<1>2. s \in Seq(Req) /\ v \in Seq(Req) /\ Len(v) = 1 /\ v[1] = r
  BY ConcatIs
<1> HIDE DEF s, t, v
<1>3. /\ u \in Seq(Req) /\ Len(u) = Len(s) + 1
      /\ \A k \in 1..Len(u) : u[k] = IF k <= Len(s) THEN s[k] ELSE v[k - Len(s)]
  <2>1. /\ u \in Seq(Req) /\ Len(u) = Len(s) + Len(v)
        /\ \A k \in 1..Len(u) : u[k] = IF k <= Len(s) THEN s[k] ELSE v[k - Len(s)]
    BY <1>2, ConcatIs
  <2> HIDE DEF u
  <2> QED BY <1>2, <2>1
<1> HIDE DEF u
<1>4. ASSUME NEW k \in 1..Len(t) PROVE t[k] = u[k]
  <2>1. CASE k \in 1..Len(s)
    BY <1>1, <1>3, <2>1
  <2>2. CASE k = Len(s) + 1
    <3>1. k \in 1..Len(u) /\ ~(k <= Len(s)) /\ k - Len(s) = 1
      BY <1>1, <1>3, <2>2
    <3> QED BY <1>1, <1>2, <1>3, <2>2, <3>1
  <2> QED BY <1>1, <2>1, <2>2
<1>5. t = u
  BY <1>1, <1>3, <1>4, SeqEqual
<1> QED BY <1>5 DEF s, t, u, v

\* The first of both lists is the first of pend_list.
LEMMA ConcatTail ==
  ASSUME NEW p \in Seq(Req), NEW w \in Seq(Req), p # <<>>
  PROVE  /\ p \o w \in Seq(Req) /\ p \o w # <<>> /\ Head(p \o w) = p[1]
         /\ Tail(p) \o w = Tail(p \o w)
<1> DEFINE s == p \o w
           t == Tail(p) \o w
<1>1. /\ t \in Seq(Req) /\ Len(s) \in Nat /\ Len(t) = Len(s) - 1 /\ Len(s) >= 1
      /\ s[1] = Head(p) /\ \A k \in 1..Len(t) : t[k] = s[k + 1]
  BY AllShrinks
<1>2. s \in Seq(Req) /\ Head(p) = p[1]
  BY ConcatIs, HeadIs
<1> HIDE DEF s, t
<1>3. s # <<>>
  BY <1>1
<1>4. /\ Head(s) = s[1] /\ Tail(s) \in Seq(Req) /\ Len(Tail(s)) = Len(s) - 1
      /\ \A k \in 1..Len(Tail(s)) : Tail(s)[k] = s[k + 1]
  BY <1>2, <1>3, HeadIs
<1>5. t = Tail(s)
  <2> DEFINE v == Tail(s)
  <2>1. v \in Seq(Req) /\ Len(v) = Len(t) /\ \A k \in 1..Len(t) : t[k] = v[k]
    BY <1>1, <1>4
  <2> HIDE DEF v
  <2>2. t = v
    BY <1>1, <2>1, SeqEqual
  <2> QED BY <2>2 DEF v
<1> QED BY <1>1, <1>2, <1>3, <1>4, <1>5 DEF s, t

\* The first request leaves.
LEMMA FirstOut ==
  ASSUME NEW s \in Seq(Req), s # <<>>
  PROVE  Abs!Without(s, 1) = Tail(s) /\ 1 \in 1..Len(s) /\ s[1] = Head(s) /\ s[1] \in Req
<1> DEFINE t == [j \in 1..(Len(s) - 1) |-> IF j < 1 THEN s[j] ELSE s[j + 1]]
           v == Tail(s)
<1>1. /\ Head(s) = s[1] /\ Len(s) \in Nat /\ 1 \in 1..Len(s) /\ s[1] \in Req
      /\ v \in Seq(Req) /\ Len(v) = Len(s) - 1
      /\ \A i \in 1..Len(v) : v[i] = s[i + 1]
  BY HeadIs
<1>2. \A j \in 1..(Len(s) - 1) : t[j] = s[j + 1] /\ s[j + 1] \in Req
  BY <1>1
<1>3. t \in Seq(Req) /\ Len(t) = Len(s) - 1
  <2>1. Len(s) - 1 \in Nat
    BY <1>1
  <2>2. t \in [1..(Len(s) - 1) -> Req]
    BY <1>2
  <2> QED BY <2>1, <2>2
<1>4. \A j \in 1..Len(t) : t[j] = v[j]
  BY <1>1, <1>2, <1>3
<1> HIDE DEF v, t
<1>5. t = v
  BY <1>1, <1>3, <1>4, SeqEqual
<1> QED BY <1>1, <1>5 DEF t, v, Abs!Without

\* What callers see, by request.
Left == [r \in Req |-> cb[r].count - moved[r]]
Same(q) == phase'[q] = phase[q] /\ Left'[q] = Left[q]

\* The steps of the request service in terms of the lists: a request is accepted.
LEMMA ServeAccept ==
  ASSUME ActiveInv, ActiveInv', NEW r \in Req, NEW n \in 1..MaxNeed,
         phase[r] = "new", phase'[r] = "active", Left'[r] = n,
         \A q \in Req : q # r => Same(q), All' = All \o <<r>>
  PROVE  Abs!Next
<1>1. phase' = [q \in Req |-> IF Abs!In(<<r>>, q) THEN "active" ELSE phase[q]]
  <2>1. \A q \in Req : Abs!In(<<r>>, q) <=> q = r
    BY DEF Abs!In
  <2> QED BY <2>1 DEF Same, phase
<1>2. Left' = [q \in Req |-> IF Abs!In(<<r>>, q) THEN n ELSE Left[q]]
  <2>1. \A q \in Req : Abs!In(<<r>>, q) <=> q = r
    BY DEF Abs!In
  <2> QED BY <2>1 DEF Same, Left
<1>3. \A i \in 1..Len(<<r>>) : phase[<<r>>[i]] = "new"
  OBVIOUS
<1>4. Abs!Accept(<<r>>, n)
  BY <1>1, <1>2, <1>3 DEF Abs!Accept, Left, ActiveInv
<1> QED BY <1>4 DEF Abs!Next

\* One is refused.
LEMMA ServeRefuse ==
  ASSUME ActiveInv, ActiveInv', NEW r \in Req,
         phase[r] = "new", phase'[r] = "failed", Left'[r] = Left[r],
         \A q \in Req : q # r => Same(q), All' = All
  PROVE  Abs!Next
<1>1. phase' = [phase EXCEPT ![r] = "failed"] /\ Left' = Left
  BY DEF Same, phase, Left
<1>2. Abs!Refuse(r)
  BY <1>1 DEF Abs!Refuse, Left, ActiveInv
<1> QED BY <1>2 DEF Abs!Next

\* The oldest ends, well once all of it was executed.
LEMMA ServeEnd ==
  ASSUME ActiveInv, ActiveInv', All \in Seq(Req), All # <<>>, All' = Tail(All), Left' = Left,
         \/ Left[All[1]] = 0 /\ phase' = [phase EXCEPT ![All[1]] = "ok"]
         \/ phase' = [phase EXCEPT ![All[1]] = "failed"]
  PROVE  Abs!Next
<1>1. Abs!Without(All, 1) = Tail(All) /\ 1 \in 1..Len(All) /\ All[1] = Head(All)
  BY FirstOut
<1>2. CASE Left[All[1]] = 0 /\ phase' = [phase EXCEPT ![All[1]] = "ok"]
  <2>1. Abs!Finish
    BY <1>1, <1>2 DEF Abs!Finish, Left, ActiveInv
  <2> QED BY <2>1 DEF Abs!Next
<1>3. CASE phase' = [phase EXCEPT ![All[1]] = "failed"]
  <2>1. Abs!Abort(1)
    BY <1>1, <1>3 DEF Abs!Abort, Left, ActiveInv
  <2> QED BY <1>1, <2>1 DEF Abs!Next, ActiveInv
<1> QED BY <1>2, <1>3

\* A descriptor of the oldest that has one left is executed.
LEMMA ServeTransfer ==
  ASSUME ActiveInv, ActiveInv', NEW k \in 1..Len(All), All' = All, phase' = phase,
         Left[All[k]] > 0, \A j \in 1..(k - 1) : Left[All[j]] = 0,
         Left' = [Left EXCEPT ![All[k]] = @ - 1]
  PROVE  Abs!Next
<1>1. Abs!Transfer
  BY DEF Abs!Transfer, Left, ActiveInv
<1> QED BY <1>1 DEF Abs!Next

\* Nothing happens.
LEMMA ServeNothing ==
  ASSUME ActiveInv, ActiveInv', All' = All, \A q \in Req : Same(q)
  PROVE  UNCHANGED Abs!vars
<1>1. phase' = phase /\ Left' = Left
  BY DEF Same, phase, Left
<1> QED BY <1>1 DEF Abs!vars, Left, ActiveInv

\* A submitted request is accepted, or refused by a queue that is not online.
LEMMA CallerServes ==
  ASSUME OnlyAsync, IInv, AInv, BInv, CInv, ActiveInv, ActiveInv', NEW r \in Req, Caller(r)
  PROVE  Abs!Next \/ UNCHANGED Abs!vars
<1>0. work_list \in Seq(Req) /\ pend_list \in Seq(Req)
  BY DEF IInv, TypeOK, ListType
<1>1. pc[r] = "new" => /\ cb[r].count = 0 /\ ~cb[r].done /\ result[r] = "none" /\ moved[r] = 0
                       /\ phase[r] = "new"
  BY DEF CInv, NewInv, AInv, CallerInv, BInv, DoneInv, phase
<1>2. ASSUME NEW n \in 1..MaxNeed, Submit(r, n) PROVE Abs!Next
  <2>1. /\ pc[r] = "new" /\ work_list' = Append(work_list, r)
        /\ cb' = [cb EXCEPT ![r] = [NoCb EXCEPT !.count = n]]
        /\ UNCHANGED <<pend_list, result, moved>>
    BY <1>2 DEF Submit, Enqueue
  <2>2. /\ cb'[r].count = n /\ ~cb'[r].done /\ \A q \in Req : q # r => cb'[q] = cb[q]
    BY <2>1 DEF IInv, TypeOK, ReqType, NoCb
  <2>3. All' = All \o <<r>>
    BY <1>0, <2>1, ConcatAppend DEF All
  <2>4. n > 0 /\ n - 0 = n
    BY NeedAssumption
  <2>5. phase'[r] = "active" /\ Left'[r] = n
    BY <1>1, <2>1, <2>2, <2>4 DEF phase, Left
  <2>6. \A q \in Req : q # r => Same(q)
    BY <2>1, <2>2 DEF Same, phase, Left
  <2> QED BY <1>1, <2>1, <2>3, <2>5, <2>6, ServeAccept
<1>3. CASE Refuse(r)
  <2>1. pc[r] = "new" /\ result' = [result EXCEPT ![r] = "err"]
        /\ UNCHANGED <<work_list, pend_list, cb, moved>>
    BY <1>3 DEF Refuse
  <2>2. result'[r] = "err" /\ \A q \in Req : q # r => result'[q] = result[q]
    BY <2>1 DEF IInv, TypeOK, ReqType
  <2>3. phase'[r] = "failed" /\ Left'[r] = Left[r]
    BY <1>1, <2>1, <2>2 DEF phase, Left
  <2>4. \A q \in Req : q # r => Same(q)
    BY <2>1, <2>2 DEF Same, phase, Left
  <2>5. All' = All
    BY <2>1 DEF All
  <2> QED BY <1>1, <2>1, <2>3, <2>4, <2>5, ServeRefuse
<1>4. CASE ProcRequest(r)
  <2>1. UNCHANGED <<work_list, pend_list, cb, result, moved>>
    BY <1>4 DEF ProcRequest
  <2>2. \A q \in Req : Same(q)
    BY <2>1 DEF Same, phase, Left
  <2>3. All' = All
    BY <2>1 DEF All
  <2> QED BY <2>2, <2>3, ServeNothing
<1>5. ~Return(r) /\ ~TimeOut(r)
  BY TimedAssumption DEF Return, TimeOut, OnlyAsync, AInv, CallerInv
<1> QED BY <1>2, <1>3, <1>4, <1>5 DEF Caller

\* A request that leaves the front of the lists ends.
LEMMA EndServes ==
  ASSUME IInv, ActiveInv, ActiveInv', NEW r \in Req, NEW status \in {"ok", "err"},
         cb' = [cb EXCEPT ![r].done = TRUE, ![r].status = status],
         result' = [result EXCEPT ![r] = status], UNCHANGED moved,
         status = "ok" => Left[r] = 0,
         All \in Seq(Req), All # <<>>, r = All[1], All' = Tail(All)
  PROVE  Abs!Next
<1>1. /\ cb'[r].done /\ cb'[r].status = status
      /\ \A q \in Req : cb'[q].count = cb[q].count
      /\ \A q \in Req : q # r => cb'[q] = cb[q] /\ result'[q] = result[q]
  BY DEF IInv, TypeOK, ReqType, CbType
<1>2. Left' = Left
  <2>1. \A q \in Req : cb'[q].count - moved'[q] = cb[q].count - moved[q]
    BY <1>1
  <2> QED BY <2>1 DEF Left
<1>3. phase' = [phase EXCEPT ![r] = IF status = "ok" THEN "ok" ELSE "failed"]
  <2>1. phase'[r] = IF status = "ok" THEN "ok" ELSE "failed"
    BY <1>1 DEF phase
  <2>2. \A q \in Req : q # r => phase'[q] = phase[q]
    BY <1>1 DEF phase
  <2>3. phase = [q \in Req |-> phase[q]] /\ phase' = [q \in Req |-> phase'[q]]
    BY DEF phase
  <2> QED BY <2>1, <2>2, <2>3
<1> QED BY <1>2, <1>3, ServeEnd

\* A completion ends the oldest request; it is well only when it was executed.
LEMMA DoneServes ==
  ASSUME OnlyAsync, IInv, AInv, BInv, CInv, DoneInv', ActiveInv, ActiveInv', CmplDone
  PROVE  Abs!Next
<1> DEFINE r == pend_list[1]
<1>1. work_list \in Seq(Req) /\ pend_list \in Seq(Req)
  BY DEF IInv, TypeOK, ListType
<1>2. pend_list # <<>> /\ r \in Req /\ pend_list' = Tail(pend_list) /\ UNCHANGED <<work_list, moved>>
  BY DoneEnds
<1>3. PICK status \in {"ok", "err"} :
        /\ cb' = [cb EXCEPT ![r].done = TRUE, ![r].status = status]
        /\ result' = [result EXCEPT ![r] = status]
  BY DoneEnds
<1> HIDE DEF r
<1>4. All \in Seq(Req) /\ All # <<>> /\ r = All[1] /\ All' = Tail(All)
  <2>1. All \in Seq(Req) /\ All # <<>> /\ Head(All) = r /\ All' = Tail(All)
    BY <1>1, <1>2, ConcatTail DEF All, r
  <2> QED BY <2>1, HeadIs
<1>5. status = "ok" => Left[r] = 0
  <2> SUFFICES ASSUME status = "ok" PROVE Left[r] = 0
    OBVIOUS
  <2>1. cb'[r].done /\ cb'[r].status = "ok" /\ cb'[r].count = cb[r].count
    BY <1>2, <1>3 DEF IInv, TypeOK, ReqType, CbType
  <2>2. moved'[r] = cb'[r].count
    BY <1>2, <2>1 DEF DoneInv
  <2>3. moved[r] = cb[r].count /\ moved[r] \in Nat
    BY <1>2, <2>1, <2>2 DEF IInv, TypeOK, HwType
  <2> QED BY <1>2, <2>3 DEF Left
<1> QED BY <1>2, <1>3, <1>4, <1>5, EndServes

\* A stop ends the oldest request badly.
LEMMA FlushServes ==
  ASSUME OnlyAsync, IInv, AInv, ActiveInv, ActiveInv', FlushPend \/ FlushWork
  PROVE  Abs!Next
<1>1. work_list \in Seq(Req) /\ pend_list \in Seq(Req)
  BY DEF IInv, TypeOK, ListType
<1>2. PICK r \in Req :
        /\ cb' = [cb EXCEPT ![r].done = TRUE, ![r].status = "err"]
        /\ result' = [result EXCEPT ![r] = "err"]
        /\ UNCHANGED <<pc, sec, moved>>
        /\ \/ /\ pend_list # <<>> /\ r = pend_list[1] /\ pend_list' = Tail(pend_list)
              /\ UNCHANGED work_list
           \/ /\ pend_list = <<>> /\ work_list # <<>> /\ r = work_list[1]
              /\ work_list' = Tail(work_list) /\ UNCHANGED pend_list
  BY FlushEnds
<1>3. All \in Seq(Req) /\ All # <<>> /\ r = All[1] /\ All' = Tail(All)
  <2>1. CASE /\ pend_list # <<>> /\ r = pend_list[1] /\ pend_list' = Tail(pend_list)
             /\ UNCHANGED work_list
    <3>1. All \in Seq(Req) /\ All # <<>> /\ Head(All) = r /\ All' = Tail(All)
      BY <1>1, <2>1, ConcatTail DEF All
    <3> QED BY <3>1, HeadIs
  <2>2. CASE /\ pend_list = <<>> /\ work_list # <<>> /\ r = work_list[1]
             /\ work_list' = Tail(work_list) /\ UNCHANGED pend_list
    <3>1. All = work_list /\ All' = work_list'
      BY <1>1, <2>2 DEF All
    <3> QED BY <1>1, <2>2, <3>1
  <2> QED BY <1>2, <2>1, <2>2
<1> QED BY <1>2, <1>3, EndServes

\* The device executes a descriptor of the first request that has one left.
LEMMA DeviceServes ==
  ASSUME IInv, AInv, BInv, CInv, ActiveInv, ActiveInv', HwStep
  PROVE  Abs!Next
<1> DEFINE w == Executed
           d == desc[hw.wb]
<1>1. /\ d \in Req /\ moved' = [moved EXCEPT ![d] = @ + 1]
      /\ UNCHANGED <<work_list, pend_list, cb, result>>
  BY DEF HwStep
<1>2. q_state = "online" /\ w \in Nat
  BY NextEntry
<1>3. PICK b \in [1..(Len(All) + 1) -> Int] : Layout(b)
  BY <1>2 DEF BInv, ShareInv
<1>4. PICK k \in 1..Len(All) : d = All[k] /\ b[k] <= w /\ w < b[k + 1]
  BY <1>3, NextEntry
<1> HIDE DEF d, w
<1>5. /\ Len(All) \in Nat /\ Len(pend_list) \in Nat
      /\ Len(pend_list) <= Len(All)
      /\ \A j \in 1..Len(pend_list) : All[j] = pend_list[j]
      /\ \A j \in 1..Len(All) : All[j] \in Req /\ cb[All[j]] \in CbType
  <2>1. Len(work_list) \in Nat /\ Len(pend_list) \in Nat /\ Len(All) = Len(pend_list) + Len(work_list)
    BY AllFacts DEF AInv
  <2> QED BY <2>1, AllFacts DEF AInv
<1>6. ASSUME NEW j \in 1..Len(All)
      PROVE  /\ b[j] \in Int /\ b[j + 1] \in Int /\ b[j] <= b[j + 1]
             /\ cb[All[j]].offset \in Int /\ cb[All[j]].count \in Int
             /\ cb[All[j]].offset <= cb[All[j]].count
             /\ Left[All[j]] = (cb[All[j]].count - cb[All[j]].offset) + Rest(b[j], b[j + 1], w)
  <2>1. j \in 1..(Len(All) + 1) /\ j + 1 \in 1..(Len(All) + 1) /\ j <= j + 1
    BY <1>5
  <2>2. b[j] \in Int /\ b[j + 1] \in Int
    BY <1>3, <2>1
  <2>3. b[j] <= b[j + 1]
    BY <1>3, <2>1 DEF Layout, Chain
  <2>4. cb[All[j]].offset \in 0..MaxNeed /\ cb[All[j]].count \in 0..MaxNeed /\ All[j] \in Req
    BY <1>5 DEF CbType
  <2>5. cb[All[j]].offset \in Int /\ cb[All[j]].count \in Int
    BY <2>4, NeedAssumption
  <2>6. cb[All[j]].offset <= cb[All[j]].count
    BY <2>4 DEF IInv, TypeOK, ReqType
  <2>7. moved[All[j]] = cb[All[j]].offset - Rest(b[j], b[j + 1], w)
    BY <1>3 DEF Layout, Progress, w
  <2>8. Rest(b[j], b[j + 1], w) \in Int
    BY <1>2, <2>2 DEF Rest
  <2>9. Left[All[j]] = cb[All[j]].count - moved[All[j]]
    BY <2>4 DEF Left
  <2> QED BY <2>2, <2>3, <2>5, <2>6, <2>7, <2>8, <2>9
<1>7. Left[All[k]] > 0
  <2>1. Rest(b[k], b[k + 1], w) \in Int /\ Rest(b[k], b[k + 1], w) >= 1
    BY <1>2, <1>4, <1>6 DEF Rest
  <2>2. /\ cb[All[k]].count - cb[All[k]].offset >= 0
        /\ cb[All[k]].count - cb[All[k]].offset \in Int
    <3>1. /\ cb[All[k]].offset \in Int /\ cb[All[k]].count \in Int
          /\ cb[All[k]].offset <= cb[All[k]].count
      BY <1>6
    <3> QED BY <3>1
  <2>3. Left[All[k]] = (cb[All[k]].count - cb[All[k]].offset) + Rest(b[k], b[k + 1], w)
    BY <1>6
  <2> QED BY <2>1, <2>2, <2>3
<1>8. ASSUME NEW j \in 1..(k - 1) PROVE Left[All[j]] = 0
  <2>1. /\ k \in 1..(Len(All) + 1) /\ j \in 1..Len(All) /\ j + 1 \in 1..(Len(All) + 1)
        /\ j + 1 <= k
    BY <1>5
  <2>2. b[j + 1] <= b[k]
    BY <1>3, <2>1 DEF Layout, Chain
  <2>3. b[j + 1] <= w /\ b[j + 1] \in Int
    BY <1>2, <1>4, <1>6, <2>1, <2>2
  <2>4. Rest(b[j], b[j + 1], w) = 0
    BY <2>3 DEF Rest
  <2>5. j \in 1..Len(pend_list)
    <3> SUFFICES ASSUME ~(j \in 1..Len(pend_list)) PROVE FALSE
      OBVIOUS
    <3>1. k > Len(pend_list) + 1
      BY <1>5, <2>1
    <3>2. b[k] = InFlight /\ k + 1 \in 1..(Len(All) + 1) /\ k + 1 > Len(pend_list) + 1
      BY <1>3, <1>5, <2>1, <3>1 DEF Layout, Unwritten
    <3>3. b[k + 1] = InFlight
      BY <1>3, <3>2 DEF Layout, Unwritten
    <3> QED BY <1>2, <1>4, <1>6, <3>2, <3>3
  <2>6. cb[All[j]].offset = cb[All[j]].count
    BY <1>5, <2>5 DEF CInv, FullInv
  <2> QED BY <1>6, <2>1, <2>4, <2>6
<1>9. Left' = [Left EXCEPT ![d] = @ - 1]
  <2>1. ASSUME NEW q \in Req
        PROVE  cb'[q].count - moved'[q] = IF q = d THEN (cb[q].count - moved[q]) - 1
                                          ELSE cb[q].count - moved[q]
    <3>1. CASE q = d
      <4>1. cb[q].count \in 0..MaxNeed /\ moved[q] \in Nat /\ moved'[q] = moved[q] + 1
        BY <1>1, <3>1 DEF IInv, TypeOK, ReqType, CbType, HwType
      <4> QED BY <1>1, <3>1, <4>1, NeedAssumption
    <3>2. CASE q # d
      <4>1. moved'[q] = moved[q]
        BY <1>1, <3>2 DEF IInv, TypeOK, HwType
      <4> QED BY <1>1, <3>2, <4>1
    <3> QED BY <3>1, <3>2
  <2> QED BY <1>1, <2>1 DEF Left
<1>10. phase' = phase /\ All' = All
  BY <1>1 DEF phase, All
<1> QED BY <1>4, <1>7, <1>8, <1>9, <1>10, ServeTransfer

\* Nothing else is seen.
LEMMA OthersServe ==
  ASSUME IInv, AInv, ActiveInv, ActiveInv',
         UNCHANGED <<result, moved>>, pend_list' \o work_list' = pend_list \o work_list,
         \A q \in Req : /\ cb'[q].count = cb[q].count /\ cb'[q].done = cb[q].done
                        /\ cb'[q].status = cb[q].status
  PROVE  UNCHANGED Abs!vars
<1>1. All' = All
  BY DEF All
<1>2. \A q \in Req : Same(q)
  BY DEF Same, phase, Left
<1> QED BY <1>1, <1>2, ServeNothing

\* Every step of the queue is one of the service.
LEMMA ServeStep ==
  ASSUME OnlyAsync, IInv, AInv, BInv, CInv, DoneInv', ActiveInv, ActiveInv', [Next]_vars
  PROVE  Abs!Next \/ UNCHANGED Abs!vars
<1>1. CASE \E r \in Req : Caller(r)
  BY <1>1, CallerServes
<1>2. CASE CmplDone
  BY <1>2, DoneServes
<1>3. CASE FlushPend \/ FlushWork
  BY <1>3, FlushServes
<1>4. CASE WriteDescs /\ work_list # <<>>
  BY <1>4, WriteFacts, OthersServe
<1>5. CASE Exit
  <2>1. UNCHANGED <<result, moved, cb, pend_list, work_list>>
    BY <1>5 DEF Exit
  <2> QED BY <2>1, OthersServe
<1>6. CASE HwStep
  BY <1>6, DeviceServes
<1>7. CASE /\ UNCHANGED <<pc, result, pend_list, work_list, moved>>
           /\ \A q \in Req : /\ cb'[q].count = cb[q].count /\ cb'[q].offset = cb[q].offset
                             /\ cb'[q].done = cb[q].done /\ cb'[q].status = cb[q].status
           /\ sec'.owner \in Req => sec'.owner = sec.owner
  BY <1>7, OthersServe
<1> QED BY <1>1, <1>2, <1>3, <1>4, <1>5, <1>6, <1>7, StepKinds

\* The service begins with nothing accepted.
LEMMA ServeInit == Init => Abs!Init
<1> SUFFICES ASSUME Init PROVE Abs!Init
  OBVIOUS
<1>1. \A r \in Req : cb[r].count = 0 /\ ~cb[r].done /\ result[r] = "none" /\ moved[r] = 0
  BY DEF Init, NoCb
<1>2. phase = [r \in Req |-> "new"]
  BY <1>1 DEF phase
<1>3. [r \in Req |-> cb[r].count - moved[r]] = [r \in Req |-> 0]
  BY <1>1
<1>4. Active(pend_list \o work_list) = <<>>
  <2>1. pend_list \o work_list = <<>> /\ Len(<<>>) = 0
    BY DEF Init
  <2> QED BY <2>1 DEF Active
<1> QED BY <1>2, <1>3, <1>4 DEF Abs!Init

\* To callers that submit requests with callbacks the queue is a RequestService,
\* where a device that is asked to stop drains its ring in time: requests are
\* executed in the order they were accepted, one ends well only when all of it
\* was executed, and nothing is executed for one that has ended
\* (qdma_request_submit, descq_mm_n_h2c_cmpl_status, qdma_queue_stop).
THEOREM QueueServesRequests ==
  ASSUME OnlyAsync, ~SlowDevice
  PROVE  Spec => ServesRequests
<1>1. Init => Abs!Init
  BY ServeInit
<1>2. /\ IInv /\ AInv /\ BInv /\ CInv /\ ActiveInv
      /\ DoneInv' /\ ActiveInv' /\ [Next]_vars
      => [Abs!Next]_(Abs!vars)
  BY ServeStep
<1>3. IInv /\ AInv /\ BInv => ActiveInv /\ DoneInv
  BY NothingEnded DEF BInv
<1> QED BY <1>1, <1>2, <1>3, CallsInductive, PTL DEF Spec, ServesRequests, Abs!Spec
=============================================================================
