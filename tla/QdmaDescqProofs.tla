--------------------------- MODULE QdmaDescqProofs ---------------------------
(***************************************************************************)
(* Proofs about QdmaDescq for every number of requests, every ring size,   *)
(* every kind of request and every mode.  IInv strengthens TypeOK and      *)
(* RingAccounting with what each stage of queue_start and queue_stop       *)
(* guarantees about the ring and the holder of descq->lock; the second     *)
(* half is about the two lists of requests.                                *)
(***************************************************************************)
EXTENDS QdmaDescq, SequenceTheorems, TLAPS

Starting == ctl.at \in {"config", "program", "attach", "online"}

\* The control path: when the ring is allocated, reset and online.
CtlInv ==
  /\ Starting => q_state = "enabled"
  /\ ctl.at \in {"config", "program"} => ~ring_alloc
  /\ ctl.at \in {"attach", "online"} => ring_alloc
  /\ (ctl.at = "idle" /\ q_state = "enabled") => ~ring_alloc
  /\ q_state = "online" => ring_alloc /\ ctl.at \in {"idle", "stopwait", "flush"}
  /\ ctl.at \notin {"stopwait", "flush"} => ~q_stop_wait
  /\ ctl.at \in {"stopwait", "flush"} => q_state = "online"
  /\ ctl.at = "program" => pidx = 0 /\ cidx = 0 /\ avail = RngSz - 1

\* The holder of descq->lock: what it may be doing at each stage.
SecInv ==
  /\ sec.at = "free" <=> sec.owner = NoOne
  /\ sec.at \in {"flushpend", "flushwork"} => ctl.at = "flushing"
  /\ ctl.at \in {"config", "program"} =>
       /\ sec.at \in {"free", "cmpl", "exit", "service"}
       /\ sec.at = "cmpl" => sec.ret = "service"
  /\ (sec.at = "refill" \/ (sec.at \in {"cmpl", "credit"} /\ sec.ret = "refill"))
       => work_list # <<>>
  /\ (mode # "intr" /\ sec.at \in {"cmpl", "credit"}) =>
       q_state = "online" /\ sec.ret # "service"
  /\ sec.at \in {"fill", "refill", "doorbell"} => q_state = "online"
  /\ (sec.at \in {"cmpl", "credit"} /\ sec.ret \in {"fill", "refill"}) => q_state = "online"

IInv == TypeOK /\ CtlInv /\ SecInv /\ RingAccounting
-----------------------------------------------------------------------------
(* The ring arithmetic *)

Ring == 0..(RngSz - 1)

LEMMA DistType ==
  ASSUME NEW a \in Ring, NEW b \in Ring
  PROVE  Dist(a, b) \in Ring /\ (Dist(a, b) = 0 <=> a = b)
BY RingAssumption DEF Dist, Ring

LEMMA AdvanceType ==
  ASSUME NEW a \in Ring, NEW n \in Nat, n <= RngSz
  PROVE  Advance(a, n) \in Ring
BY RingAssumption DEF Advance, Ring

\* Moving the end of a stretch forward lengthens it, as long as it fits.
LEMMA DistAdvance ==
  ASSUME NEW a \in Ring, NEW b \in Ring, NEW n \in Nat, Dist(a, b) + n <= RngSz - 1
  PROVE  Dist(a, Advance(b, n)) = Dist(a, b) + n
BY RingAssumption DEF Dist, Advance, Ring

\* Moving the start forward shortens it.
LEMMA DistConsume ==
  ASSUME NEW a \in Ring, NEW b \in Ring, a # b
  PROVE  Dist(Advance(a, 1), b) = Dist(a, b) - 1
BY RingAssumption DEF Dist, Advance, Ring

\* Two stretches that fit in the ring add up.
LEMMA DistAdd ==
  ASSUME NEW a \in Ring, NEW b \in Ring, NEW c \in Ring,
         Dist(a, b) + Dist(b, c) <= RngSz - 1
  PROVE  Dist(a, c) = Dist(a, b) + Dist(b, c)
BY RingAssumption DEF Dist, Ring

LEMMA CreditsAreDist ==
  ASSUME cidx \in Ring, hw.wb \in Ring
  PROVE  NewCredits = Dist(cidx, hw.wb)
BY RingAssumption DEF NewCredits, Dist, Ring

(* Lists *)

LEMMA ListDelType ==
  ASSUME NEW s \in Seq(Req), NEW r \in Req
  PROVE  ListDel(s, r) \in Seq(Req)
<1>1. CASE \E i \in 1..Len(s) : s[i] = r
  <2> DEFINE k == CHOOSE i \in 1..Len(s) : s[i] = r /\ \A j \in 1..(i-1) : s[j] # r
             t == [j \in 1..(Len(s) - 1) |-> IF j < k THEN s[j] ELSE s[j+1]]
  <2>1. Len(s) \in Nat /\ Len(s) >= 1 /\ \A j \in 1..Len(s) : s[j] \in Req
    BY <1>1
  <2>2. Len(s) - 1 \in Nat
    BY <2>1
  <2>3. \A j \in 1..(Len(s) - 1) : t[j] \in Req
    <3> TAKE j \in 1..(Len(s) - 1)
    <3>1. j \in 1..Len(s) /\ j + 1 \in 1..Len(s)
      BY <2>1
    <3> QED BY <2>1, <3>1
  <2>4. t \in [1..(Len(s) - 1) -> Req]
    BY <2>3
  <2>5. t \in Seq(Req)
    BY <2>2, <2>4
  <2> QED BY <1>1, <2>5 DEF ListDel
<1>2. CASE ~\E i \in 1..Len(s) : s[i] = r
  BY <1>2 DEF ListDel
<1> QED BY <1>1, <1>2

-----------------------------------------------------------------------------
(* Types, one part of the state at a time *)

USE DEF qvars, cvars, rvars, lists, reqvars, hwvars, actors

\* A part of the state an action leaves alone keeps its type.
LEMMA Frame ==
  ASSUME TypeOK
  PROVE  /\ UNCHANGED <<qvars, cvars>> => QueueType'
         /\ UNCHANGED rvars => RingType'
         /\ UNCHANGED lists => ListType'
         /\ UNCHANGED reqvars => ReqType'
         /\ UNCHANGED hwvars => HwType'
         /\ UNCHANGED sec => SecType'
         /\ UNCHANGED actors => ActorType'
<1> USE DEF TypeOK
<1>1. UNCHANGED <<qvars, cvars>> => QueueType' BY DEF QueueType
<1>2. UNCHANGED rvars => RingType' BY DEF RingType
<1>3. UNCHANGED lists => ListType' BY DEF ListType
<1>4. UNCHANGED reqvars => ReqType' BY DEF ReqType
<1>5. UNCHANGED hwvars => HwType' BY DEF HwType
<1>6. UNCHANGED sec => SecType' BY DEF SecType, Actors
<1>7. UNCHANGED actors => ActorType' BY DEF ActorType
<1> QED BY <1>1, <1>2, <1>3, <1>4, <1>5, <1>6, <1>7

\* The ring is accounted for as long as nothing of it moves.
LEMMA RingFrame ==
  ASSUME RingAccounting, UNCHANGED <<pidx, cidx, avail, ring_alloc>>,
         hw'.wb = hw.wb, hw'.db = hw.db
  PROVE  RingAccounting'
BY DEF RingAccounting, Dist

\* One control block replaced by another keeps cb typed.
LEMMA CbSet ==
  ASSUME NEW f \in [Req -> CbType], NEW r \in Req, NEW c \in CbType
  PROVE  [f EXCEPT ![r] = c] \in [Req -> CbType]
OBVIOUS

\* A fresh request control block.
LEMMA FreshCb ==
  ASSUME NEW n \in 1..MaxNeed
  PROVE  [NoCb EXCEPT !.count = n] \in CbType
<1>1. NoCb \in CbType BY NeedAssumption DEF NoCb, CbType
<1>2. n \in 0..MaxNeed BY NeedAssumption
<1> QED BY <1>1, <1>2 DEF CbType

-----------------------------------------------------------------------------
(* Callers *)

\* A request is queued only on an online queue; the ring does not move.
LEMMA SubmitStep ==
  ASSUME IInv, NEW r \in Req, NEW n \in 1..MaxNeed, Submit(r, n)
  PROVE  IInv'
<1>1. TypeOK'
  <2>1. TypeOK BY DEF IInv
  <2>2. QueueType' BY <2>1 DEF TypeOK, QueueType, Submit
  <2>3. ListType' BY <2>1 DEF TypeOK, ListType, Submit, Enqueue
  <2>4. ReqType'
    <3>1. cb' \in [Req -> CbType] BY <2>1, FreshCb, CbSet DEF TypeOK, ReqType, Submit
    <3>2. \A q \in Req : cb'[q].offset <= cb'[q].count
      BY <2>1 DEF TypeOK, ReqType, CbType, Submit, NoCb
    <3> QED BY <2>1, <3>1, <3>2 DEF TypeOK, ReqType, Submit
  <2> QED BY <2>1, <2>2, <2>3, <2>4, Frame DEF TypeOK, Submit
<1>2. CtlInv'
  BY DEF IInv, CtlInv, Starting, Submit
<1>3. SecInv'
  BY DEF IInv, TypeOK, SecType, CtlInv, Starting, SecInv, Submit, Unlocked
<1>4. RingAccounting'
  BY RingFrame DEF IInv, TypeOK, HwType, Submit
<1> QED BY <1>1, <1>2, <1>3, <1>4 DEF IInv

\* A batch goes to the end of work_list.
LEMMA BatchSubmitStep ==
  ASSUME IInv, NEW s \in Batches, NEW n \in 1..MaxNeed, BatchSubmit(s, n)
  PROVE  IInv'
<1>1. TypeOK'
  <2>1. TypeOK BY DEF IInv
  <2>2. ListType'
    <3>1. PICK a \in Req, b \in Req : s \in {<<a>>, <<a, b>>} BY DEF Batches
    <3>2. <<a>> \in Seq(Req) /\ <<a, b>> \in Seq(Req) OBVIOUS
    <3>3. s \in Seq(Req) BY <3>1, <3>2
    <3> QED BY <2>1, <3>3 DEF TypeOK, ListType, BatchSubmit
  <2>3. ReqType'
    <3>1. cb' \in [Req -> CbType] BY <2>1, FreshCb DEF TypeOK, ReqType, BatchSubmit
    <3>2. \A q \in Req : cb'[q].offset <= cb'[q].count
      BY <2>1 DEF TypeOK, ReqType, CbType, BatchSubmit, NoCb
    <3>3. pc' \in [Req -> {"new", "queued", "wait", "out"}]
      BY <2>1 DEF TypeOK, ReqType, BatchSubmit
    <3> QED BY <2>1, <3>1, <3>2, <3>3 DEF TypeOK, ReqType, BatchSubmit
  <2> QED BY <2>1, <2>2, <2>3, Frame DEF TypeOK, BatchSubmit
<1>2. CtlInv'
  BY DEF IInv, CtlInv, Starting, BatchSubmit
<1>3. SecInv'
  BY DEF IInv, TypeOK, SecType, CtlInv, Starting, SecInv, BatchSubmit, Unlocked
<1>4. RingAccounting'
  BY RingFrame DEF IInv, TypeOK, HwType, BatchSubmit
<1> QED BY <1>1, <1>2, <1>3, <1>4 DEF IInv

\* Refuse preserves IInv.
LEMMA RefuseStep ==
  ASSUME IInv, NEW r \in Req, Refuse(r)
  PROVE  IInv'
<1>1. TypeOK'
  <2>1. TypeOK BY DEF IInv
  <2>2. ReqType' BY <2>1 DEF TypeOK, ReqType, CbType, Refuse
  <2> QED BY <2>1, <2>2, Frame DEF TypeOK, Refuse
<1>2. CtlInv'
  BY DEF IInv, CtlInv, Starting, Refuse
<1>3. SecInv'
  BY DEF IInv, TypeOK, SecType, CtlInv, Starting, SecInv, Refuse, Unlocked
<1>4. RingAccounting'
  BY RingFrame DEF IInv, TypeOK, HwType, Refuse
<1> QED BY <1>1, <1>2, <1>3, <1>4 DEF IInv

\* Return preserves IInv.
LEMMA ReturnStep ==
  ASSUME IInv, NEW r \in Req, Return(r)
  PROVE  IInv'
<1>1. TypeOK'
  <2>1. TypeOK BY DEF IInv
  <2>2. ReqType' BY <2>1 DEF TypeOK, ReqType, CbType, Return
  <2> QED BY <2>1, <2>2, Frame DEF TypeOK, Return
<1>2. CtlInv'
  BY DEF IInv, CtlInv, Starting, Return
<1>3. SecInv'
  BY DEF IInv, TypeOK, SecType, CtlInv, Starting, SecInv, Return, Unlocked
<1>4. RingAccounting'
  BY RingFrame DEF IInv, TypeOK, HwType, Return
<1> QED BY <1>1, <1>2, <1>3, <1>4 DEF IInv

\* A timed-out request leaves both lists; its descriptors stay in the ring.
LEMMA TimeOutStep ==
  ASSUME IInv, NEW r \in Req, TimeOut(r)
  PROVE  IInv'
<1>1. TypeOK'
  <2>1. TypeOK BY DEF IInv
  <2>2. ListType' BY <2>1, ListDelType DEF TypeOK, ListType, TimeOut
  <2>3. ReqType' BY <2>1 DEF TypeOK, ReqType, CbType, TimeOut
  <2> QED BY <2>1, <2>2, <2>3, Frame DEF TypeOK, TimeOut
<1>2. CtlInv'
  BY DEF IInv, CtlInv, Starting, TimeOut
<1>3. SecInv'
  BY DEF IInv, TypeOK, SecType, CtlInv, Starting, SecInv, TimeOut, Unlocked
<1>4. RingAccounting'
  BY RingFrame DEF IInv, TypeOK, HwType, TimeOut
<1> QED BY <1>1, <1>2, <1>3, <1>4 DEF IInv

\* The lock is entered at cmpl or fill only while the queue is online.
LEMMA ProcRequestStep ==
  ASSUME IInv, NEW r \in Req, ProcRequest(r)
  PROVE  IInv'
<1>1. TypeOK'
  <2>1. TypeOK BY DEF IInv
  <2>2. SecType' BY <2>1 DEF TypeOK, SecType, Actors, ProcRequest, EnterProc, Enter, Unlocked, NotOnline, Polled
  <2> QED BY <2>1, <2>2, Frame DEF TypeOK, ProcRequest, EnterProc, Enter
<1>2. CtlInv'
  BY DEF IInv, CtlInv, Starting, ProcRequest, EnterProc, Enter
<1>3. SecInv'
  BY ActorAssumption DEF IInv, TypeOK, SecType, CtlInv, Starting, SecInv, ProcRequest, EnterProc, Enter, Unlocked, NotOnline, Polled, Actors
<1>4. RingAccounting'
  BY RingFrame DEF IInv, TypeOK, HwType, ProcRequest, EnterProc, Enter
<1> QED BY <1>1, <1>2, <1>3, <1>4 DEF IInv

-----------------------------------------------------------------------------
(* The critical section *)

\* CmplNothing preserves IInv.
LEMMA CmplNothingStep ==
  ASSUME IInv, CmplNothing
  PROVE  IInv'
<1>1. TypeOK'
  <2>1. TypeOK BY DEF IInv
  <2>2. SecType' BY <2>1 DEF TypeOK, SecType, Actors, CmplNothing, At, Goto
  <2> QED BY <2>1, <2>2, Frame DEF TypeOK, CmplNothing, At, Goto
<1>2. CtlInv'
  BY DEF IInv, CtlInv, Starting, CmplNothing, At, Goto
<1>3. SecInv'
  BY DEF IInv, TypeOK, SecType, CtlInv, Starting, SecInv, CmplNothing, At, Goto
<1>4. RingAccounting'
  BY RingFrame DEF IInv, TypeOK, HwType, CmplNothing, At, Goto
<1> QED BY <1>1, <1>2, <1>3, <1>4 DEF IInv

\* The consumer index moves to the write-back and its distance becomes room.
LEMMA CmplCreditsStep ==
  ASSUME IInv, CmplCredits
  PROVE  IInv'
<1>1. TypeOK'
  <2>1. TypeOK BY DEF IInv
  <2>2. RingType'
    <3>1. NewCredits = Dist(cidx, hw.wb)
      BY <2>1, CreditsAreDist DEF TypeOK, RingType, HwType, Ring
    <3>2. Dist(cidx, hw.wb) \in Ring /\ Dist(hw.wb, hw.db) \in Ring /\ Dist(hw.db, pidx) \in Ring
      BY <2>1, DistType DEF TypeOK, RingType, HwType, Ring
    <3>3. avail + Dist(cidx, hw.wb) <= RngSz - 1
      BY <2>1, <3>2, RingAssumption DEF IInv, RingAccounting, TypeOK, RingType, CmplCredits, Ring
    <3> QED BY <2>1, <3>1, <3>2, <3>3, RingAssumption DEF TypeOK, RingType, HwType, CmplCredits, Ring
  <2>3. SecType' BY <2>1 DEF TypeOK, SecType, Actors, CmplCredits, At, Goto
  <2> QED BY <2>1, <2>2, <2>3, Frame DEF TypeOK, CmplCredits, At, Goto
<1>2. CtlInv'
  BY DEF IInv, CtlInv, Starting, CmplCredits, At, Goto
<1>3. SecInv'
  BY DEF IInv, TypeOK, SecType, CtlInv, Starting, SecInv, CmplCredits, At, Goto
<1>4. RingAccounting'
  <2>1. cidx \in Ring /\ pidx \in Ring /\ hw.wb \in Ring /\ hw.db \in Ring /\ avail \in Ring
    BY DEF IInv, TypeOK, RingType, HwType, Ring
  <2>2. NewCredits = Dist(cidx, hw.wb)
    BY <2>1, CreditsAreDist
  <2>3. /\ Dist(cidx, hw.wb) \in Ring /\ Dist(hw.wb, hw.db) \in Ring /\ Dist(hw.db, pidx) \in Ring
        /\ Dist(cidx, pidx) \in Ring /\ Dist(hw.wb, hw.wb) = 0
    BY <2>1, DistType
  <2>4. /\ avail + Dist(cidx, pidx) = RngSz - 1
        /\ Dist(cidx, hw.wb) + Dist(hw.wb, hw.db) + Dist(hw.db, pidx) = Dist(cidx, pidx)
    BY DEF IInv, RingAccounting, CmplCredits
  <2>5. Dist(hw.wb, pidx) = Dist(hw.wb, hw.db) + Dist(hw.db, pidx)
    BY <2>1, <2>3, <2>4, DistAdd, RingAssumption DEF Ring
  <2>6. /\ avail' + Dist(cidx', pidx) = RngSz - 1
        /\ Dist(cidx', hw.wb) + Dist(hw.wb, hw.db) + Dist(hw.db, pidx) = Dist(cidx', pidx)
    BY <2>1, <2>2, <2>3, <2>4, <2>5, RingAssumption DEF CmplCredits, Ring
  <2> QED BY <2>6 DEF RingAccounting, CmplCredits, Dist
<1> QED BY <1>1, <1>2, <1>3, <1>4 DEF IInv

\* CmplDone preserves IInv.
LEMMA CmplDoneStep ==
  ASSUME IInv, CmplDone
  PROVE  IInv'
<1>1. TypeOK'
  <2>1. TypeOK BY DEF IInv
  <2>2. QueueType' BY <2>1 DEF TypeOK, QueueType, CmplDone, At, Goto, RingIdle
  <2>3. RingType' BY <2>1 DEF TypeOK, RingType, CmplDone, At, Goto, ListType, ReqType, CbType, Covered
  <2>4. ListType' BY <2>1 DEF TypeOK, ListType, CmplDone, At, Goto
  <2>5. ReqType'
    <3> DEFINE r == Head(pend_list)
    <3>1. r \in Req BY <2>1 DEF TypeOK, ListType, CmplDone
    <3>2. cb[r] \in CbType BY <2>1, <3>1 DEF TypeOK, ReqType
    <3>3. PICK st \in {"ok", "err"} :
            /\ cb' = [cb EXCEPT ![r] = [cb[r] EXCEPT !.done = TRUE, !.status = st]]
            /\ result' \in {result, [result EXCEPT ![r] = st]}
      BY DEF CmplDone
    <3>4. [cb[r] EXCEPT !.done = TRUE, !.status = st] \in CbType BY <3>2 DEF CbType
    <3>5. cb' \in [Req -> CbType] BY <2>1, <3>1, <3>3, <3>4, CbSet DEF TypeOK, ReqType
    <3>6. \A q \in Req : cb'[q].offset <= cb'[q].count
      BY <2>1, <3>1, <3>3 DEF TypeOK, ReqType, CbType
    <3>7. result' \in [Req -> {"none", "ok", "err"}] BY <2>1, <3>1, <3>3 DEF TypeOK, ReqType
    <3> QED BY <2>1, <3>5, <3>6, <3>7 DEF TypeOK, ReqType, CmplDone
  <2> QED BY <2>1, <2>2, <2>3, <2>4, <2>5, Frame DEF TypeOK, CmplDone, At, Goto
<1>2. CtlInv'
  BY DEF IInv, CtlInv, Starting, CmplDone, At, Goto
<1>3. SecInv'
  BY DEF IInv, TypeOK, SecType, CtlInv, Starting, SecInv, CmplDone, At, Goto
<1>4. RingAccounting'
  BY RingFrame DEF IInv, TypeOK, HwType, CmplDone, At, Goto
<1> QED BY <1>1, <1>2, <1>3, <1>4 DEF IInv

\* CmplPart preserves IInv.
LEMMA CmplPartStep ==
  ASSUME IInv, CmplPart
  PROVE  IInv'
<1>1. TypeOK'
  <2>1. TypeOK BY DEF IInv
  <2>2. RingType' BY <2>1 DEF TypeOK, RingType, CmplPart, At, Goto
  <2>3. ReqType'
    <3> DEFINE r == Head(pend_list)
    <3>1. r \in Req BY <2>1 DEF TypeOK, ListType, CmplPart
    <3>2. cb[r] \in CbType /\ credit \in Nat BY <2>1, <3>1 DEF TypeOK, ReqType, RingType
    <3>3. Credited(cb[r], credit) \in CbType BY <3>2 DEF CbType, Credited
    <3>4. cb' = [cb EXCEPT ![r] = Credited(cb[r], credit)] BY DEF CmplPart
    <3>5. cb' \in [Req -> CbType] BY <2>1, <3>1, <3>3, <3>4, CbSet DEF TypeOK, ReqType
    <3>6. \A q \in Req : cb'[q].offset <= cb'[q].count
      BY <2>1, <3>1, <3>4 DEF TypeOK, ReqType, CbType, Credited
    <3> QED BY <2>1, <3>5, <3>6 DEF TypeOK, ReqType, CmplPart
  <2> QED BY <2>1, <2>2, <2>3, Frame DEF TypeOK, CmplPart, At, Goto
<1>2. CtlInv'
  BY DEF IInv, CtlInv, Starting, CmplPart, At, Goto
<1>3. SecInv'
  BY DEF IInv, TypeOK, SecType, CtlInv, Starting, SecInv, CmplPart, At, Goto
<1>4. RingAccounting'
  BY RingFrame DEF IInv, TypeOK, HwType, CmplPart, At, Goto
<1> QED BY <1>1, <1>2, <1>3, <1>4 DEF IInv

\* Re-arming repeats the doorbell index.
LEMMA CmplRearmStep ==
  ASSUME IInv, CmplRearm
  PROVE  IInv'
<1>1. TypeOK'
  <2>1. TypeOK BY DEF IInv
  <2>2. HwType' BY <2>1 DEF TypeOK, HwType, CmplRearm, PidxUpdate, Interrupt, At, Goto
  <2>3. SecType' BY <2>1 DEF TypeOK, SecType, Actors, CmplRearm, PidxUpdate, Interrupt, At, Goto
  <2>4. ActorType' BY <2>1 DEF TypeOK, ActorType, CmplRearm, PidxUpdate, Interrupt, At, Goto
  <2> QED BY <2>1, <2>2, <2>3, <2>4, Frame DEF TypeOK, CmplRearm, PidxUpdate, Interrupt, At, Goto
<1>2. CtlInv'
  BY DEF IInv, CtlInv, Starting, CmplRearm, PidxUpdate, Interrupt, At, Goto
<1>3. SecInv'
  BY DEF IInv, TypeOK, SecType, CtlInv, Starting, SecInv, CmplRearm, PidxUpdate, Interrupt, At, Goto
<1>4. RingAccounting'
  BY RingFrame DEF IInv, TypeOK, HwType, CmplRearm, PidxUpdate, Interrupt, At, Goto
<1> QED BY <1>1, <1>2, <1>3, <1>4 DEF IInv

\* Writing n descriptors uses n entries of room; the device is not told yet.
LEMMA WriteDescsStep ==
  ASSUME IInv, WriteDescs, At("fill") \/ At("refill"), work_list # <<>>
  PROVE  IInv'
<1> DEFINE r == Head(work_list)
           left == cb[r].count - cb[r].offset
           n == IF avail < left THEN avail ELSE left
<1>0. TypeOK BY DEF IInv
<1>1. /\ r \in Req /\ Tail(work_list) \in Seq(Req) /\ cb[r] \in CbType
      /\ cb[r].offset <= cb[r].count
  BY <1>0 DEF TypeOK, ListType, ReqType
<1>2. left \in Nat /\ n \in Nat /\ n <= avail /\ cb[r].offset + n <= cb[r].count /\ avail \in Ring
  BY <1>0, <1>1 DEF TypeOK, RingType, CbType, Ring
<1>3. /\ pidx' = Advance(pidx, n) /\ avail' = avail - n
      /\ cb' = [cb EXCEPT ![r] = Written(cb[r], n)]
      /\ sec' = [sec EXCEPT !.at = "fill", !.written = @ + n]
      /\ desc' = [i \in 0..(RngSz - 1) |-> IF Dist(pidx, i) < n THEN r ELSE desc[i]]
      /\ UNCHANGED <<qvars, pend_list_empty, cidx, credit, pc, result, hwvars, actors>>
      /\ \/ UNCHANGED <<work_list, pend_list, work_req_pend>>
         \/ /\ work_list' = Tail(work_list) /\ pend_list' = Append(pend_list, r)
            /\ work_req_pend' = work_req_pend - 1
  BY DEF WriteDescs, Enqueue, WorkQueueDel
<1>4. TypeOK'
  <2>1. QueueType' BY <1>0, <1>3 DEF TypeOK, QueueType
  <2>2. RingType'
    <3>1. pidx \in Ring BY <1>0 DEF TypeOK, RingType, Ring
    <3>2. pidx' \in Ring BY <3>1, <1>2, <1>3, AdvanceType, RingAssumption DEF Ring
    <3>3. avail' \in Ring BY <1>2, <1>3, RingAssumption DEF Ring
    <3>4. desc' \in [0..(RngSz - 1) -> Req \cup {NoOne}]
      BY <1>0, <1>1, <1>3 DEF TypeOK, RingType
    <3> QED BY <1>0, <1>3, <3>2, <3>3, <3>4 DEF TypeOK, RingType, Ring
  <2>3. ListType'
    <3>1. Append(pend_list, r) \in Seq(Req) BY <1>0, <1>1 DEF TypeOK, ListType
    <3> QED BY <1>0, <1>1, <1>3, <3>1 DEF TypeOK, ListType
  <2>4. ReqType'
    <3> DEFINE c == cb[r]
    <3>0. c.offset + n \in 0..MaxNeed /\ c.desc_nr + n \in Int
      <4>1. c.count \in 0..MaxNeed /\ c.offset \in 0..MaxNeed /\ c.desc_nr \in Int
        BY <1>1 DEF CbType
      <4>2. n \in Nat /\ c.offset + n <= c.count
        BY <1>2
      <4> HIDE DEF c, n
      <4> QED BY <4>1, <4>2, NeedAssumption
    <3>1. Written(c, n) \in CbType
      BY <1>1, <3>0 DEF CbType, Written
    <3>2. cb' \in [Req -> CbType] BY <1>0, <1>1, <1>3, <3>1, CbSet DEF TypeOK, ReqType
    <3>3. \A q \in Req : cb'[q].offset <= cb'[q].count
      BY <1>0, <1>1, <1>2, <1>3 DEF TypeOK, ReqType, CbType, Written
    <3> QED BY <1>0, <1>3, <3>2, <3>3 DEF TypeOK, ReqType
  <2>5. SecType'
    <3>1. sec.written + n \in Nat BY <1>0, <1>2 DEF TypeOK, SecType
    <3> QED BY <1>0, <1>3, <3>1 DEF TypeOK, SecType, Actors
  <2> QED BY <1>0, <1>3, <2>1, <2>2, <2>3, <2>4, <2>5, Frame DEF TypeOK
<1>5. CtlInv'
  <2>1. ctl.at # "program" BY DEF IInv, SecInv, At
  <2> QED BY <1>3, <2>1 DEF IInv, CtlInv, Starting
<1>6. SecInv'
  <2>1. sec.at \in {"fill", "refill"} /\ sec'.at = "fill" /\ sec'.owner = sec.owner
    BY <1>0, <1>3 DEF At, TypeOK, SecType
  <2> QED BY <1>3, <2>1 DEF IInv, SecInv
<1>7. RingAccounting'
  <2> SUFFICES ASSUME ring_alloc PROVE RingAccounting'
    BY <1>3 DEF RingAccounting
  <2>1. cidx \in Ring /\ pidx \in Ring /\ hw.wb \in Ring /\ hw.db \in Ring
    BY <1>0 DEF TypeOK, RingType, HwType, Ring
  <2>2. /\ avail + Dist(cidx, pidx) = RngSz - 1
        /\ Dist(cidx, hw.wb) + Dist(hw.wb, hw.db) + Dist(hw.db, pidx) = Dist(cidx, pidx)
    BY DEF IInv, RingAccounting
  <2>3. /\ Dist(cidx, hw.wb) \in Ring /\ Dist(hw.wb, hw.db) \in Ring
        /\ Dist(hw.db, pidx) \in Ring /\ Dist(cidx, pidx) \in Ring
    BY <2>1, DistType
  <2>4. /\ Dist(cidx, pidx) + n <= RngSz - 1 /\ Dist(hw.db, pidx) + n <= RngSz - 1
    BY <1>2, <2>2, <2>3, RingAssumption DEF Ring
  <2>5. Dist(cidx, pidx') = Dist(cidx, pidx) + n
    BY <1>2, <1>3, <2>1, <2>4, DistAdvance
  <2>6. Dist(hw.db, pidx') = Dist(hw.db, pidx) + n
    BY <1>2, <1>3, <2>1, <2>4, DistAdvance
  <2>7. /\ avail' + Dist(cidx, pidx') = RngSz - 1
        /\ Dist(cidx, hw.wb) + Dist(hw.wb, hw.db) + Dist(hw.db, pidx') = Dist(cidx, pidx')
    BY <1>2, <1>3, <2>2, <2>3, <2>5, <2>6, RingAssumption DEF Ring
  <2> QED BY <1>3, <2>7 DEF RingAccounting, Dist
<1> QED BY <1>4, <1>5, <1>6, <1>7 DEF IInv

\* A turn of the fill loop has a request to write descriptors for.
LEMMA FillStep ==
  ASSUME IInv, Fill \/ Refill
  PROVE  IInv'
<1>1. WriteDescs /\ (At("fill") \/ At("refill")) BY DEF Fill, Refill
<1>2. work_list # <<>> BY DEF Fill, Refill, IInv, SecInv, At
<1> QED BY <1>1, <1>2, WriteDescsStep

\* FillPoll preserves IInv.
LEMMA FillPollStep ==
  ASSUME IInv, FillPoll
  PROVE  IInv'
<1>1. TypeOK'
  <2>1. TypeOK BY DEF IInv
  <2>2. SecType' BY <2>1 DEF TypeOK, SecType, Actors, FillPoll, Call, At
  <2> QED BY <2>1, <2>2, Frame DEF TypeOK, FillPoll, Call, At
<1>2. CtlInv'
  BY DEF IInv, CtlInv, Starting, FillPoll, Call, At
<1>3. SecInv'
  BY DEF IInv, TypeOK, SecType, CtlInv, Starting, SecInv, FillPoll, Call, At, Polled
<1>4. RingAccounting'
  BY RingFrame DEF IInv, TypeOK, HwType, FillPoll, Call, At
<1> QED BY <1>1, <1>2, <1>3, <1>4 DEF IInv

\* FillEnd preserves IInv.
LEMMA FillEndStep ==
  ASSUME IInv, FillEnd
  PROVE  IInv'
<1>1. TypeOK'
  <2>1. TypeOK BY DEF IInv
  <2>2. SecType' BY <2>1 DEF TypeOK, SecType, Actors, FillEnd, At, Goto
  <2> QED BY <2>1, <2>2, Frame DEF TypeOK, FillEnd, At, Goto
<1>2. CtlInv'
  BY DEF IInv, CtlInv, Starting, FillEnd, At, Goto
<1>3. SecInv'
  BY DEF IInv, TypeOK, SecType, CtlInv, Starting, SecInv, FillEnd, At, Goto
<1>4. RingAccounting'
  BY RingFrame DEF IInv, TypeOK, HwType, FillEnd, At, Goto
<1> QED BY <1>1, <1>2, <1>3, <1>4 DEF IInv

\* The doorbell moves to pidx: what is written is exposed to the device.
LEMMA DoorbellStep ==
  ASSUME IInv, Doorbell
  PROVE  IInv'
<1>1. TypeOK'
  <2>1. TypeOK BY DEF IInv
  <2>2. QueueType' BY <2>1 DEF TypeOK, QueueType, Doorbell, PidxUpdate, Interrupt, Call, At, Goto
  <2>3. HwType'
    <3>1. pidx \in 0..(RngSz - 1) BY <2>1 DEF TypeOK, RingType
    <3>2. hw' \in {hw, [hw EXCEPT !.db = pidx, !.armed = IrqEn /\ ~hw.no_last, !.no_last = FALSE]}
      BY DEF Doorbell, PidxUpdate
    <3>3. hw' \in [on : BOOLEAN, wb : 0..(RngSz - 1), db : 0..(RngSz - 1),
                  armed : BOOLEAN, no_last : BOOLEAN]
      BY <2>1, <3>1, <3>2 DEF TypeOK, HwType
    <3> QED BY <2>1, <3>3 DEF TypeOK, HwType, Doorbell
  <2>4. SecType' BY <2>1 DEF TypeOK, SecType, Actors, Doorbell, PidxUpdate, Interrupt, Call, At, Goto
  <2>5. ActorType' BY <2>1 DEF TypeOK, ActorType, Doorbell, PidxUpdate, Interrupt, Call, At, Goto
  <2> QED BY <2>1, <2>2, <2>3, <2>4, <2>5, Frame DEF TypeOK, Doorbell, PidxUpdate, Interrupt, Call, At, Goto
<1>2. CtlInv'
  BY DEF IInv, CtlInv, Starting, Doorbell, PidxUpdate, Interrupt, Call, At, Goto
<1>3. SecInv'
  BY DEF IInv, TypeOK, SecType, CtlInv, Starting, SecInv, Doorbell, PidxUpdate, Interrupt, Call, At, Goto, Polled
<1>4. RingAccounting'
  <2> SUFFICES ASSUME ring_alloc, sec.written > 0 PROVE RingAccounting'
    BY RingFrame DEF IInv, RingAccounting, Doorbell, TypeOK, SecType
  <2>1. cidx \in Ring /\ pidx \in Ring /\ hw.wb \in Ring /\ hw.db \in Ring /\ avail \in Ring
    BY DEF IInv, TypeOK, RingType, HwType, Ring
  <2>2. /\ avail + Dist(cidx, pidx) = RngSz - 1
        /\ Dist(cidx, hw.wb) + Dist(hw.wb, hw.db) + Dist(hw.db, pidx) = Dist(cidx, pidx)
    BY DEF IInv, RingAccounting
  <2>3. /\ Dist(cidx, hw.wb) \in Ring /\ Dist(hw.wb, hw.db) \in Ring /\ Dist(hw.db, pidx) \in Ring
        /\ Dist(cidx, pidx) \in Ring /\ Dist(pidx, pidx) = 0
    BY <2>1, DistType
  <2>4. Dist(hw.wb, pidx) = Dist(hw.wb, hw.db) + Dist(hw.db, pidx)
    BY <2>1, <2>2, <2>3, DistAdd, RingAssumption DEF Ring
  <2>5. hw'.wb = hw.wb /\ hw'.db = pidx /\ UNCHANGED <<pidx, cidx, avail, ring_alloc>>
    BY DEF Doorbell, PidxUpdate, IInv, TypeOK, HwType
  <2>6. /\ avail + Dist(cidx, pidx) = RngSz - 1
        /\ Dist(cidx, hw'.wb) + Dist(hw'.wb, hw'.db) + Dist(hw'.db, pidx) = Dist(cidx, pidx)
    BY <2>2, <2>3, <2>4, <2>5, RingAssumption DEF Ring
  <2> QED BY <2>5, <2>6 DEF RingAccounting, Dist
<1> QED BY <1>1, <1>2, <1>3, <1>4 DEF IInv

\* Exit preserves IInv.
LEMMA ExitStep ==
  ASSUME IInv, Exit
  PROVE  IInv'
<1>1. TypeOK'
  <2>1. TypeOK BY DEF IInv
  <2>2. ReqType' BY <2>1 DEF TypeOK, ReqType, CbType, Exit, At, Free, WakesThread
  <2>3. SecType' BY <2>1 DEF TypeOK, SecType, Actors, Exit, At, Free, WakesThread
  <2>4. ActorType' BY <2>1 DEF TypeOK, ActorType, Exit, At, Free, WakesThread
  <2> QED BY <2>1, <2>2, <2>3, <2>4, Frame DEF TypeOK, Exit, At, Free, WakesThread
<1>2. CtlInv'
  BY DEF IInv, CtlInv, Starting, Exit, At, Free, WakesThread
<1>3. SecInv'
  BY ActorAssumption DEF IInv, TypeOK, SecType, CtlInv, Starting, SecInv, Exit, At, Free, WakesThread
<1>4. RingAccounting'
  BY RingFrame DEF IInv, TypeOK, HwType, Exit, At, Free, WakesThread
<1> QED BY <1>1, <1>2, <1>3, <1>4 DEF IInv

-----------------------------------------------------------------------------
(* Interrupt work, completion thread and device *)

\* Service preserves IInv.
LEMMA ServiceStep ==
  ASSUME IInv, Service
  PROVE  IInv'
<1>1. TypeOK'
  <2>1. TypeOK BY DEF IInv
  <2>2. SecType' BY <2>1 DEF TypeOK, SecType, Actors, Service, Enter
  <2>3. ActorType' BY <2>1 DEF TypeOK, ActorType, Service, Enter
  <2> QED BY <2>1, <2>2, <2>3, Frame DEF TypeOK, Service, Enter
<1>2. CtlInv'
  BY DEF IInv, CtlInv, Starting, Service, Enter
<1>3. SecInv'
  BY ActorAssumption DEF IInv, TypeOK, SecType, CtlInv, Starting, SecInv, Service, Enter, Unlocked, Actors
<1>4. RingAccounting'
  BY RingFrame DEF IInv, TypeOK, HwType, Service, Enter
<1> QED BY <1>1, <1>2, <1>3, <1>4 DEF IInv

\* ServiceEnd preserves IInv.
LEMMA ServiceEndStep ==
  ASSUME IInv, ServiceEnd
  PROVE  IInv'
<1>1. TypeOK'
  <2>1. TypeOK BY DEF IInv
  <2>2. SecType' BY <2>1 DEF TypeOK, SecType, Actors, ServiceEnd, At, Free, WorkQueued
  <2>3. ActorType' BY <2>1 DEF TypeOK, ActorType, ServiceEnd, At, Free, WorkQueued
  <2> QED BY <2>1, <2>2, <2>3, Frame DEF TypeOK, ServiceEnd, At, Free, WorkQueued
<1>2. CtlInv'
  BY DEF IInv, CtlInv, Starting, ServiceEnd, At, Free, WorkQueued
<1>3. SecInv'
  BY ActorAssumption DEF IInv, TypeOK, SecType, CtlInv, Starting, SecInv, ServiceEnd, At, Free, WorkQueued
<1>4. RingAccounting'
  BY RingFrame DEF IInv, TypeOK, HwType, ServiceEnd, At, Free, WorkQueued
<1> QED BY <1>1, <1>2, <1>3, <1>4 DEF IInv

\* ServiceProc preserves IInv.
LEMMA ServiceProcStep ==
  ASSUME IInv, ServiceProc
  PROVE  IInv'
<1>1. TypeOK'
  <2>1. TypeOK BY DEF IInv
  <2>2. SecType' BY <2>1 DEF TypeOK, SecType, Actors, ServiceProc, EnterProc, Enter, Unlocked, NotOnline, Polled
  <2>3. ActorType' BY <2>1 DEF TypeOK, ActorType, ServiceProc, EnterProc, Enter
  <2> QED BY <2>1, <2>2, <2>3, Frame DEF TypeOK, ServiceProc, EnterProc, Enter
<1>2. CtlInv'
  BY DEF IInv, CtlInv, Starting, ServiceProc, EnterProc, Enter
<1>3. SecInv'
  BY ActorAssumption DEF IInv, TypeOK, SecType, CtlInv, Starting, SecInv, ServiceProc, EnterProc, Enter, Unlocked, NotOnline, Polled, Actors
<1>4. RingAccounting'
  BY RingFrame DEF IInv, TypeOK, HwType, ServiceProc, EnterProc, Enter
<1> QED BY <1>1, <1>2, <1>3, <1>4 DEF IInv

\* ThreadCheck preserves IInv.
LEMMA ThreadCheckStep ==
  ASSUME IInv, ThreadCheck
  PROVE  IInv'
<1>1. TypeOK'
  <2>1. TypeOK BY DEF IInv
  <2>2. ActorType' BY <2>1 DEF TypeOK, ActorType, ThreadCheck
  <2> QED BY <2>1, <2>2, Frame DEF TypeOK, ThreadCheck
<1>2. CtlInv'
  BY DEF IInv, CtlInv, Starting, ThreadCheck
<1>3. SecInv'
  BY DEF IInv, TypeOK, SecType, CtlInv, Starting, SecInv, ThreadCheck
<1>4. RingAccounting'
  BY RingFrame DEF IInv, TypeOK, HwType, ThreadCheck
<1> QED BY <1>1, <1>2, <1>3, <1>4 DEF IInv

\* ThreadWake preserves IInv.
LEMMA ThreadWakeStep ==
  ASSUME IInv, ThreadWake
  PROVE  IInv'
<1>1. TypeOK'
  <2>1. TypeOK BY DEF IInv
  <2>2. ActorType' BY <2>1 DEF TypeOK, ActorType, ThreadWake
  <2> QED BY <2>1, <2>2, Frame DEF TypeOK, ThreadWake
<1>2. CtlInv'
  BY DEF IInv, CtlInv, Starting, ThreadWake
<1>3. SecInv'
  BY DEF IInv, TypeOK, SecType, CtlInv, Starting, SecInv, ThreadWake
<1>4. RingAccounting'
  BY RingFrame DEF IInv, TypeOK, HwType, ThreadWake
<1> QED BY <1>1, <1>2, <1>3, <1>4 DEF IInv

\* ThreadRun preserves IInv.
LEMMA ThreadRunStep ==
  ASSUME IInv, ThreadRun
  PROVE  IInv'
<1>1. TypeOK'
  <2>1. TypeOK BY DEF IInv
  <2>2. SecType' BY <2>1 DEF TypeOK, SecType, Actors, ThreadRun, EnterProc, Enter, Unlocked, NotOnline, Polled
  <2>3. ActorType' BY <2>1 DEF TypeOK, ActorType, ThreadRun, EnterProc, Enter
  <2> QED BY <2>1, <2>2, <2>3, Frame DEF TypeOK, ThreadRun, EnterProc, Enter
<1>2. CtlInv'
  BY DEF IInv, CtlInv, Starting, ThreadRun, EnterProc, Enter
<1>3. SecInv'
  BY ActorAssumption DEF IInv, TypeOK, SecType, CtlInv, Starting, SecInv, ThreadRun, EnterProc, Enter, Unlocked, NotOnline, Polled, Actors
<1>4. RingAccounting'
  BY RingFrame DEF IInv, TypeOK, HwType, ThreadRun, EnterProc, Enter
<1> QED BY <1>1, <1>2, <1>3, <1>4 DEF IInv

\* The device moves its write-back one entry towards the doorbell.
LEMMA HwStepStep ==
  ASSUME IInv, HwStep
  PROVE  IInv'
<1>1. TypeOK'
  <2>1. TypeOK BY DEF IInv
  <2>2. HwType'
    <3>1. desc[hw.wb] \in Req BY DEF HwStep
    <3>2. moved' \in [Req -> Nat] BY <2>1, <3>1 DEF TypeOK, HwType, HwStep
    <3>3. Advance(hw.wb, 1) \in 0..(RngSz - 1)
      BY <2>1, AdvanceType, RingAssumption DEF TypeOK, HwType, Ring
    <3> QED BY <2>1, <3>2, <3>3 DEF TypeOK, HwType, HwStep, IrqEn
  <2>3. ActorType' BY <2>1 DEF TypeOK, ActorType, HwStep, Interrupt
  <2> QED BY <2>1, <2>2, <2>3, Frame DEF TypeOK, HwStep, Interrupt
<1>2. CtlInv'
  BY DEF IInv, CtlInv, Starting, HwStep, Interrupt
<1>3. SecInv'
  BY DEF IInv, TypeOK, SecType, CtlInv, Starting, SecInv, HwStep, Interrupt
<1>4. RingAccounting'
  <2> SUFFICES ASSUME ring_alloc PROVE RingAccounting'
    BY DEF RingAccounting, HwStep
  <2>1. cidx \in Ring /\ pidx \in Ring /\ hw.wb \in Ring /\ hw.db \in Ring /\ avail \in Ring
    BY DEF IInv, TypeOK, RingType, HwType, Ring
  <2>2. /\ avail + Dist(cidx, pidx) = RngSz - 1
        /\ Dist(cidx, hw.wb) + Dist(hw.wb, hw.db) + Dist(hw.db, pidx) = Dist(cidx, pidx)
    BY DEF IInv, RingAccounting
  <2>3. /\ Dist(cidx, hw.wb) \in Ring /\ Dist(hw.wb, hw.db) \in Ring /\ Dist(hw.db, pidx) \in Ring
        /\ Dist(cidx, pidx) \in Ring /\ Dist(hw.wb, hw.db) # 0
    BY <2>1, DistType DEF HwStep
  <2>4. /\ hw'.wb = Advance(hw.wb, 1) /\ hw'.db = hw.db
        /\ UNCHANGED <<pidx, cidx, avail, ring_alloc>>
    BY DEF HwStep, IInv, TypeOK, HwType
  <2>5. Dist(hw'.wb, hw.db) = Dist(hw.wb, hw.db) - 1
    BY <2>1, <2>4, DistConsume DEF HwStep
  <2>6. Dist(cidx, hw'.wb) = Dist(cidx, hw.wb) + 1
    BY <2>1, <2>2, <2>3, <2>4, DistAdvance, RingAssumption DEF Ring
  <2>7. /\ avail + Dist(cidx, pidx) = RngSz - 1
        /\ Dist(cidx, hw'.wb) + Dist(hw'.wb, hw'.db) + Dist(hw'.db, pidx) = Dist(cidx, pidx)
    BY <2>2, <2>3, <2>4, <2>5, <2>6, RingAssumption DEF Ring
  <2> QED BY <2>4, <2>7 DEF RingAccounting, Dist
<1> QED BY <1>1, <1>2, <1>3, <1>4 DEF IInv

-----------------------------------------------------------------------------
(* queue_start *)

\* A start begins when nobody holds the lock and the ring is not allocated.
LEMMA StartCheckStep ==
  ASSUME IInv, StartCheck
  PROVE  IInv'
<1>1. TypeOK'
  <2>1. TypeOK BY DEF IInv
  <2>2. ActorType'
    <3>1. ctl.starts + 1 \in 0..MaxStarts
      BY <2>1, BoundAssumption DEF TypeOK, ActorType, StartCheck
    <3> QED BY <2>1, <3>1 DEF TypeOK, ActorType, StartCheck
  <2> QED BY <2>1, <2>2, Frame DEF TypeOK, StartCheck
<1>2. CtlInv'
  BY DEF IInv, CtlInv, Starting, StartCheck
<1>3. SecInv'
  BY DEF IInv, TypeOK, SecType, CtlInv, Starting, SecInv, StartCheck, Unlocked, ActorType
<1>4. RingAccounting'
  BY RingFrame DEF IInv, TypeOK, HwType, StartCheck
<1> QED BY <1>1, <1>2, <1>3, <1>4 DEF IInv

\* StartConfig preserves IInv.
LEMMA StartConfigStep ==
  ASSUME IInv, StartConfig
  PROVE  IInv'
<1>1. TypeOK'
  <2>1. TypeOK BY DEF IInv
  <2>2. QueueType' BY <2>1 DEF TypeOK, QueueType, StartConfig, UsableEntries
  <2>3. RingType' BY <2>1, RingAssumption DEF TypeOK, RingType, StartConfig, UsableEntries
  <2>4. ActorType' BY <2>1 DEF TypeOK, ActorType, StartConfig, UsableEntries
  <2> QED BY <2>1, <2>2, <2>3, <2>4, Frame DEF TypeOK, StartConfig, UsableEntries
<1>2. CtlInv'
  BY DEF IInv, CtlInv, Starting, StartConfig, UsableEntries
<1>3. SecInv'
  BY DEF IInv, TypeOK, SecType, CtlInv, Starting, SecInv, StartConfig, UsableEntries, ActorType
<1>4. RingAccounting'
  BY DEF IInv, CtlInv, RingAccounting, StartConfig
<1> QED BY <1>1, <1>2, <1>3, <1>4 DEF IInv

\* The ring comes to life with all indices at 0.
LEMMA StartProgramStep ==
  ASSUME IInv, StartProgram
  PROVE  IInv'
<1>1. TypeOK'
  <2>1. TypeOK BY DEF IInv
  <2>2. RingType' BY <2>1 DEF TypeOK, RingType, StartProgram
  <2>3. HwType'
    <3>1. hw' = [on |-> TRUE, wb |-> 0, db |-> 0, armed |-> IrqEn, no_last |-> FALSE]
      BY DEF StartProgram, NoHw
    <3>2. 0 \in 0..(RngSz - 1) /\ IrqEn \in BOOLEAN BY RingAssumption DEF IrqEn
    <3>3. hw' \in [on : BOOLEAN, wb : 0..(RngSz - 1), db : 0..(RngSz - 1),
                  armed : BOOLEAN, no_last : BOOLEAN]
      BY <3>1, <3>2
    <3> QED BY <2>1, <3>3 DEF TypeOK, HwType, StartProgram
  <2>4. ActorType' BY <2>1 DEF TypeOK, ActorType, StartProgram
  <2> QED BY <2>1, <2>2, <2>3, <2>4, Frame DEF TypeOK, StartProgram
<1>2. CtlInv'
  BY DEF IInv, CtlInv, Starting, StartProgram
<1>3. SecInv'
  BY DEF IInv, TypeOK, SecType, CtlInv, Starting, SecInv, StartProgram, ActorType
<1>4. RingAccounting'
  <2>1. /\ pidx' = 0 /\ cidx' = 0 /\ avail' = RngSz - 1 /\ hw'.wb = 0 /\ hw'.db = 0
    BY DEF IInv, CtlInv, StartProgram, NoHw
  <2>2. Dist(0, 0)' = 0 BY RingAssumption DEF Dist
  <2> QED BY <2>1, RingAssumption DEF RingAccounting, Dist
<1> QED BY <1>1, <1>2, <1>3, <1>4 DEF IInv

\* StartAttach preserves IInv.
LEMMA StartAttachStep ==
  ASSUME IInv, StartAttach
  PROVE  IInv'
<1>1. TypeOK'
  <2>1. TypeOK BY DEF IInv
  <2>2. ActorType' BY <2>1 DEF TypeOK, ActorType, StartAttach
  <2> QED BY <2>1, <2>2, Frame DEF TypeOK, StartAttach
<1>2. CtlInv'
  BY DEF IInv, CtlInv, Starting, StartAttach
<1>3. SecInv'
  BY DEF IInv, TypeOK, SecType, CtlInv, Starting, SecInv, StartAttach, ActorType
<1>4. RingAccounting'
  BY RingFrame DEF IInv, TypeOK, HwType, StartAttach
<1> QED BY <1>1, <1>2, <1>3, <1>4 DEF IInv

\* StartOnline preserves IInv.
LEMMA StartOnlineStep ==
  ASSUME IInv, StartOnline
  PROVE  IInv'
<1>1. TypeOK'
  <2>1. TypeOK BY DEF IInv
  <2>2. QueueType' BY <2>1 DEF TypeOK, QueueType, StartOnline
  <2>3. ActorType' BY <2>1 DEF TypeOK, ActorType, StartOnline
  <2> QED BY <2>1, <2>2, <2>3, Frame DEF TypeOK, StartOnline
<1>2. CtlInv'
  BY DEF IInv, CtlInv, Starting, StartOnline
<1>3. SecInv'
  BY DEF IInv, TypeOK, SecType, CtlInv, Starting, SecInv, StartOnline, Unlocked, ActorType
<1>4. RingAccounting'
  BY RingFrame DEF IInv, TypeOK, HwType, StartOnline
<1> QED BY <1>1, <1>2, <1>3, <1>4 DEF IInv

-----------------------------------------------------------------------------
(* queue_stop *)

\* StopBegin preserves IInv.
LEMMA StopBeginStep ==
  ASSUME IInv, StopBegin
  PROVE  IInv'
<1>1. TypeOK'
  <2>1. TypeOK BY DEF IInv
  <2>2. QueueType' BY <2>1 DEF TypeOK, QueueType, StopBegin
  <2>3. ActorType'
    <3>1. ctl.stops + 1 \in 0..MaxStops
      BY <2>1, BoundAssumption DEF TypeOK, ActorType, StopBegin
    <3> QED BY <2>1, <3>1 DEF TypeOK, ActorType, StopBegin
  <2> QED BY <2>1, <2>2, <2>3, Frame DEF TypeOK, StopBegin
<1>2. CtlInv'
  BY DEF IInv, CtlInv, Starting, StopBegin
<1>3. SecInv'
  BY DEF IInv, TypeOK, SecType, CtlInv, Starting, SecInv, StopBegin, Unlocked, ActorType
<1>4. RingAccounting'
  BY RingFrame DEF IInv, TypeOK, HwType, StopBegin
<1> QED BY <1>1, <1>2, <1>3, <1>4 DEF IInv

\* StopWaited preserves IInv.
LEMMA StopWaitedStep ==
  ASSUME IInv, StopWaited
  PROVE  IInv'
<1>1. TypeOK'
  <2>1. TypeOK BY DEF IInv
  <2>2. ActorType' BY <2>1 DEF TypeOK, ActorType, StopWaited
  <2> QED BY <2>1, <2>2, Frame DEF TypeOK, StopWaited
<1>2. CtlInv'
  BY DEF IInv, CtlInv, Starting, StopWaited
<1>3. SecInv'
  BY DEF IInv, TypeOK, SecType, CtlInv, Starting, SecInv, StopWaited, ActorType
<1>4. RingAccounting'
  BY RingFrame DEF IInv, TypeOK, HwType, StopWaited
<1> QED BY <1>1, <1>2, <1>3, <1>4 DEF IInv

\* StopFlush preserves IInv.
LEMMA StopFlushStep ==
  ASSUME IInv, StopFlush
  PROVE  IInv'
<1>1. TypeOK'
  <2>1. TypeOK BY DEF IInv
  <2>2. QueueType' BY <2>1 DEF TypeOK, QueueType, StopFlush, Enter, Unlocked
  <2>3. SecType' BY <2>1 DEF TypeOK, SecType, Actors, StopFlush, Enter, Unlocked
  <2>4. ActorType' BY <2>1 DEF TypeOK, ActorType, StopFlush, Enter, Unlocked
  <2> QED BY <2>1, <2>2, <2>3, <2>4, Frame DEF TypeOK, StopFlush, Enter, Unlocked
<1>2. CtlInv'
  BY DEF IInv, CtlInv, Starting, StopFlush, Enter, Unlocked
<1>3. SecInv'
  BY ActorAssumption DEF IInv, TypeOK, SecType, CtlInv, Starting, SecInv, StopFlush, Enter, Unlocked, ActorType, Actors
<1>4. RingAccounting'
  BY RingFrame DEF IInv, TypeOK, HwType, StopFlush, Enter, Unlocked
<1> QED BY <1>1, <1>2, <1>3, <1>4 DEF IInv

\* FlushPend preserves IInv.
LEMMA FlushPendStep ==
  ASSUME IInv, FlushPend
  PROVE  IInv'
<1>1. TypeOK'
  <2>1. TypeOK BY DEF IInv
  <2>2. ListType'
    <3>1. pend_list[sec.pos] \in Req BY <2>1 DEF TypeOK, ListType, SecType, FlushPend
    <3> QED BY <2>1, <3>1, ListDelType DEF TypeOK, ListType, FlushPend
  <2>3. ReqType'
    <3> DEFINE r == pend_list[sec.pos]
    <3>1. r \in Req BY <2>1 DEF TypeOK, ListType, SecType, FlushPend
    <3>2. cb[r] \in CbType BY <2>1, <3>1 DEF TypeOK, ReqType
    <3>3. /\ cb' = [cb EXCEPT ![r] = [cb[r] EXCEPT !.done = TRUE, !.status = "err"]]
          /\ result' \in {result, [result EXCEPT ![r] = "err"]}
      BY DEF FlushPend, Abort
    <3>4. [cb[r] EXCEPT !.done = TRUE, !.status = "err"] \in CbType BY <3>2 DEF CbType
    <3>5. cb' \in [Req -> CbType] BY <2>1, <3>1, <3>3, <3>4, CbSet DEF TypeOK, ReqType
    <3>6. \A q \in Req : cb'[q].offset <= cb'[q].count
      BY <2>1, <3>1, <3>3 DEF TypeOK, ReqType, CbType
    <3>7. result' \in [Req -> {"none", "ok", "err"}] BY <2>1, <3>1, <3>3 DEF TypeOK, ReqType
    <3> QED BY <2>1, <3>5, <3>6, <3>7 DEF TypeOK, ReqType, FlushPend
  <2>4. SecType' BY <2>1 DEF TypeOK, SecType, Actors, FlushPend, Abort, At
  <2> QED BY <2>1, <2>2, <2>3, <2>4, Frame DEF TypeOK, FlushPend, Abort, At
<1>2. CtlInv'
  BY DEF IInv, CtlInv, Starting, FlushPend, Abort, At
<1>3. SecInv'
  BY DEF IInv, TypeOK, SecType, CtlInv, Starting, SecInv, FlushPend, Abort, At
<1>4. RingAccounting'
  BY RingFrame DEF IInv, TypeOK, HwType, FlushPend, Abort, At
<1> QED BY <1>1, <1>2, <1>3, <1>4 DEF IInv

\* FlushNext preserves IInv.
LEMMA FlushNextStep ==
  ASSUME IInv, FlushNext
  PROVE  IInv'
<1>1. TypeOK'
  <2>1. TypeOK BY DEF IInv
  <2>2. SecType'
    <3>1. 1 \in Nat \ {0} BY SMT
    <3> QED BY <2>1, <3>1 DEF TypeOK, SecType, Actors, FlushNext
  <2> QED BY <2>1, <2>2, Frame DEF TypeOK, FlushNext, At
<1>2. CtlInv'
  BY DEF IInv, CtlInv, Starting, FlushNext, At
<1>3. SecInv'
  BY DEF IInv, TypeOK, SecType, CtlInv, Starting, SecInv, FlushNext, At
<1>4. RingAccounting'
  BY RingFrame DEF IInv, TypeOK, HwType, FlushNext, At
<1> QED BY <1>1, <1>2, <1>3, <1>4 DEF IInv

\* FlushWork preserves IInv.
LEMMA FlushWorkStep ==
  ASSUME IInv, FlushWork
  PROVE  IInv'
<1>1. TypeOK'
  <2>1. TypeOK BY DEF IInv
  <2>2. QueueType' BY <2>1 DEF TypeOK, QueueType, FlushWork, Abort, At, WorkQueueDel
  <2>3. ListType'
    <3>1. work_list[sec.pos] \in Req BY <2>1 DEF TypeOK, ListType, SecType, FlushWork
    <3> QED BY <2>1, <3>1, ListDelType DEF TypeOK, ListType, FlushWork
  <2>4. ReqType'
    <3> DEFINE r == work_list[sec.pos]
    <3>1. r \in Req BY <2>1 DEF TypeOK, ListType, SecType, FlushWork
    <3>2. cb[r] \in CbType BY <2>1, <3>1 DEF TypeOK, ReqType
    <3>3. /\ cb' = [cb EXCEPT ![r] = [cb[r] EXCEPT !.done = TRUE, !.status = "err"]]
          /\ result' \in {result, [result EXCEPT ![r] = "err"]}
      BY DEF FlushWork, Abort
    <3>4. [cb[r] EXCEPT !.done = TRUE, !.status = "err"] \in CbType BY <3>2 DEF CbType
    <3>5. cb' \in [Req -> CbType] BY <2>1, <3>1, <3>3, <3>4, CbSet DEF TypeOK, ReqType
    <3>6. \A q \in Req : cb'[q].offset <= cb'[q].count
      BY <2>1, <3>1, <3>3 DEF TypeOK, ReqType, CbType
    <3>7. result' \in [Req -> {"none", "ok", "err"}] BY <2>1, <3>1, <3>3 DEF TypeOK, ReqType
    <3> QED BY <2>1, <3>5, <3>6, <3>7 DEF TypeOK, ReqType, FlushWork
  <2>5. SecType' BY <2>1 DEF TypeOK, SecType, Actors, FlushWork, Abort, At
  <2> QED BY <2>1, <2>2, <2>3, <2>4, <2>5, Frame DEF TypeOK, FlushWork, Abort, At
<1>2. CtlInv'
  BY DEF IInv, CtlInv, Starting, FlushWork, Abort, At
<1>3. SecInv'
  BY DEF IInv, TypeOK, SecType, CtlInv, Starting, SecInv, FlushWork, Abort, At
<1>4. RingAccounting'
  BY RingFrame DEF IInv, TypeOK, HwType, FlushWork, Abort, At
<1> QED BY <1>1, <1>2, <1>3, <1>4 DEF IInv

\* FlushEnd preserves IInv.
LEMMA FlushEndStep ==
  ASSUME IInv, FlushEnd
  PROVE  IInv'
<1>1. TypeOK'
  <2>1. TypeOK BY DEF IInv
  <2>2. SecType' BY <2>1 DEF TypeOK, SecType, Actors, FlushEnd, At, Free
  <2>3. ActorType' BY <2>1 DEF TypeOK, ActorType, FlushEnd, At, Free
  <2> QED BY <2>1, <2>2, <2>3, Frame DEF TypeOK, FlushEnd, At, Free
<1>2. CtlInv'
  BY DEF IInv, CtlInv, Starting, FlushEnd, At, Free, SecInv
<1>3. SecInv'
  BY ActorAssumption DEF IInv, TypeOK, SecType, CtlInv, Starting, SecInv, FlushEnd, At, Free, ActorType
<1>4. RingAccounting'
  BY RingFrame DEF IInv, TypeOK, HwType, FlushEnd, At, Free
<1> QED BY <1>1, <1>2, <1>3, <1>4 DEF IInv

\* StopDetach preserves IInv.
LEMMA StopDetachStep ==
  ASSUME IInv, StopDetach
  PROVE  IInv'
<1>1. TypeOK'
  <2>1. TypeOK BY DEF IInv
  <2>2. ActorType' BY <2>1 DEF TypeOK, ActorType, StopDetach
  <2> QED BY <2>1, <2>2, Frame DEF TypeOK, StopDetach
<1>2. CtlInv'
  BY DEF IInv, CtlInv, Starting, StopDetach
<1>3. SecInv'
  BY DEF IInv, TypeOK, SecType, CtlInv, Starting, SecInv, StopDetach, ActorType
<1>4. RingAccounting'
  BY RingFrame DEF IInv, TypeOK, HwType, StopDetach
<1> QED BY <1>1, <1>2, <1>3, <1>4 DEF IInv

\* StopClear preserves IInv.
LEMMA StopClearStep ==
  ASSUME IInv, StopClear
  PROVE  IInv'
<1>1. TypeOK'
  <2>1. TypeOK BY DEF IInv
  <2>2. HwType' BY <2>1 DEF TypeOK, HwType, StopClear
  <2>3. ActorType' BY <2>1 DEF TypeOK, ActorType, StopClear
  <2> QED BY <2>1, <2>2, <2>3, Frame DEF TypeOK, StopClear
<1>2. CtlInv'
  BY DEF IInv, CtlInv, Starting, StopClear
<1>3. SecInv'
  BY DEF IInv, TypeOK, SecType, CtlInv, Starting, SecInv, StopClear, ActorType
<1>4. RingAccounting'
  BY RingFrame DEF IInv, TypeOK, HwType, StopClear
<1> QED BY <1>1, <1>2, <1>3, <1>4 DEF IInv

\* StopRelease preserves IInv.
LEMMA StopReleaseStep ==
  ASSUME IInv, StopRelease
  PROVE  IInv'
<1>1. TypeOK'
  <2>1. TypeOK BY DEF IInv
  <2>2. HwType' BY <2>1 DEF TypeOK, HwType, StopRelease
  <2>3. ActorType' BY <2>1 DEF TypeOK, ActorType, StopRelease
  <2> QED BY <2>1, <2>2, <2>3, Frame DEF TypeOK, StopRelease
<1>2. CtlInv'
  BY DEF IInv, CtlInv, Starting, StopRelease
<1>3. SecInv'
  BY DEF IInv, TypeOK, SecType, CtlInv, Starting, SecInv, StopRelease, ActorType
<1>4. RingAccounting'
  BY DEF RingAccounting, StopRelease
<1> QED BY <1>1, <1>2, <1>3, <1>4 DEF IInv

-----------------------------------------------------------------------------
(* Every step, and the theorems *)

\* The state after qdma_descq_init: no ring, nobody holds the lock.
LEMMA InitIInv ==
  Init => IInv
<1> SUFFICES ASSUME Init PROVE IInv
  OBVIOUS
<1>1. TypeOK
  <2>1. QueueType
    <3>1. 0 \in Int OBVIOUS
    <3> QED BY <3>1, Zenon DEF Init, QueueType
  <2>2. RingType BY RingAssumption DEF Init, RingType
  <2>3. ListType BY DEF Init, ListType
  <2>4. ReqType
    <3>1. NoCb \in CbType BY NeedAssumption DEF NoCb, CbType
    <3>2. \A r \in Req : cb[r].offset <= cb[r].count BY DEF Init, NoCb
    <3> QED BY <3>1, <3>2 DEF Init, ReqType
  <2>5. HwType
    <3>1. hw = [on |-> FALSE, wb |-> 0, db |-> 0, armed |-> FALSE, no_last |-> FALSE]
      BY DEF Init, NoHw
    <3>2. 0 \in 0..(RngSz - 1) BY RingAssumption
    <3>3. hw \in [on : BOOLEAN, wb : 0..(RngSz - 1), db : 0..(RngSz - 1),
                 armed : BOOLEAN, no_last : BOOLEAN]
      BY <3>1, <3>2
    <3>4. moved \in [Req -> Nat] /\ ring_alloc \in BOOLEAN BY DEF Init
    <3> QED BY <3>3, <3>4 DEF HwType
  <2>6. SecType BY DEF Init, SecType, Free
  <2>7. ActorType BY BoundAssumption DEF Init, ActorType
  <2> QED BY <2>1, <2>2, <2>3, <2>4, <2>5, <2>6, <2>7 DEF TypeOK
<1>2. CtlInv BY DEF Init, CtlInv, Starting
<1>3. SecInv BY DEF Init, SecInv, Free
<1>4. RingAccounting BY DEF Init, RingAccounting
<1> QED BY <1>1, <1>2, <1>3, <1>4 DEF IInv

\* Every step of callers, lock holder, contexts, device and control path
\* preserves the inductive invariant.
LEMMA NextIInv ==
  ASSUME IInv, [Next]_vars
  PROVE  IInv'
<1>1. CASE \E r \in Req : Caller(r)
  <2> SUFFICES ASSUME NEW r \in Req, Caller(r) PROVE IInv'
    BY <1>1
  <2> QED BY SubmitStep, RefuseStep, ProcRequestStep, ReturnStep, TimeOutStep DEF Caller
<1>2. CASE \E s \in Batches, n \in 1..MaxNeed : (Len(s) = 2 => s[1] # s[2]) /\ BatchSubmit(s, n)
  BY <1>2, BatchSubmitStep
<1>3. CASE Section
  BY <1>3, CmplNothingStep, CmplCreditsStep, CmplDoneStep, CmplPartStep, CmplRearmStep,
     FillStep, FillPollStep, FillEndStep, DoorbellStep, ExitStep, ServiceEndStep,
     FlushPendStep, FlushNextStep, FlushWorkStep, FlushEndStep DEF Section
<1>4. CASE Thread
  BY <1>4, ThreadCheckStep, ThreadWakeStep, ThreadRunStep DEF Thread
<1>5. CASE Work
  BY <1>5, ServiceStep, ServiceProcStep DEF Work
<1>6. CASE HwStep
  BY <1>6, HwStepStep
<1>7. CASE Start
  BY <1>7, StartCheckStep, StartConfigStep, StartProgramStep, StartAttachStep,
     StartOnlineStep DEF Start
<1>8. CASE StopBegin \/ Stop
  BY <1>8, StopBeginStep, StopWaitedStep, StopFlushStep, StopDetachStep, StopClearStep,
     StopReleaseStep DEF Stop
<1>9. CASE UNCHANGED vars
  <2>1. TypeOK BY DEF IInv
  <2>2. TypeOK' BY <1>9, <2>1, Frame DEF vars, TypeOK
  <2>3. CtlInv' BY <1>9 DEF IInv, vars, CtlInv, Starting
  <2>4. SecInv' BY <1>9 DEF IInv, vars, SecInv
  <2>5. RingAccounting' BY <1>9, RingFrame DEF IInv, vars
  <2> QED BY <2>2, <2>3, <2>4, <2>5 DEF IInv
<1> QED BY <1>1, <1>2, <1>3, <1>4, <1>5, <1>6, <1>7, <1>8, <1>9 DEF Next

\* The inductive invariant holds of every behaviour of the queue.
THEOREM Inductive == Spec => []IInv
<1>1. IInv /\ [Next]_vars => IInv'
  BY NextIInv
<1> QED BY InitIInv, <1>1, PTL DEF Spec

\* Type correctness, for every ring size: avail, pidx, cidx, the doorbell and
\* the write-back stay within the ring and cb->offset never passes req->count,
\* through starts, stops, time-outs and completions in any order.
THEOREM TypeCorrect == Spec => []TypeOK
<1>1. IInv => TypeOK
  BY DEF IInv
<1> QED BY Inductive, <1>1, PTL

\* The ring is accounted for: free entries and entries in flight add up to
\* rngsz - 1, and consumer index, write-back, doorbell and producer index
\* stand in that order, so no descriptor in use is overwritten and the device
\* never runs past what descq_mm_proc_request wrote.
THEOREM RingAccounted == Spec => []RingAccounting
<1>1. IInv => RingAccounting
  BY DEF IInv
<1> QED BY Inductive, <1>1, PTL

\* In the polled modes the write-back is read only while the ring is
\* allocated, however slow the device is: the interrupt work of interrupt mode
\* is the only reader that can outlive a stop.
THEOREM PolledReadsLiveRing ==
  ASSUME "intr" \notin Modes
  PROVE  Spec => []NoStatusReadAfterFree
<1>1. IInv => NoStatusReadAfterFree
  BY DEF IInv, TypeOK, QueueType, CtlInv, SecInv, NoStatusReadAfterFree, At
<1> QED BY Inductive, <1>1, PTL

-----------------------------------------------------------------------------
(* The lists, for every number of requests with a callback (fp_done),      *)
(* every ring size and every mode: a request is on one list once, from its *)
(* submission to its callback, and a stop empties both lists.  (A request  *)
(* whose caller waits stays listed after a stop, and a batch is not        *)
(* counted by work_req_pend: this is what OnlyAsync excludes.)             *)


OnlyAsync == \A r \in Req : Kind[r] = "async"

Flushing == {"flushpend", "flushwork"}

\* A request is listed once, while its outcome is open.
ListInv ==
  /\ \A i, j \in 1..Len(work_list) : work_list[i] = work_list[j] => i = j
  /\ \A i, j \in 1..Len(pend_list) : pend_list[i] = pend_list[j] => i = j
  /\ \A i \in 1..Len(work_list), j \in 1..Len(pend_list) : work_list[i] # pend_list[j]
  /\ \A i \in 1..Len(work_list) : pc[work_list[i]] # "new" /\ result[work_list[i]] = "none"
  /\ \A i \in 1..Len(pend_list) : pc[pend_list[i]] # "new" /\ result[pend_list[i]] = "none"

\* A submitter that has not been told the outcome has been told nothing.
CallerInv == \A r \in Req : pc[r] # "wait" /\ (pc[r] = "new" => result[r] = "none")

\* A stop leaves both lists empty, a start finds them so.
StopInv ==
  /\ (q_state = "enabled" /\ ctl.at # "flushing") => work_list = <<>> /\ pend_list = <<>>
  /\ ctl.at = "flushing" => sec.at \in Flushing
  /\ sec.at \in Flushing => sec.pos = 1 /\ q_state = "enabled"
  /\ sec.at = "flushwork" => pend_list = <<>>
  /\ q_state = "online" => work_req_pend = Len(work_list)
  /\ ctl.at \in {"program", "attach", "online"} => work_req_pend = 0

AInv == ListInv /\ CallerInv /\ StopInv

USE DEF qvars, cvars, rvars, lists, reqvars, hwvars, actors

-----------------------------------------------------------------------------
\* list_del of the first entry.
LEMMA ListDelHead ==
  ASSUME NEW s \in Seq(Req), s # <<>>
  PROVE  ListDel(s, s[1]) = Tail(s)
<1>1. Len(s) \in Nat /\ Len(s) >= 1
  OBVIOUS
<1> DEFINE First(i) == s[i] = s[1] /\ \A j \in 1..(i-1) : s[j] # s[1]
           k == CHOOSE i \in 1..Len(s) : First(i)
<1>2. \A i \in 1..Len(s) : First(i) => i = 1
  BY <1>1
<1>3. First(1) /\ 1 \in 1..Len(s)
  BY <1>1
<1>4. k = 1
  <2> HIDE DEF First
  <2> QED BY <1>2, <1>3
<1>5. ListDel(s, s[1]) = [j \in 1..(Len(s) - 1) |-> IF j < k THEN s[j] ELSE s[j+1]]
  BY <1>3 DEF ListDel
<1> DEFINE t == [j \in 1..(Len(s) - 1) |-> s[j+1]]
<1>6. ListDel(s, s[1]) = t
  BY <1>4, <1>5
<1>7. Len(s) - 1 \in Nat /\ t \in Seq(Req) /\ Len(t) = Len(s) - 1
  <2>1. \A j \in 1..(Len(s) - 1) : s[j + 1] \in Req
    BY <1>1
  <2> QED BY <1>1, <2>1
<1>8. /\ Tail(s) \in Seq(Req) /\ Len(Tail(s)) = Len(s) - 1
      /\ \A i \in 1..Len(Tail(s)) : Tail(s)[i] = s[i+1]
  BY HeadTailProperties
<1>9. \A i \in 1..Len(t) : t[i] = Tail(s)[i]
  BY <1>7, <1>8
<1> HIDE DEF t
<1> QED BY <1>6, <1>7, <1>8, <1>9, SeqEqual

LEMMA InitAInv == Init => AInv
BY DEF Init, AInv, ListInv, CallerInv, StopInv, Free, Flushing

\* A step that leaves requests, lists and control path alone.
LEMMA AFrame ==
  ASSUME IInv, AInv,
         UNCHANGED <<q_state, work_req_pend, lists, pc, result, ctl>>,
         sec' = sec \/ (sec.at \notin Flushing /\ sec'.at \notin Flushing)
  PROVE  AInv'
<1>1. ListInv' /\ CallerInv'
  BY DEF AInv, ListInv, CallerInv
<1>2. StopInv'
  BY DEF AInv, StopInv, Flushing
<1> QED BY <1>1, <1>2 DEF AInv

\* The lists while the first of work_list moves, leaves, or one is added.
LEMMA HeadIs ==
  ASSUME NEW s \in Seq(Req), s # <<>>
  PROVE  /\ Head(s) = s[1] /\ Len(s) \in Nat /\ 1 \in 1..Len(s)
         /\ Tail(s) \in Seq(Req) /\ Len(Tail(s)) = Len(s) - 1
         /\ \A i \in 1..Len(Tail(s)) : Tail(s)[i] = s[i + 1] /\ i + 1 \in 1..Len(s) /\ i + 1 # 1
OBVIOUS

LEMMA HeadLeaves ==
  ASSUME TypeOK, ListInv, pend_list # <<>>, pend_list' = Tail(pend_list),
         UNCHANGED <<work_list, pc>>,
         result' \in {result, [result EXCEPT ![Head(pend_list)] = "ok"],
                              [result EXCEPT ![Head(pend_list)] = "err"]}
  PROVE  ListInv'
<1> DEFINE r == Head(pend_list)
<1>1. /\ r = pend_list[1] /\ Len(pend_list) \in Nat /\ 1 \in 1..Len(pend_list)
      /\ \A i \in 1..Len(pend_list') :
           pend_list'[i] = pend_list[i + 1] /\ i + 1 \in 1..Len(pend_list) /\ i + 1 # 1
      /\ Len(pend_list') \in Nat
  BY HeadIs DEF TypeOK, ListType
<1>2. \A i \in 1..Len(pend_list') : pend_list'[i] # r
  BY <1>1 DEF ListInv
<1>3. \A i \in 1..Len(work_list) : work_list[i] # r
  BY <1>1 DEF ListInv
<1>4. \A q \in Req : q # r => result'[q] = result[q]
  BY DEF TypeOK, ReqType
<1>5. \A i \in 1..Len(work_list) : work_list[i] \in Req
  BY DEF TypeOK, ListType
<1>6. \A i \in 1..Len(pend_list) : pend_list[i] \in Req
  BY DEF TypeOK, ListType
<1> HIDE DEF r
<1>7. \A i, j \in 1..Len(pend_list') : pend_list'[i] = pend_list'[j] => i = j
  BY <1>1 DEF ListInv
<1>8. \A i \in 1..Len(pend_list') : pc'[pend_list'[i]] # "new" /\ result'[pend_list'[i]] = "none"
  BY <1>1, <1>2, <1>4, <1>6 DEF ListInv
<1>9. \A i \in 1..Len(work_list') : pc'[work_list'[i]] # "new" /\ result'[work_list'[i]] = "none"
  BY <1>3, <1>4, <1>5 DEF ListInv
<1>10. \A i \in 1..Len(work_list'), j \in 1..Len(pend_list') : work_list'[i] # pend_list'[j]
  BY <1>1 DEF ListInv
<1> QED BY <1>7, <1>8, <1>9, <1>10 DEF ListInv

\* The same of work_list, when pend_list is empty.
LEMMA WorkHeadLeaves ==
  ASSUME TypeOK, ListInv, work_list # <<>>, work_list' = Tail(work_list),
         pend_list = <<>>, UNCHANGED <<pend_list, pc>>,
         result' = [result EXCEPT ![Head(work_list)] = "err"]
  PROVE  ListInv'
<1> DEFINE r == Head(work_list)
<1>1. /\ r = work_list[1] /\ Len(work_list) \in Nat /\ 1 \in 1..Len(work_list)
      /\ \A i \in 1..Len(work_list') :
           work_list'[i] = work_list[i + 1] /\ i + 1 \in 1..Len(work_list) /\ i + 1 # 1
      /\ Len(work_list') \in Nat
  BY HeadIs DEF TypeOK, ListType
<1>2. \A i \in 1..Len(work_list') : work_list'[i] # r
  BY <1>1 DEF ListInv
<1>3. \A q \in Req : q # r => result'[q] = result[q]
  BY DEF TypeOK, ReqType
<1>4. \A i \in 1..Len(work_list) : work_list[i] \in Req
  BY DEF TypeOK, ListType
<1> HIDE DEF r
<1>5. \A i, j \in 1..Len(work_list') : work_list'[i] = work_list'[j] => i = j
  BY <1>1 DEF ListInv
<1>6. \A i \in 1..Len(work_list') : pc'[work_list'[i]] # "new" /\ result'[work_list'[i]] = "none"
  BY <1>1, <1>2, <1>3, <1>4 DEF ListInv
<1> QED BY <1>5, <1>6 DEF ListInv

\* The head of work_list goes to the end of pend_list.
LEMMA HeadMoves ==
  ASSUME TypeOK, ListInv, work_list # <<>>, work_list' = Tail(work_list),
         pend_list' = Append(pend_list, Head(work_list)), UNCHANGED <<pc, result>>
  PROVE  ListInv'
<1> DEFINE r == Head(work_list)
<1>1. /\ r = work_list[1] /\ Len(work_list) \in Nat /\ 1 \in 1..Len(work_list)
      /\ \A i \in 1..Len(work_list') :
           work_list'[i] = work_list[i + 1] /\ i + 1 \in 1..Len(work_list) /\ i + 1 # 1
      /\ Len(work_list') \in Nat /\ r \in Req
  BY HeadIs DEF TypeOK, ListType
<1>2. /\ Len(pend_list) \in Nat /\ Len(pend_list') = Len(pend_list) + 1
      /\ pend_list'[Len(pend_list) + 1] = r
      /\ \A i \in 1..Len(pend_list) : pend_list'[i] = pend_list[i]
  BY <1>1, AppendProperties DEF TypeOK, ListType
<1>3. \A i \in 1..Len(pend_list') : i \in 1..Len(pend_list) \/ i = Len(pend_list) + 1
  BY <1>2
<1> HIDE DEF r
<1>4. \A i \in 1..Len(work_list') : work_list'[i] # r
  BY <1>1 DEF ListInv
<1>5. \A i \in 1..Len(pend_list) : pend_list[i] # r
  BY <1>1 DEF ListInv
<1>6. \A i, j \in 1..Len(work_list') : work_list'[i] = work_list'[j] => i = j
  BY <1>1 DEF ListInv
<1>7. \A i, j \in 1..Len(pend_list') : pend_list'[i] = pend_list'[j] => i = j
  BY <1>2, <1>3, <1>5 DEF ListInv
<1>8. \A i \in 1..Len(work_list'), j \in 1..Len(pend_list') : work_list'[i] # pend_list'[j]
  BY <1>1, <1>2, <1>3, <1>4 DEF ListInv
<1>9. \A i \in 1..Len(work_list') : pc'[work_list'[i]] # "new" /\ result'[work_list'[i]] = "none"
  BY <1>1 DEF ListInv
<1>10. \A i \in 1..Len(pend_list') : pc'[pend_list'[i]] # "new" /\ result'[pend_list'[i]] = "none"
  BY <1>1, <1>2, <1>3 DEF ListInv
<1> QED BY <1>6, <1>7, <1>8, <1>9, <1>10 DEF ListInv

-----------------------------------------------------------------------------
(* The steps that touch the lists                                          *)

LEMMA SubmitLists ==
  ASSUME OnlyAsync, IInv, AInv, NEW r \in Req, NEW n \in 1..MaxNeed, Submit(r, n)
  PROVE  AInv'
<1>0. TypeOK /\ ListInv /\ CallerInv /\ StopInv
  BY DEF IInv, AInv
<1>1. /\ pc[r] = "new" /\ q_state = "online" /\ work_list' = Append(work_list, r)
      /\ work_req_pend' = work_req_pend + 1 /\ pc' = [pc EXCEPT ![r] = "queued"]
      /\ UNCHANGED <<q_state, pend_list, result, sec, ctl>>
  BY DEF Submit, Enqueue
<1>2. /\ Len(work_list) \in Nat /\ Len(work_list') = Len(work_list) + 1
      /\ work_list'[Len(work_list) + 1] = r
      /\ \A i \in 1..Len(work_list) : work_list'[i] = work_list[i] /\ work_list[i] \in Req
  BY <1>0, <1>1, AppendProperties DEF TypeOK, ListType
<1>3. \A i \in 1..Len(work_list') : i \in 1..Len(work_list) \/ i = Len(work_list) + 1
  BY <1>2
<1>4. \A i \in 1..Len(pend_list) : pend_list[i] \in Req /\ pend_list[i] # r
  BY <1>0, <1>1 DEF TypeOK, ListType, ListInv
<1>5. \A i \in 1..Len(work_list) : work_list[i] # r
  BY <1>0, <1>1 DEF ListInv
<1>6. pc'[r] = "queued" /\ \A q \in Req : q # r => pc'[q] = pc[q]
  BY <1>0, <1>1 DEF TypeOK, ReqType
<1>7. ListInv'
  <2>1. \A i, j \in 1..Len(work_list') : work_list'[i] = work_list'[j] => i = j
    BY <1>0, <1>2, <1>3, <1>5 DEF ListInv
  <2>2. \A i \in 1..Len(work_list'), j \in 1..Len(pend_list') : work_list'[i] # pend_list'[j]
    BY <1>0, <1>1, <1>2, <1>3, <1>4 DEF ListInv
  <2>3. \A i \in 1..Len(work_list') : pc'[work_list'[i]] # "new" /\ result'[work_list'[i]] = "none"
    <3>1. result[r] = "none"
      BY <1>0, <1>1 DEF CallerInv
    <3> QED BY <1>0, <1>1, <1>2, <1>3, <1>5, <1>6, <3>1 DEF ListInv
  <2>4. \A i \in 1..Len(pend_list') : pc'[pend_list'[i]] # "new" /\ result'[pend_list'[i]] = "none"
    BY <1>0, <1>1, <1>4, <1>6 DEF ListInv
  <2>5. \A i, j \in 1..Len(pend_list') : pend_list'[i] = pend_list'[j] => i = j
    BY <1>0, <1>1 DEF ListInv
  <2> QED BY <2>1, <2>2, <2>3, <2>4, <2>5 DEF ListInv
<1>8. CallerInv'
  BY <1>0, <1>1, <1>6 DEF CallerInv
<1>9. StopInv'
  <2>1. ctl.at \notin {"program", "attach", "online"} /\ sec.at \notin Flushing
    BY <1>0, <1>1 DEF IInv, CtlInv, StopInv
  <2> QED BY <1>0, <1>1, <1>2, <2>1 DEF StopInv, Flushing
<1> QED BY <1>7, <1>8, <1>9 DEF AInv

LEMMA RefuseLists ==
  ASSUME IInv, AInv, NEW r \in Req, Refuse(r)
  PROVE  AInv'
<1>0. TypeOK /\ ListInv /\ CallerInv /\ StopInv
  BY DEF IInv, AInv
<1>1. /\ pc[r] = "new" /\ pc' = [pc EXCEPT ![r] = "out"] /\ result' = [result EXCEPT ![r] = "err"]
      /\ UNCHANGED <<q_state, work_req_pend, work_list, pend_list, sec, ctl>>
  BY DEF Refuse
<1>2. /\ \A i \in 1..Len(work_list) : work_list[i] \in Req /\ work_list[i] # r
      /\ \A i \in 1..Len(pend_list) : pend_list[i] \in Req /\ pend_list[i] # r
  BY <1>0, <1>1 DEF TypeOK, ListType, ListInv
<1>3. pc'[r] = "out" /\ \A q \in Req : q # r => pc'[q] = pc[q] /\ result'[q] = result[q]
  BY <1>0, <1>1 DEF TypeOK, ReqType
<1>4. ListInv'
  BY <1>0, <1>1, <1>2, <1>3 DEF ListInv
<1>5. CallerInv'
  BY <1>0, <1>3 DEF CallerInv
<1>6. StopInv'
  BY <1>0, <1>1 DEF StopInv
<1> QED BY <1>4, <1>5, <1>6 DEF AInv

\* The lock is given up: a submitter is done, since it does not wait.
LEMMA ExitLists ==
  ASSUME OnlyAsync, IInv, AInv, Exit
  PROVE  AInv'
<1>0. TypeOK /\ ListInv /\ CallerInv /\ StopInv
  BY DEF IInv, AInv
<1>1. /\ sec.at = "exit" /\ sec' = Free
      /\ \/ pc' = pc
         \/ \E r \in Req : pc' = [pc EXCEPT ![r] = "out"]
      /\ UNCHANGED <<q_state, work_req_pend, work_list, pend_list, result, ctl>>
  BY DEF Exit, At, OnlyAsync
<1>2. \A q \in Req : pc'[q] = pc[q] \/ pc'[q] = "out"
  BY <1>0, <1>1 DEF TypeOK, ReqType
<1>3. ListInv'
  BY <1>0, <1>1, <1>2 DEF ListInv, TypeOK, ListType
<1>4. CallerInv'
  BY <1>0, <1>1, <1>2 DEF CallerInv
<1>5. StopInv'
  BY <1>0, <1>1 DEF StopInv, Free, Flushing
<1> QED BY <1>3, <1>4, <1>5 DEF AInv

LEMMA WriteLists ==
  ASSUME IInv, AInv, WriteDescs, At("fill") \/ At("refill"), work_list # <<>>
  PROVE  AInv'
<1>0. TypeOK /\ ListInv /\ CallerInv /\ StopInv
  BY DEF IInv, AInv
<1>1. /\ UNCHANGED <<q_state, pc, result, ctl>>
      /\ sec' = [sec EXCEPT !.at = "fill", !.written = sec'.written]
      /\ \/ UNCHANGED <<work_list, pend_list, work_req_pend>>
         \/ /\ work_list' = Tail(work_list) /\ pend_list' = Append(pend_list, Head(work_list))
            /\ work_req_pend' = work_req_pend - 1
  BY <1>0 DEF WriteDescs, Enqueue, WorkQueueDel, TypeOK, SecType
<1>2. q_state = "online" /\ sec.at \notin Flushing /\ sec'.at = "fill"
  <2>1. sec.at \in {"fill", "refill"}
    BY DEF At
  <2>2. q_state = "online"
    BY <2>1 DEF IInv, SecInv
  <2> QED BY <1>0, <1>1, <2>1, <2>2 DEF Flushing, TypeOK, SecType
<1>3. CASE UNCHANGED <<work_list, pend_list, work_req_pend>>
  BY <1>1, <1>2, <1>3, AFrame DEF Flushing
<1>4. CASE /\ work_list' = Tail(work_list) /\ pend_list' = Append(pend_list, Head(work_list))
           /\ work_req_pend' = work_req_pend - 1
  <2>1. ListInv'
    BY <1>0, <1>1, <1>4, HeadMoves
  <2>2. CallerInv'
    BY <1>0, <1>1 DEF CallerInv
  <2>3. Len(work_list') = Len(work_list) - 1
    BY <1>0, <1>4, HeadIs DEF TypeOK, ListType
  <2>4. ctl.at \notin {"program", "attach", "online", "flushing"}
    BY <1>0, <1>2 DEF IInv, CtlInv, StopInv
  <2>5. StopInv'
    BY <1>0, <1>1, <1>2, <1>4, <2>3, <2>4 DEF StopInv, Flushing
  <2> QED BY <2>1, <2>2, <2>5 DEF AInv
<1> QED BY <1>1, <1>3, <1>4

LEMMA CmplDoneLists ==
  ASSUME OnlyAsync, IInv, AInv, CmplDone
  PROVE  AInv'
<1>0. TypeOK /\ ListInv /\ CallerInv /\ StopInv
  BY DEF IInv, AInv
<1>1. /\ sec.at = "credit" /\ pend_list # <<>> /\ pend_list' = Tail(pend_list)
      /\ UNCHANGED <<q_state, work_req_pend, work_list, pc, sec, ctl>>
      /\ result' \in {result, [result EXCEPT ![Head(pend_list)] = "ok"],
                              [result EXCEPT ![Head(pend_list)] = "err"]}
  BY DEF CmplDone, At
<1>2. ListInv'
  BY <1>0, <1>1, HeadLeaves
<1>3. CallerInv'
  <2>1. Head(pend_list) \in Req /\ pc[Head(pend_list)] # "new"
    BY <1>0, <1>1, HeadIs DEF TypeOK, ListType, ListInv
  <2>2. \A q \in Req : q # Head(pend_list) => result'[q] = result[q]
    BY <1>0, <1>1 DEF TypeOK, ReqType
  <2> QED BY <1>0, <1>1, <2>1, <2>2 DEF CallerInv
<1>4. StopInv'
  BY <1>0, <1>1 DEF StopInv, Flushing
<1> QED BY <1>2, <1>3, <1>4 DEF AInv

LEMMA FlushPendLists ==
  ASSUME OnlyAsync, IInv, AInv, FlushPend
  PROVE  AInv'
<1> DEFINE r == pend_list[sec.pos]
<1>0. TypeOK /\ ListInv /\ CallerInv /\ StopInv
  BY DEF IInv, AInv
<1>1. sec.at = "flushpend" /\ sec.pos = 1 /\ sec.pos <= Len(pend_list) /\ q_state = "enabled"
  BY <1>0 DEF FlushPend, At, StopInv, Flushing
<1>2. pend_list # <<>> /\ r = Head(pend_list) /\ r \in Req /\ Kind[r] = "async"
  BY <1>0, <1>1, HeadIs DEF TypeOK, ListType, OnlyAsync
<1>3. /\ pend_list' = Tail(pend_list) /\ sec' = sec /\ result' = [result EXCEPT ![r] = "err"]
      /\ UNCHANGED <<q_state, work_req_pend, work_list, pc, ctl>>
  BY <1>0, <1>1, <1>2, ListDelHead DEF FlushPend, Abort, StaysListed, TypeOK, ListType
<1>4. ListInv'
  BY <1>0, <1>2, <1>3, HeadLeaves
<1>5. CallerInv'
  <2>1. pc[r] # "new"
    BY <1>0, <1>1, <1>2, HeadIs DEF ListInv, TypeOK, ListType
  <2>2. \A q \in Req : q # r => result'[q] = result[q]
    BY <1>0, <1>3 DEF TypeOK, ReqType
  <2> QED BY <1>0, <1>3, <2>1, <2>2 DEF CallerInv
<1>6. StopInv'
  <2>1. ctl.at = "flushing"
    BY <1>1 DEF IInv, SecInv
  <2> QED BY <1>0, <1>1, <1>3, <2>1 DEF StopInv
<1> QED BY <1>4, <1>5, <1>6 DEF AInv

LEMMA FlushWorkLists ==
  ASSUME OnlyAsync, IInv, AInv, FlushWork
  PROVE  AInv'
<1> DEFINE r == work_list[sec.pos]
<1>0. TypeOK /\ ListInv /\ CallerInv /\ StopInv
  BY DEF IInv, AInv
<1>1. /\ sec.at = "flushwork" /\ sec.pos = 1 /\ sec.pos <= Len(work_list)
      /\ pend_list = <<>> /\ q_state = "enabled"
  BY <1>0 DEF FlushWork, At, StopInv, Flushing
<1>2. work_list # <<>> /\ r = Head(work_list) /\ r \in Req /\ Kind[r] = "async"
  BY <1>0, <1>1, HeadIs DEF TypeOK, ListType, OnlyAsync
<1>3. /\ work_list' = Tail(work_list) /\ sec' = sec /\ result' = [result EXCEPT ![r] = "err"]
      /\ UNCHANGED <<q_state, pend_list, pc, ctl>>
  BY <1>0, <1>1, <1>2, ListDelHead DEF FlushWork, Abort, StaysListed, TypeOK, ListType
<1>4. ListInv'
  BY <1>0, <1>1, <1>2, <1>3, WorkHeadLeaves
<1>5. CallerInv'
  <2>1. pc[r] # "new"
    BY <1>0, <1>1, <1>2, HeadIs DEF ListInv, TypeOK, ListType
  <2>2. \A q \in Req : q # r => result'[q] = result[q]
    BY <1>0, <1>3 DEF TypeOK, ReqType
  <2> QED BY <1>0, <1>3, <2>1, <2>2 DEF CallerInv
<1>6. StopInv'
  <2>1. ctl.at = "flushing"
    BY <1>1 DEF IInv, SecInv
  <2> QED BY <1>0, <1>1, <1>3, <2>1 DEF StopInv
<1> QED BY <1>4, <1>5, <1>6 DEF AInv

-----------------------------------------------------------------------------
(* The control path                                                        *)

LEMMA FlushTurns ==
  ASSUME IInv, AInv, FlushNext \/ FlushEnd
  PROVE  AInv'
<1>0. TypeOK /\ ListInv /\ CallerInv /\ StopInv
  BY DEF IInv, AInv
<1>1. UNCHANGED <<q_state, work_req_pend, work_list, pend_list, pc, result>>
  BY DEF FlushNext, FlushEnd
<1>2. ListInv' /\ CallerInv'
  BY <1>0, <1>1 DEF ListInv, CallerInv
<1>3. CASE FlushNext
  <2>1. sec.at = "flushpend" /\ sec.pos = 1 /\ pend_list = <<>> /\ ctl' = ctl
    <3>1. sec.at = "flushpend" /\ sec.pos = 1 /\ sec.pos > Len(pend_list) /\ ctl' = ctl
      BY <1>0, <1>3 DEF FlushNext, At, StopInv, Flushing
    <3>2. Len(pend_list) \in Nat /\ (Len(pend_list) = 0 => pend_list = <<>>)
      BY <1>0 DEF TypeOK, ListType
    <3> QED BY <3>1, <3>2
  <2>2. sec'.at = "flushwork" /\ sec'.pos = 1
    BY <1>0, <1>3 DEF FlushNext, TypeOK, SecType
  <2>3. StopInv'
    BY <1>0, <1>1, <2>1, <2>2 DEF StopInv, Flushing
  <2> QED BY <1>2, <2>3 DEF AInv
<1>4. CASE FlushEnd
  <2>1. work_list = <<>> /\ pend_list = <<>> /\ q_state = "enabled"
    <3>1. sec.at = "flushwork" /\ sec.pos = 1 /\ sec.pos > Len(work_list)
      BY <1>0, <1>4 DEF FlushEnd, At, StopInv, Flushing
    <3>2. Len(work_list) \in Nat /\ (Len(work_list) = 0 => work_list = <<>>)
      BY <1>0 DEF TypeOK, ListType
    <3> QED BY <1>0, <3>1, <3>2 DEF StopInv, Flushing
  <2>2. sec'.at = "free" /\ ctl'.at = "detach"
    BY <1>0, <1>4 DEF FlushEnd, Free, TypeOK, ActorType
  <2>3. StopInv'
    BY <1>1, <2>1, <2>2 DEF StopInv, Flushing
  <2> QED BY <1>2, <2>3 DEF AInv
<1> QED BY <1>3, <1>4

LEMMA ControlLists ==
  ASSUME IInv, AInv, Start \/ StopBegin \/ Stop
  PROVE  AInv'
<1>0. TypeOK /\ ListInv /\ CallerInv /\ StopInv
  BY DEF IInv, AInv
<1>1. UNCHANGED <<work_list, pend_list, pc, result>>
  BY DEF Start, StartCheck, StartConfig, StartProgram, StartAttach, StartOnline, StopBegin,
         Stop, StopWaited, StopFlush, StopDetach, StopClear, StopRelease
<1>2. ListInv' /\ CallerInv'
  BY <1>0, <1>1 DEF ListInv, CallerInv
<1>3. StopInv'
  <2> USE DEF StopInv, Flushing
  <2>1. \A at : [ctl EXCEPT !.at = at].at = at
    BY <1>0 DEF TypeOK, ActorType
  <2>2. CASE StartCheck
    <3>1. ctl'.at = "config" /\ ctl.at = "idle" /\ UNCHANGED <<q_state, work_req_pend, sec>>
      BY <1>0, <2>2 DEF StartCheck, TypeOK, ActorType
    <3> QED BY <1>0, <1>1, <3>1
  <2>3. CASE StartConfig
    <3>1. ctl'.at = "program" /\ ctl.at = "config" /\ work_req_pend' = 0 /\ UNCHANGED <<q_state, sec>>
      BY <2>1, <2>3 DEF StartConfig
    <3>2. q_state = "enabled"
      BY <3>1 DEF IInv, CtlInv, Starting
    <3> QED BY <1>0, <1>1, <3>1, <3>2
  <2>4. CASE StartProgram
    <3>1. ctl'.at = "attach" /\ ctl.at = "program" /\ UNCHANGED <<q_state, work_req_pend, sec>>
      BY <2>1, <2>4 DEF StartProgram
    <3> QED BY <1>0, <1>1, <3>1
  <2>5. CASE StartAttach
    <3>1. ctl'.at = "online" /\ ctl.at = "attach" /\ UNCHANGED <<q_state, work_req_pend, sec>>
      BY <2>1, <2>5 DEF StartAttach
    <3> QED BY <1>0, <1>1, <3>1
  <2>6. CASE StartOnline
    <3>1. /\ ctl'.at = "idle" /\ ctl.at = "online" /\ q_state' = "online" /\ sec.owner = NoOne
          /\ UNCHANGED <<work_req_pend, sec>>
      BY <2>1, <2>6 DEF StartOnline, Unlocked
    <3>2. q_state = "enabled" /\ sec.at = "free"
      BY <3>1 DEF IInv, CtlInv, Starting, SecInv
    <3>3. work_req_pend = 0 /\ work_list = <<>>
      BY <1>0, <3>1, <3>2
    <3> QED BY <1>0, <1>1, <3>1, <3>2, <3>3
  <2>7. CASE StopBegin
    <3>1. /\ ctl'.at \in {"stopwait", "flush"} /\ ctl.at = "idle" /\ q_state = "online"
          /\ UNCHANGED <<q_state, work_req_pend, sec>>
      BY <1>0, <2>7 DEF StopBegin, TypeOK, ActorType
    <3> QED BY <1>0, <1>1, <3>1
  <2>8. CASE StopWaited
    <3>1. ctl'.at = "flush" /\ ctl.at = "stopwait" /\ UNCHANGED <<q_state, work_req_pend, sec>>
      BY <2>1, <2>8 DEF StopWaited
    <3>2. q_state = "online"
      BY <3>1 DEF IInv, CtlInv
    <3> QED BY <1>0, <1>1, <3>1, <3>2
  <2>9. CASE StopFlush
    <3>1. /\ ctl'.at = "flushing" /\ q_state' = "enabled" /\ sec'.at = "flushpend" /\ sec'.pos = 1
      BY <2>1, <2>9 DEF StopFlush, Enter
    <3> QED BY <3>1
  <2>10. CASE StopDetach
    <3>1. ctl'.at = "clear" /\ ctl.at = "detach" /\ UNCHANGED <<q_state, work_req_pend, sec>>
      BY <2>1, <2>10 DEF StopDetach
    <3> QED BY <1>0, <1>1, <3>1
  <2>11. CASE StopClear
    <3>1. ctl'.at = "release" /\ ctl.at = "clear" /\ UNCHANGED <<q_state, work_req_pend, sec>>
      BY <2>1, <2>11 DEF StopClear
    <3> QED BY <1>0, <1>1, <3>1
  <2>12. CASE StopRelease
    <3>1. ctl'.at = "idle" /\ ctl.at = "release" /\ UNCHANGED <<q_state, work_req_pend, sec>>
      BY <2>1, <2>12 DEF StopRelease
    <3> QED BY <1>0, <1>1, <3>1
  <2> QED BY <2>2, <2>3, <2>4, <2>5, <2>6, <2>7, <2>8, <2>9, <2>10, <2>11, <2>12
          DEF Start, Stop
<1> QED BY <1>2, <1>3 DEF AInv

\* Nobody waits, nobody submits a batch.
LEMMA OtherCallers ==
  ASSUME OnlyAsync, AInv
  PROVE  /\ \A r \in Req : ~Return(r) /\ ~TimeOut(r)
         /\ \A s \in Batches, n \in 1..MaxNeed : ~BatchSubmit(s, n)
<1>1. \A r \in Req : ~Return(r) /\ ~TimeOut(r)
  BY DEF AInv, CallerInv, Return, TimeOut
<1>2. ASSUME NEW s \in Batches, NEW n \in 1..MaxNeed PROVE ~BatchSubmit(s, n)
  <2>1. 1 \in 1..Len(s) /\ s[1] \in Req
    BY DEF Batches
  <2> QED BY <2>1 DEF BatchSubmit, OnlyAsync
<1> QED BY <1>1, <1>2

\* Steps of the section, the contexts and the device that leave the lists alone.
LEMMA QuietLists ==
  ASSUME IInv, AInv,
         \/ \E r \in Req : ProcRequest(r)
         \/ CmplNothing \/ CmplCredits \/ CmplPart \/ CmplRearm
         \/ FillPoll \/ FillEnd \/ Doorbell \/ ServiceEnd
         \/ Thread \/ Work \/ HwStep \/ UNCHANGED vars
  PROVE  AInv'
<1>0. sec \in [owner : Actors \cup {NoOne},
               at : {"free", "cmpl", "credit", "fill", "refill", "doorbell", "exit",
                     "service", "flushpend", "flushwork"},
               ret : {"fill", "refill", "exit", "service"}, written : Nat, pos : Nat \ {0}]
      /\ (sec.at = "free" <=> sec.owner = NoOne)
  BY DEF IInv, TypeOK, SecType, SecInv
<1>1. UNCHANGED <<q_state, work_req_pend, work_list, pend_list, pc, result, ctl>>
  BY DEF ProcRequest, CmplNothing, CmplCredits, CmplPart, CmplRearm, PidxUpdate, Interrupt,
         FillPoll, FillEnd, Doorbell, ServiceEnd, Thread, ThreadCheck, ThreadWake, ThreadRun,
         Work, Service, ServiceProc, HwStep, vars
<1>2. sec' = sec \/ (sec.at \notin Flushing /\ sec'.at \notin Flushing)
  <2>1. CASE \/ \E r \in Req : ProcRequest(r)
             \/ ThreadRun \/ ServiceProc \/ Service
    BY <1>0, <2>1 DEF ProcRequest, ThreadRun, ServiceProc, Service, EnterProc, Enter, Unlocked,
                      Flushing
  <2>2. CASE CmplNothing \/ CmplCredits \/ CmplRearm \/ FillPoll \/ FillEnd
    BY <1>0, <2>2 DEF CmplNothing, CmplCredits, CmplRearm, FillPoll, FillEnd, At, Goto, Call,
                      Flushing
  <2>3. CASE Doorbell
    BY <1>0, <2>3 DEF Doorbell, At, Goto, Call, Flushing
  <2>4. CASE ServiceEnd
    BY <1>0, <2>4 DEF ServiceEnd, At, Free, Flushing
  <2>5. CASE CmplPart \/ ThreadCheck \/ ThreadWake \/ HwStep \/ UNCHANGED vars
    BY <2>5 DEF CmplPart, ThreadCheck, ThreadWake, HwStep, vars
  <2> QED BY <2>1, <2>2, <2>3, <2>4, <2>5 DEF Thread, Work
<1> QED BY <1>1, <1>2, AFrame

LEMMA NextAInv ==
  ASSUME OnlyAsync, IInv, AInv, [Next]_vars
  PROVE  AInv'
<1>1. ASSUME NEW r \in Req, Caller(r) PROVE AInv'
  BY <1>1, SubmitLists, RefuseLists, QuietLists, OtherCallers DEF Caller
<1>2. CASE Section
  <2>1. CASE Fill \/ Refill
    <3>1. CASE Fill
      BY <3>1, WriteLists DEF Fill
    <3>2. CASE Refill
      <4>1. work_list # <<>>
        BY <3>2 DEF Refill, At, IInv, SecInv
      <4> QED BY <3>2, <4>1, WriteLists DEF Refill
    <3> QED BY <2>1, <3>1, <3>2
  <2> QED BY <1>2, <2>1, QuietLists, CmplDoneLists, ExitLists, FlushPendLists, FlushWorkLists,
             FlushTurns DEF Section
<1>3. CASE Thread \/ Work \/ HwStep \/ UNCHANGED vars
  BY <1>3, QuietLists
<1>4. CASE Start \/ StopBegin \/ Stop
  BY <1>4, ControlLists
<1> QED BY <1>1, <1>2, <1>3, <1>4, OtherCallers DEF Next

LEMMA ListsInductive == ASSUME OnlyAsync PROVE Spec => [](IInv /\ AInv)
<1>1. Init => AInv
  BY InitAInv
<1>2. IInv /\ AInv /\ [Next]_vars => AInv'
  BY NextAInv
<1> QED BY <1>1, <1>2, Inductive, PTL DEF Spec

\* A request whose caller has been called back, and may have freed it, is on
\* neither list (qdma_sgt_req_done, the walk over both lists in
\* qdma_queue_stop).
THEOREM NothingDangles == ASSUME OnlyAsync PROVE Spec => []NoDanglingRequest
<1>1. AInv => NoDanglingRequest
  BY DEF AInv, ListInv, NoDanglingRequest, Listed
<1> QED BY <1>1, ListsInductive, PTL

\* A queue that was stopped, or never started, keeps no request
\* (qdma_queue_stop).
THEOREM StopEmpties == ASSUME OnlyAsync PROVE Spec => []StoppedQueueEmpty
<1>1. AInv => StoppedQueueEmpty
  BY DEF AInv, StopInv, StoppedQueueEmpty
<1> QED BY <1>1, ListsInductive, PTL

\* work_req_pend is the length of work_list whenever the queue is online, so
\* that interrupt service does not leave requests behind.
THEOREM WorkIsCounted == ASSUME OnlyAsync PROVE Spec => []WorkReqPendCounts
<1>1. AInv => WorkReqPendCounts
  BY DEF AInv, StopInv, WorkReqPendCounts
<1> QED BY <1>1, ListsInductive, PTL
=============================================================================
