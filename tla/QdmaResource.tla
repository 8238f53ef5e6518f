---------------------------- MODULE QdmaResource ----------------------------
(***************************************************************************)
(* The queue resource manager (qdma_access/qdma_resource_mgmt.c) of one    *)
(* board and the functions that use it: the physical functions call it,    *)
(* the virtual functions reach it through the mailbox handler of their     *)
(* parent (qdma_mbox_protocol.c, qdma_mbox_pf_rcv_msg_handler).            *)
(*                                                                         *)
(* A free list of chunks, sorted by qbase, and one entry per attached      *)
(* function share the board's queues.  The driver of a function keeps its  *)
(* own picture of its range (qdev->qbase, qdev->qmax) and the state of its *)
(* descriptor queues; a queue that is ENABLED or ONLINE is in `queues`,    *)
(* also one that a failed addition left behind.                            *)
(*                                                                         *)
(* One operation of a function is one action: functions are probed one     *)
(* after another and memory is available.  A virtual function gets its     *)
(* answers, except that the notice of an added queue, or its answer, may   *)
(* be lost.  Legacy interrupt mode, which can undo an addition, is in      *)
(* QueueLifecycle.                                                         *)
(***************************************************************************)
EXTENDS Integers, SequencesExt

CONSTANTS
  PF, VF,          \* the physical and the virtual functions of the board
  Parent,          \* VF -> PF: whose mailbox serves the virtual function
  TotalQ,          \* queues of the board, from qbase 0
  Kinds,           \* the kinds of queue added: records [t, st]
  MaxQcnt,         \* bound: queues counted at one time on the board
  MaxLeft,         \* bound: queues that failed additions leave at one time
  QcntMod,         \* the active queue counters count modulo this
  Nobody           \* the owner of a free queue

ASSUME TotalAssumption == TotalQ \in Nat /\ TotalQ >= 1
ASSUME ParentAssumption == Parent \in [VF -> PF] /\ PF \cap VF = {}
ASSUME FunctionAssumption == IsFiniteSet(PF) /\ IsFiniteSet(VF) /\ Nobody \notin PF \cup VF
ASSUME CountAssumption == MaxQcnt \in Nat /\ QcntMod \in Nat /\ MaxQcnt < QcntMod
ASSUME LeftAssumption == MaxLeft \in Nat

VARIABLES
  master,          \* the master resource of the board exists
  free_list,       \* its free chunks: a sequence of [qbase, total_q]
  dev_list,        \* the functions that have a device entry
  entry,           \* their entries: qbase, total_q, active queue counts
  active_qcnt,     \* the board's count of active queues
  drv,             \* per function, its driver: open, qbase, qmax, queues and, for a
                   \* physical function, init_qrange (see QueueAddUnprepared)
  drained          \* history: the count went down for a queue left by a failed addition

vars == <<master, free_list, dev_list, entry, active_qcnt, drv, drained>>

Func   == PF \cup VF
QTypes == {"H2C", "C2H", "CMPT"}
ASSUME KindAssumption == Kinds \subseteq [t : QTypes, st : BOOLEAN]

Chunk(b, n) == [qbase |-> b, total_q |-> n]
End(c) == c.qbase + c.total_q
Covers(c) == c.qbase .. End(c) - 1

FreshEntry == [qbase |-> -1, total_q |-> 0, active |-> [t \in QTypes |-> 0]]
ClosedDrv  == [open |-> FALSE, qbase |-> -1, qmax |-> 0, init_qrange |-> FALSE,
               queues |-> {}]
OpenedDrv  == [ClosedDrv EXCEPT !.open = TRUE]

----------------------------------------------------------------------------
(* The free list.                                                          *)

\* (Operators whose names carry a suffix _... are faulty variants of the
\* definition that follows them; no behaviour of Spec uses them.)
InsertChunk_AtTail(c, list) == Append(list, c)

InsertChunk(c, list) ==
  LET later == {i \in DOMAIN list : list[i].qbase > c.qbase} IN
  IF later = {} THEN Append(list, c) ELSE InsertAt(list, Min(later), c)

\* Chunk c goes into the last chunk when that ends where c begins.
Stretched(list, c) ==
  IF list # <<>> /\ End(Last(list)) = c.qbase
  THEN [list EXCEPT ![Len(list)].total_q = @ + c.total_q]
  ELSE Append(list, c)

MergeChunks(list) ==
  LET merged[n \in 0 .. Len(list)] ==
        IF n = 0 THEN <<>> ELSE Stretched(merged[n - 1], list[n])
  IN merged[Len(list)]

\* Give the queues of entry e back; nothing happens when it has none.
SubmitToFreeList(e, list) ==
  IF e.total_q = 0 THEN list
  ELSE MergeChunks(InsertChunk(Chunk(e.qbase, e.total_q), list))

\* The chunk a request for qmax queues, at qbase if that is not negative,
\* is cut from, 0 when none can hold it.
PickChunk(qmax, qbase, list) ==
  LET honoured == {i \in DOMAIN list : /\ qbase >= list[i].qbase
                                       /\ End(list[i]) >= qbase + qmax}
      fitting  == {i \in DOMAIN list : list[i].total_q >= qmax}
      tightest == {i \in fitting :
                     \A j \in fitting : list[i].total_q <= list[j].total_q}
  IN IF qbase >= 0 /\ honoured # {} THEN Min(honoured)
     ELSE IF fitting # {} THEN Max(tightest) ELSE 0

\* Where in that chunk the request is placed.
PlaceIn(c, qmax, qbase) ==
  IF qbase >= c.qbase /\ End(c) >= qbase + qmax THEN qbase ELSE c.qbase

\* The free list after qmax queues at b have been cut out of chunk i.
CutOut(list, i, b, qmax) ==
  LET head == IF b > list[i].qbase
              THEN <<Chunk(list[i].qbase, b - list[i].qbase)>> ELSE <<>>
      tail == IF b + qmax < End(list[i])
              THEN <<Chunk(b + qmax, End(list[i]) - b - qmax)>> ELSE <<>>
  IN SubSeq(list, 1, i - 1) \o head \o tail \o SubSeq(list, i + 1, Len(list))

\* qdma_get_resource_node: the queues found and the list without them.
GetResourceNode(qmax, qbase, list) ==
  LET i == PickChunk(qmax, qbase, list) IN
  IF i = 0 THEN [found |-> FALSE, qbase |-> -1, total_q |-> 0, list |-> list]
  ELSE LET b == PlaceIn(list[i], qmax, qbase) IN
       [found |-> TRUE, qbase |-> b, total_q |-> qmax,
        list |-> CutOut(list, i, b, qmax)]

RequestQResource_NoRestore(e, new_qmax, new_qbase, list) ==
  LET pool == SubmitToFreeList(e, list)
      wish == GetResourceNode(new_qmax, new_qbase, pool)
  IN IF wish.found
     THEN [rv |-> "ok", list |-> wish.list,
           entry |-> [e EXCEPT !.qbase = wish.qbase, !.total_q = wish.total_q]]
     ELSE [rv |-> "no_queues_left", list |-> pool,
           entry |-> [e EXCEPT !.qbase = -1, !.total_q = 0]]

\* qdma_request_q_resource: give the old queues back, take the new ones, and
\* take the old ones again when the new ones cannot be had.
RequestQResource(e, new_qmax, new_qbase, list) ==
  LET pool  == SubmitToFreeList(e, list)
      wish  == GetResourceNode(new_qmax, new_qbase, pool)
      old   == GetResourceNode(e.total_q, e.qbase, pool)
      Holding(n) == [e EXCEPT !.qbase = n.qbase, !.total_q = n.total_q]
      emptied == [e EXCEPT !.qbase = IF e.total_q = 0 THEN @ ELSE -1,
                           !.total_q = 0]
  IN IF new_qmax = 0 THEN [rv |-> "ok", entry |-> emptied, list |-> pool]
     ELSE IF wish.found
     THEN [rv |-> "ok", entry |-> Holding(wish), list |-> wish.list]
     ELSE [rv |-> "no_queues_left", entry |-> Holding(old), list |-> old.list]

HasActive(e) == \E t \in QTypes : e.active[t] > 0

\* qdma_dev_update.
DevUpdate(f, qmax, qbase) ==
  IF HasActive(entry[f])
  THEN [rv |-> "conf_rejected", entry |-> entry[f], list |-> free_list]
  ELSE RequestQResource(entry[f], qmax, qbase, free_list)

----------------------------------------------------------------------------
(* Active queue counts.                                                    *)

\* The counters a queue of kind k is counted in.
Counted(k) == IF k.t = "C2H" /\ k.st THEN {"C2H", "CMPT"} ELSE {k.t}
KindOf(q) == [t |-> q.conf, st |-> q.st]
CountedIn(t, qs) == Cardinality({q \in qs : t \in Counted(KindOf(q))})

InRange(f, qid) ==
  entry[f].total_q > 0 /\ qid >= entry[f].qbase /\ qid < End(entry[f])

\* Adding a queue is counted unless a counter is at its limit or, for a
\* virtual function, the handler finds the queue out of range.  (It always
\* is when the driver has room: AlwaysCounted in QdmaResourceProofs.)
CountAccepted(f, k, qid) ==
  /\ \A t \in Counted(k) : entry[f].total_q >= entry[f].active[t] + 1
  /\ f \in VF => InRange(f, qid)

IncrementedIn(e, ts) ==
  [e EXCEPT !.active = [t \in QTypes |-> IF t \in ts THEN @[t] + 1 ELSE @[t]]]

Incremented_OwnType(e, k) == [e EXCEPT !.active[k.t] = @ + 1]

Incremented(e, k) == IncrementedIn(e, Counted(k))

BoardIncrement(k) == Cardinality(Counted(k))

\* A counter of the entry stops at 0, the board's counter does not.
Decremented(e, qs) ==
  [e EXCEPT !.active = [t \in QTypes |->
     IF @[t] > CountedIn(t, qs) THEN @[t] - CountedIn(t, qs) ELSE 0]]
BoardDecrement(qs) ==
  CountedIn("H2C", qs) + CountedIn("C2H", qs) + CountedIn("CMPT", qs)
BoardDecremented(qs) == (active_qcnt - BoardDecrement(qs)) % QcntMod

----------------------------------------------------------------------------
(* The driver of a function.                                               *)

\* is_usable_queue: may a queue of kind k be added at index i?
UsableQueue(qs, i, k) ==
  LET Has(t) == \E q \in qs : q.idx = i /\ q.t = t
      streaming == \E q \in qs : q.idx = i /\ q.t # "CMPT" /\ q.st
      other == IF k.t = "H2C" THEN "C2H" ELSE "H2C"
  IN /\ ~Has(k.t)
     /\ IF k.t = "CMPT" THEN ~streaming
        ELSE /\ k.st => ~Has("CMPT")
             /\ Has(other) => (k.st = streaming)

\* The index is in range and fewer than qmax queues of the type are counted.
RoomFor(f, k, i) == i < drv[f].qmax /\ entry[f].active[k.t] < drv[f].qmax

\* A queue in the array of type t at index idx, with the type and the mode its
\* configuration has; told: qdma_queue_add returned its handle.
NewQueue(k, i, told) ==
  [idx |-> i, t |-> k.t, conf |-> k.t, st |-> k.st, told |-> told]

\* It is enabled before it is configured: its configuration is still all zero.
Unprepared(k, i) ==
  [idx |-> i, t |-> k.t, conf |-> "H2C", st |-> FALSE, told |-> FALSE]

\* The queues qdma_device_cleanup removes from the counters, when entry e is
\* what the manager has of f: also the ones a failed addition left, but no
\* completion queue, and none of a virtual function that is out of its range.
CleanedUp(f, e) ==
  {q \in drv[f].queues :
     q.t # "CMPT" /\ (f \in VF => drv[f].qbase + q.idx \in Covers(e))}

Drained(qs) == drained \/ \E q \in qs : ~q.told

Init ==
  /\ master = FALSE /\ free_list = <<>>
  /\ dev_list = {} /\ entry = [f \in Func |-> FreshEntry]
  /\ active_qcnt = 0
  /\ drv = [f \in Func |-> ClosedDrv]
  /\ drained = FALSE

\* qdma_master_resource_create: the first function creates the free list.
MasterResourceCreate ==
  /\ master' = TRUE
  /\ IF master THEN UNCHANGED <<free_list, active_qcnt, drained>>
     ELSE free_list' = <<Chunk(0, TotalQ)>> /\ active_qcnt' = 0 /\ drained' = FALSE

\* qdma_master_resource_destroy does nothing while there are device entries.
DestroysMaster(f) == f \in PF /\ dev_list = {f}

DevEntryCreate(f) ==
  /\ dev_list' = dev_list \cup {f}
  /\ entry' = [entry EXCEPT ![f] = FreshEntry]

\* qdma_dev_entry_destroy: the range goes back, the counts are dropped.
DevEntryDestroy(f) ==
  /\ dev_list' = dev_list \ {f}
  /\ entry' = [entry EXCEPT ![f] = FreshEntry]
  /\ IF DestroysMaster(f) THEN free_list' = <<>>
     ELSE free_list' = SubmitToFreeList(entry[f], free_list)

\* qdma_device_open of a physical function; HELLO of a virtual function while
\* its parent is there.  The new function asks for no queues.
Open(f) ==
  /\ ~drv[f].open
  /\ f \in VF => drv[Parent[f]].open
  /\ drv' = [drv EXCEPT ![f] = OpenedDrv]
  /\ MasterResourceCreate
  /\ DevEntryCreate(f)

\* qdma_set_qmax, and qdma_vf_qconf with the QREQ it sends: only a granted
\* request reaches the driver, which then cleans up and rebuilds its queues.
SetQmax(f, n) ==
  LET u    == DevUpdate(f, n, -1)
      gone == CleanedUp(f, u.entry) IN
  /\ drv[f].open
  /\ free_list' = u.list
  /\ IF u.rv = "ok"
     THEN /\ entry' = [entry EXCEPT ![f] = Decremented(u.entry, gone)]
          /\ active_qcnt' = BoardDecremented(gone) /\ drained' = Drained(gone)
          /\ drv' = [drv EXCEPT ![f] = [OpenedDrv EXCEPT !.qbase = u.entry.qbase,
                                                        !.qmax = u.entry.total_q]]
     ELSE /\ entry' = [entry EXCEPT ![f] = u.entry]
          /\ UNCHANGED <<active_qcnt, drv, drained>>
  /\ UNCHANGED <<master, dev_list>>

\* What qdma_queue_add checks before it enables the descriptor queue at i.
MayAdd(f, k, i) ==
  /\ drv[f].open /\ RoomFor(f, k, i)
  /\ UsableQueue(drv[f].queues, i, k)
  /\ active_qcnt + BoardIncrement(k) <= MaxQcnt

\* qdma_queue_add with the index i given, the queue resources prepared.
QueueAdd(f, k, i) ==
  LET counted == CountAccepted(f, k, drv[f].qbase + i) IN
  /\ MayAdd(f, k, i)
  /\ drv' = [drv EXCEPT ![f].init_qrange = f \in PF,
                        ![f].queues = @ \cup {NewQueue(k, i, counted)}]
  /\ IF counted
     THEN /\ entry' = [entry EXCEPT ![f] = Incremented(@, k)]
          /\ active_qcnt' = active_qcnt + BoardIncrement(k)
     ELSE UNCHANGED <<entry, active_qcnt>>
  /\ UNCHANGED <<master, free_list, dev_list, drained>>

LeftBehind == {u \in Func \X UNION {drv[f].queues : f \in Func} :
                 u[2] \in drv[u[1]].queues /\ ~u[2].told}

\* A failed addition leaves the queue enabled.
Left(f, k, i) ==
  /\ MayAdd(f, k, i)
  /\ Cardinality(LeftBehind) < MaxLeft
  /\ UNCHANGED <<master, free_list, dev_list, drained>>

\* qdma_device_prep_q_resource cannot read the CSRs or write the range, which
\* it does until it succeeds once: a physical function returns with the queue
\* enabled and uncounted.  (A virtual one disables it again: no change.)
QueueAddUnprepared(f, k, i) ==
  /\ f \in PF /\ ~drv[f].init_qrange
  /\ Left(f, k, i)
  /\ drv' = [drv EXCEPT ![f].queues = @ \cup {Unprepared(k, i)}]
  /\ UNCHANGED <<entry, active_qcnt>>

\* qdma_dev_notify_qadd of a virtual function fails: the queue stays enabled,
\* and the handler has counted it nowhere or in the counters ts.  (The notice
\* that takes the C2H count of a stream queue back may be lost as well.)
QueueAddUnanswered(f, k, i, ts) ==
  /\ f \in VF /\ ts \subseteq Counted(k)
  /\ Left(f, k, i)
  /\ CountAccepted(f, k, drv[f].qbase + i)
  /\ drv' = [drv EXCEPT ![f].queues = @ \cup {NewQueue(k, i, FALSE)}]
  /\ entry' = [entry EXCEPT ![f] = IncrementedIn(@, ts)]
  /\ active_qcnt' = active_qcnt + Cardinality(ts)

\* qdma_queue_remove; a virtual function keeps a queue the handler disowns.
\* No handle was ever returned for a queue that a failed addition left.
QueueRemove(f, q) ==
  /\ drv[f].open /\ q \in drv[f].queues /\ q.told
  /\ f \in VF => InRange(f, drv[f].qbase + q.idx)
  /\ drv' = [drv EXCEPT ![f].queues = @ \ {q}]
  /\ entry' = [entry EXCEPT ![f] = Decremented(@, {q})]
  /\ active_qcnt' = BoardDecremented({q})
  /\ UNCHANGED <<master, free_list, dev_list, drained>>

\* qdma_device_close, and BYE of a virtual function: clean the queues up,
\* give the range back, drop the entry; the last physical function to leave
\* takes the master with it.
Close(f) ==
  /\ drv[f].open
  /\ \A v \in VF : Parent[v] = f => ~drv[v].open
  /\ drv' = [drv EXCEPT ![f] = ClosedDrv]
  /\ DevEntryDestroy(f)
  /\ master' = ~DestroysMaster(f)
  /\ IF DestroysMaster(f) THEN active_qcnt' = 0 /\ drained' = FALSE
     ELSE LET gone == CleanedUp(f, entry[f]) IN
          active_qcnt' = BoardDecremented(gone) /\ drained' = Drained(gone)

Next ==
  \E f \in Func :
    \/ Open(f)
    \/ \E n \in 0 .. TotalQ + 1 : SetQmax(f, n)
    \/ \E k \in Kinds, i \in 0 .. TotalQ - 1 :
         \/ QueueAdd(f, k, i)
         \/ QueueAddUnprepared(f, k, i)
         \/ \E ts \in SUBSET QTypes : QueueAddUnanswered(f, k, i, ts)
    \/ \E q \in drv[f].queues : QueueRemove(f, q)
    \/ Close(f)

Spec == Init /\ [][Next]_vars

----------------------------------------------------------------------------
(* Properties.                                                             *)

QueueSet == [idx : 0 .. TotalQ - 1, t : QTypes, conf : QTypes, st : BOOLEAN,
             told : BOOLEAN]
ToldOf(qs) == {q \in qs : q.told}

\* The state has the types the code gives it.
TypeOK ==
  /\ master \in BOOLEAN
  /\ \A i \in DOMAIN free_list :
       free_list[i].qbase \in 0 .. TotalQ - 1 /\ free_list[i].total_q \in 1 .. TotalQ
  /\ dev_list \subseteq Func
  /\ entry \in [Func -> [qbase : -1 .. TotalQ - 1, total_q : 0 .. TotalQ,
                         active : [QTypes -> 0 .. TotalQ]]]
  /\ active_qcnt \in 0 .. QcntMod - 1
  /\ drv \in [Func -> [open : BOOLEAN, qbase : -1 .. TotalQ - 1,
                       qmax : 0 .. TotalQ, init_qrange : BOOLEAN,
                       queues : SUBSET QueueSet]]
  /\ drained \in BOOLEAN

\* Submitting, splitting and merging lose no queue and hand none out twice:
\* the free chunks and the ranges of the functions, in whatever order they
\* were cut and given back, partition the queues of the board, and the free
\* list stays sorted (qdma_submit_to_free_list relies on it to merge).
QueuesPartitioned ==
  master =>
    /\ \A i, j \in DOMAIN free_list : i < j => End(free_list[i]) <= free_list[j].qbase
    /\ \A f, g \in dev_list : f # g => Covers(entry[f]) \cap Covers(entry[g]) = {}
    /\ \A f \in dev_list, i \in DOMAIN free_list :
         Covers(entry[f]) \cap Covers(free_list[i]) = {}
    /\ (UNION {Covers(entry[f]) : f \in dev_list})
         \cup (UNION {Covers(free_list[i]) : i \in DOMAIN free_list}) = 0 .. TotalQ - 1

\* The counters of a function follow the queues its callers know through
\* additions that fail at every stage, exchanges of the range and departures:
\* a physical function's count exactly these, a virtual function's at least
\* these and never more than the driver has enabled, so that a function's
\* counters are ahead of its queues only for a notice whose answer was lost.
\* A stream C2H queue is counted with its completion.
CountsMatchQueues ==
  \A f \in Func, t \in QTypes :
    LET known == CountedIn(t, ToldOf(drv[f].queues)) IN
    /\ f \in PF => entry[f].active[t] = known
    /\ f \in VF => entry[f].active[t] \in known .. CountedIn(t, drv[f].queues)

\* What the board has to count: a known queue of a function in a counter.
Active ==
  {u \in Func \X QTypes \X QueueSet :
     u[3] \in ToldOf(drv[u[1]].queues) /\ u[2] \in Counted(KindOf(u[3]))}

\* The board never counts fewer queues than its functions have, so
\* qdma_global_csr_set, qdma_set_buf_sz and the others that ask
\* qdma_get_active_queue_count are never let through while a queue is active.
\* The code breaks this alone: a clean-up lowers the board's count for a queue
\* left by a failed addition, which it never counted.
CsrGuardSafe == master => active_qcnt >= Cardinality(Active)

\* Short of that the guard holds, whatever else functions do and leave undone.
CsrGuardHolds == ~drained => CsrGuardSafe

\* The books of the manager are true: types, counts and the board's counter,
\* through additions that fail and functions that leave with queues in use.
BooksOK == TypeOK /\ CountsMatchQueues /\ CsrGuardHolds

\* The picture QueuePool has of all this.
Owner == [q \in 0 .. TotalQ - 1 |->
            IF \E f \in dev_list : q \in Covers(entry[f])
            THEN CHOOSE f \in dev_list : q \in Covers(entry[f]) ELSE Nobody]
Granted == [f \in Func |-> drv[f].qmax]
Placed == [f \in Func |-> {drv[f].qbase + q.idx : q \in ToldOf(drv[f].queues)}]

\* The resource manager implements QueuePool: a refused request leaves the
\* function its queues, a granted one is a run of exactly what was asked, a
\* queue in use (one its caller knows of) never changes hands.
Pool == INSTANCE QueuePool WITH owner <- Owner, granted <- Granted, inUse <- Placed
PoolImplemented == Pool!Spec
=============================================================================
