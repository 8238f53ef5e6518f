--------------------------- MODULE QueueLifecycle ---------------------------
(***************************************************************************)
(* The life of the queues of one physical function: libqdma's queue        *)
(* functions (qdma_queue_add, _start, _stop, _remove, qdma_device_cleanup) *)
(* together with the front end that calls them for netlink commands and    *)
(* keeps a character device for every pair of queues (xpdev_queue_add,     *)
(* xpdev_queue_delete, xpdev_device_cleanup).                              *)
(*                                                                         *)
(* One queue is spread over six books: its descriptor descq (state, mode,  *)
(* rings), the counters of the resource manager, the completion worker and *)
(* the interrupt vector it is assigned to, the list of the legacy          *)
(* interrupt, and the front end's qdata and device.  Netlink runs one      *)
(* command at a time and none while the function is reset, so an action is *)
(* one whole command on one queue; what can go wrong is one step of        *)
(* several failing and what earlier commands left behind.  A refused       *)
(* command, and a start that fails (it frees what it allocated), change    *)
(* nothing and have no action.                                             *)
(***************************************************************************)
EXTENDS Integers, FiniteSets

CONSTANTS
  QMax,       \* queues of each type the function has
  Workers,    \* completion threads (polled) or processors (interrupts)
  Vectors,    \* data interrupt vectors
  Modes,      \* driver modes to start in, of "poll", "direct", "legacy"
  AnyAuto,    \* an index is also left to the driver when index 0 is taken
  MaxFail,    \* bound: additions that fail half-way
  MaxUsed     \* bound: queues in use at a time

ASSUME SizeAssumption ==
  /\ QMax \in Nat \ {0} /\ Workers \in Nat \ {0} /\ Vectors \in Nat \ {0}
  /\ Modes \subseteq {"poll", "direct", "legacy"} /\ Modes # {}
  /\ AnyAuto \in BOOLEAN /\ MaxFail \in Nat /\ MaxUsed \in Nat

VARIABLES
  mode,       \* conf.qdma_drv_mode
  up,         \* "up", "down" after a reset, "bare" while qmax is still zero
  q,          \* q[p]: descq p of the one array of 3 * qmax descqs
  active,     \* active[t]: active_h2c_qcnt, active_c2h_qcnt, active_cmpt_qcnt
  worker,     \* worker[p]: the worker of queue p, 0 for none
  load,       \* load[w]: work_cnt of a thread, per_cpu_qcnt of a processor
  vec,        \* vec[p]: the vector whose intr_list queue p is on, 0 for none
  vecCnt,     \* vecCnt[v]: intr_list_cnt
  legacy,     \* [list |-> legacy_intr_q_list, irq |-> is it requested]
  qdata,      \* qdata[h]: what the front end knows of queue h
  devs,       \* devs[d]: the character device d, or NoDev
  failed,     \* the additions that failed after their queue was enabled
  uncounted,  \* those of them the resource manager does not count
  lost        \* completion queues in use when their descq was freed

qvars   == <<q, active>>
books   == <<worker, load, vec, vecCnt>>
front   == <<qdata, devs>>
history == <<failed, uncounted, lost>>
vars    == <<mode, up, q, active, worker, load, vec, vecCnt, legacy, qdata,
             devs, failed, uncounted, lost>>

Types == {"H2C", "C2H", "CMPT"}
Dirs  == {"H2C", "C2H"}
Other(t) == IF t = "H2C" THEN "C2H" ELSE "H2C"

\* The three arrays of descqs are one allocation, and a handle is a position
\* in it, as it is in the front end's qdata.
Slots == 0 .. 3 * QMax - 1
Base(t) == CASE t = "H2C" -> 0 [] t = "C2H" -> QMax [] t = "CMPT" -> 2 * QMax
Slot(t, i) == Base(t) + i

Indexes == 0 .. QMax - 1
DevIds == 1 .. 2 * QMax
NoDev  == [idx |-> -1]

\* kzalloc: a fresh descq is disabled, memory mapped and host to card.
Fresh == [state |-> "DISABLED", st |-> FALSE, type |-> "H2C", idx |-> 0]
FreshQ == [p \in Slots |-> Fresh]
NoData == [hndl |-> 0, dev |-> 0]

InUse(p) == q[p].state # "DISABLED"

----------------------------------------------------------------------------
(* Adding a queue.                                                         *)

Present(i) == {t \in Types : InUse(Slot(t, i))}
Streams(i) == \E t \in Dirs \cap Present(i) : q[Slot(t, i)].st

IsUsable_AnyPair(i, t, st) ==
  IF t = "CMPT" THEN "CMPT" \notin Present(i) /\ ~Streams(i)
  ELSE t \notin Present(i)

\* May a queue of type t and mode st live at index i?
IsUsable(i, t, st) ==
  IF t = "CMPT" THEN "CMPT" \notin Present(i) /\ ~Streams(i)
  ELSE /\ t \notin Present(i)
       /\ st => "CMPT" \notin Present(i)
       /\ Other(t) \in Present(i) => (st <=> Streams(i))

\* Where an automatic choice of index i is enabled: the loop has moved the
\* pointer i places when it moves it i places more.
AutoLanding(t, i) == Slot(t, 2 * i)

\* The free index an automatic choice takes.
AutoChoice(t, st) ==
  {i \in Indexes : /\ IsUsable(i, t, st)
                   /\ \A j \in 0 .. i - 1 : ~IsUsable(j, t, st)}

\* The counters a queue counts in.
Counted(t, st) == IF st /\ t = "C2H" THEN {t, "CMPT"} ELSE {t}

Increment(cnt, ts) == [t \in Types |-> IF t \in ts THEN cnt[t] + 1 ELSE cnt[t]]

Decrement(cnt, ts) ==
  [t \in Types |-> IF t \in ts /\ cnt[t] > 0 THEN cnt[t] - 1 ELSE cnt[t]]

Enabled(p, t, st, i) ==
  [q EXCEPT ![p] = [state |-> "ENABLED", st |-> st, type |-> t, idx |-> i]]

\* The legacy interrupt serves one queue and is requested with it.
LegacySetup(p) ==
  IF mode = "legacy" THEN legacy.list = {} /\ legacy' = [list |-> {p}, irq |-> TRUE]
  ELSE UNCHANGED legacy

LegacyCleared_KeepsIrq(ps) == [legacy EXCEPT !.list = @ \ ps]
LegacyCleared(ps) ==
  [list |-> legacy.list \ ps,
   irq  |-> legacy.irq /\ (ps = {} \/ legacy.list \ ps # {})]

\* The place p an addition lands on: index i was asked for, or left to the
\* driver, which chooses i.
Lands(t, st, i, p) ==
  \/ IsUsable(i, t, st) /\ p = Slot(t, i)
  \/ /\ i \in AutoChoice(t, st)
     /\ AnyAuto \/ i = 0
     /\ p = AutoLanding(t, i)

AddGuard(t, st, i, p) ==
  /\ up = "up" /\ ~(t = "CMPT" /\ st)
  /\ active[t] < QMax
  /\ Cardinality({r \in Slots : InUse(r)}) < MaxUsed
  /\ Lands(t, st, i, p)

NewDev(t, i, h) ==
  [idx |-> i, hndl |-> [[u \in Dirs |-> 0] EXCEPT ![t] = h], init |-> {t}]

FreeDev == CHOOSE d \in DevIds : /\ devs[d] = NoDev
                                 /\ \A e \in DevIds : devs[e] = NoDev => d <= e

Joined_KeepsHandle(d, t, h) == [devs[d] EXCEPT !.init = @ \cup {t}]

\* Device d also serves direction t, through handle h.
Joined(d, t, h) == [devs[d] EXCEPT !.init = @ \cup {t}, !.hndl[t] = h]

\* One device per pair: the second direction shares the device of the first.
Register(t, i, h) ==
  LET o == qdata[Slot(Other(t), i)].dev
      d == IF o # 0 THEN o ELSE FreeDev
  IN IF t = "CMPT"
     THEN qdata' = [qdata EXCEPT ![h].hndl = h] /\ UNCHANGED devs
     ELSE /\ qdata' = [qdata EXCEPT ![h] = [hndl |-> h, dev |-> d]]
          /\ devs' = [devs EXCEPT ![d] = IF o # 0 THEN Joined(d, t, h)
                                         ELSE NewDev(t, i, h)]

Add(t, st, i, p) ==
  /\ AddGuard(t, st, i, p)
  /\ LegacySetup(p)
  /\ q' = Enabled(p, t, st, i)
  /\ active' = Increment(active, Counted(t, st))
  /\ Register(t, i, Slot(t, i))
  /\ UNCHANGED <<mode, up, books, history>>

MayFail == Cardinality(failed) < MaxFail

\* Reading the device's registers or claiming its range fails: the queue
\* stays enabled, with the configuration its descq had before (of a queue
\* that lived there once, of which a disabled descq keeps no record here).
AddFailsPreparing(t, st, i, p) ==
  /\ AddGuard(t, st, i, p) /\ MayFail
  /\ \/ q' = [q EXCEPT ![p].state = "ENABLED"]
     \/ \E old \in BOOLEAN : ~(t = "CMPT" /\ old) /\ q' = Enabled(p, t, old, i)
  /\ failed' = failed \cup {p} /\ uncounted' = uncounted \cup {p}
  /\ UNCHANGED <<mode, up, active, books, legacy, front, lost>>

\* The resource manager refuses to count it: the queue stays enabled.
AddFailsCounting(t, st, i, p) ==
  /\ AddGuard(t, st, i, p) /\ MayFail
  /\ LegacySetup(p)
  /\ q' = Enabled(p, t, st, i)
  /\ failed' = failed \cup {p} /\ uncounted' = uncounted \cup {p}
  /\ UNCHANGED <<mode, up, active, books, front, lost>>

\* There is no character device left: the queue stays added, without one.
AddFailsDevice(t, st, i, p) ==
  /\ AddGuard(t, st, i, p) /\ MayFail
  /\ t \in Dirs /\ qdata[Slot(Other(t), i)].dev = 0
  /\ LegacySetup(p)
  /\ q' = Enabled(p, t, st, i)
  /\ active' = Increment(active, Counted(t, st))
  /\ qdata' = [qdata EXCEPT ![Slot(t, i)] = [hndl |-> Slot(t, i), dev |-> 0]]
  /\ failed' = failed \cup {p}
  /\ UNCHANGED <<mode, up, books, devs, uncounted, lost>>

----------------------------------------------------------------------------
(* Starting and stopping.                                                  *)

\* The handle a command on queue h uses, if the front end knows the queue.
Known(h) == ~(qdata[h].hndl = 0 /\ qdata[h].dev = 0)

\* The thread of a polled queue: the first idle one after the first, else
\* the last one less loaded than the first.
PickThread(cnt) ==
  LET idle  == {w \in 2 .. Workers : cnt[w] = 0}
      below == {w \in 2 .. Workers : cnt[w] < cnt[1]}
  IN IF idle # {} THEN CHOOSE w \in idle : \A v \in idle : w <= v
     ELSE IF below # {} THEN CHOOSE w \in below : \A v \in below : v <= w
     ELSE 1

\* Where a loop over n counts ends that holds the first of them until it
\* meets a smaller one and stops at an idle one.
FirstLeast(cnt, n) ==
  LET best[v \in 1 .. n] ==
        IF v = 1 THEN 1
        ELSE IF cnt[best[v - 1]] # 0 /\ cnt[v] < cnt[best[v - 1]] THEN v
        ELSE best[v - 1]
  IN best[n]

\* The processor of an interrupt driven queue: the loop runs down from the
\* last.
PickCpu(cnt) ==
  Workers + 1 - FirstLeast([w \in 1 .. Workers |-> cnt[Workers + 1 - w]], Workers)

\* The vector that serves the fewest queues: the loop runs up.
PickVector(cnt) == FirstLeast(cnt, Vectors)

Start(h) ==
  LET p == qdata[h].hndl
      w == IF mode = "poll" THEN PickThread(load) ELSE PickCpu(load)
      v == PickVector(vecCnt)
  IN /\ up = "up" /\ Known(h) /\ q[p].state = "ENABLED"
     /\ worker' = [worker EXCEPT ![p] = w] /\ load' = [load EXCEPT ![w] = @ + 1]
     /\ IF mode = "direct"
        THEN /\ vec' = [vec EXCEPT ![p] = v]
             /\ vecCnt' = [vecCnt EXCEPT ![v] = @ + 1]
        ELSE UNCHANGED <<vec, vecCnt>>
     /\ q' = [q EXCEPT ![p].state = "ONLINE"]
     /\ UNCHANGED <<mode, up, active, legacy, front, history>>

\* The counters less the queues ps that leave them.
Unloaded_KeepsCount(cnt, of, ps) == cnt
Unloaded(cnt, of, ps) ==
  [w \in DOMAIN cnt |-> cnt[w] - Cardinality({p \in ps : of[p] = w})]

\* qdma_queue_stop of the queues ps, as far as workers and vectors go.
Detach(ps) ==
  /\ load' = Unloaded(load, worker, ps)
  /\ vecCnt' = Unloaded(vecCnt, vec, ps)
  /\ worker' = [p \in Slots |-> IF p \in ps THEN 0 ELSE worker[p]]
  /\ vec' = [p \in Slots |-> IF p \in ps THEN 0 ELSE vec[p]]

Stop(h) ==
  LET p == qdata[h].hndl
  IN /\ up = "up" /\ Known(h) /\ q[p].state = "ONLINE"
     /\ q' = [q EXCEPT ![p].state = "ENABLED"]
     /\ Detach({p})
     /\ UNCHANGED <<mode, up, active, legacy, front, history>>

----------------------------------------------------------------------------
(* Deleting, resetting, resizing.                                          *)

\* Device d without direction t: gone with its last one.
Left(d, t) ==
  IF devs[d].init \subseteq {t} THEN NoDev
  ELSE [devs[d] EXCEPT !.init = @ \ {t}]

\* xpdev_queue_delete: without a device a queue cannot be deleted.
Delete(t, i) ==
  LET h == Slot(t, i)
      p == qdata[h].hndl
      d == qdata[h].dev
  IN /\ up = "up" /\ Known(h)
     /\ t \in Dirs => d # 0
     /\ q[p].state = "ENABLED"
     /\ active' = Decrement(active, Counted(q[p].type, q[p].st))
     /\ q' = [q EXCEPT ![p] = Fresh]
     /\ legacy' = LegacyCleared({p} \cap legacy.list)
     /\ devs' = IF t \in Dirs THEN [devs EXCEPT ![d] = Left(d, t)] ELSE devs
     /\ qdata' = [qdata EXCEPT ![h] = NoData]
     /\ failed' = failed \ {p} /\ uncounted' = uncounted \ {p}
     /\ UNCHANGED <<mode, up, books, lost>>

DirSlots == 0 .. 2 * QMax - 1

\* The counters after the queues ps have been removed one by one.
AfterRemoving(ps) ==
  [t \in Types |->
     LET n == Cardinality({p \in ps : t \in Counted(q[p].type, q[p].st)})
     IN IF n < active[t] THEN active[t] - n ELSE 0]

\* qdma_device_cleanup: stop and remove the queues of both directions, but
\* no completion queue, and free all.
CleanUp ==
  LET used == {p \in DirSlots : InUse(p)}
  IN /\ Detach({p \in used : q[p].state = "ONLINE"})
     /\ active' = AfterRemoving(used)
     /\ legacy' = LegacyCleared(used \cap legacy.list)
     /\ lost' = lost \cup {p \in Slots \ DirSlots : InUse(p)}
     /\ q' = FreshQ
     /\ failed' = {} /\ uncounted' = {}

\* The devices as xpdev_device_cleanup leaves them: each queue with a device
\* takes one direction off it, the second one first, or destroys it when it
\* has one left.
Destroyed(ds) ==
  [d \in DevIds |->
     LET visits == Cardinality({h \in DirSlots : qdata[h].dev = d})
     IN IF visits = 0 \/ ds[d] = NoDev THEN ds[d]
        ELSE IF visits >= Cardinality(ds[d].init) THEN NoDev
        ELSE [ds[d] EXCEPT !.init = @ \ {"C2H"}]]

\* A function level reset: qdma_reset_prepare.
Reset ==
  /\ up # "down" /\ up' = "down"
  /\ CleanUp
  /\ devs' = Destroyed(devs)
  /\ qdata' = [h \in Slots |-> IF h \in DirSlots THEN NoData ELSE qdata[h]]
  /\ UNCHANGED mode

\* qdma_reset_done: the function is back, with no queues.
Online == up = "down" /\ up' = "bare"
          /\ UNCHANGED <<mode, qvars, books, legacy, front, history>>

\* Writing qmax, possible while no queue is counted as active.  (What a
\* worker does with a freed queue on its list is undefined: not followed.)
SetQmax ==
  /\ up # "down" /\ up' = "up"
  /\ lost = {}
  /\ \A t \in Types : active[t] = 0
  /\ CleanUp
  /\ qdata' = [h \in Slots |-> NoData]
  /\ UNCHANGED <<mode, devs>>

----------------------------------------------------------------------------
Init ==
  /\ mode \in Modes /\ up = "up"
  /\ q = FreshQ /\ active = [t \in Types |-> 0]
  /\ worker = [p \in Slots |-> 0] /\ load = [w \in 1 .. Workers |-> 0]
  /\ vec = [p \in Slots |-> 0] /\ vecCnt = [v \in 1 .. Vectors |-> 0]
  /\ legacy = [list |-> {}, irq |-> FALSE]
  /\ qdata = [h \in Slots |-> NoData] /\ devs = [d \in DevIds |-> NoDev]
  /\ failed = {} /\ uncounted = {} /\ lost = {}

Next ==
  \/ \E t \in Types, st \in BOOLEAN, i \in Indexes, p \in Slots :
       \/ Add(t, st, i, p)
       \/ AddFailsPreparing(t, st, i, p)
       \/ AddFailsCounting(t, st, i, p)
       \/ AddFailsDevice(t, st, i, p)
  \/ \E h \in Slots : Start(h) \/ Stop(h)
  \/ \E t \in Types, i \in Indexes : Delete(t, i)
  \/ Reset \/ Online \/ SetQmax

Spec == Init /\ [][Next]_vars

----------------------------------------------------------------------------
(* What must hold.                                                         *)

TypeOK ==
  /\ mode \in Modes /\ up \in {"up", "down", "bare"}
  /\ q \in [Slots -> [state : {"DISABLED", "ENABLED", "ONLINE"}, st : BOOLEAN,
                      type : Types, idx : Indexes]]
  /\ active \in [Types -> 0 .. QMax]
  /\ worker \in [Slots -> 0 .. Workers] /\ load \in [1 .. Workers -> Nat]
  /\ vec \in [Slots -> 0 .. Vectors] /\ vecCnt \in [1 .. Vectors -> Nat]
  /\ legacy \in [list : SUBSET Slots, irq : BOOLEAN]
  /\ qdata \in [Slots -> [hndl : Slots, dev : DevIds \cup {0}]]
  /\ \A d \in DevIds : devs[d] = NoDev \/
       devs[d] \in [idx : Indexes, hndl : [Dirs -> Slots], init : SUBSET Dirs]
  /\ uncounted \subseteq failed /\ failed \subseteq Slots /\ lost \subseteq Slots

Healthy(p) == InUse(p) /\ p \notin failed

\* The two directions of a pair have one mode, and a completion queue of its
\* own goes with memory mapped queues only, whatever was added, deleted and
\* added again and whichever additions failed (is_usable_queue).
PairsAgree ==
  \A i \in Indexes :
    LET here == {t \in Types : Healthy(Slot(t, i))}
        mm   == {t \in here : ~q[Slot(t, i)].st}
    IN mm = {} \/ mm = here

\* The resource manager counts a queue as long as it is in use and a
\* streaming card-to-host queue as a completion queue too (qdma_queue_add,
\* qdma_queue_remove, qdma_set_qmax).
CountsMatch ==
  up = "up" =>
    \A t \in Types :
      active[t] = Cardinality(
        {p \in Slots : /\ InUse(p) /\ p \notin uncounted
                       /\ \/ q[p].type = t
                          \/ t = "CMPT" /\ q[p].type = "C2H" /\ q[p].st})

\* What a process reads or writes through a device goes to the queue of that
\* device's index and of that direction, the front end and libqdma know the
\* same queues, and a pair has one device unless an addition failed
\* (xpdev_queue_add, xpdev_queue_delete, qdma_device_get_descq_by_id).
DevicesMatch ==
  /\ \A d \in DevIds : devs[d] # NoDev =>
       /\ devs[d].init # {}
       /\ \A t \in devs[d].init :
            LET h == devs[d].hndl[t]
            IN /\ q[h].idx = devs[d].idx /\ q[h].type = t /\ InUse(h)
               /\ qdata[h] = [hndl |-> h, dev |-> d]
  /\ \A h \in DirSlots : qdata[h].dev # 0 =>
       \E t \in devs[qdata[h].dev].init : devs[qdata[h].dev].hndl[t] = h
  /\ \A p \in Slots : Healthy(p) => qdata[p].hndl = p
  /\ \A i \in Indexes :
       (Healthy(Slot("H2C", i)) /\ Healthy(Slot("C2H", i))) =>
         qdata[Slot("H2C", i)].dev = qdata[Slot("C2H", i)].dev

\* A queue is on a worker, and with vectors on one vector's list, exactly
\* while it is online, and their counts are the lengths of their lists
\* (qdma_thread_add_work, qdma_thread_remove_work, qdma_queue_stop).
WorkersMatch ==
  /\ \A p \in Slots \ lost : (worker[p] # 0) <=> (q[p].state = "ONLINE")
  /\ \A p \in Slots : (vec[p] # 0) <=> (worker[p] # 0 /\ mode = "direct")
  /\ \A w \in 1 .. Workers : load[w] = Cardinality({p \in Slots : worker[p] = w})
  /\ \A v \in 1 .. Vectors : vecCnt[v] = Cardinality({p \in Slots : vec[p] = v})

\* The legacy interrupt serves one queue at most and is requested exactly
\* while it serves one (intr_legacy_setup, intr_legacy_clear).
LegacyHeld ==
  /\ Cardinality(legacy.list) <= 1
  /\ legacy.irq <=> legacy.list # {}
  /\ \A p \in legacy.list : InUse(p) \/ p \in lost

\* A reset leaves no device and, unless a completion queue was there, no
\* count and nothing on a worker, a vector or the interrupt's list, so that
\* queues can be added again (qdma_device_cleanup, xpdev_device_cleanup).
ResetLeavesNothing ==
  up # "up" =>
    /\ \A d \in DevIds : devs[d] = NoDev
    /\ active["H2C"] = 0 /\ active["C2H"] = 0
    /\ legacy.list \cap DirSlots = {}
    /\ \A p \in DirSlots : worker[p] = 0

\* A queue that starts is given a vector no other serves fewer queues than,
\* and with interrupts a processor no other has fewer queues than
\* (desc_alloc_irq: "Pick the MSI-X vector that currently has the fewest
\* queues", qdma_thread_add_work).
EvenlySpread ==
  [][\A p \in Slots : (worker[p] = 0 /\ worker'[p] # 0) =>
       /\ mode = "direct" =>
            \A v \in 1 .. Vectors : vecCnt[vec'[p]] <= vecCnt[v]
       /\ mode # "poll" =>
            \A w \in 1 .. Workers : load[worker'[p]] <= load[w]]_vars

\* Every table that names queues names those there are, and what is counted
\* to share them out is true (resource manager, workers, vectors, devices
\* after a reset).
BooksMatch ==
  [](TypeOK /\ CountsMatch /\ WorkersMatch /\ ResetLeavesNothing) /\ EvenlySpread
=============================================================================
