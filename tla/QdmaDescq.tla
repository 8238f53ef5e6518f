------------------------------ MODULE QdmaDescq ------------------------------
(***************************************************************************)
(* The descriptor queue engine of libqdma for memory-mapped and            *)
(* host-to-card stream queues (qdma_descq.c, libqdma_export.c): requests   *)
(* are put on work_list, turned into descriptors of a ring, moved to       *)
(* pend_list once all their descriptors are written, and completed from    *)
(* the credits read off the consumer index the device writes back.         *)
(*                                                                         *)
(* descq->lock is modelled by `sec`: sec.owner is the caller that holds    *)
(* the lock and sec.at the next statement of its critical section, so the  *)
(* device, and nothing else of the queue, moves inside a section.          *)
(* Data is counted in descriptors: req->count is the number of descriptors *)
(* the scatter-gather list needs, cb->offset the number written so far.    *)
(***************************************************************************)
EXTENDS Integers, Sequences, FiniteSets

CONSTANTS
  Req,             \* the requests callers submit, each once
  Kind,            \* Req -> "sync" | "async" | "batch"
  Timed,           \* the synchronous requests whose wait may end early: by
                   \* timeout_ms, or by a signal, as every wait is interruptible
  MaxNeed,         \* bound: descriptors one request needs
  RngSz,           \* conf.rngsz: entries of the ring
  Modes,           \* the values of qdma_drv_mode: "poll", "auto", "intr"
  SlowDevice,      \* whether the device may need longer than a stop waits
  MaxStarts,       \* bound: times the queue is started
  MaxStops,        \* bound: times the queue is stopped
  Poller, Worker, Ctl, NoOne   \* completion thread, interrupt work, control path

ASSUME RingAssumption == RngSz \in Nat /\ RngSz >= 2
ASSUME NeedAssumption == MaxNeed \in Nat /\ MaxNeed >= 1
ASSUME KindAssumption == Kind \in [Req -> {"sync", "async", "batch"}]
ASSUME TimedAssumption == Timed \subseteq {r \in Req : Kind[r] = "sync"}
ASSUME ModeAssumption == /\ Modes \subseteq {"poll", "auto", "intr"}
                         /\ SlowDevice \in BOOLEAN
ASSUME BoundAssumption == MaxStarts \in Nat /\ MaxStops \in Nat
ASSUME ActorAssumption ==
  /\ Poller \notin Req /\ Worker \notin Req /\ Ctl \notin Req /\ NoOne \notin Req
  /\ Poller # Worker /\ Poller # Ctl /\ Poller # NoOne
  /\ Worker # Ctl /\ Worker # NoOne /\ Ctl # NoOne

VARIABLES
  mode,                        \* xdev->conf.qdma_drv_mode, fixed when the device opens
  q_state, q_stop_wait, pend_list_empty, work_req_pend,
  pidx, cidx, avail, credit,   \* the ring as the driver sees it
  desc,                        \* desc[i]: the request descriptor i was written for
  work_list, pend_list,
  cb,                          \* per request: count, offset, desc_nr, done, status
  pc,                          \* per request: where its submitter is
  result,                      \* per request: what its caller was told
  hw,                          \* the device: context, doorbell, write-back, interrupt
  moved,                       \* per request: descriptors the device has executed
  ring_alloc,                  \* the ring and its status entry are allocated
  sec,                         \* critical section of descq->lock
  thread,                      \* the completion status thread
  irq_work,                    \* descq->work, scheduled by the interrupt handler
  ctl                          \* the control path: queue_start and queue_stop

qvars   == <<mode, q_state, q_stop_wait>>
cvars   == <<pend_list_empty, work_req_pend>>
rvars   == <<pidx, cidx, avail, credit, desc>>
lists   == <<work_list, pend_list>>
reqvars == <<cb, pc, result>>
hwvars  == <<hw, moved, ring_alloc>>
actors  == <<thread, irq_work, ctl>>
vars    == <<qvars, cvars, rvars, lists, reqvars, hwvars, sec, actors>>

Polled == mode \in {"poll", "auto"}
Actors == Req \cup {Poller, Worker, Ctl}

-----------------------------------------------------------------------------
(* Helpers *)

\* Steps from ring index a forward to ring index b.
Dist(a, b) == IF b >= a THEN b - a ELSE (RngSz - a) + b

\* (Operators whose names carry a suffix _... are faulty variants of the
\* definition that follows them; no behaviour of Spec uses them.)
Advance_NoWrap(a, n) == a + n

\* Ring index a moved forward by n <= RngSz entries.
Advance(a, n) == IF a + n >= RngSz THEN a + n - RngSz ELSE a + n

\* list_del of entry r: s without its first r.
ListDel(s, r) ==
  IF \E i \in 1..Len(s) : s[i] = r
  THEN LET k == CHOOSE i \in 1..Len(s) : s[i] = r /\ \A j \in 1..(i-1) : s[j] # r
       IN [j \in 1..(Len(s) - 1) |-> IF j < k THEN s[j] ELSE s[j+1]]
  ELSE s

Enqueue_AtHead(s, r) == <<r>> \o s

\* list_add_tail
Enqueue(s, r) == Append(s, r)

Listed(s, r) == \E i \in 1..Len(s) : s[i] = r

NoCb == [count |-> 0, offset |-> 0, desc_nr |-> 0, done |-> FALSE, status |-> "ok"]

UsableEntries_Full == RngSz

\* With all entries used cidx would equal pidx and the ring would look empty.
UsableEntries == RngSz - 1

Free == [owner |-> NoOne, at |-> "free", ret |-> "exit", written |-> 0, pos |-> 1]

Unlocked == sec.owner = NoOne

\* A caller takes descq->lock and stands at statement `at`.
Enter(a, at, ret) ==
  sec' = [owner |-> a, at |-> at, ret |-> ret, written |-> 0, pos |-> 1]

At(s) == sec.at = s
Goto(s) == sec' = [sec EXCEPT !.at = s]
Call(s, ret) == sec' = [sec EXCEPT !.at = s, !.ret = ret]

IrqEn == mode # "poll"

NoHw == [on |-> FALSE, wb |-> 0, db |-> 0, armed |-> FALSE, no_last |-> FALSE]

Init ==
  /\ mode \in Modes
  /\ q_state = "enabled" /\ q_stop_wait = FALSE
  /\ pend_list_empty = FALSE /\ work_req_pend = 0
  /\ pidx = 0 /\ cidx = 0 /\ avail = 0 /\ credit = 0
  /\ desc = [i \in 0..(RngSz - 1) |-> NoOne]
  /\ work_list = <<>> /\ pend_list = <<>>
  /\ cb = [r \in Req |-> NoCb]
  /\ pc = [r \in Req |-> "new"]
  /\ result = [r \in Req |-> "none"]
  /\ hw = NoHw
  /\ moved = [r \in Req |-> 0]
  /\ ring_alloc = FALSE
  /\ sec = Free
  /\ thread = [at |-> "sleep", attached |-> FALSE, schedule |-> FALSE]
  /\ irq_work = [at |-> "idle", scheduled |-> FALSE]
  /\ ctl = [at |-> "idle", starts |-> 0, stops |-> 0]

\* The interrupt handler (data_intr_direct, data_intr_aggregate) schedules
\* descq->work; scheduling it twice before it runs is scheduling it once.
Interrupt(fires) ==
  irq_work' = [irq_work EXCEPT !.scheduled = @ \/ fires]

\* The device takes a producer index update for index db: it arms the
\* interrupt, which goes off at once if the last write-back had none.
PidxUpdate(db) ==
  /\ hw' = [hw EXCEPT !.db = db, !.armed = IrqEn /\ ~hw.no_last, !.no_last = FALSE]
  /\ Interrupt(hw.no_last)

-----------------------------------------------------------------------------
(* Callers: qdma_request_submit and qdma_batch_request_submit *)

\* qdma_request_submit takes the lock and queues the request.
Submit(r, n) ==
  /\ pc[r] = "new" /\ Kind[r] # "batch" /\ Unlocked
  /\ q_state = "online"
  /\ work_list' = Enqueue(work_list, r)
  /\ work_req_pend' = work_req_pend + 1
  /\ cb' = [cb EXCEPT ![r] = [NoCb EXCEPT !.count = n]]
  /\ pc' = [pc EXCEPT ![r] = "queued"]
  /\ UNCHANGED <<qvars, pend_list_empty, rvars, pend_list, result, hwvars, sec, actors>>

\* qdma_batch_request_submit queues s in order; work_req_pend is not counted.
BatchSubmit(s, n) ==
  /\ Unlocked /\ q_state = "online"
  /\ \A i \in 1..Len(s) : pc[s[i]] = "new" /\ Kind[s[i]] = "batch"
  /\ work_list' = work_list \o s
  /\ cb' = [r \in Req |-> IF Listed(s, r) THEN [NoCb EXCEPT !.count = n] ELSE cb[r]]
  /\ pc' = [r \in Req |-> IF r = s[1] THEN "queued"
                          ELSE IF Listed(s, r) THEN "out" ELSE pc[r]]
  /\ UNCHANGED <<qvars, cvars, rvars, pend_list, result, hwvars, sec, actors>>

\* Both refuse a queue that is not online.
Refuse(r) ==
  /\ pc[r] = "new" /\ Unlocked /\ q_state # "online"
  /\ pc' = [pc EXCEPT ![r] = "out"]
  /\ result' = [result EXCEPT ![r] = "err"]
  /\ UNCHANGED <<qvars, cvars, rvars, lists, cb, hwvars, sec, actors>>

\* qdma_request_wait_for_cmpl, the request is done.
Return(r) ==
  /\ pc[r] = "wait" /\ cb[r].done /\ Unlocked
  /\ pc' = [pc EXCEPT ![r] = "out"]
  /\ result' = [result EXCEPT ![r] = cb[r].status]
  /\ UNCHANGED <<qvars, cvars, rvars, lists, cb, hwvars, sec, actors>>

\* qdma_request_wait_for_cmpl, the wait ran out or was interrupted by a signal
\* first: list_del and -EIO.
TimeOut(r) ==
  /\ pc[r] = "wait" /\ ~cb[r].done /\ r \in Timed /\ Unlocked
  /\ work_list' = ListDel(work_list, r)
  /\ pend_list' = ListDel(pend_list, r)
  /\ pc' = [pc EXCEPT ![r] = "out"]
  /\ result' = [result EXCEPT ![r] = "err"]
  /\ UNCHANGED <<qvars, cvars, rvars, cb, hwvars, sec, actors>>

-----------------------------------------------------------------------------
(* The critical section of descq_mm_proc_request / descq_proc_st_h2c_request *)

NotOnline_Never == FALSE

NotOnline == q_state # "online"

\* lock_descq and the early returns; a poll of the write-back comes first.
EnterProc(a) ==
  /\ Unlocked
  /\ IF q_stop_wait THEN Enter(a, "cmpl", "exit")
     ELSE IF NotOnline THEN Enter(a, "exit", "exit")
     ELSE IF Polled THEN Enter(a, "cmpl", "fill")
     ELSE Enter(a, "fill", "exit")

\* The submitter calls qdma_descq_proc_sgt_request after queueing.
ProcRequest(r) ==
  /\ pc[r] = "queued" /\ EnterProc(r)
  /\ UNCHANGED <<qvars, cvars, rvars, lists, reqvars, hwvars, actors>>

\* descq_mm_n_h2c_cmpl_status finds the ring empty or no new write-back.
CmplNothing ==
  /\ At("cmpl")
  /\ \/ pidx = cidx
     \/ pidx # cidx /\ ring_alloc /\ hw.wb = cidx
  /\ Goto(sec.ret)
  /\ UNCHANGED <<qvars, cvars, rvars, lists, reqvars, hwvars, actors>>

\* Descriptors executed since the last look.
NewCredits == IF hw.wb < cidx THEN (RngSz - cidx) + hw.wb ELSE hw.wb - cidx

\* descq_mm_n_h2c_cmpl_status takes the credits of the new consumer index.
CmplCredits ==
  /\ At("cmpl")
  /\ pidx # cidx /\ ring_alloc /\ hw.wb # cidx
  /\ cidx' = hw.wb
  /\ avail' = avail + NewCredits
  /\ credit' = credit + NewCredits
  /\ Goto("credit")
  /\ UNCHANGED <<qvars, cvars, pidx, desc, lists, reqvars, hwvars, actors>>

Covered(r) == credit >= cb[r].desc_nr

\* What qdma_sgt_req_done puts into pend_list_empty.
RingIdle == avail = UsableEntries

Credited_Not(c, n) == c

\* A request that still needs more after n credits.
Credited(c, n) == [c EXCEPT !.desc_nr = @ - n]

\* The head of pend_list is covered by the credits: qdma_sgt_req_done.
CmplDone ==
  /\ At("credit") /\ credit > 0 /\ pend_list # <<>>
  /\ LET r == Head(pend_list)
         full == cb[r].offset = cb[r].count
         status == IF Kind[r] = "sync" \/ full THEN "ok" ELSE "err"
     IN /\ Covered(r)
        /\ credit' = credit - cb[r].desc_nr
        /\ cb' = [cb EXCEPT ![r].done = TRUE, ![r].status = status]
        /\ result' = IF Kind[r] = "sync" THEN result ELSE [result EXCEPT ![r] = status]
  /\ pend_list' = Tail(pend_list)
  /\ pend_list_empty' = RingIdle
  /\ UNCHANGED <<qvars, work_req_pend, pidx, cidx, avail, desc, work_list, pc,
                 hwvars, sec, actors>>

\* The head of pend_list needs more: it keeps the credits.
CmplPart ==
  /\ At("credit") /\ credit > 0 /\ pend_list # <<>>
  /\ ~Covered(Head(pend_list))
  /\ cb' = [cb EXCEPT ![Head(pend_list)] = Credited(@, credit)]
  /\ credit' = 0
  /\ UNCHANGED <<qvars, cvars, pidx, cidx, avail, desc, lists, pc, result, hwvars, sec, actors>>

\* Credits or requests are used up; qdma_pidx_update(force) re-arms the interrupt.
CmplRearm ==
  /\ At("credit") /\ (credit = 0 \/ pend_list = <<>>)
  /\ PidxUpdate(hw.db)
  /\ Goto(sec.ret)
  /\ UNCHANGED <<qvars, cvars, rvars, lists, reqvars, moved, ring_alloc, thread, ctl>>

\* qdma_update_request after n more descriptors.
Written(c, n) == [c EXCEPT !.offset = @ + n, !.desc_nr = @ + n]

WorkQueueDel_Uncounted == work_req_pend

\* work_req_pend after qdma_work_queue_del.
WorkQueueDel == work_req_pend - 1

\* Descriptors for the head of work_list, as many as fit; qdma_update_request.
WriteDescs ==
  LET r == Head(work_list)
      left == cb[r].count - cb[r].offset
      n == IF avail < left THEN avail ELSE left
  IN /\ desc' = [i \in 0..(RngSz - 1) |-> IF Dist(pidx, i) < n THEN r ELSE desc[i]]
     /\ pidx' = Advance(pidx, n)
     /\ avail' = avail - n
     /\ cb' = [cb EXCEPT ![r] = Written(@, n)]
     /\ IF n = left
        THEN /\ work_list' = Tail(work_list)
             /\ pend_list' = Enqueue(pend_list, r)
             /\ work_req_pend' = WorkQueueDel
        ELSE UNCHANGED <<work_list, pend_list, work_req_pend>>
     /\ sec' = [sec EXCEPT !.at = "fill", !.written = @ + n]
     /\ UNCHANGED <<qvars, pend_list_empty, cidx, credit, pc, result, hwvars, actors>>

\* One turn of the loop over work_list while the ring has room.
Fill ==
  /\ At("fill") /\ work_list # <<>> /\ avail > 0
  /\ WriteDescs

\* The ring is full: polled modes look once more at the write-back.
FillPoll ==
  /\ At("fill") /\ work_list # <<>> /\ avail = 0 /\ Polled
  /\ Call("cmpl", "refill")
  /\ UNCHANGED <<qvars, cvars, rvars, lists, reqvars, hwvars, actors>>

\* The turn goes on if that look freed room.
Refill ==
  /\ At("refill") /\ avail > 0
  /\ WriteDescs

\* The loop ends: nothing queued or no room.
FillEnd ==
  /\ \/ At("fill") /\ work_list = <<>>
     \/ At("fill") /\ work_list # <<>> /\ avail = 0 /\ ~Polled
     \/ At("refill") /\ avail = 0
  /\ Goto("doorbell")
  /\ UNCHANGED <<qvars, cvars, rvars, lists, reqvars, hwvars, actors>>

\* queue_pidx_update when descriptors were written, then a last poll.
Doorbell ==
  /\ At("doorbell")
  /\ IF sec.written > 0
     THEN /\ pend_list_empty' = FALSE
          /\ PidxUpdate(pidx)
          /\ IF Polled THEN Call("cmpl", "exit") ELSE Goto("exit")
     ELSE /\ Goto("exit")
          /\ UNCHANGED <<pend_list_empty, hw, irq_work>>
  /\ UNCHANGED <<qvars, work_req_pend, rvars, lists, reqvars, moved, ring_alloc, thread, ctl>>

WakesThread_Never == FALSE

\* desc_written && descq->cmplthp
WakesThread == sec.written > 0 /\ thread.attached

\* unlock_descq; the completion thread, if there is one, is woken.
Exit ==
  /\ At("exit")
  /\ sec' = Free
  /\ pc' = IF sec.owner \in Req
           THEN [pc EXCEPT ![sec.owner] = IF Kind[sec.owner] = "sync" THEN "wait" ELSE "out"]
           ELSE pc
  /\ thread' = [thread EXCEPT !.at = IF sec.owner = Poller THEN "check" ELSE @,
                              !.schedule = @ \/ WakesThread]
  /\ irq_work' = [irq_work EXCEPT !.at = IF sec.owner = Worker THEN "idle" ELSE @]
  /\ UNCHANGED <<qvars, cvars, rvars, lists, cb, result, hwvars, ctl>>

-----------------------------------------------------------------------------
(* Completion: interrupt work and completion status thread *)

\* intr_work: qdma_descq_service_cmpl_update without polling looks at the
\* write-back first; in auto mode it only calls qdma_descq_proc_sgt_request.
Service ==
  /\ irq_work.at = "idle" /\ irq_work.scheduled /\ Unlocked
  /\ irq_work' = [at |-> IF mode = "intr" THEN "cmpl" ELSE "proc", scheduled |-> FALSE]
  /\ IF mode = "intr" THEN Enter(Worker, "cmpl", "service") ELSE UNCHANGED sec
  /\ UNCHANGED <<qvars, cvars, rvars, lists, reqvars, hwvars, thread, ctl>>

\* qdma_work_queue_len; desc_pend stays 0 without bypass queues.
WorkQueued == work_req_pend # 0

\* With qdma_work_queue_len or desc_pend it goes on to process requests.
ServiceEnd ==
  /\ At("service")
  /\ sec' = Free
  /\ irq_work' = [irq_work EXCEPT !.at = IF WorkQueued THEN "proc" ELSE "idle"]
  /\ UNCHANGED <<qvars, cvars, rvars, lists, reqvars, hwvars, thread, ctl>>

ServiceProc ==
  /\ irq_work.at = "proc" /\ EnterProc(Worker)
  /\ irq_work' = [irq_work EXCEPT !.at = "running"]
  /\ UNCHANGED <<qvars, cvars, rvars, lists, reqvars, hwvars, thread, ctl>>

\* xthread_main asks qdma_thread_cmpl_status_pend whether there is work.
ThreadCheck ==
  /\ thread.at = "check" /\ (thread.attached => Unlocked)
  /\ thread' = [thread EXCEPT !.at =
       IF thread.attached /\ (pend_list # <<>> \/ work_list # <<>>) THEN "run" ELSE "sleep"]
  /\ UNCHANGED <<qvars, cvars, rvars, lists, reqvars, hwvars, sec, irq_work, ctl>>

\* xthread_reschedule returns once somebody has set thp->schedule.
ThreadWake ==
  /\ thread.at = "sleep" /\ thread.schedule
  /\ thread' = [thread EXCEPT !.at = "run"]
  /\ UNCHANGED <<qvars, cvars, rvars, lists, reqvars, hwvars, sec, irq_work, ctl>>

\* thp->schedule = 0, then qdma_thread_cmpl_status_proc for the queue.
ThreadRun ==
  /\ thread.at = "run"
  /\ IF thread.attached
     THEN EnterProc(Poller) /\ thread' = [thread EXCEPT !.at = "proc", !.schedule = FALSE]
     ELSE UNCHANGED sec /\ thread' = [thread EXCEPT !.at = "check", !.schedule = FALSE]
  /\ UNCHANGED <<qvars, cvars, rvars, lists, reqvars, hwvars, irq_work, ctl>>

-----------------------------------------------------------------------------
(* The device *)

\* The next descriptor is executed and the consumer index written back.  An
\* armed queue interrupts and disarms; otherwise irq_no_last remembers, once
\* the queue is idle, that no interrupt was sent for the last write-back.
HwStep ==
  /\ hw.on /\ hw.wb # hw.db /\ desc[hw.wb] \in Req
  /\ moved' = [moved EXCEPT ![desc[hw.wb]] = @ + 1]
  /\ LET wb == Advance(hw.wb, 1)
     IN hw' = [hw EXCEPT !.wb = wb, !.armed = FALSE,
                         !.no_last = IrqEn /\ ~hw.armed /\ wb = hw.db]
  /\ Interrupt(hw.armed)
  /\ UNCHANGED <<qvars, cvars, rvars, lists, reqvars, ring_alloc, sec, thread, ctl>>

-----------------------------------------------------------------------------
(* qdma_queue_start *)

\* lock_descq and the state check; the rest runs unlocked.
StartCheck ==
  /\ ctl.at = "idle" /\ ctl.starts < MaxStarts /\ Unlocked
  /\ q_state = "enabled"
  /\ ctl' = [ctl EXCEPT !.at = "config", !.starts = @ + 1]
  /\ UNCHANGED <<qvars, cvars, rvars, lists, reqvars, hwvars, sec, thread, irq_work>>

\* qdma_descq_config_complete
StartConfig ==
  /\ ctl.at = "config"
  /\ avail' = UsableEntries /\ pidx' = 0 /\ cidx' = 0 /\ credit' = 0
  /\ pend_list_empty' = TRUE /\ work_req_pend' = 0
  /\ ctl' = [ctl EXCEPT !.at = "program"]
  /\ UNCHANGED <<qvars, desc, lists, reqvars, hwvars, sec, thread, irq_work>>

\* qdma_descq_alloc_resource zeroes the ring, qdma_descq_prog_hw sets the context.
StartProgram ==
  /\ ctl.at = "program"
  /\ ring_alloc' = TRUE
  /\ desc' = [i \in 0..(RngSz - 1) |-> NoOne]
  /\ hw' = [NoHw EXCEPT !.on = TRUE, !.armed = IrqEn]
  /\ ctl' = [ctl EXCEPT !.at = "attach"]
  /\ UNCHANGED <<qvars, cvars, pidx, cidx, avail, credit, lists, reqvars, moved,
                 sec, thread, irq_work>>

\* qdma_thread_add_work under the thread's lock: polled mode only.
StartAttach ==
  /\ ctl.at = "attach" /\ Unlocked /\ thread.at \in {"check", "sleep"}
  /\ thread' = [thread EXCEPT !.attached = (mode = "poll")]
  /\ ctl' = [ctl EXCEPT !.at = "online"]
  /\ UNCHANGED <<qvars, cvars, rvars, lists, reqvars, hwvars, sec, irq_work>>

StartOnline ==
  /\ ctl.at = "online" /\ Unlocked
  /\ q_state' = "online"
  /\ ctl' = [ctl EXCEPT !.at = "idle"]
  /\ UNCHANGED <<mode, q_stop_wait, cvars, rvars, lists, reqvars, hwvars, sec, thread, irq_work>>

-----------------------------------------------------------------------------
(* qdma_queue_stop *)

StopMustWait_Never == FALSE

\* Transfers are pending when the stop begins.
StopMustWait == ~pend_list_empty

StopBegin ==
  /\ ctl.at = "idle" /\ ctl.stops < MaxStops /\ Unlocked
  /\ q_state = "online"
  /\ q_stop_wait' = TRUE
  /\ ctl' = [ctl EXCEPT !.at = IF StopMustWait THEN "stopwait" ELSE "flush",
                        !.stops = @ + 1]
  /\ UNCHANGED <<mode, q_state, cvars, rvars, lists, reqvars, hwvars, sec, thread, irq_work>>

\* Everything written has been executed and read back.
Drained == Unlocked /\ cidx = pidx /\ hw.wb = cidx

\* pend_list_wq: the wait ends when pend_list_empty is set, or after
\* QDMA_Q_PEND_LIST_COMPLETION_TIMEOUT, a second in which a device that is
\* not slow has drained the ring.
StopWaitOver == pend_list_empty \/ SlowDevice \/ Drained

StopWaited ==
  /\ ctl.at = "stopwait" /\ StopWaitOver
  /\ ctl' = [ctl EXCEPT !.at = "flush"]
  /\ UNCHANGED <<qvars, cvars, rvars, lists, reqvars, hwvars, sec, thread, irq_work>>

\* lock_descq; the state changes, then both lists are walked.
StopFlush ==
  /\ ctl.at = "flush" /\ Unlocked
  /\ q_state' = "enabled" /\ q_stop_wait' = FALSE
  /\ Enter(Ctl, "flushpend", "exit")
  /\ ctl' = [ctl EXCEPT !.at = "flushing"]
  /\ UNCHANGED <<mode, cvars, rvars, lists, reqvars, hwvars, thread, irq_work>>

StaysListed_All(r) == TRUE

\* Without fp_done a request is only woken: its entry stays on the list.
StaysListed(r) == Kind[r] = "sync"

\* One entry r of a walked list: -ENXIO; without fp_done it is only woken.
Abort(r) ==
  /\ cb' = [cb EXCEPT ![r].done = TRUE, ![r].status = "err"]
  /\ result' = IF Kind[r] = "sync" THEN result ELSE [result EXCEPT ![r] = "err"]
  /\ sec' = IF StaysListed(r) THEN [sec EXCEPT !.pos = @ + 1] ELSE sec

FlushPend ==
  /\ At("flushpend") /\ sec.pos <= Len(pend_list)
  /\ LET r == pend_list[sec.pos]
     IN /\ Abort(r)
        /\ pend_list' = IF StaysListed(r) THEN pend_list ELSE ListDel(pend_list, r)
  /\ UNCHANGED <<qvars, cvars, rvars, work_list, pc, hwvars, actors>>

FlushNext_Ends ==
  /\ At("flushpend") /\ sec.pos > Len(pend_list)
  /\ sec' = Free
  /\ ctl' = [ctl EXCEPT !.at = "detach"]
  /\ UNCHANGED <<qvars, cvars, rvars, lists, reqvars, hwvars, thread, irq_work>>

FlushNext ==
  /\ At("flushpend") /\ sec.pos > Len(pend_list)
  /\ sec' = [sec EXCEPT !.at = "flushwork", !.pos = 1]
  /\ UNCHANGED <<qvars, cvars, rvars, lists, reqvars, hwvars, actors>>

FlushWork ==
  /\ At("flushwork") /\ sec.pos <= Len(work_list)
  /\ LET r == work_list[sec.pos]
     IN /\ Abort(r)
        /\ IF StaysListed(r) THEN UNCHANGED <<work_list, work_req_pend>>
           ELSE /\ work_list' = ListDel(work_list, r)
                /\ work_req_pend' = WorkQueueDel
  /\ UNCHANGED <<qvars, pend_list_empty, rvars, pend_list, pc, hwvars, actors>>

FlushEnd ==
  /\ At("flushwork") /\ sec.pos > Len(work_list)
  /\ sec' = Free
  /\ ctl' = [ctl EXCEPT !.at = "detach"]
  /\ UNCHANGED <<qvars, cvars, rvars, lists, reqvars, hwvars, thread, irq_work>>

\* qdma_thread_remove_work takes the lock of the completion thread.
StopDetach ==
  /\ ctl.at = "detach" /\ Unlocked /\ thread.at \in {"check", "sleep"}
  /\ thread' = [thread EXCEPT !.attached = FALSE]
  /\ ctl' = [ctl EXCEPT !.at = "clear"]
  /\ UNCHANGED <<qvars, cvars, rvars, lists, reqvars, hwvars, sec, irq_work>>

\* qdma_descq_context_clear; the written-back index stays in memory.
StopClear ==
  /\ ctl.at = "clear"
  /\ hw' = [hw EXCEPT !.on = FALSE, !.armed = FALSE, !.no_last = FALSE]
  /\ ctl' = [ctl EXCEPT !.at = "release"]
  /\ UNCHANGED <<qvars, cvars, rvars, lists, reqvars, moved, ring_alloc, sec, thread, irq_work>>

\* qdma_descq_free_resource
StopRelease ==
  /\ ctl.at = "release"
  /\ ring_alloc' = FALSE
  /\ ctl' = [ctl EXCEPT !.at = "idle"]
  /\ UNCHANGED <<qvars, cvars, rvars, lists, reqvars, hw, moved, sec, thread, irq_work>>

-----------------------------------------------------------------------------

Section == \/ CmplNothing \/ CmplCredits \/ CmplDone \/ CmplPart \/ CmplRearm
           \/ Fill \/ FillPoll \/ Refill \/ FillEnd \/ Doorbell \/ Exit \/ ServiceEnd
           \/ FlushPend \/ FlushNext \/ FlushWork \/ FlushEnd

Thread == ThreadCheck \/ ThreadWake \/ ThreadRun

Work == Service \/ ServiceProc

Start == StartCheck \/ StartConfig \/ StartProgram \/ StartAttach \/ StartOnline

Stop == StopWaited \/ StopFlush \/ StopDetach \/ StopClear \/ StopRelease

Caller(r) ==
  \/ \E n \in 1..MaxNeed : Submit(r, n)
  \/ Refuse(r) \/ ProcRequest(r) \/ Return(r) \/ TimeOut(r)

\* Batches of one request or two.
Batches == {<<a>> : a \in Req} \cup {<<a, b>> : a \in Req, b \in Req}

Next ==
  \/ \E r \in Req : Caller(r)
  \/ \E s \in Batches, n \in 1..MaxNeed : (Len(s) = 2 => s[1] # s[2]) /\ BatchSubmit(s, n)
  \/ Section \/ Thread \/ Work \/ HwStep \/ Start \/ StopBegin \/ Stop

Spec == Init /\ [][Next]_vars

\* The device, the holder of the lock, the completion contexts and a caller
\* that has queued a request go on, and so does a control operation that has
\* begun: descq->lock is a queued spinlock, so the control path gets it although
\* the completion thread keeps taking it.  Nobody has to submit, start or stop.
Fairness ==
  /\ WF_vars(Section) /\ WF_vars(HwStep) /\ WF_vars(Thread) /\ WF_vars(Work)
  /\ WF_vars(\E r \in Req : ProcRequest(r) \/ Return(r))
  /\ SF_vars(Stop)

FairSpec == Spec /\ Fairness

-----------------------------------------------------------------------------
(* Properties *)

CbType == [count : 0..MaxNeed, offset : 0..MaxNeed, desc_nr : Int,
           done : BOOLEAN, status : {"ok", "err"}]

QueueType ==
  /\ mode \in Modes /\ q_state \in {"enabled", "online"} /\ q_stop_wait \in BOOLEAN
  /\ pend_list_empty \in BOOLEAN /\ work_req_pend \in Int

RingType ==
  /\ pidx \in 0..(RngSz - 1) /\ cidx \in 0..(RngSz - 1)
  /\ avail \in 0..(RngSz - 1) /\ credit \in Nat
  /\ desc \in [0..(RngSz - 1) -> Req \cup {NoOne}]

ListType == work_list \in Seq(Req) /\ pend_list \in Seq(Req)

ReqType ==
  /\ cb \in [Req -> CbType]
  /\ \A r \in Req : cb[r].offset <= cb[r].count
  /\ pc \in [Req -> {"new", "queued", "wait", "out"}]
  /\ result \in [Req -> {"none", "ok", "err"}]

HwType ==
  /\ hw \in [on : BOOLEAN, wb : 0..(RngSz - 1), db : 0..(RngSz - 1),
             armed : BOOLEAN, no_last : BOOLEAN]
  /\ moved \in [Req -> Nat] /\ ring_alloc \in BOOLEAN

SecType ==
  sec \in [owner : Actors \cup {NoOne},
          at : {"free", "cmpl", "credit", "fill", "refill", "doorbell", "exit",
                "service", "flushpend", "flushwork"},
          ret : {"fill", "refill", "exit", "service"}, written : Nat, pos : Nat \ {0}]

ActorType ==
  /\ thread \in [at : {"check", "sleep", "run", "proc"}, attached : BOOLEAN,
                 schedule : BOOLEAN]
  /\ irq_work \in [at : {"idle", "cmpl", "proc", "running"}, scheduled : BOOLEAN]
  /\ ctl \in [at : {"idle", "config", "program", "attach", "online", "stopwait", "flush",
                    "flushing", "detach", "clear", "release"},
              starts : 0..MaxStarts, stops : 0..MaxStops]

\* The queue, its ring, its lists, the requests, the device, the holder of the
\* lock and the three contexts keep their types; avail and the indices stay
\* within the ring and no request is given more descriptors than it needs.
TypeOK ==
  QueueType /\ RingType /\ ListType /\ ReqType /\ HwType /\ SecType /\ ActorType

Pending(i) == Dist(cidx, i) < Dist(cidx, pidx)

\* While the ring is allocated, free entries and entries between cidx and pidx
\* add up to the usable ring, and the written-back index lies between cidx and
\* the doorbell, which lies before pidx: the device never runs past what was
\* written and the driver never reuses a descriptor the device has not executed
\* (avail, pidx and cidx in descq_mm_proc_request and
\* descq_mm_n_h2c_cmpl_status).
RingAccounting ==
  ring_alloc =>
    /\ avail + Dist(cidx, pidx) = RngSz - 1
    /\ Dist(cidx, hw.wb) + Dist(hw.wb, hw.db) + Dist(hw.db, pidx) = Dist(cidx, pidx)

\* Outside critical sections each request on the lists still owes as many
\* descriptors as the ring holds for it, less the credits read ahead, which
\* belong to the oldest request: cb->desc_nr and descq->credit, updated in
\* qdma_update_request and descq_mm_n_h2c_cmpl_status, agree with the ring.
DebtMatchesRing ==
  (Unlocked /\ hw.on) =>
    LET all == pend_list \o work_list
    IN \A k \in 1..Len(all) :
         Cardinality({i \in 0..(RngSz - 1) : Pending(i) /\ desc[i] = all[k]})
           = cb[all[k]].desc_nr - (IF k = 1 THEN credit ELSE 0)

\* A request reported done without error has been executed in full by the
\* device: the credits of qdma_sgt_req_done were those of its own descriptors.
NoEarlyCompletion ==
  \A r \in Req : (cb[r].done /\ cb[r].status = "ok") => moved[r] = cb[r].count

\* Once a caller has been told the outcome, and may unmap and reuse the
\* buffers, the device holds no descriptor of that request any more.
NoDmaAfterReturn ==
  hw.on => \A i \in 0..(RngSz - 1) :
             (Dist(hw.wb, i) < Dist(hw.wb, hw.db)) => result[desc[i]] = "none"

\* What callers are told is what the device has done: the ring, the debts of
\* the requests and the credits read ahead agree, no completion is early, and
\* no descriptor of a caller that returned is still to be executed
\* (descq_mm_n_h2c_cmpl_status, qdma_sgt_req_done, qdma_queue_stop).
OutcomeIsTrue == DebtMatchesRing /\ NoEarlyCompletion /\ NoDmaAfterReturn

\* A request whose caller has got its outcome, and may free the memory the
\* list entry lives in, is on neither list.
NoDanglingRequest ==
  \A r \in Req : result[r] # "none" => ~Listed(work_list, r) /\ ~Listed(pend_list, r)

\* A stopped queue keeps no request (qdma_queue_stop walked both lists).
StoppedQueueEmpty ==
  (q_state = "enabled" /\ ctl.at = "idle") => work_list = <<>> /\ pend_list = <<>>

\* work_req_pend, by which interrupt service decides whether to go on with
\* qdma_descq_proc_sgt_request, is the length of work_list.
WorkReqPendCounts ==
  (Unlocked /\ q_state = "online") => work_req_pend = Len(work_list)

\* descq_mm_n_h2c_cmpl_status never reads the write-back of a freed ring.
NoStatusReadAfterFree ==
  (At("cmpl") /\ pidx # cidx) => ring_alloc

\* Every accepted request ends: no completion is lost between the write-back,
\* the interrupt or thread that reads it, and the full ring that held it back.
EveryRequestEnds ==
  \A r \in Req : (cb[r].count > 0) ~> (result[r] # "none")

\* A queue_stop that began to wait for pending requests gets the queue stopped.
StopEnds == (ctl.at = "stopwait") ~> (ctl.at = "idle" /\ q_state = "enabled")

\* Every call of qdma_request_submit and every qdma_queue_stop ends.
EveryCallEnds == EveryRequestEnds /\ StopEnds

-----------------------------------------------------------------------------
(* What callers see of the queue: RequestService *)

Ended(r) == cb[r].done \/ result[r] = "err"

\* The callers' view of one request; a completion counts from cb->done on.
phase == [r \in Req |-> IF cb[r].done
                        THEN IF cb[r].status = "ok" THEN "ok" ELSE "failed"
                        ELSE IF result[r] = "err" THEN "failed"
                        ELSE IF cb[r].count > 0 THEN "active" ELSE "new"]

\* The requests of s that have not ended; a stop leaves on the lists those whose
\* callers wait, and they have ended.
Active(s) == IF \A i \in 1..Len(s) : ~Ended(s[i]) THEN s
             ELSE SelectSeq(s, LAMBDA r : ~Ended(r))

Abs == INSTANCE RequestService
         WITH fifo <- Active(pend_list \o work_list),
              left <- [r \in Req |-> cb[r].count - moved[r]],
              phase <- phase

\* The queue implements the request service: descriptors are executed in the
\* order requests were accepted, a request ends well only when it is executed
\* and nothing is executed for a request that has ended.
ServesRequests == Abs!Spec
=============================================================================
