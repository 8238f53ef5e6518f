# A TLA+ model of the QDMA and XDMA Linux drivers

These modules model the core of two drivers: the QDMA PCIe driver
(`qdma-driver/driver/libqdma` and its front end in `qdma-driver/driver/src`) and
the XDMA driver (`xdma-driver/xdma`). They follow a DMA request through the
descriptor queues, a queue from its creation to its removal, a queue's contexts
into the controller, and the messages between physical and virtual functions
through loading, unloading and reset. Small instances are checked with TLC; the
facts that matter most are proved with TLAPS for every size of ring and every
number of requests, functions and queues.

Paths below are relative to `src/qdma-driver/driver/libqdma/` unless they begin
with `driver/` (`src/qdma-driver/driver/`) or `xdma/` (`src/xdma-driver/xdma/`).

## 1. The system

| Part | Files | State | Operations |
|---|---|---|---|
| Descriptor queue engine | `qdma_descq.c`, `qdma_descq.h`, `libqdma_export.c` | per queue: `q_state`, `pidx`, `cidx`, `avail`, `credit`, `work_list`, `pend_list`, `pend_list_empty`, `work_req_pend`; per request: count, offset, `desc_nr`, done, status | submit (blocking, with callback, batch), fill the ring, ring the doorbell, complete, time out, start, stop |
| Completion threads, interrupts | `qdma_thread.c`, `thread.c`, `qdma_intr.c` | queues per thread or processor, vectors, aggregation ring, `descq->work` | choose a worker and a vector, check, sleep, run, handler and deferred work |
| C2H stream queues | `qdma_st_c2h.c` | free list, completion ring, `avail`, `pkt_dlen`, `pidx_pend` | take completions, hand data to readers, refill, time out, stop |
| Queue life cycle | `libqdma_export.c`, `qdma_device.c`, `driver/src/qdma_mod.c`, `nl.c`, `cdev.c` | descqs, counters, workers, vectors, legacy interrupt, `qdata`, character devices | add, start, stop, delete, reset, set qmax |
| Resource manager | `qdma_access/qdma_resource_mgmt.c` | master resource, free list, device entries, active queue counts | create and destroy, update, increment, decrement |
| Contexts and register access | `qdma_context.c`, `qdma_access/*_access.c`, `qdma_mbox_protocol.c` | the context window (data, mask, command), `hw_prg_lock`, the contexts | program, clear, invalidate, read, with a poll that may time out |
| Mailbox | `qdma_mbox.c`, `qdma_access/qdma_mbox_protocol.c` | `tx_todo_list`, `rx_pend_list`, timer, one slot each way | send, try again, receive, match, time out, stop |
| SR-IOV and reset | `qdma_sriov.c`, `qdma_device.c`, `xdev.c` | `vf_info`, `vf_count_online`, `reset_state`, `reset_work` | hello, bye, the reset handshake, unloading |
| XDMA engine | `xdma/libxdma.c`, `xdma/xdma_thread.c` | `transfer_list`, `running`, `shutdown`, `desc_idx`, writeback | submit, queue, start, serve, abort, offline, online |

**How they interact.** A caller (character device, netlink command, another
kernel module) submits a request to a descriptor queue. The engine, under
`descq->lock`, writes as many descriptors as the ring has room for and rings the
doorbell; the device executes them in order and writes its index to host memory; a
completion thread, the deferred work of an interrupt or the next submitter turns
the difference into credits for the requests on `pend_list`, oldest first. On a C2H
stream queue data comes first: completions say which buffers of the free list the
card has filled, and waiting readers are served from them. The netlink front end
adds, starts, stops and deletes queues, one command at a time, and keeps a
character device for each pair. The resource manager decides which hardware
queues a function owns; physical functions call it, virtual functions ask their
parent through the mailbox, which also carries the context writes of a virtual
function and the announcements of a reset.

**What is hard.** Locks are dropped between the steps of almost every operation;
completions are matched to requests by position, and mailbox answers by operation
only; requests and messages are abandoned by timeouts while the other side still
works on them; nearly every wait has a time limit after which the code goes on;
controls spread over six books can fail half-way. `PROJECT.json` lists these as
hazards, each at its line, with the properties that watch it.

## 2. Modules

| Module | Content |
|---|---|
| `RequestService` | abstract: FIFO service of the requests of a queue |
| `QdmaDescq`, `MCQdmaDescq` | the queue engine, its completion thread, interrupt work, device and control path |
| `QdmaDescqProofs`, `QdmaDescqDebtProofs` | theorems about `QdmaDescq`: ring and lists; debts and refinement |
| `QueuePool` | abstract: exchange of contiguous ranges of queues |
| `QdmaResource`, `MCQdmaResource`, `QdmaResourceProofs` | the resource manager with the functions that use it |
| `MailboxService` | abstract: a request is handled once and gets an answer, which is its own while none failed |
| `QdmaMbox`, `MCQdmaMbox` | both ends of a mailbox link |
| `QdmaMboxProofs` | theorems about `QdmaMbox`: places and lists; memory, order of answers, refinement |
| `QdmaVfReset`, `MCQdmaVfReset`, `QdmaVfResetProofs` | a PF and its VFs through load, unload and reset |
| `ContextLayout` | the words of the queue contexts of each device generation |
| `QueueContext`, `MCQueueContext` | programming, reading and invalidating them |
| `QdmaStC2h`, `MCQdmaStC2h`, `QdmaStC2hProofs` | a C2H stream queue |
| `QueueLifecycle`, `MCQueueLifecycle`, `QueueLifecycleProofs` | the queues of a function from add to reset |
| `XdmaEngine`, `MCXdmaEngine`, `XdmaEngineProofs` | an engine of the XDMA driver |

Definitions with a suffix after an underscore (`InsertChunk_AtTail`) are no part of any
specification: each is the form a definition would take with a plausible bug, and
the property listed with it under "mutants" must then fail.

### QdmaDescq

One descriptor queue, memory-mapped or H2C stream. The unit of data is the
descriptor: a request needs 1 to `MaxNeed` of them. The variables keep the names
of the fields of `struct qdma_descq` and `struct qdma_sgt_req_cb`; `hw` is the
device as the driver meets it, `moved` how much it has executed for each request.
`Timed` are the blocking requests whose wait may end early: those with a `timeout_ms`
and, since every wait is interruptible (`qdma_compat.h:49-76`), any whose caller may
get a signal; the code treats both alike (`libqdma_export.c:256-267`).

Atomicity follows `descq->lock`. `sec` says who holds it and at which statement;
inside a critical section only the holder and the device move. Each loop
iteration in a section (one request filled, one request completed) is a step, so
the device may advance the status entry between two iterations.

| Actor | Actions | Code |
|---|---|---|
| caller | `Submit`, `BatchSubmit`, `Refuse`, `ProcRequest`, `TimeOut`, `Return` | `qdma_request_submit`, `qdma_batch_request_submit`, `qdma_request_wait_for_cmpl` |
| holder of the lock | `CmplNothing`, `CmplCredits`, `CmplPart`, `CmplDone`, `CmplRearm`, `Fill`, `FillPoll`, `Refill`, `FillEnd`, `Doorbell`, `Exit` | `descq_mm_n_h2c_cmpl_status`, `descq_mm_proc_request`, `qdma_sgt_req_done` |
| interrupt | `HwStep`, `CmplRearm`, `Service`, `ServiceEnd`, `ServiceProc` | `data_intr_direct`, `intr_work`, `qdma_descq_service_cmpl_update` |
| completion thread | `ThreadCheck`, `ThreadWake`, `ThreadRun` | `xthread_main`, `qdma_thread_cmpl_status_pend` |
| control path | `Start...`, `Stop...`, `Flush...` | `qdma_queue_start`, `qdma_queue_stop`, `qdma_descq_free_resource` |

There is one control path because control commands of a device run on a
single-threaded workqueue (`driver/src/qdma_mod.c:1379`). `SlowDevice`: a stop
waits one second for `pend_list_empty`; with `FALSE` the device drains in that
time, with `TRUE` the wait may end at any time.

*Fairness.* Weak fairness of the lock holder (a section contains no wait), of the
device, of the completion thread and deferred work and of callers that have queued
a request. Strong fairness of the stop, which competes for the lock. New
submissions, starts and timeouts are never forced.

`RequestService` says requests are refused or accepted, data moves in the order of
acceptance, requests end in that order and well only when everything was moved.
`ServesRequests` maps its `fifo` to `pend_list \o work_list` without ended requests.

### QdmaResource

The free list is the code's: a sequence of chunks sorted by `qbase`, with best
fit, splitting before and behind, and the merge pass that is skipped when there
is nothing to give back (`SubmitToFreeList`, `PickChunk`, `CutOut`,
`RequestQResource`). `entry` is the manager's record of a function, `drv` the
function driver's own view. One operation of a function is one action: the PCI core
probes the functions of a loading module in turn, and mailbox requests are answered,
except the notice of an added queue. An addition may fail at every stage that leaves
something behind: before the resources are prepared (`QueueAddUnprepared`, an enabled
descq with an empty configuration that nobody counts), or with the notice of a virtual
function or its answer lost (`QueueAddUnanswered`, counted in some of its counters).
Such a queue has no handle (`told` is false); only a change of qmax or leaving
removes it, and the count is then lowered for what its empty configuration says, an
H2C queue. `drained` is the history variable that says this happened. `QueuePool` promises that a function
exchanges its queues for a contiguous run of exactly the size it is told, only
while it uses none of them; `PoolImplemented` ties the manager's books (`Owner`) to
what the drivers believe (`Granted`, `Placed`).

### QdmaMbox

Two ends, each with the lists, timer, work items and worker of `qdma_mbox.c`; the
worker is a single-threaded workqueue, so `pc` and `cur` say where in `tx_work` or
`rx_work` it is. A step that holds `list_lock` is one action; between two such
steps senders add, wake, leave and free. The registers are one slot each way
with its acknowledgement. `retry_cnt` counts down as in the code; a peer slower
than the tries of a message is the constant of a behaviour (`slow_peer`).

Every wait, of either side, may end at any moment (`TimeOut`): it has a limit of
10 s and is interruptible. The sender then looks at `resp_op_matched` without the lock;
if it is set the request ends well (`Return`), otherwise the sender unlinks its
message (`Expire`). A virtual function's caller frees it after that, whoever
still holds it. `freed` and `wild` record which messages were freed and which of them
were touched afterwards or unlinked twice; `hurried` records whose sender left while
the worker held the message or had just matched it. A behaviour ends when memory is
damaged (`Broken`), since what the code does then is anything; a parent's sender that
only reads its freed message goes on, with either value of the flag (`Reads`).

`MailboxService` says a request is handled at most once; one that ends well was
given the answer to some handled request, to itself while nothing failed or was given up, and
no answer is given twice; only the request of a hurried sender ends well with no
answer. The mapping reads what was copied over the message: nothing copied is
no answer. *Fairness*: workers and timers run, a woken sender goes on, a parent's wait
runs out; that of a virtual function is never forced to, so `EveryRequestAnswered` shows that
its requests end by their answer and not by the limit.

### QdmaVfReset

The messages are queues in order, as `QdmaMbox` delivers them. The PF's reset
thread (`qdma_pf_trigger_vf_reset`, `qdma_device_offline`, `qdma_device_online`),
its mailbox worker, and for each VF the mailbox worker, the driver's load and
unload and the reset work take steps of their own, and every wait may run out.
`disturbed` remembers that a wait ran out or that a driver was loaded in the
middle of a reset: `UndisturbedReset` is stated for undisturbed runs only, because
otherwise the code gives no such guarantee (section 5). *Fairness*: threads run
and messages are taken; loads, unloads and resets are never forced.

### ContextLayout and QueueContext

A context word is the set of its bits; the tables follow the `FIELD_SET` and
`FIELD_GET` masks of each generation (EQDMA soft, CPM5, older soft, CPM4), kept
apart for writing and reading so that a disagreement shows. `QueueContext` runs
threads through the accesses of `qdma_queue_start`, `qdma_queue_stop`, a dump, the
set-up of an interrupt ring, and the mailbox worker of the PF doing the same for
a VF. One access is: lock, data words, command, poll, data back, unlock; the
controller executes a command between, late, or after the poll timed out.
*Fairness*: threads run (strong fairness for the lock); the controller owes
nothing, since its silence costs the poll time of a step.

### QdmaStC2h

Units of data are numbered as the card sends them, so that order, loss and
repetition show in `readOut`. The card fills buffers, writes completions with the
color of the round and raises interrupts at any time, also while the handler
holds the lock (`svc`). Readers wait, have a callback, or never wait
(`qdma_queue_packet_read`). Notices come by polling, a direct vector or the
aggregation ring with its own color. *Fairness*: owed interrupts are raised,
handlers, work and the completion thread run.

### QueueLifecycle

One action is one netlink command on one queue (`genl` and the workqueue
serialise them), with everything it changes: the descq, `active_*_qcnt`, worker
and vector lists, the legacy interrupt, `qdata` and the device of the pair. What
can go wrong is a step failing after others succeeded (`AddFailsPreparing`,
`AddFailsCounting`, `AddFailsDevice`) and what earlier commands left behind. The
descqs are the one array of 3 * `QMax` entries that the code allocates, so a
pointer that is moved too far lands where it does in memory. A reset frees
completion queues without removing them; such queues go to `lost`, and nothing is
claimed about what a worker later does with their freed memory.

### XdmaEngine

Callers that wait hold `desc_lock` through all transfers of a request;
asynchronous ones queue all of them. `engine_service` is split where the engine
may finish between two reads of its registers; the polling thread where it reads,
clears and uses the writeback. *Fairness*: threads, work items and timers run,
locks are passed on, a started engine goes on.

## 3. Runs

| Run | Question | Instance |
|---|---|---|
| `descq_async` | do ring, lists and callbacks agree, and does the queue refine `RequestService`? | two callback requests of up to 3 descriptors, ring of 3, poll and interrupt, two starts and stops |
| `descq_live` | does every request end, and every stop? | a blocking and a callback request, poll, interrupt and auto mode |
| `descq_timeout` | do ring arithmetic and memory survive timeouts and a slow device? | a timed request and a batch, poll and auto mode |
| `resource_pool` | is the manager a `QueuePool`, are its counts right, does the board's count guard the CSRs? | two PFs and a VF, 3 queues, stream queues, requests up to one more than exist, an addition that fails half-way |
| `mbox_link` | does every request get an answer and its own, and who touches freed memory? | two of: two VF requests of one operation, a PF request, a bye; every wait may end early; a polling VF, a PF with interrupts |
| `vf_reset` | do the books agree after load, unload and reset? does a reset end? | two VFs, one reset, one load each, every wait may run out |
| `context_access` | does each field arrive and come back, do races and failures leave whole contexts? | every field of every generation alone, eight pairs of threads |
| `st_c2h` | does the stream arrive in order, with nobody waiting beside data? | three readers, 4 buffers, 3 completions, packets of 0 and 3 units, an error |
| `queue_lifecycle` | do all books tell the same story? | 2 queues of each type, 2 workers, 2 vectors, one failure, 3 queues at a time, three modes |
| `xdma_engine` | is a reported success true, is nothing left after a return? | nine scenarios of two or three requests, ring of 3, timeouts, errors, a reset |
| `auto_index` | violation: an automatic index names another descq | polled mode, 2 queues |
| `stale_writeback` | violation: an abandoned transfer completes the next | polled mode, timeouts |

What each passing run checks:

| Run | Properties |
|---|---|
| `descq_async` | `TypeOK`; `OutcomeIsTrue`: debts, credits and ring agree, no completion is early, nothing of a returned caller is still to be executed; `NoDanglingRequest`, `StoppedQueueEmpty`: no list entry outlives its caller or a stop; `WorkReqPendCounts`; `ServesRequests`: refinement |
| `descq_live` | `OutcomeIsTrue` for blocking and callback requests together; `EveryCallEnds`: each request and each stop ends |
| `descq_timeout` | `RingAccounting`: free, written, executed and collected entries add up; `NoStatusReadAfterFree` |
| `resource_pool` | `QueuesPartitioned`: no queue lost or given twice; `BooksOK`: a PF counts the queues its callers know, a VF these and no more than it enabled; the board counts every queue in use until a queue left by a failure is cleaned up; `PoolImplemented`: refinement |
| `mbox_link` | `LinkOK`: a message is in one place, something will send it, polling goes on; `MessagesAlive`: a freed message is touched only if its sender left while the worker held or matched it, or, on the parent, after it was answered; `ByeNotLost`; `KeepsPromise`: refinement of `MailboxService`; `EveryRequestAnswered` |
| `vf_reset` | `TypeOK`; `UndisturbedReset`: functions give their queues back first, the books agree afterwards, nobody waits; `AnnouncementServed`; `ResetEnds` |
| `context_access` | `StartedIsProgrammed`: each field arrives; `ReadIsWhole`: no dump mixes two contexts; `NothingInherited`: failed starts and stops leave nothing in use and a queue comes into use on cleared contexts; `EveryCallReturns` |
| `xdma_engine` | `TypeOK`; `OutcomeIsTrue`: success means moved, failure has a cause; `NothingAfterReturn`; `RunsTheHead`; `QuietWhenOffline`; `EveryCallReturns` |
| `st_c2h` | `ReadersGetTheStream`: in order, whole, with the right length; `NoDataWhileWaiting`; `FreeListSound`: no buffer is refilled unread or received twice; `PacketsNoticed` |
| `queue_lifecycle` | `PairsAgree`; `DevicesMatch`: a device leads to the queue it names; `LegacyHeld`; `BooksMatch`: counts, workers, vectors and what a reset leaves, and that a starting queue goes where the fewest are |

Several of these are conjunctions of named parts that stand before them in the
module with a comment each.

*Why these bounds are enough.* The rings wrap, fill and run empty in every
instance; two requests are what it takes to overtake, to steal credits and to be
matched wrongly, three readers what it takes for a queue of waiters with one of
each kind; two virtual functions show an interleaving of two handshakes and a hole
in the table; three queues in use at a time are a pair and its rival at one index,
or two indices. Two messages at a time (`Traffic`) are what it takes to match an answer
wrongly, to fill a slot or to block a bye; that the two requests of one operation are
interchangeable leaves four pairs. `MaxLeft` bounds the queues failed additions leave,
`MaxQcnt` the queues counted at a time; `QcntMod` stands for the width of the board's
counter.

`CHECK_DEADLOCK FALSE` stands where requests, packets or commands are used up and
the system may rest: all but the runs of `QdmaResource` and `QueueLifecycle`.

**What the violations say.**

1. *Automatic index* (`libqdma_export.c:1519-1530`). The search advances the
   pointer in the loop and adds the index to it again; with index 0 taken the queue
   enabled is at twice the index reported, in another array even.
2. *Stale writeback* (`xdma/libxdma.c:1265`). The count of an abandoned transfer
   that nobody read completes the next one.

## 4. Proofs

All from the assumptions on constants named in the modules.

| Theorem | Statement |
|---|---|
| `QdmaDescqProofs!Inductive`, `TypeCorrect`, `RingAccounted` | `[]IInv`, `[]TypeOK`, `[]RingAccounting` |
| `QdmaDescqProofs!PolledReadsLiveRing` | `[]NoStatusReadAfterFree` when no mode is `"intr"` |
| `QdmaDescqProofs!NothingDangles`, `StopEmpties`, `WorkIsCounted` | `[]NoDanglingRequest`, `[]StoppedQueueEmpty`, `[]WorkReqPendCounts` for callback requests |
| `QdmaDescqDebtProofs!OutcomesAreTrue` | `[]OutcomeIsTrue` for callback requests and a device that drains in time |
| `QdmaDescqDebtProofs!QueueServesRequests` | `ServesRequests`, the refinement of `RequestService`, on the same premises |
| `QdmaVfResetProofs!TypeCorrect`, `AnnouncementIsServed` | `[]TypeOK`, `[]AnnouncementServed` |
| `QdmaVfResetProofs!ResetKeepsBooks` | `[]UndisturbedReset` for at most 255 functions, each loaded once, and any number of resets |
| `XdmaEngineProofs!OfflineIsQuiet` | `[]QuietWhenOffline` |
| `XdmaEngineProofs!WaitingRunsTheHead`, `WaitingLeavesNothing` | `[]RunsTheHead`, `[]NothingAfterReturn` for waiting callers |
| `XdmaEngineProofs!TypeCorrect` | `[]TypeOK` |
| `XdmaEngineProofs!WaitingAreToldTheTruth` | `[]OutcomeIsTrue` for waiting callers, on a polled engine without time limits |
| `QdmaMboxProofs!Places`, `LinkStays`, `ByeStays` | `[]PlaceInv`, `[]LinkOK`, `[]ByeNotLost` |
| `QdmaMboxProofs!MemoryStays` | `[]MessagesAlive` |
| `QdmaMboxProofs!PromiseKept` | `KeepsPromise`, the refinement of `MailboxService` |
| `QueueLifecycleProofs!PairsAlwaysAgree` | `[]PairsAgree` unless an index past 0 is chosen automatically |
| `QueueLifecycleProofs!LegacyIrqHeld` | `[]LegacyHeld` |
| `QueueLifecycleProofs!DevicesAlwaysMatch`, `BooksAlwaysMatch` | `[]DevicesMatch`, `BooksMatch`, on the premise of `PairsAlwaysAgree` |
| `QdmaResourceProofs!RangesPartition` | `[]QueuesPartitioned` |
| `QdmaResourceProofs!BooksAreTrue` | `[]BooksOK` |
| `QdmaResourceProofs!ManagerIsPool` | `PoolImplemented`, the refinement of `QueuePool` |
| `QdmaStC2hProofs!FreeListAlwaysSound` | `[]FreeListSound` when card and driver divide lengths alike (`SameBuffers`) |
| `QdmaStC2hProofs!NobodyWaitsForData`, `ReadersAlwaysGetTheStream` | `[]NoDataWhileWaiting`, `[]ReadersGetTheStream`, on the same premise |

**Ring.** `RingAccounting` is not inductive alone: that a completion section runs
only on an allocated ring depends on who may hold the lock at which stage of a stop.
The invariant is `IInv == TypeOK /\ CtlInv /\ SecInv /\ RingAccounting`: `CtlInv`
relates the stage of a start or stop to `q_state`, the device context and the
ring, `SecInv` says what the lock holder knows at each statement. One lemma per
action, over a small theory of distances on the ring (`DistAdvance`, `CreditsAreDist`).

**Lists.** `AInv == ListInv /\ CallerInv /\ StopInv`: a request is listed once
while its outcome is open; a submitter that was told nothing has no outcome; a
stop leaves both lists empty and the counter is the length of `work_list` while
the queue is online. The premise `OnlyAsync` is necessary: a blocking request
stays listed after a stop and a batch is not counted (section 5).

**Debts.** That completions by position are right is the invariant
`BInv == ShareInv /\ DoneInv /\ IdleInv`. `ShareInv`: the requests of
`pend_list \o work_list` divide the entries in use among them in that order; entry
counts from `cidx` mark where each share begins (`Chain`; the credits read ahead lie
before 0), each entry was written for the request whose share it is in (`Cover`), the
device has executed of each what lies before its index (`Progress`), only the first of
`work_list` is written in part (`Unwritten`), and outside a completion the credits are
less than the first request owes (`Settled`). `DoneInv`: what ended well was executed.
`IdleInv`: a stop flushes the lists of an idle ring. The premises are `OnlyAsync` and
`~SlowDevice`: an abandoned blocking request, and a stop that does not wait for the
device, leave descriptors in the ring that belong to nobody (section 5).

`QueueServesRequests` maps each step to one of `RequestService` or to none. The
mapping leaves ended requests out of `fifo`; with callbacks none is listed
(`NothingEnded`), so `fifo` is both lists. `CInv` says what the steps need of calls: the
size of an open request, that one on `pend_list` is written in full, and that a lock
holder has submitted. `HwStep` is the abstract `Transfer` of the oldest request with
something left, since every earlier share is behind the device's index.

**Reset.** The types of the PF's loops, of the VFs and of the messages under way,
and `AnnouncementServed`: the announcement is recorded by the mailbox worker in one
step and served by the reset work in others, and what lies between is the
invariant.

`UndisturbedReset` compares the books of all functions when the last is back. Its
invariant `UInv` speaks of the states that nothing disturbed and in which the PF is not
being unloaded (`Live`). `LocalOK` says for each function where its call is between
request, answer and entry (`CallOK`), that the PF announces and ends a reset to one
function at a time (`TellOK`, `OneTold`), that its state is the one the PF's stage of the
reset calls for (`StateOK`, `AskedOK`), and that a turn of the PF's last loop counts one hello
(`TurnOK`). `GlobalOK` says what the loops have behind them (`WaitOK`, `PassedOK`) and
what the count is at each stage (`CountOK`). After a reset the PF is `IDLE` when the
functions say hello, so each takes a second slot if there is one; `BackOK` keeps a set `Z`
of slots beyond those of the reset: each function still expected has a slot ahead
of the loop, and of `Z` what the loop has passed is vacant again. `RoomOK`, a pigeonhole,
says that the functions not loaded yet fit into the vacant slots.

The premise `LoadedOnce` has two parts. The count is a `u8`, which holds 255 functions. And a
driver is loaded once: with `MaxLoads = 2` TLC finds a counterexample, in which a function
in slot 2 takes slot 1 as well after a reset, because the other function was unloaded;
that one, loaded again, is counted without a slot (section 5). `NoOpAssumption` keeps the mark for
"no operation" apart from operations and answers.

**XDMA.** `IInv == EngineInv /\ PollInv`: a busy engine is known to run, an engine
taken offline is shut down, the polling thread serves in polled mode only. For
waiting callers `SyncInv` adds that the mutex holder owns the only transfer in the
list (`LockInv`, `QueueInv`), how much of the request has been sent (`SentInv`),
which states end a transfer (`EndsInv`), and that the engine is inside the head's
descriptors (`HeadInv`). With asynchronous callers a transfer that is not the head
can be aborted, and `RunsTheHead` has to be model-checked scenario by scenario.

`TypeCorrect` holds for all callers: `TypeInv` says where each transfer may lie in the ring
(`Values`, `ListInv`) and that the engine's next descriptor and what it has left stay
within (`HwInv`). It uses `DescMax < U32` (`WidthAssumption`): the number of
completed descriptors is a difference modulo `U32`, the width of the registers.
`OutcomeIsTrue` needs to know what every piece of evidence is worth: how far the
engine is with the head (`ProgressInv`), what the writeback may still hold
(`WbInv`), which event an interrupt or a poll stands for (`EventInv`), and that an
error is one of the head's own descriptors (`CauseInv`). `SyncOnly` says that every caller
waits, as `xdma_xfer_submit` does. `PolledPatient` says that nobody
times out on a polled engine: without it the theorem is false, and `stale_writeback` is
the counterexample.

**Mailbox.** `PlaceInv` says where a message is between its sender's list and the
handler, that it is there once, and which sender, worker or slot it belongs to;
the places are facts about lists (`Contains`, `NoDup`, `Prec`), so that no proof
depends on positions. `LinkInv` adds to it who will send what is listed: the
worker, a queued work item or the timer. A message that used up its tries ends
`tx_work` without a timer, and `LinkOK` leaves these out (section 5). `ByeInv` counts the
readings of the bye. For `MemoryStays`, `AliveInv` says of each request what its sender, the
worker and memory may know of each other: a matched one is in no list but the one
it is being taken off, one whose sender left is on no list and in no hand (`Gone`) unless
the sender was in a hurry, and what is freed has such a sender or, on the parent, its answer.

`PromiseKept` is the refinement of `MailboxService`, step by step, with waits
that end at any moment. The code matches a response to the first pending request of
its operation; that this is the right one while no request has failed is the invariant
`ServiceInv`: what was sent earlier is ahead in whichever place it is (`OrderInv`), a
request waits exactly while it or its answer is under way, being matched, or was given
up (`FlowInv`), the response in hand is the one to the request it was matched with
(`CopyInv`), and what was copied is told (`TellInv`). After a failure the order is lost, but an
answer in a message was sent by the other side and is in no other message nor under
way (`UsedInv`), so no answer is given twice. `AnswerAssumption` keeps answers apart from requests.

**Life cycle.** `PairOK` says the pairs one by one, for queues in use whose
addition did not fail: a failed addition leaves a queue with whatever mode its
descq had, so it must be left out for the rest to be inductive. Only a complete
`Add` makes a queue healthy, and `IsUsable` refuses a mode that does not fit
(`EnabledFits`); everything else only removes (`FewerFit`). `LegacyOK` says the
list and the interrupt are taken and given back together. The premise `~AnyAuto`
is necessary: `auto_index` puts a queue elsewhere than its check looked.

`DevicesMatch` needs `DInv`: besides what each device and handle says (`DevOK`,
`KnownOK`), that a queue the counters know and a queue with a device are the same
ones but for failed additions, so that a count below `QMax` leaves a free device entry
(`DeviceLeft`, a pigeonhole), and that after a reset no queue is in use. `BooksMatch` adds
`BInv`: loads are the sizes of sets of queues (`LoadsOK`), only a started queue is
attached (`Attached`), and a counter is never below 0 because what it counts is there
(`ActiveBound`). `FirstLeast`, the loop that picks a thread or vector, is proved to
return a least loaded one by looking at the first turn at which it would not (`LoopRuns`,
`LeastOf`): this is how loops are proved here, since induction is not available.

**Resource manager.** A theory of free lists comes first: a list is `Sorted` when its chunks
are not empty and each ends before the next begins, and `Free` is what it covers.
Insertion, a stretch, the whole merge pass (`Merged`, by the first turn that would go
wrong), cutting at either end and best fit (`Picked`) keep it sorted and change `Free` by
exactly the queues moved. `PInv == Members /\ Parts` then says that free queues and
ranges of functions are disjoint and make up the board. `RInv` adds `Ledger`, for each
function: driver and entry name the same range, indices lie within it, two known queues
that share an index share no counter (`Spread`), and each counter is the number of known
queues it counts or, for a virtual function, lies between that and the number of enabled
ones; and `Board`: until it was lowered for a queue a failed addition left, the board's
count is at least the known queues and within its width. It is not equality: a function
that leaves with a completion queue stays counted (section 5), and the inequality is what
the guard of the CSRs needs. That an addition is never refused for want of room after
the driver accepted it (`AlwaysCounted`) is a
pigeonhole over indices (`RoomLeft`). `ManagerIsPool` shows for each operation
that the pictures `Owner`, `Granted` and `Placed` move as `Resize`, `Use`, `Unuse`, `Leave`
or not at all. `KindAssumption` and `FunctionAssumption` (the functions are finitely many
and not the mark of a free queue) are the only assumptions beside the sizes.

**C2H stream.** None of the properties is inductive: what a completion says must match
what the card put into the buffers several steps before. `IInv` follows a buffer around
the ring. Places are counted from the spare buffer, the one no index may pass, so that
order on a ring is order of numbers: given back, read, received and filled, in this order
(`OrderInv`). The marks are exactly the buffers received and not given back, and the
counter is the number of the others (`ValidInv`); an unmarked buffer is empty
(`FreshInv`); the card never overtakes the completion index it was told (`CmptInv`).
`ChainInv` says, completion by completion, how many buffers and units lie
before it and that the buffers hold these units; `StreamInv` says the same of the buffers
received and not read, up to a half-read one. `WaitInv` says that who waits lacks
something and that nothing is unread when a request waits outside of the delivery. Each handler
statement moves a boundary: `RcvPkt` turns the first link of the chain into buffers
of the stream, a read (`ReadNow`, `SvcDeliver`) turns the front of the stream into
`readOut`. `GivenInv` adds what the readers are told: a listed request was given what it
does not lack. The counts of units and the list left by a stop are recursive
functions; that they have the values their equations give is proved by the first
argument at which it would fail (`BlockingIs`).

The premise `SameBuffers` is necessary: `get_fl_nr` divides lengths that are powers of
two by the room of a buffer and others by the size the card uses (`qdma_st_c2h.c:704-708`);
where the two sizes differ, the driver takes fewer buffers than the card filled. It holds
for every buffer size that is a power of two, as in `st_c2h`, and for any size when no
packet has such a length. `StreamInOrder` stays as it is
checked, up to where a half-read buffer is recycled (section 5).

**Only model-checked**: liveness (`EveryCallEnds`, `EveryRequestAnswered`, `ResetEnds`,
`EveryCallReturns`, `PacketsNoticed`: fairness and ENABLED are beyond the proof
system); `QdmaDescq!OutcomeIsTrue` with a blocking caller (`descq_live`);
`StartedIsProgrammed`, `ReadIsWhole` and
`NothingInherited` of the contexts (sets of bits over concrete tables).

## 5. Where the code departs from what one expects

Besides the two violations above, modelling showed the following. Each is
behaviour of the model where the model reaches it; the properties are stated so that they
hold around it.

*Descriptor queue.* A batch is put on `work_list` without counting in
`work_req_pend`, so interrupt service leaves the rest of a batch that did not fit
(`libqdma_export.c:2606`, `qdma_descq.c:1450`). A blocking request that times out
leaves its descriptors: either nobody collects them and the next submitter sleeps
in front of a full ring, or their credits complete the next request early
(`libqdma_export.c:264`, `qdma_descq.c:844`). A stop wakes blocking callers but
leaves their entries listed (`libqdma_export.c:1987`), and neither cancels nor
awaits `descq->work`, which then reads the freed ring if the device was slow
(`libqdma_export.c:2002`).

*Resource manager.* Restoring 0 queues at an old `qbase` splits a free chunk in
two that no pass merges (`qdma_resource_mgmt.c:351`). A function that leaves with a
completion queue leaves it in the board's count (`qdma_device.c:312`). A physical
function whose first addition cannot read the CSRs or write the queue range keeps the
queue enabled (`libqdma_export.c:1568-1576`; a virtual one disables it), and the
clean-up lowers the board's count for it (`qdma_resource_mgmt.c:738`, not guarded as the
function's own counters are). The board may then count 0 while another function has a
queue, and the checks of `libqdma_config.c:160,253` let global settings change: without its
condition `~drained` the guard, `CsrGuardSafe`, fails after eight steps. A virtual function
keeps the queue when its notice fails (1615-1635), counted or not.

*Mailbox.* A sender whose wait ends unlinks and frees its message without asking who
holds it: `tx_work` may have taken it as the head of `tx_todo_list` and still reads,
unlinks or lists it (`qdma_mbox.c:336-355`), so that it is unlinked twice or put on
`rx_pend_list` after it was freed; the receive path, between match and copy (181-231), unlinks
and overwrites it. The parent frees an answered message itself (296) and wakes a
sender that goes on to read `resp_op_matched` from it (141). `MessagesAlive` says there are no
other cases. The flag is set (181) before the response is copied (226-227), so a sender whose wait
ends in between returns success with its own request in the message: the `EndEarly` of
`MailboxService`. The answer to a request that expired completes a later one of the same
operation (179), which is told what was meant for the first: the `End` of a `q` other
than `r`. Both steps are reached in `mbox_link`. A message that used up its tries ends `tx_work`
without a timer: by interrupt the rest waits for the next send (360-370). The
`OFFLINE` branch of `tx_work` frees without unlinking (371). An announcement that
comes while `rx_pend_list` is not empty is dropped (189).

*Reset.* After a reset the PF is `IDLE` again when the VFs say hello, so each takes
a second slot (`qdma_device.c:573`, `qdma_sriov.c:239`), and one that is loaded later may
find none. A hello in the middle of a
reset gets no slot, one sent while the PF is down is discarded, a late bye counts
twice, and slots are walked from 0 to the count although there are holes
(`qdma_device.c:534`).

*Contexts.* Reading the software context takes `virtio_desc_base` from word 6
instead of 7 (`eqdma_soft_access.c:3012`), reading an interrupt context cuts
`pasid` to 8 bits (4223). A VF's dump of a memory-mapped completion queue reads other
contexts (`qdma_mbox_protocol.c:925-991`); a queue out of range is answered with
success (666, 755, 832). A stop ignores whether invalidation succeeded and frees
the rings (`libqdma_export.c:2005`). On CPM4 the two directions of a pair share a
vector word that is read and written in two lock regions, and the result of
writing it is ignored (`qdma_context.c:855-860`).

*C2H stream.* A recycled buffer keeps the offset of a partial read
(`qdma_st_c2h.c:445,592`), so that later data is read from the wrong place. A packet
read returns the count it asked for plus what it copied (1276-1286). A wait that
times out loses what it was given (`libqdma_export.c:246-291`). An error in a
batch drops the packets before it (1088-1094). With several vectors the color of
the first aggregation ring is toggled at the wrap of any (`qdma_intr.c:243`).
Lengths that are powers of two are divided by another buffer size than the rest
(704-708).

*Life cycle.* A failed addition leaves its queue enabled
(`libqdma_export.c:1568-1604`); one whose device could not be made can never be
deleted (`driver/src/qdma_mod.c:1099`); `xpdev_queue_delete_all` always fails (1134). A
reset removes no completion queue (`qdma_device.c:300-324`). A device with one
direction has handle 0 for the other, which names H2C queue 0
(`driver/src/cdev.c:342-360`). With three or more threads the choice is not the
least loaded (`qdma_thread.c:137-149`).

*XDMA.* The ring is not guarded against asynchronous requests that need more
descriptors than it has (`xdma/libxdma.c:2989`). An error on the first descriptor
leaves the transfer submitted until a timeout (1160). Aborting a transfer that is
not the head leaves it listed and stops another's run (2403-2439). An asynchronous
request refused at a later transfer is freed while earlier ones are queued (3935). A
queue left by going offline is restarted only by the next transfer. The comment of
`engine_start` (667-679) speaks of queued transfers chained to the running one;
the code does not chain them, it starts each with a run of its own, as the model does.

## 6. What is not modelled

- *Descriptor queue*: mapping, addresses, SOP and EOP flags, the bypass fill of
  stream queues, statistics, a doorbell write that fails.
- *C2H stream*: completions without data, the packet handler of another kernel
  module, adaptive thresholds, a restart after a stop.
- *Interrupts*: MSI-X allocation, error and user interrupts, the handler of the
  legacy interrupt.
- *Mailbox protocol*: CSR, interrupt and register messages, whose handlers are
  straight reads and writes.
- *Configuration*: CSR values and the settings of `libqdma_config.c` other than
  qmax. The guard on active queues passes a bus number where a device index is
  expected (`libqdma_config.c:160`): a lookup, not an interleaving.
- *Contexts*: the checks of the values handed to the write functions of the contexts.
- *Front end*: message formatting, sysfs, and the pinning of user pages in `cdev.c`
  and `cdev_sgdma.c`, whose AIO paths count segments wrongly (`driver/src/cdev.c:447`).
- *XDMA*: probing, cyclic and aperture transfers, the performance loop, control,
  bypass, event and virtual devices.
- *Probes in parallel*: the PCI core probes the functions of a module in turn, so
  functions open and close one at a time.
- *Data, not behaviour*: about 32,000 lines of the implementation are register and
  error tables and the dump code generated from them
  (`qdma_access/*_reg_dump.c` and most of `*_access.c`), repeated for each device
  generation; `qdma_s80_hard_access` is never selected. debugfs and the tools in
  `qdma-driver/apps` read and print. `hw_test`, `qdma` and `xdma-*` are hardware.
  This is why the modules stand for about 9% of the lines of the tree although
  they cover most of what runs concurrently in the two drivers.
- *Beyond the prover*: liveness, induction over data, and recursive operators.

## 7. What could follow

The invariants of `QueueContext` for every table of layouts; opening and closing
functions step by step over the resource lock; the packet handler of another kernel module
on the C2H stream.
