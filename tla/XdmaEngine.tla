----------------------------- MODULE XdmaEngine -----------------------------
(***************************************************************************)
(* One scatter-gather engine of the XDMA driver (xdma/libxdma.c) and those *)
(* who share it: the callers of read and write (xdma_xfer_submit), which   *)
(* hold desc_lock and wait for each transfer, those of asynchronous I/O    *)
(* (xdma_xfer_submit_nowait), which queue all transfers of a request and   *)
(* are called back, the interrupt handler and its work item or the polling *)
(* thread (xdma_thread.c), and the device going offline and online.        *)
(*                                                                         *)
(* A request is a number of descriptors; a transfer is the part of it that *)
(* fits behind engine->desc_idx in the descriptor ring, and is named by    *)
(* the request and its first descriptor.  engine->lock is held for the     *)
(* whole of an action, or, in engine_service, while svc is not Nil: there  *)
(* the engine may finish between two reads.                                *)
(*                                                                         *)
(* The engine is external: started, it executes the descriptors of one     *)
(* transfer, counts them, and stops with the last, which sets its status   *)
(* or writes the count back; it may stop on an error before that.  Stopped *)
(* by the driver it halts.  Not modelled: eop_flush, cyclic and            *)
(* performance transfers, the credits of desc_used.                        *)
(***************************************************************************)
EXTENDS Integers, Sequences, FiniteSets, TLC

CONSTANTS
  Client,     \* the requests, each made once
  Scenarios,  \* [mode, sync, n, timed, errors, resets]: interrupts or polling,
              \* who waits, descriptors of each request, whether a wait may
              \* time out, how the engine fails, times the device goes offline
  DescMax,    \* engine->desc_max
  U32,        \* a u32 wraps at it: 2^32, in an instance any number past DescMax
  MaxN,       \* bound: descriptors of one request
  Nil

ASSUME DescMaxAssumption == DescMax \in Nat \ {0}
ASSUME WidthAssumption == U32 \in Nat /\ DescMax < U32
ASSUME ScenarioAssumption ==
  MaxN \in Nat /\ \A s \in Scenarios : s.sync \in BOOLEAN /\ s.n \in [Client -> 0..MaxN]
ASSUME NilAssumption == Nil \notin Client /\ Nil \notin [n : Nat, err : BOOLEAN]

VARIABLES
  scen,
  pc,         \* where the caller is
  sent,       \* the descriptors of the request put into transfers
  res,        \* what the call returned or the callback reported
  desc_lock,  \* the caller that holds the mutex
  num,        \* transfer -> desc_num
  slot,       \* transfer -> desc_index
  state,      \* transfer -> state
  ring,       \* the descriptors in memory, index -> the descriptor there
  desc_idx, transfer_list, running, desc_dequeued, shutdown,
  status,     \* engine->status, as last read
  svc,        \* Nil, or the count engine_service was called with
  hw,         \* [busy, next, left, count, event, err]
  moved,      \* the descriptors the engine has executed
  bad,        \* those it failed on
  irq,        \* [on, mask, work]: set up, unmasked, work item scheduled
  wb,         \* the writeback in memory, [n, err]
  poll,       \* the polling thread, [at, exp, val]
  dev         \* [flag, at, cycles]: XDEV_FLAG_OFFLINE and its change

client == <<pc, sent, res, desc_lock>>
xfer == <<num, slot, state>>
engine == <<transfer_list, running, desc_dequeued, shutdown, status>>
vars == <<scen, client, xfer, ring, desc_idx, engine, svc, hw, moved, bad,
          irq, wb, poll, dev>>

-----------------------------------------------------------------------------
Polling == scen.mode = "poll"
Descriptors(t) == {<<t[1], k>> : k \in t[2]..(t[2] + num[t] - 1)}
Transfers == Client \X (0..(MaxN - 1))
NoWb == [n |-> 0, err |-> FALSE]
Least(a, b) == IF a < b THEN a ELSE b

Init ==
  /\ scen \in Scenarios
  /\ pc = [c \in Client |-> IF scen.n[c] = 0 THEN "done" ELSE "call"]
  /\ sent = [c \in Client |-> 0]
  /\ res = [c \in Client |-> "none"]
  /\ desc_lock = Nil
  /\ num = [t \in Transfers |-> 0]
  /\ slot = [t \in Transfers |-> 0]
  /\ state = [t \in Transfers |-> "new"]
  /\ ring = [i \in 0..(DescMax - 1) |-> Nil]
  /\ desc_idx = 0 /\ transfer_list = <<>> /\ running = FALSE
  /\ desc_dequeued = 0 /\ shutdown = FALSE
  /\ status = [busy |-> FALSE, err |-> FALSE]
  /\ svc = Nil
  /\ hw = [busy |-> FALSE, next |-> 0, left |-> 0, count |-> 0,
           event |-> FALSE, err |-> FALSE]
  /\ moved = {} /\ bad = {}
  /\ irq = [on |-> scen.mode = "int", mask |-> TRUE, work |-> FALSE]
  /\ wb = NoWb
  /\ poll = [at |-> "idle", exp |-> 0, val |-> NoWb]
  /\ dev = [flag |-> FALSE, at |-> "up", cycles |-> 0]

-----------------------------------------------------------------------------
\* The engine.
Halted(h) == [h EXCEPT !.busy = FALSE]
Started(h, t) == [h EXCEPT !.busy = TRUE, !.next = slot[t], !.left = num[t], !.count = 0]

HwStep ==
  /\ hw.busy
  /\ moved' = moved \cup {ring[hw.next]}
  /\ LET last == hw.left = 1
     IN /\ hw' = [hw EXCEPT !.next = @ + 1, !.left = @ - 1, !.count = @ + 1,
                            !.busy = ~last, !.event = @ \/ last]
        /\ wb' = IF last /\ Polling THEN [n |-> hw.count + 1, err |-> FALSE] ELSE wb
  /\ UNCHANGED <<scen, client, xfer, ring, desc_idx, engine, svc, bad, irq, poll, dev>>

HwError ==
  /\ hw.busy
  /\ scen.errors = "any" \/ (scen.errors = "late" /\ hw.count > 0)
  /\ bad = {}
  /\ bad' = {ring[hw.next]}
  /\ hw' = [hw EXCEPT !.busy = FALSE, !.event = TRUE, !.err = TRUE]
  /\ wb' = IF Polling THEN [n |-> hw.count, err |-> TRUE] ELSE wb
  /\ UNCHANGED <<scen, client, xfer, ring, desc_idx, engine, svc, moved, irq, poll, dev>>

ReadStatus == status' = [busy |-> hw.busy, err |-> hw.err]
ClearStatus == hw' = [hw EXCEPT !.event = FALSE, !.err = FALSE]

-----------------------------------------------------------------------------
\* The callers.

\* Faulty variant: a transfer runs over the end of the ring.
Build_Unsplit(c) ==
  LET t == <<c, sent[c]>>
      k == scen.n[c] - sent[c]
  IN /\ num' = [num EXCEPT ![t] = k]
     /\ slot' = [slot EXCEPT ![t] = desc_idx]
     /\ ring' = [i \in DOMAIN ring |->
                   IF i \in desc_idx..(desc_idx + k - 1)
                     THEN <<c, sent[c] + i - desc_idx>> ELSE ring[i]]
     /\ desc_idx' = (desc_idx + k) % DescMax

\* transfer_init: the next transfer of the request, as many of its descriptors
\* as there are up to the end of the ring.
Build(c) ==
  LET t == <<c, sent[c]>>
      k == Least(scen.n[c] - sent[c], DescMax - desc_idx)
  IN /\ num' = [num EXCEPT ![t] = k]
     /\ slot' = [slot EXCEPT ![t] = desc_idx]
     /\ ring' = [i \in DOMAIN ring |->
                   IF i \in desc_idx..(desc_idx + k - 1)
                     THEN <<c, sent[c] + i - desc_idx>> ELSE ring[i]]
     /\ desc_idx' = (desc_idx + k) % DescMax

\* The mutex of the callers that wait.
Begin(c) ==
  /\ pc[c] = "call"
  /\ IF dev.flag
       THEN /\ pc' = [pc EXCEPT ![c] = "done"]
            /\ res' = [res EXCEPT ![c] = "busy"]
            /\ UNCHANGED desc_lock
       ELSE /\ scen.sync => desc_lock = Nil
            /\ desc_lock' = IF scen.sync THEN c ELSE desc_lock
            /\ pc' = [pc EXCEPT ![c] = "init"]
            /\ UNCHANGED res
  /\ UNCHANGED <<scen, sent, xfer, ring, desc_idx, engine, svc, hw, moved, bad,
                 irq, wb, poll, dev>>

\* The call is over: unlock, unmap, free.
Return(c, result) ==
  /\ pc' = [pc EXCEPT ![c] = "done"]
  /\ res' = [res EXCEPT ![c] = result]
  /\ desc_lock' = IF desc_lock = c THEN Nil ELSE desc_lock

\* transfer_init, and transfer_queue up to its first check.
MakeTransfer(c) ==
  /\ pc[c] = "init" /\ svc = Nil
  /\ Build(c)
  /\ IF dev.flag THEN Return(c, "busy")
     ELSE pc' = [pc EXCEPT ![c] = "queue"] /\ UNCHANGED <<res, desc_lock>>
  /\ UNCHANGED <<scen, sent, state, engine, svc, hw, moved, bad, irq, wb, poll, dev>>

\* engine_start of the first transfer in a queue that is not empty.
Start(h, queue) ==
  /\ running' = TRUE
  /\ shutdown' = FALSE
  /\ desc_dequeued' = 0
  /\ hw' = Started(h, Head(queue))
  /\ status' = [busy |-> TRUE, err |-> h.err]

\* Faulty variant: the new transfer is started whether the engine runs or not.
Queue_Restarts(c) ==
  LET t == <<c, sent[c]>>
      list == Append(transfer_list, t)
  IN
  /\ pc[c] = "queue" /\ svc = Nil
  /\ IF shutdown
       THEN /\ Return(c, "busy")
            /\ UNCHANGED <<sent, state, engine, hw>>
       ELSE /\ state' = [state EXCEPT ![t] = "submitted"]
            /\ transfer_list' = list
            /\ Start(hw, <<t>>)
            /\ sent' = [sent EXCEPT ![c] = @ + num[t]]
            /\ pc' = [pc EXCEPT ![c] =
                        IF scen.sync THEN "wait"
                        ELSE IF sent[c] + num[t] = scen.n[c] THEN "pending" ELSE "init"]
            /\ UNCHANGED <<res, desc_lock>>
  /\ UNCHANGED <<scen, num, slot, ring, desc_idx, svc, moved, bad, irq, wb, poll, dev>>

\* Faulty variant: the shutdown is not looked at again under the lock.
Queue_WhenShutDown(c) ==
  LET t == <<c, sent[c]>>
      list == Append(transfer_list, t)
  IN
  /\ pc[c] = "queue" /\ svc = Nil
  /\ state' = [state EXCEPT ![t] = "submitted"]
  /\ transfer_list' = list
  /\ IF running THEN UNCHANGED <<running, shutdown, desc_dequeued, status, hw>>
     ELSE Start(hw, list)
  /\ sent' = [sent EXCEPT ![c] = @ + num[t]]
  /\ pc' = [pc EXCEPT ![c] =
              IF scen.sync THEN "wait"
              ELSE IF sent[c] + num[t] = scen.n[c] THEN "pending" ELSE "init"]
  /\ UNCHANGED <<res, desc_lock>>
  /\ UNCHANGED <<scen, num, slot, ring, desc_idx, svc, moved, bad, irq, wb, poll, dev>>

\* transfer_queue under the lock, and the wakeup of the polling thread.
Queue(c) ==
  LET t == <<c, sent[c]>>
      list == Append(transfer_list, t)
  IN
  /\ pc[c] = "queue" /\ svc = Nil
  /\ IF shutdown
       THEN /\ Return(c, "busy")
            /\ UNCHANGED <<sent, state, engine, hw>>
       ELSE /\ state' = [state EXCEPT ![t] = "submitted"]
            /\ transfer_list' = list
            /\ IF running THEN UNCHANGED <<running, shutdown, desc_dequeued, status, hw>>
               ELSE Start(hw, list)
            /\ sent' = [sent EXCEPT ![c] = @ + num[t]]
            /\ pc' = [pc EXCEPT ![c] =
                        IF scen.sync THEN "wait"
                        ELSE IF sent[c] + num[t] = scen.n[c] THEN "pending" ELSE "init"]
            /\ UNCHANGED <<res, desc_lock>>
  /\ UNCHANGED <<scen, num, slot, ring, desc_idx, svc, moved, bad, irq, wb, poll, dev>>

\* The transfer a caller waits for: the last one it queued.
Awaited(c) == CHOOSE t \in Transfers : t[1] = c /\ num[t] > 0 /\ t[2] + num[t] = sent[c]

\* Faulty variant: any wakeup is taken for the end of the transfer.
Woken_Unchecked(c) ==
  /\ pc[c] = "wait" /\ svc = Nil
  /\ IF state[Awaited(c)] = "failed" THEN Return(c, "failed")
     ELSE IF sent[c] = scen.n[c] THEN Return(c, "ok")
     ELSE pc' = [pc EXCEPT ![c] = "init"] /\ UNCHANGED <<res, desc_lock>>
  /\ UNCHANGED <<scen, sent, xfer, ring, desc_idx, engine, svc, hw, moved, bad,
                 irq, wb, poll, dev>>

\* The wait ends with the transfer: on with the rest of the request.
Woken(c) ==
  /\ pc[c] = "wait" /\ svc = Nil
  /\ state[Awaited(c)] # "submitted"
  /\ IF state[Awaited(c)] = "failed" THEN Return(c, "failed")
     ELSE IF sent[c] = scen.n[c] THEN Return(c, "ok")
     ELSE pc' = [pc EXCEPT ![c] = "init"] /\ UNCHANGED <<res, desc_lock>>
  /\ UNCHANGED <<scen, sent, xfer, ring, desc_idx, engine, svc, hw, moved, bad,
                 irq, wb, poll, dev>>

\* Faulty variant: the engine is not stopped.
TimeOut_NoStop(c) ==
  LET t == Awaited(c) IN
  /\ scen.timed
  /\ pc[c] = "wait" /\ svc = Nil
  /\ state[t] = "submitted"
  /\ state' = [state EXCEPT ![t] = "aborted"]
  /\ transfer_list' = IF transfer_list # <<>> /\ Head(transfer_list) = t
                        THEN Tail(transfer_list) ELSE transfer_list
  /\ ReadStatus
  /\ Return(c, "aborted")
  /\ UNCHANGED <<scen, sent, num, slot, ring, desc_idx, running, desc_dequeued, shutdown,
                 svc, hw, moved, bad, irq, wb, poll, dev>>

\* The wait ends by time or by a signal: transfer_abort, which takes the
\* transfer off the list only where it is the first, and xdma_engine_stop.
TimeOut(c) ==
  LET t == Awaited(c) IN
  /\ scen.timed
  /\ pc[c] = "wait" /\ svc = Nil
  /\ state[t] = "submitted"
  /\ state' = [state EXCEPT ![t] = "aborted"]
  /\ transfer_list' = IF transfer_list # <<>> /\ Head(transfer_list) = t
                        THEN Tail(transfer_list) ELSE transfer_list
  /\ ReadStatus
  /\ running' = FALSE
  /\ hw' = Halted(hw)
  /\ Return(c, "aborted")
  /\ UNCHANGED <<scen, sent, num, slot, ring, desc_idx, desc_dequeued, shutdown, svc,
                 moved, bad, irq, wb, poll, dev>>

-----------------------------------------------------------------------------
\* engine_service, with the count and the error flag of a writeback, or none
\* of them from the work item.  First the status.
Serve(count) ==
  /\ svc = Nil
  /\ IF ~running
       THEN ReadStatus /\ ClearStatus /\ UNCHANGED svc
       ELSE /\ svc' = count
            /\ IF count.n = 0 \/ count.err THEN ReadStatus /\ ClearStatus
               ELSE UNCHANGED <<status, hw>>

\* Of the transfers in the list, the descriptors of the first k.
Total(k) == LET s[i \in 0..k] == IF i = 0 THEN 0 ELSE s[i - 1] + num[transfer_list[i]]
            IN s[k]

\* u32 subtraction.
Minus(a, b) == (a - b) % U32

\* engine_transfer_completion of the last transfer of a request calls back,
\* and the callback (xdma_xfer_completion) frees it: it failed when a transfer
\* of it did.
LastOf(c, over) == ~scen.sync /\ pc[c] = "pending"
                     /\ \E t \in over : t[1] = c /\ t[2] + num[t] = scen.n[c]
CallBack(over, st) ==
  /\ pc' = [c \in Client |-> IF LastOf(c, over) THEN "done" ELSE pc[c]]
  /\ res' = [c \in Client |->
               IF ~LastOf(c, over) THEN res[c]
               ELSE IF \E t \in Transfers : t[1] = c /\ st[t] = "failed" THEN "failed"
               ELSE "ok"]
  /\ UNCHANGED <<sent, desc_lock>>

\* engine_service_resume, with the engine stopped or not, on what is left.
Resume(stopped, h, queue, deq) ==
  IF stopped /\ queue # <<>> THEN Start(h, queue)
  ELSE /\ running' = (~stopped /\ queue # <<>>)
       /\ hw' = IF running' THEN h ELSE Halted(h)
       /\ desc_dequeued' = deq
       /\ UNCHANGED <<shutdown, status>>

\* Then the completed transfers, the one it stopped on, and the next start.
ServeRest ==
  LET stopped == ~status.busy \/ svc.n # 0
      h == IF stopped THEN Halted(hw) ELSE hw
      count == IF svc.n # 0 THEN svc.n ELSE hw.count
      d == Minus(count, desc_dequeued)
      \* engine_service_transfer_list: all but the last
      k == CHOOSE j \in 0..Len(transfer_list) :
             /\ \A i \in 1..j : d > Total(i)
             /\ j = Len(transfer_list) \/ ~(d > Total(j + 1))
      over == {transfer_list[i] : i \in 1..k}
  IN
  /\ IF count = 0
       THEN /\ running' = ~stopped
            /\ hw' = h
            /\ UNCHANGED <<client, state, transfer_list, desc_dequeued, shutdown, status>>
     ELSE IF k = Len(transfer_list)
       THEN /\ state' = [t \in Transfers |-> IF t \in over THEN "completed" ELSE state[t]]
            /\ transfer_list' = <<>>
            /\ CallBack(over, state')
            /\ Resume(stopped, h, <<>>, desc_dequeued + Total(k))
     ELSE \* engine_service_final_transfer
       LET t == transfer_list[k + 1]
           fails == status.err \/ d - Total(k) < num[t]
           rest == SubSeq(transfer_list, k + 2, Len(transfer_list))
       IN /\ state' = [u \in Transfers |->
                         IF u \in over THEN "completed"
                         ELSE IF u = t THEN IF fails THEN "failed" ELSE "completed"
                         ELSE state[u]]
          /\ transfer_list' = rest
          /\ CallBack(over \cup {t}, state')
          /\ Resume(stopped \/ status.err, IF status.err THEN Halted(h) ELSE h, rest,
                    desc_dequeued + Total(k) + IF status.err THEN 0 ELSE num[t])
  /\ svc' = Nil
  /\ UNCHANGED <<scen, num, slot, ring, desc_idx, moved, bad, wb, dev>>

\* xdma_channel_irq: mask the engine and schedule the work item.
Interrupt ==
  /\ irq.on /\ irq.mask /\ hw.event
  /\ irq' = [irq EXCEPT !.mask = FALSE, !.work = TRUE]
  /\ UNCHANGED <<scen, client, xfer, ring, desc_idx, engine, svc, hw, moved, bad,
                 wb, poll, dev>>

\* engine_service_work; the mask is opened again at its end.
Work ==
  /\ irq.work
  /\ Serve(NoWb)
  /\ irq' = [irq EXCEPT !.work = FALSE, !.mask = ~running]
  /\ UNCHANGED <<scen, client, xfer, ring, desc_idx, transfer_list, running,
                 desc_dequeued, shutdown, moved, bad, wb, poll, dev>>

\* Faulty variant: the interrupt of the engine stays masked.
WorkRest_Masked ==
  /\ svc # Nil /\ ~Polling
  /\ ServeRest
  /\ UNCHANGED <<irq, poll>>

WorkRest ==
  /\ svc # Nil /\ ~Polling
  /\ ServeRest
  /\ irq' = [irq EXCEPT !.mask = TRUE]
  /\ UNCHANGED poll

-----------------------------------------------------------------------------
\* The polling thread goes round while a transfer is queued, and reads what to
\* expect from the first one without the lock: with the list emptied since,
\* that is any value.
PollGo ==
  /\ Polling /\ poll.at = "idle" /\ transfer_list # <<>>
  /\ poll' = [poll EXCEPT !.at = "fetch"]
  /\ UNCHANGED <<scen, client, xfer, ring, desc_idx, engine, svc, hw, moved, bad,
                 irq, wb, dev>>

PollFetch ==
  /\ poll.at = "fetch"
  /\ \E e \in IF transfer_list # <<>> THEN {num[Head(transfer_list)]} ELSE 0..DescMax :
       poll' = [poll EXCEPT !.at = IF e = 0 THEN "idle" ELSE "read", !.exp = e]
  /\ UNCHANGED <<scen, client, xfer, ring, desc_idx, engine, svc, hw, moved, bad,
                 irq, wb, dev>>

\* engine_service_wb_monitor: read, and clear what was read; the time allowed
\* may be over at each turn.
PollRead ==
  /\ poll.at = "read"
  /\ IF wb = NoWb THEN poll' = [poll EXCEPT !.at = "idle", !.val = NoWb]
     ELSE poll' = [poll EXCEPT !.at = "clear", !.val = wb]
  /\ UNCHANGED <<scen, client, xfer, ring, desc_idx, engine, svc, hw, moved, bad,
                 irq, wb, dev>>

PollClear ==
  /\ poll.at = "clear"
  /\ wb' = NoWb
  /\ \/ poll' = [poll EXCEPT !.at = "serve"]
     \/ /\ ~poll.val.err /\ poll.val.n < poll.exp
        /\ poll' = [poll EXCEPT !.at = "read"]
  /\ UNCHANGED <<scen, client, xfer, ring, desc_idx, engine, svc, hw, moved, bad, irq, dev>>

PollServe ==
  /\ poll.at = "serve"
  /\ Serve(poll.val)
  /\ poll' = [poll EXCEPT !.at = IF running THEN "served" ELSE "idle"]
  /\ UNCHANGED <<scen, client, xfer, ring, desc_idx, transfer_list, running,
                 desc_dequeued, shutdown, moved, bad, irq, wb, dev>>

PollServed ==
  /\ poll.at = "served"
  /\ ServeRest
  /\ poll' = [poll EXCEPT !.at = "idle"]
  /\ UNCHANGED irq

-----------------------------------------------------------------------------
\* xdma_device_offline: the flag, the engine under its lock, the interrupts.
Move(from, to) == dev.at = from /\ dev' = [dev EXCEPT !.at = to]

OfflineFlag ==
  /\ dev.at = "up" /\ dev.cycles < scen.resets
  /\ dev' = [flag |-> TRUE, at |-> "flagged", cycles |-> dev.cycles + 1]
  /\ UNCHANGED <<scen, client, xfer, ring, desc_idx, engine, svc, hw, moved, bad,
                 irq, wb, poll>>

OfflineStop ==
  /\ Move("flagged", "stopped")
  /\ svc = Nil
  /\ shutdown' = TRUE
  /\ running' = FALSE
  /\ hw' = Halted(hw)
  /\ UNCHANGED <<scen, client, xfer, ring, desc_idx, transfer_list, desc_dequeued,
                 status, svc, moved, bad, irq, wb, poll>>

OfflineIrq ==
  /\ Move("stopped", "down")
  /\ irq' = [irq EXCEPT !.on = FALSE]
  /\ UNCHANGED <<scen, client, xfer, ring, desc_idx, engine, svc, hw, moved, bad, wb, poll>>

\* xdma_device_online.
OnlineEngine ==
  /\ Move("down", "rising")
  /\ svc = Nil
  /\ shutdown' = FALSE
  /\ wb' = IF Polling THEN NoWb ELSE wb
  /\ irq' = [irq EXCEPT !.mask = TRUE]
  /\ UNCHANGED <<scen, client, xfer, ring, desc_idx, transfer_list, running,
                 desc_dequeued, status, svc, hw, moved, bad, poll>>

OnlineIrq ==
  /\ Move("rising", "ready")
  /\ irq' = [irq EXCEPT !.on = ~Polling]
  /\ UNCHANGED <<scen, client, xfer, ring, desc_idx, engine, svc, hw, moved, bad, wb, poll>>

OnlineFlag ==
  /\ dev.at = "ready"
  /\ dev' = [dev EXCEPT !.at = "up", !.flag = FALSE]
  /\ UNCHANGED <<scen, client, xfer, ring, desc_idx, engine, svc, hw, moved, bad,
                 irq, wb, poll>>

-----------------------------------------------------------------------------
Next ==
  \/ HwStep \/ HwError
  \/ \E c \in Client : Begin(c) \/ MakeTransfer(c) \/ Queue(c) \/ Woken(c) \/ TimeOut(c)
  \/ Interrupt \/ Work \/ WorkRest
  \/ PollGo \/ PollFetch \/ PollRead \/ PollClear \/ PollServe \/ PollServed
  \/ OfflineFlag \/ OfflineStop \/ OfflineIrq \/ OnlineEngine \/ OnlineIrq \/ OnlineFlag

Spec == Init /\ [][Next]_vars

\* Threads, work items and interrupts run, timers expire, and the engine goes
\* on while it is started.  A spinlock and a mutex are passed on.
FairSpec ==
  /\ Spec
  /\ WF_vars(HwStep)
  /\ \A c \in Client :
       SF_vars(Begin(c) \/ MakeTransfer(c) \/ Queue(c) \/ Woken(c) \/ TimeOut(c))
  /\ WF_vars(Interrupt) /\ SF_vars(Work \/ WorkRest)
  /\ SF_vars(PollGo \/ PollFetch \/ PollRead \/ PollClear \/ PollServe \/ PollServed)

-----------------------------------------------------------------------------
TypeOK ==
  /\ scen \in Scenarios
  /\ pc \in [Client -> {"call", "init", "queue", "wait", "pending", "done"}]
  /\ res \in [Client -> {"none", "ok", "failed", "aborted", "busy"}]
  /\ desc_lock \in Client \cup {Nil}
  /\ \A t \in Transfers :
       /\ state[t] \in {"new", "submitted", "completed", "failed", "aborted"}
       /\ slot[t] + num[t] <= DescMax
  /\ desc_idx \in 0..(DescMax - 1)
  /\ \A i \in 1..Len(transfer_list) : transfer_list[i] \in Transfers
  /\ hw.count \in 0..DescMax /\ hw.left \in 0..DescMax /\ hw.next \in 0..DescMax
  /\ poll.at \in {"idle", "fetch", "read", "clear", "serve", "served"}

\* A call returns its length, or its callback reports it, only when the engine
\* has executed every descriptor of the request: no count of an earlier run,
\* no other transfer's interrupt and no descriptor written over in the ring
\* passes for it.
ResultIsTrue ==
  \A c \in Client : res[c] = "ok" => \A k \in 0..(scen.n[c] - 1) : <<c, k>> \in moved

\* Where no wait times out, a request fails only when the engine failed on
\* one of its own descriptors: a transfer that is still running, or has not
\* been started, is not taken for one that stopped half-way.
FailsForCause ==
  \A c \in Client :
    ~scen.timed /\ res[c] = "failed" => \E d \in bad : d[1] = c

\* The outcome a caller is told is what became of its own descriptors, in
\* success and in failure (engine_service_transfer_list, xdma_xfer_submit).
OutcomeIsTrue == ResultIsTrue /\ FailsForCause

\* Once a call has returned, its transfers are in nobody's hands: not in the
\* list and not in the engine, which would write to unmapped pages.
NothingAfterReturn ==
  \A c \in Client : pc[c] = "done" =>
    /\ \A i \in 1..Len(transfer_list) : transfer_list[i][1] # c
    /\ hw.busy => \A i \in hw.next..(hw.next + hw.left - 1) : ring[i] = Nil \/ ring[i][1] # c

\* The engine runs the first transfer of the list and no other, and the
\* driver knows that it runs.
RunsTheHead ==
  hw.busy => /\ running
             /\ transfer_list # <<>>
             /\ hw.next + hw.left = slot[Head(transfer_list)] + num[Head(transfer_list)]

\* Between the end of xdma_device_offline and xdma_device_online no caller,
\* work item or thread starts the engine.
QuietWhenOffline ==
  dev.at \in {"stopped", "down"} => ~hw.busy /\ ~running

\* Every call returns: without timeouts because each completion is noticed
\* and each queued transfer started, with them at the latest by the timer.
EveryCallReturns == \A c \in Client : <>(pc[c] = "done")
=============================================================================
