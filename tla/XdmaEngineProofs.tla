--------------------------- MODULE XdmaEngineProofs ---------------------------
(***************************************************************************)
(* Proofs about XdmaEngine for every set of requests, every length of the  *)
(* ring and every scenario.                                                *)
(***************************************************************************)
EXTENDS XdmaEngine, WellFoundedInduction, TLAPS

\* The engine's registers and the state of the device keep their fields.
Shape ==
  /\ hw = [busy |-> hw.busy, next |-> hw.next, left |-> hw.left, count |-> hw.count,
           event |-> hw.event, err |-> hw.err]
  /\ hw.count \in Nat
  /\ dev = [flag |-> dev.flag, at |-> dev.at, cycles |-> dev.cycles]

\* Whoever starts the engine does so with a transfer at hand, and whoever stops
\* it under the lock says so.
BusyIsKnown ==
  /\ hw.busy => running
  /\ running => transfer_list # <<>>
  /\ svc # Nil => running

\* Between OfflineStop and OnlineEngine the engine is shut down.
ShutWhenOffline == dev.at \in {"stopped", "down"} => shutdown /\ ~running

EngineInv == Shape /\ BusyIsKnown /\ ShutWhenOffline

\* The polling thread serves the engine in polled mode only, and what it read
\* of the writeback is a count.
PollInv ==
  /\ wb \in [n : Nat, err : BOOLEAN]
  /\ poll = [at |-> poll.at, exp |-> poll.exp, val |-> poll.val]
  /\ poll.val \in [n : Nat, err : BOOLEAN]
  /\ poll.at # "idle" => Polling
  /\ poll.at = "served" => svc # Nil

IInv == EngineInv /\ PollInv

-----------------------------------------------------------------------------
LEMMA InitEngine == Init => EngineInv
BY DEF Init, EngineInv, Shape, BusyIsKnown, ShutWhenOffline

\* An action that leaves the engine, its registers and the device alone.
LEMMA Frame ==
  ASSUME EngineInv, UNCHANGED <<engine, svc, hw, dev>>
  PROVE  EngineInv'
BY DEF EngineInv, Shape, BusyIsKnown, ShutWhenOffline, engine

\* Queueing a transfer starts an engine that is neither running nor shut down.
LEMMA QueueStep ==
  ASSUME EngineInv, NEW c \in Client, Queue(c)
  PROVE  EngineInv'
<1>1. svc' = svc /\ dev' = dev
  BY DEF Queue
<1>2. CASE shutdown
  <2>1. UNCHANGED <<engine, hw>>
    BY <1>2 DEF Queue
  <2> QED BY <1>1, <2>1 DEF EngineInv, Shape, BusyIsKnown, ShutWhenOffline, engine
<1>3. CASE ~shutdown
  <2>1. dev'.at \notin {"stopped", "down"}
    BY <1>1, <1>3 DEF EngineInv, ShutWhenOffline
  <2>2. transfer_list' = Append(transfer_list, <<c, sent[c]>>)
    BY <1>3 DEF Queue
  <2>3. transfer_list' # <<>>
    BY <2>2
  <2>4. CASE running
    <3>1. running' = running /\ hw' = hw
      BY <1>3, <2>4 DEF Queue
    <3> QED BY <1>1, <2>1, <2>3, <2>4, <3>1 DEF EngineInv, Shape, BusyIsKnown, ShutWhenOffline
  <2>5. CASE ~running
    <3>1. running' = TRUE /\ hw' = Started(hw, Head(transfer_list'))
      BY <1>3, <2>5, <2>2 DEF Queue, Start
    <3>2. Shape'
      BY <1>1, <3>1 DEF EngineInv, Shape, Started
    <3> QED BY <1>1, <2>1, <2>3, <3>1, <3>2 DEF EngineInv, BusyIsKnown, ShutWhenOffline
  <2> QED BY <2>4, <2>5
<1> QED BY <1>2, <1>3

\* A wait that ends by time stops the engine.
LEMMA TimeOutStep ==
  ASSUME EngineInv, NEW c \in Client, TimeOut(c)
  PROVE  EngineInv'
<1>1. running' = FALSE /\ hw' = Halted(hw) /\ UNCHANGED <<shutdown, svc, dev>> /\ svc = Nil
  BY DEF TimeOut
<1>2. Shape'
  BY <1>1 DEF EngineInv, Shape, Halted
<1>3. ~hw'.busy
  BY <1>1 DEF EngineInv, Shape, Halted
<1> QED BY <1>1, <1>2, <1>3 DEF EngineInv, BusyIsKnown, ShutWhenOffline

\* engine_service up to where the engine may finish under it.
LEMMA ServeStep ==
  ASSUME EngineInv, NEW count, Serve(count), UNCHANGED <<running, shutdown, transfer_list, dev>>
  PROVE  EngineInv'
<1>1. \/ hw' = hw
      \/ hw' = [hw EXCEPT !.event = FALSE, !.err = FALSE]
  BY DEF Serve, ClearStatus
<1>2. Shape' /\ hw'.busy = hw.busy
  BY <1>1 DEF EngineInv, Shape
<1>3. svc' # Nil => running
  BY DEF Serve
<1> QED BY <1>2, <1>3 DEF EngineInv, BusyIsKnown, ShutWhenOffline

\* What engine_service_resume leaves behind.
LEMMA ResumeStep ==
  ASSUME EngineInv, svc # Nil, svc' = Nil, UNCHANGED dev,
         NEW stopped \in BOOLEAN, NEW h, NEW queue, NEW deq,
         h \in {hw, Halted(hw), Halted(Halted(hw))},
         transfer_list' = queue,
         Resume(stopped, h, queue, deq)
  PROVE  EngineInv'
<1>1. running /\ dev.at \notin {"stopped", "down"}
  BY DEF EngineInv, BusyIsKnown, ShutWhenOffline
<1>2. h = [busy |-> h.busy, next |-> h.next, left |-> h.left, count |-> h.count,
           event |-> h.event, err |-> h.err]
  BY DEF EngineInv, Shape, Halted
<1>3. CASE stopped /\ queue # <<>>
  <2>1. running' = TRUE /\ hw' = Started(h, Head(queue))
    BY <1>3 DEF Resume, Start
  <2>2. Shape'
    BY <2>1, <1>2 DEF EngineInv, Shape, Started
  <2> QED BY <1>1, <1>3, <2>1, <2>2 DEF EngineInv, BusyIsKnown, ShutWhenOffline
<1>4. CASE ~(stopped /\ queue # <<>>)
  <2>1. /\ running' = (~stopped /\ queue # <<>>)
        /\ hw' = IF running' THEN h ELSE Halted(h)
    BY <1>4 DEF Resume
  <2>2. Shape' /\ (hw'.busy => running')
    BY <2>1, <1>2 DEF EngineInv, Shape, Halted
  <2> QED BY <1>1, <2>1, <2>2 DEF EngineInv, BusyIsKnown, ShutWhenOffline
<1> QED BY <1>3, <1>4

LEMMA ServeRestStep ==
  ASSUME EngineInv, svc # Nil, ServeRest
  PROVE  EngineInv'
<1> DEFINE stopped == ~status.busy \/ svc.n # 0
           h == IF stopped THEN Halted(hw) ELSE hw
           count == IF svc.n # 0 THEN svc.n ELSE hw.count
           d == Minus(count, desc_dequeued)
           k == CHOOSE j \in 0..Len(transfer_list) :
                  /\ \A i \in 1..j : d > Total(i)
                  /\ j = Len(transfer_list) \/ ~(d > Total(j + 1))
           rest == SubSeq(transfer_list, k + 2, Len(transfer_list))
<1>1. svc' = Nil /\ dev' = dev
  BY DEF ServeRest
<1>2. CASE count = 0
  <2>1. running' = ~stopped /\ hw' = h /\ UNCHANGED <<transfer_list, shutdown>>
    BY <1>2 DEF ServeRest
  <2>2. Shape' /\ (hw'.busy => running')
    BY <2>1, <1>1 DEF EngineInv, Shape, Halted, BusyIsKnown
  <2> QED BY <1>1, <2>1, <2>2 DEF EngineInv, BusyIsKnown, ShutWhenOffline
<1>3. CASE count # 0 /\ k = Len(transfer_list)
  <2>1. transfer_list' = <<>> /\ Resume(stopped, h, <<>>, desc_dequeued + Total(k))
    BY <1>3 DEF ServeRest
  <2>2. h \in {hw, Halted(hw), Halted(Halted(hw))} /\ stopped \in BOOLEAN
    OBVIOUS
  <2> HIDE DEF stopped, h, k, count
  <2> QED BY <1>1, <2>1, <2>2, ResumeStep
<1>4. CASE count # 0 /\ k # Len(transfer_list)
  <2> DEFINE deq == desc_dequeued + Total(k)
                      + IF status.err THEN 0 ELSE num[transfer_list[k + 1]]
             halt == stopped \/ status.err
             regs == IF status.err THEN Halted(h) ELSE h
  <2>1. transfer_list' = rest /\ Resume(halt, regs, rest, deq)
    BY <1>4 DEF ServeRest
  <2>2. regs \in {hw, Halted(hw), Halted(Halted(hw))} /\ halt \in BOOLEAN
    OBVIOUS
  <2> HIDE DEF halt, regs, rest, deq
  <2> QED BY <1>1, <2>1, <2>2, ResumeStep
<1> QED BY <1>2, <1>3, <1>4

\* The engine executes a descriptor, or fails on it.
LEMMA HwStepStep ==
  ASSUME EngineInv, HwStep \/ HwError
  PROVE  EngineInv'
<1>1. hw.busy /\ UNCHANGED <<engine, svc, dev>>
  BY DEF HwStep, HwError
<1> DEFINE b == hw.busy  n == hw.next  l == hw.left  c == hw.count  e == hw.event  f == hw.err
<1>2. hw = [busy |-> b, next |-> n, left |-> l, count |-> c, event |-> e, err |-> f] /\ c \in Nat
  BY DEF EngineInv, Shape
<1> HIDE DEF b, n, l, c, e, f
<1>3. Shape'
  <2>1. CASE HwStep
    <3>1. hw' = [busy |-> ~(l = 1), next |-> n + 1, left |-> l - 1, count |-> c + 1,
                 event |-> e \/ l = 1, err |-> f]
      BY <1>2, <2>1 DEF HwStep
    <3> QED BY <1>1, <1>2, <3>1 DEF EngineInv, Shape
  <2>2. CASE HwError
    <3>1. hw' = [busy |-> FALSE, next |-> n, left |-> l, count |-> c, event |-> TRUE, err |-> TRUE]
      BY <1>2, <2>2 DEF HwError
    <3> QED BY <1>1, <1>2, <3>1 DEF EngineInv, Shape
  <2> QED BY <2>1, <2>2
<1> QED BY <1>1, <1>3 DEF EngineInv, BusyIsKnown, ShutWhenOffline, engine

\* The device goes offline and comes back.
LEMMA DeviceStep ==
  ASSUME EngineInv,
         \/ OfflineFlag \/ OfflineStop \/ OfflineIrq \/ OnlineEngine \/ OnlineIrq \/ OnlineFlag
  PROVE  EngineInv'
<1> USE DEF EngineInv, Shape, BusyIsKnown, ShutWhenOffline, engine, Move
<1>1. CASE OfflineFlag
  BY <1>1 DEF OfflineFlag
<1>2. CASE OfflineStop
  BY <1>2 DEF OfflineStop, Halted
<1>3. CASE OfflineIrq
  BY <1>3 DEF OfflineIrq
<1>4. CASE OnlineEngine
  BY <1>4 DEF OnlineEngine
<1>5. CASE OnlineIrq
  BY <1>5 DEF OnlineIrq
<1>6. CASE OnlineFlag
  BY <1>6 DEF OnlineFlag
<1> QED BY <1>1, <1>2, <1>3, <1>4, <1>5, <1>6

LEMMA NextEngine == IInv /\ [Next]_vars => EngineInv'
<1> SUFFICES ASSUME EngineInv, PollInv, [Next]_vars PROVE EngineInv'
  BY DEF IInv
<1>1. CASE HwStep \/ HwError
  BY <1>1, HwStepStep
<1>2. ASSUME NEW c \in Client, Begin(c) \/ MakeTransfer(c) \/ Woken(c) PROVE EngineInv'
  BY <1>2, Frame DEF Begin, MakeTransfer, Woken
<1>3. ASSUME NEW c \in Client, Queue(c) PROVE EngineInv'
  BY <1>3, QueueStep
<1>4. ASSUME NEW c \in Client, TimeOut(c) PROVE EngineInv'
  BY <1>4, TimeOutStep
<1>5. CASE Interrupt \/ PollGo \/ PollFetch \/ PollRead \/ PollClear
  BY <1>5, Frame DEF Interrupt, PollGo, PollFetch, PollRead, PollClear
<1>6. CASE Work
  BY <1>6, ServeStep DEF Work
<1>7. CASE PollServe
  BY <1>7, ServeStep DEF PollServe
<1>8. CASE WorkRest
  BY <1>8, ServeRestStep DEF WorkRest
<1>9. CASE PollServed
  <2>1. svc # Nil
    BY <1>9 DEF PollServed, PollInv
  <2> QED BY <1>9, <2>1, ServeRestStep DEF PollServed
<1>10. CASE OfflineFlag \/ OfflineStop \/ OfflineIrq \/ OnlineEngine \/ OnlineIrq \/ OnlineFlag
  BY <1>10, DeviceStep
<1>11. CASE UNCHANGED vars
  BY <1>11, Frame DEF vars
<1> QED BY <1>1, <1>2, <1>3, <1>4, <1>5, <1>6, <1>7, <1>8, <1>9, <1>10, <1>11 DEF Next

LEMMA InitPoll == Init => PollInv
BY DEF Init, PollInv, NoWb

LEMMA PollFrame ==
  ASSUME PollInv, UNCHANGED <<scen, wb, poll, svc>>
  PROVE  PollInv'
BY DEF PollInv, Polling

LEMMA NextPoll == IInv /\ [Next]_vars => PollInv'
<1> SUFFICES ASSUME EngineInv, PollInv, [Next]_vars PROVE PollInv'
  BY DEF IInv
<1> USE DEF PollInv, Polling
<1>1. CASE HwStep \/ HwError
  <2>1. /\ wb' \in {wb, [n |-> hw.count + 1, err |-> FALSE], [n |-> hw.count, err |-> TRUE]}
        /\ UNCHANGED <<scen, poll, svc>>
    BY <1>1 DEF HwStep, HwError
  <2>2. hw.count \in Nat
    BY DEF EngineInv, Shape
  <2>3. wb' \in [n : Nat, err : BOOLEAN]
    <3>1. /\ [n |-> hw.count + 1, err |-> FALSE] \in [n : Nat, err : BOOLEAN]
          /\ [n |-> hw.count, err |-> TRUE] \in [n : Nat, err : BOOLEAN]
      BY <2>2
    <3> QED BY <2>1, <3>1
  <2> QED BY <2>1, <2>3
<1>2. ASSUME NEW c \in Client,
             Begin(c) \/ MakeTransfer(c) \/ Queue(c) \/ Woken(c) \/ TimeOut(c)
      PROVE  PollInv'
  <2>1. UNCHANGED <<scen, wb, poll, svc>>
    BY <1>2 DEF Begin, MakeTransfer, Queue, Woken, TimeOut
  <2> QED BY <2>1, PollFrame
<1>3. CASE Interrupt \/ OfflineFlag \/ OfflineStop \/ OfflineIrq \/ OnlineIrq \/ OnlineFlag
  <2>1. UNCHANGED <<scen, wb, poll, svc>>
    BY <1>3 DEF Interrupt, OfflineFlag, OfflineStop, OfflineIrq, OnlineIrq, OnlineFlag
  <2> QED BY <2>1, PollFrame
<1>4. CASE OnlineEngine
  BY <1>4 DEF OnlineEngine, NoWb
<1>5. CASE Work
  BY <1>5 DEF Work, Serve
<1>6. CASE WorkRest
  BY <1>6 DEF WorkRest, ServeRest
<1>7. CASE PollGo
  BY <1>7 DEF PollGo
<1>8. CASE PollFetch
  BY <1>8 DEF PollFetch
<1>9. CASE PollRead
  BY <1>9 DEF PollRead, NoWb
<1>10. CASE PollClear
  BY <1>10 DEF PollClear, NoWb
<1>11. CASE PollServe
  BY <1>11, NilAssumption DEF PollServe, Serve
<1>12. CASE PollServed
  BY <1>12 DEF PollServed, ServeRest
<1>13. CASE UNCHANGED vars
  BY <1>13, PollFrame DEF vars
<1> QED BY <1>1, <1>2, <1>3, <1>4, <1>5, <1>6, <1>7, <1>8, <1>9, <1>10, <1>11, <1>12, <1>13
        DEF Next

LEMMA Inductive == Spec => []IInv
<1>1. Init => IInv
  BY InitEngine, InitPoll DEF IInv
<1>2. IInv /\ [Next]_vars => IInv'
  BY NextEngine, NextPoll DEF IInv
<1> QED BY <1>1, <1>2, PTL DEF Spec

\* No caller, work item or thread starts the engine between the end of
\* xdma_device_offline and xdma_device_online, whatever the callers, the
\* engine and the timers do (libxdma.c: shutdown is looked at under the lock).
THEOREM OfflineIsQuiet == Spec => []QuietWhenOffline
<1>1. IInv => QuietWhenOffline
  BY DEF IInv, EngineInv, BusyIsKnown, ShutWhenOffline, QuietWhenOffline
<1> QED BY <1>1, Inductive, PTL

-----------------------------------------------------------------------------
(* Callers that wait: one transfer is queued at a time                     *)

Front(c) == <<c, sent[c]>>

Types ==
  /\ scen \in Scenarios
  /\ pc \in [Client -> {"call", "init", "queue", "wait", "pending", "done"}]
  /\ sent \in [Client -> Nat]
  /\ num \in [Transfers -> Nat] /\ slot \in [Transfers -> Nat]
  /\ state \in [Transfers -> {"new", "submitted", "completed", "failed", "aborted"}]
  /\ desc_idx \in 0..(DescMax - 1)
  /\ DOMAIN ring = 0..(DescMax - 1)
  /\ hw.next \in Int /\ hw.left \in Int

\* desc_lock is held from Begin to Return.
LockInv == \A c \in Client : pc[c] \in {"init", "queue", "wait"} => desc_lock = c

\* A caller that goes on has descriptors left.
SentInv == \A c \in Client :
  /\ sent[c] <= scen.n[c]
  /\ pc[c] \in {"call", "init", "queue"} => sent[c] < scen.n[c]
  /\ pc[c] = "queue" => num[Front(c)] > 0 /\ sent[c] + num[Front(c)] <= scen.n[c]

\* The transfers of a request end where the next begins, so that only the last
\* one ends where the request has come to.
EndsBefore(t) == t[2] + num[t] <= sent[t[1]] \/ t[2] = sent[t[1]]
EndsLast(t) == num[t] > 0 /\ t[2] + num[t] = sent[t[1]]
EndsInv ==
  /\ \A t \in Transfers : num[t] > 0 => EndsBefore(t)
  /\ \A t, u \in Transfers : t[1] = u[1] /\ EndsLast(t) /\ EndsLast(u) => t = u

\* The ring holds the descriptors of the transfer.
InRing(t) ==
  /\ slot[t] + num[t] <= DescMax
  /\ \A k \in 0..(num[t] - 1) : ring[slot[t] + k] = <<t[1], t[2] + k>>

Queued(t) ==
  transfer_list = <<t>> /\ pc[t[1]] = "wait" /\ state[t] = "submitted" /\ EndsLast(t) /\ InRing(t)

QueueInv ==
  /\ \A c \in Client : pc[c] = "queue" => InRing(Front(c))
  /\ transfer_list = <<>> \/ \E t \in Transfers : Queued(t)

\* The engine runs what is queued.
OnHead(t) == slot[t] <= hw.next /\ hw.next + hw.left = slot[t] + num[t]
HeadInv == hw.busy => \A t \in Transfers : transfer_list = <<t>> => OnHead(t)

SyncInv == Types /\ LockInv /\ SentInv /\ EndsInv /\ QueueInv /\ HeadInv

SyncOnly == \A s \in Scenarios : s.sync

LEMMA TransferIs ==
  ASSUME NEW t \in Transfers
  PROVE  t[1] \in Client /\ t[2] \in Nat /\ t = <<t[1], t[2]>>
BY DEF Transfers

LEMMA FrontIs ==
  ASSUME Types, NEW c \in Client, sent[c] < scen.n[c]
  PROVE  Front(c) \in Transfers /\ Front(c)[1] = c /\ Front(c)[2] = sent[c]
<1>1. scen.n[c] \in 0..MaxN /\ MaxN \in Nat
  BY ScenarioAssumption DEF Types
<1>2. sent[c] \in 0..(MaxN - 1)
  BY <1>1 DEF Types
<1> QED BY <1>2 DEF Front, Transfers

\* The caller who waits waits for the transfer that is queued.
LEMMA AwaitedIsQueued ==
  ASSUME SyncInv, NEW c \in Client, pc[c] = "wait", NEW t \in Transfers, Queued(t)
  PROVE  Awaited(c) = t /\ t[1] = c
<1>1. t[1] = c
  BY TransferIs DEF SyncInv, LockInv, Queued
<1>2. EndsLast(t)
  BY DEF Queued
<1>3. \A u \in Transfers : u[1] = c /\ num[u] > 0 /\ u[2] + num[u] = sent[c] => u = t
  BY <1>1, <1>2 DEF SyncInv, EndsInv, EndsLast
<1> QED BY <1>1, <1>2, <1>3 DEF Awaited, EndsLast

\* Nothing is queued while a caller prepares its next transfer.
LEMMA NothingQueued ==
  ASSUME SyncInv, NEW c \in Client, pc[c] \in {"init", "queue"}
  PROVE  transfer_list = <<>>
<1> SUFFICES ASSUME NEW t \in Transfers, Queued(t) PROVE FALSE
  BY DEF SyncInv, QueueInv
<1>1. desc_lock = c /\ desc_lock = t[1]
  BY TransferIs DEF SyncInv, LockInv, Queued
<1> QED BY <1>1 DEF Queued

LEMMA InitSync == SyncOnly /\ Init => SyncInv
<1> SUFFICES ASSUME SyncOnly, Init PROVE SyncInv
  OBVIOUS
<1>1. scen.n \in [Client -> 0..MaxN] /\ MaxN \in Nat
  BY ScenarioAssumption DEF Init
<1>2. Types
  BY DescMaxAssumption DEF Init, Types
<1>3. SentInv
  BY <1>1 DEF Init, SentInv
<1>4. LockInv /\ EndsInv /\ QueueInv /\ HeadInv
  BY DEF Init, LockInv, EndsInv, EndsLast, QueueInv, HeadInv
<1> QED BY <1>2, <1>3, <1>4 DEF SyncInv

LEMMA SyncFrame ==
  ASSUME SyncInv, UNCHANGED <<scen, client, xfer, ring, desc_idx, transfer_list>>,
         hw'.busy \in {FALSE, hw.busy}, hw'.next = hw.next, hw'.left = hw.left
  PROVE  SyncInv'
<1> USE DEF client, xfer
<1>1. Types' /\ LockInv'
  BY DEF SyncInv, Types, LockInv
<1>2. SentInv' /\ EndsInv'
  BY DEF SyncInv, SentInv, EndsInv, EndsBefore, EndsLast, Front
<1>3. QueueInv'
  BY DEF SyncInv, QueueInv, Queued, EndsLast, InRing, Front
<1>4. HeadInv'
  BY DEF SyncInv, HeadInv, OnHead
<1> QED BY <1>1, <1>2, <1>3, <1>4 DEF SyncInv

LEMMA BeginSync ==
  ASSUME SyncOnly, SyncInv, NEW c \in Client, Begin(c)
  PROVE  SyncInv'
<1>1. /\ UNCHANGED <<scen, sent, xfer, ring, desc_idx, transfer_list, hw>>
      /\ pc[c] = "call"
      /\ \/ pc' = [pc EXCEPT ![c] = "done"] /\ desc_lock' = desc_lock
         \/ pc' = [pc EXCEPT ![c] = "init"] /\ desc_lock = Nil /\ desc_lock' = c
  BY DEF Begin, SyncInv, Types, SyncOnly, engine
<1>2. Types'
  BY <1>1 DEF SyncInv, Types, xfer
<1>3. LockInv'
  BY <1>1, NilAssumption DEF SyncInv, Types, LockInv
<1>4. SentInv'
  BY <1>1 DEF SyncInv, Types, SentInv, Front, xfer
<1>5. EndsInv' /\ HeadInv'
  BY <1>1 DEF SyncInv, EndsInv, EndsBefore, EndsLast, HeadInv, OnHead, xfer
<1>6. QueueInv'
  <2>1. ASSUME NEW t \in Transfers, Queued(t) PROVE Queued(t)'
    BY <1>1, <2>1, TransferIs DEF SyncInv, Types, Queued, EndsLast, InRing, xfer
  <2> QED BY <1>1, <2>1 DEF SyncInv, Types, QueueInv, InRing, Front, xfer
<1> QED BY <1>2, <1>3, <1>4, <1>5, <1>6 DEF SyncInv

\* A call that is over leaves the rest of the callers alone.
LEMMA ReturnSync ==
  ASSUME SyncInv, NEW c \in Client, pc[c] \in {"queue", "wait"}, NEW r, Return(c, r),
         UNCHANGED <<scen, sent, num, slot, ring, desc_idx>>,
         transfer_list' = <<>>,
         state' \in [Transfers -> {"new", "submitted", "completed", "failed", "aborted"}],
         hw'.next = hw.next, hw'.left = hw.left
  PROVE  SyncInv'
<1>1. pc' = [pc EXCEPT ![c] = "done"] /\ desc_lock' = Nil /\ desc_lock = c
  BY DEF Return, SyncInv, LockInv
<1>2. Types'
  BY <1>1 DEF SyncInv, Types
<1>3. LockInv'
  BY <1>1 DEF SyncInv, Types, LockInv
<1>4. SentInv'
  BY <1>1 DEF SyncInv, Types, SentInv, Front
<1>5. EndsInv' /\ HeadInv'
  BY <1>1 DEF SyncInv, EndsInv, EndsBefore, EndsLast, HeadInv
<1>6. QueueInv'
  BY <1>1 DEF SyncInv, Types, QueueInv, InRing, Front
<1> QED BY <1>2, <1>3, <1>4, <1>5, <1>6 DEF SyncInv

LEMMA BuildSync ==
  ASSUME SyncInv, EngineInv, NEW c \in Client, MakeTransfer(c)
  PROVE  SyncInv'
<1>1. pc[c] = "init" /\ desc_lock = c /\ transfer_list = <<>> /\ ~hw.busy
  BY NothingQueued DEF MakeTransfer, SyncInv, LockInv, EngineInv, BusyIsKnown
<1>2. sent[c] < scen.n[c] /\ scen.n[c] \in Nat /\ sent[c] \in Nat
  BY <1>1, ScenarioAssumption DEF SyncInv, SentInv, Types
<1>3. PICK t \in Transfers : t = Front(c) /\ t[1] = c /\ t[2] = sent[c]
  BY <1>2, FrontIs DEF SyncInv
<1>4. PICK k :
      /\ k = Least(scen.n[c] - sent[c], DescMax - desc_idx)
      /\ k \in Nat /\ k > 0 /\ sent[c] + k <= scen.n[c]
      /\ desc_idx + k <= DescMax /\ desc_idx \in Nat
  BY <1>2, DescMaxAssumption DEF Least, SyncInv, Types
<1>5. /\ num' = [num EXCEPT ![t] = k]
      /\ slot' = [slot EXCEPT ![t] = desc_idx]
      /\ ring' = [i \in DOMAIN ring |->
                    IF i \in desc_idx..(desc_idx + k - 1)
                      THEN <<c, sent[c] + i - desc_idx>> ELSE ring[i]]
      /\ desc_idx' = (desc_idx + k) % DescMax
      /\ UNCHANGED <<scen, sent, state, transfer_list, hw>>
  BY <1>3, <1>4 DEF MakeTransfer, Build, Front, engine
<1>6. \/ pc' = [pc EXCEPT ![c] = "queue"] /\ desc_lock' = desc_lock
      \/ pc' = [pc EXCEPT ![c] = "done"] /\ desc_lock' = Nil
  BY <1>1 DEF MakeTransfer, Return
<1>7. Front(c)' = t
  BY <1>3, <1>5 DEF Front
<1>8. \A d \in Client : pc'[d] = "queue" => d = c
  BY <1>1, <1>6 DEF SyncInv, LockInv, Types
<1>9. Types'
  <2>1. desc_idx' \in 0..(DescMax - 1)
    BY <1>4, <1>5, DescMaxAssumption
  <2> QED BY <1>3, <1>4, <1>5, <1>6, <2>1 DEF SyncInv, Types
<1>10. LockInv'
  BY <1>1, <1>6 DEF SyncInv, LockInv, Types
<1>11. SentInv'
  <2>1. num'[t] = k
    BY <1>3, <1>5 DEF SyncInv, Types
  <2> QED BY <1>2, <1>4, <1>5, <1>6, <1>7, <1>8, <2>1 DEF SyncInv, SentInv, Types
<1>12. EndsInv'
  <2>1. ASSUME NEW u \in Transfers, u # t
        PROVE  num'[u] = num[u]
    BY <1>5, <2>1 DEF SyncInv, Types
  <2>2. num'[t] = k
    BY <1>3, <1>5 DEF SyncInv, Types
  <2>3. EndsBefore(t)' /\ ~EndsLast(t)'
    BY <1>2, <1>3, <1>4, <1>5, <2>2 DEF EndsBefore, EndsLast
  <2>4. ASSUME NEW u \in Transfers, u # t
        PROVE  /\ EndsBefore(u)' <=> EndsBefore(u)
               /\ EndsLast(u)' <=> EndsLast(u)
    BY <1>5, <2>1, <2>4 DEF EndsBefore, EndsLast
  <2> QED BY <2>1, <2>3, <2>4 DEF SyncInv, EndsInv
<1>13. QueueInv'
  <2>1. num'[t] = k /\ slot'[t] = desc_idx
    BY <1>3, <1>5 DEF SyncInv, Types
  <2>2. ASSUME NEW j \in 0..(k - 1) PROVE ring'[desc_idx + j] = <<c, sent[c] + j>>
    <3>1. desc_idx + j \in 0..(DescMax - 1) /\ desc_idx + j \in desc_idx..(desc_idx + k - 1)
      BY <1>4, DescMaxAssumption
    <3>2. sent[c] + (desc_idx + j) - desc_idx = sent[c] + j
      BY <1>2, <1>4
    <3> QED BY <1>5, <3>1, <3>2 DEF SyncInv, Types
  <2>3. InRing(t)'
    BY <1>3, <1>4, <2>1, <2>2 DEF InRing
  <2> QED BY <1>1, <1>5, <1>7, <1>8, <2>3 DEF QueueInv
<1>14. HeadInv'
  BY <1>1, <1>5 DEF HeadInv
<1> QED BY <1>9, <1>10, <1>11, <1>12, <1>13, <1>14 DEF SyncInv

LEMMA QueueSync ==
  ASSUME SyncOnly, SyncInv, EngineInv, NEW c \in Client, Queue(c)
  PROVE  SyncInv'
<1>1. /\ pc[c] = "queue" /\ desc_lock = c /\ transfer_list = <<>> /\ ~running
      /\ scen.sync /\ UNCHANGED <<scen, num, slot, ring, desc_idx>>
  BY NothingQueued DEF Queue, SyncInv, Types, SyncOnly, LockInv, EngineInv, BusyIsKnown
<1>2. CASE shutdown
  <2>1. Return(c, "busy") /\ UNCHANGED <<sent, state, transfer_list, hw>>
    BY <1>2 DEF Queue, engine
  <2>2. pc[c] \in {"queue", "wait"} /\ transfer_list' = <<>> /\ hw'.next = hw.next
        /\ hw'.left = hw.left
        /\ state' \in [Transfers -> {"new", "submitted", "completed", "failed", "aborted"}]
    BY <1>1, <2>1 DEF SyncInv, Types
  <2> QED BY <1>1, <2>1, <2>2, ReturnSync
<1>3. CASE ~shutdown
  <2>1. /\ sent[c] < scen.n[c]
        /\ num[Front(c)] > 0 /\ sent[c] + num[Front(c)] <= scen.n[c]
        /\ sent[c] \in Nat /\ InRing(Front(c))
        /\ scen.n[c] \in Nat
    BY <1>1, ScenarioAssumption DEF SyncInv, SentInv, QueueInv, Types
  <2>2. PICK t \in Transfers : t = Front(c) /\ t[1] = c /\ t[2] = sent[c]
    BY <2>1, FrontIs DEF SyncInv
  <2>3. num[t] \in Nat /\ num[t] > 0 /\ slot[t] \in Nat
    BY <2>1, <2>2 DEF SyncInv, Types
  <2>4. /\ transfer_list' = <<t>>
        /\ state' = [state EXCEPT ![t] = "submitted"]
        /\ sent' = [sent EXCEPT ![c] = @ + num[t]]
        /\ pc' = [pc EXCEPT ![c] = "wait"]
        /\ desc_lock' = desc_lock
        /\ hw' = Started(hw, t)
    <3>1. Append(transfer_list, t) = <<t>> /\ Head(<<t>>) = t
      BY <1>1
    <3> QED BY <1>1, <1>3, <2>2, <3>1 DEF Queue, Start, Front
  <2>5. hw'.next = slot[t] /\ hw'.left = num[t]
    BY <2>4 DEF Started, EngineInv, Shape
  <2>6. sent'[c] = sent[c] + num[t]
    BY <2>4 DEF SyncInv, Types
  <2>7. Types'
    BY <1>1, <2>2, <2>3, <2>4, <2>5 DEF SyncInv, Types
  <2>8. LockInv'
    BY <1>1, <2>4 DEF SyncInv, Types, LockInv
  <2>9. SentInv'
    BY <1>1, <2>1, <2>2, <2>4, <2>6 DEF SyncInv, Types, SentInv, Front
  <2>10. EndsLast(t)' /\ EndsBefore(t)'
    BY <1>1, <2>1, <2>2, <2>3, <2>6 DEF EndsLast, EndsBefore
  <2>11. ASSUME NEW u \in Transfers, u[1] = c, u # t, num[u] > 0
         PROVE  EndsBefore(u)' /\ ~EndsLast(u)'
    <3>1. num[u] \in Nat /\ u[2] \in Nat /\ u[2] # sent[c]
      BY <2>2, <2>11, TransferIs DEF SyncInv, Types
    <3>2. u[2] + num[u] <= sent[c]
      BY <2>11, <3>1 DEF SyncInv, EndsInv, EndsBefore
    <3> QED BY <1>1, <2>1, <2>3, <2>6, <2>11, <3>1, <3>2 DEF EndsBefore, EndsLast
  <2>12. ASSUME NEW u \in Transfers, u[1] # c
         PROVE  (EndsBefore(u)' <=> EndsBefore(u)) /\ (EndsLast(u)' <=> EndsLast(u))
    <3>1. sent'[u[1]] = sent[u[1]]
      BY <2>4, <2>12, TransferIs DEF SyncInv, Types
    <3> QED BY <1>1, <3>1 DEF EndsBefore, EndsLast
  <2>13. EndsInv'
    <3>1. ASSUME NEW u \in Transfers, num'[u] > 0 PROVE EndsBefore(u)'
      BY <1>1, <2>10, <2>11, <2>12, <3>1 DEF SyncInv, EndsInv
    <3>2. ASSUME NEW u \in Transfers, NEW v \in Transfers, u[1] = v[1],
                 EndsLast(u)', EndsLast(v)'
          PROVE  u = v
      <4>1. CASE u[1] = c
        <5>1. num[u] > 0 /\ num[v] > 0
          BY <1>1, <3>2 DEF EndsLast
        <5> QED BY <2>11, <3>2, <4>1, <5>1
      <4>2. CASE u[1] # c
        BY <2>12, <3>2, <4>2 DEF SyncInv, EndsInv
      <4> QED BY <4>1, <4>2
    <3> QED BY <3>1, <3>2 DEF EndsInv
  <2>14. QueueInv'
    <3>1. InRing(t)'
      BY <1>1, <2>1, <2>2 DEF InRing
    <3>2. Queued(t)'
      BY <2>2, <2>4, <2>10, <3>1 DEF Queued, SyncInv, Types
    <3>3. \A d \in Client : pc'[d] # "queue"
      BY <1>1, <2>4 DEF SyncInv, LockInv, Types
    <3> QED BY <3>2, <3>3 DEF QueueInv
  <2>15. HeadInv'
    <3>1. OnHead(t)'
      BY <1>1, <2>3, <2>5 DEF OnHead
    <3>2. \A u \in Transfers : transfer_list' = <<u>> => u = t
      BY <2>4
    <3> QED BY <3>1, <3>2 DEF HeadInv
  <2> QED BY <2>7, <2>8, <2>9, <2>13, <2>14, <2>15 DEF SyncInv
<1> QED BY <1>2, <1>3

LEMMA WokenSync ==
  ASSUME SyncInv, NEW c \in Client, Woken(c)
  PROVE  SyncInv'
<1>1. /\ pc[c] = "wait" /\ state[Awaited(c)] # "submitted"
      /\ UNCHANGED <<scen, sent, xfer, ring, desc_idx, transfer_list, hw>>
  BY DEF Woken, engine
<1>2. transfer_list = <<>>
  BY <1>1, AwaitedIsQueued DEF SyncInv, QueueInv, Queued
<1>3. CASE \E r : Return(c, r)
  BY <1>1, <1>2, <1>3, ReturnSync DEF SyncInv, Types, xfer
<1>4. CASE pc' = [pc EXCEPT ![c] = "init"] /\ desc_lock' = desc_lock /\ sent[c] # scen.n[c]
  <2>1. sent[c] < scen.n[c]
    BY <1>4, ScenarioAssumption DEF SyncInv, SentInv, Types
  <2>2. Types' /\ LockInv'
    BY <1>1, <1>4 DEF SyncInv, Types, LockInv, xfer
  <2>3. SentInv'
    BY <1>1, <1>4, <2>1 DEF SyncInv, Types, SentInv, Front, xfer
  <2>4. EndsInv' /\ HeadInv'
    BY <1>1, <1>2 DEF SyncInv, EndsInv, EndsBefore, EndsLast, HeadInv, xfer
  <2>5. QueueInv'
    BY <1>1, <1>2, <1>4 DEF SyncInv, Types, QueueInv, InRing, Front, xfer
  <2> QED BY <2>2, <2>3, <2>4, <2>5 DEF SyncInv
<1> QED BY <1>3, <1>4 DEF Woken

LEMMA TimeOutSync ==
  ASSUME SyncInv, EngineInv, NEW c \in Client, TimeOut(c)
  PROVE  SyncInv'
<1>1. pc[c] = "wait" /\ UNCHANGED <<scen, sent, num, slot, ring, desc_idx>>
  BY DEF TimeOut
<1>2. hw'.next = hw.next /\ hw'.left = hw.left
  BY DEF TimeOut, Halted, EngineInv, Shape
<1>3. transfer_list' = <<>>
  <2>1. CASE transfer_list = <<>>
    BY <2>1 DEF TimeOut
  <2>2. ASSUME NEW t \in Transfers, Queued(t) PROVE transfer_list' = <<>>
    <3>1. Awaited(c) = t
      BY <1>1, <2>2, AwaitedIsQueued
    <3>2. transfer_list = <<t>>
      BY <2>2 DEF Queued
    <3> QED BY <3>1, <3>2 DEF TimeOut
  <2> QED BY <2>1, <2>2 DEF SyncInv, QueueInv
<1>4. state' \in [Transfers -> {"new", "submitted", "completed", "failed", "aborted"}]
  BY DEF TimeOut, SyncInv, Types
<1> QED BY <1>1, <1>2, <1>3, <1>4, ReturnSync DEF TimeOut

\* engine_service takes the one transfer off, or leaves it where it is.
LEMMA ServeRestSync ==
  ASSUME SyncOnly, SyncInv, EngineInv, svc # Nil, ServeRest
  PROVE  SyncInv'
<1> DEFINE stopped == ~status.busy \/ svc.n # 0
           h == IF stopped THEN Halted(hw) ELSE hw
           count == IF svc.n # 0 THEN svc.n ELSE hw.count
           d == Minus(count, desc_dequeued)
           Fits(j) == /\ \A i \in 1..j : d > Total(i)
                      /\ j = Len(transfer_list) \/ ~(d > Total(j + 1))
           k == CHOOSE j \in 0..Len(transfer_list) : Fits(j)
<1>1. UNCHANGED <<scen, num, slot, ring, desc_idx>>
  BY DEF ServeRest
<1>2. h.next = hw.next /\ h.left = hw.left /\ h.busy \in {FALSE, hw.busy}
      /\ Halted(h).next = hw.next /\ Halted(h).left = hw.left /\ ~Halted(h).busy
  BY DEF EngineInv, Shape, Halted
<1>3. PICK t \in Transfers : Queued(t)
  BY DEF SyncInv, QueueInv, EngineInv, BusyIsKnown
<1>4. transfer_list = <<t>> /\ Len(transfer_list) = 1
  BY <1>3 DEF Queued
<1>5. CASE count = 0
  <2>1. UNCHANGED <<client, state, transfer_list>> /\ hw' = h
    BY <1>5 DEF ServeRest
  <2> QED BY <1>1, <1>2, <2>1, SyncFrame DEF xfer
<1>6. CASE count # 0
  <2>1. k \in 0..1
    <3>1. CASE d > Total(1)
      <4>1. Fits(1)
        BY <1>4, <3>1
      <4> HIDE DEF Fits
      <4> QED BY <1>4, <4>1
    <3>2. CASE ~(d > Total(1))
      <4>1. Fits(0)
        BY <3>2
      <4> HIDE DEF Fits
      <4> QED BY <1>4, <4>1
    <3> QED BY <3>1, <3>2
  <2>2. scen.sync
    BY DEF SyncInv, Types, SyncOnly
  <2>3. ASSUME NEW over, NEW st, CallBack(over, st)
        PROVE  pc' = pc /\ desc_lock' = desc_lock /\ sent' = sent
    BY <2>2, <2>3 DEF CallBack, LastOf, SyncInv, Types
  <2>4. ASSUME NEW halt \in BOOLEAN, NEW g, NEW deq, Resume(halt, g, <<>>, deq),
               g \in {h, Halted(h)}
        PROVE  hw'.next = hw.next /\ hw'.left = hw.left /\ ~hw'.busy
    <3>1. hw' = Halted(g)
      BY <2>4 DEF Resume
    <3>2. g = [busy |-> g.busy, next |-> g.next, left |-> g.left, count |-> g.count,
               event |-> g.event, err |-> g.err]
      BY <2>4 DEF EngineInv, Shape, Halted
    <3> QED BY <1>2, <2>4, <3>1, <3>2 DEF Halted
  <2>5. /\ transfer_list' = <<>> /\ pc' = pc /\ desc_lock' = desc_lock /\ sent' = sent
        /\ hw'.next = hw.next /\ hw'.left = hw.left /\ ~hw'.busy
        /\ state' \in [Transfers -> {"new", "submitted", "completed", "failed", "aborted"}]
    <3>1. CASE k = Len(transfer_list)
      <4> DEFINE over == {transfer_list[i] : i \in 1..k}
                 deq == desc_dequeued + Total(k)
      <4>1. /\ transfer_list' = <<>> /\ CallBack(over, state') /\ Resume(stopped, h, <<>>, deq)
            /\ state' = [u \in Transfers |-> IF u \in over THEN "completed" ELSE state[u]]
        BY <1>6, <3>1 DEF ServeRest
      <4>2. stopped \in BOOLEAN
        OBVIOUS
      <4> HIDE DEF over, deq, stopped, h, k
      <4>3. state' \in [Transfers -> {"new", "submitted", "completed", "failed", "aborted"}]
        BY <4>1 DEF SyncInv, Types
      <4> QED BY <4>1, <4>2, <4>3, <2>3, <2>4
    <3>2. CASE k # Len(transfer_list)
      <4> DEFINE over == {transfer_list[i] : i \in 1..k}
                 u == transfer_list[k + 1]
                 fails == status.err \/ d - Total(k) < num[u]
                 rest == SubSeq(transfer_list, k + 2, Len(transfer_list))
                 halt == stopped \/ status.err
                 regs == IF status.err THEN Halted(h) ELSE h
                 deq == desc_dequeued + Total(k) + IF status.err THEN 0 ELSE num[u]
      <4>1. /\ transfer_list' = rest /\ CallBack(over \cup {u}, state')
            /\ Resume(halt, regs, rest, deq)
            /\ state' = [v \in Transfers |->
                            IF v \in over THEN "completed"
                            ELSE IF v = u THEN IF fails THEN "failed" ELSE "completed"
                            ELSE state[v]]
        BY <1>6, <3>2 DEF ServeRest
      <4>2. rest = <<>>
        BY <1>4, <2>1, <3>2
      <4>3. halt \in BOOLEAN /\ regs \in {h, Halted(h)}
        OBVIOUS
      <4> HIDE DEF over, u, fails, rest, halt, regs, deq, h, k
      <4>4. state' \in [Transfers -> {"new", "submitted", "completed", "failed", "aborted"}]
        BY <4>1 DEF SyncInv, Types
      <4> QED BY <4>1, <4>2, <4>3, <4>4, <2>3, <2>4
    <3> QED BY <3>1, <3>2
  <2> HIDE DEF k, h, count, d, stopped
  <2>6. Types' /\ LockInv'
    BY <1>1, <2>5 DEF SyncInv, Types, LockInv
  <2>7. SentInv' /\ EndsInv' /\ HeadInv'
    BY <1>1, <2>5 DEF SyncInv, SentInv, EndsInv, EndsBefore, EndsLast, HeadInv, Front
  <2>8. QueueInv'
    BY <1>1, <2>5 DEF SyncInv, QueueInv, InRing, Front
  <2> QED BY <2>6, <2>7, <2>8 DEF SyncInv
<1> QED BY <1>5, <1>6

LEMMA HwSync ==
  ASSUME SyncInv, EngineInv, HwStep \/ HwError
  PROVE  SyncInv'
<1>1. UNCHANGED <<scen, client, xfer, ring, desc_idx, transfer_list>>
  BY DEF HwStep, HwError, engine
<1>2. CASE HwError
  <2>1. hw'.busy = FALSE /\ hw'.next = hw.next /\ hw'.left = hw.left
    BY <1>2 DEF HwError, EngineInv, Shape
  <2> QED BY <1>1, <2>1, SyncFrame
<1>3. CASE HwStep
  <2> USE DEF client, xfer
  <2>1. hw'.next = hw.next + 1 /\ hw'.left = hw.left - 1 /\ hw.busy
    BY <1>3 DEF HwStep, EngineInv, Shape
  <2>2. Types' /\ LockInv'
    BY <1>1, <2>1 DEF SyncInv, Types, LockInv
  <2>3. SentInv' /\ EndsInv'
    BY <1>1 DEF SyncInv, SentInv, EndsInv, EndsBefore, EndsLast, Front
  <2>4. QueueInv'
    BY <1>1 DEF SyncInv, QueueInv, Queued, EndsLast, InRing, Front
  <2>5. ASSUME NEW t \in Transfers, transfer_list = <<t>> PROVE OnHead(t)'
    <3>1. OnHead(t) /\ slot[t] \in Nat /\ num[t] \in Nat /\ hw.next \in Int /\ hw.left \in Int
      BY <2>1, <2>5 DEF SyncInv, HeadInv, Types
    <3> QED BY <1>1, <2>1, <3>1 DEF OnHead
  <2>6. HeadInv'
    BY <1>1, <2>5 DEF HeadInv
  <2> QED BY <2>2, <2>3, <2>4, <2>6 DEF SyncInv
<1> QED BY <1>2, <1>3

LEMMA ServeSync ==
  ASSUME SyncInv, EngineInv, NEW count, Serve(count),
         UNCHANGED <<scen, client, xfer, ring, desc_idx, transfer_list>>
  PROVE  SyncInv'
<1>1. \/ hw' = hw
      \/ hw' = [hw EXCEPT !.event = FALSE, !.err = FALSE]
  BY DEF Serve, ClearStatus
<1>2. hw'.busy = hw.busy /\ hw'.next = hw.next /\ hw'.left = hw.left
  BY <1>1 DEF EngineInv, Shape
<1> QED BY <1>2, SyncFrame

LEMMA NextSync == SyncOnly /\ IInv /\ SyncInv /\ [Next]_vars => SyncInv'
<1> SUFFICES ASSUME SyncOnly, EngineInv, PollInv, SyncInv, [Next]_vars PROVE SyncInv'
  BY DEF IInv
<1>1. CASE HwStep \/ HwError
  BY <1>1, HwSync
<1>2. ASSUME NEW c \in Client,
             Begin(c) \/ MakeTransfer(c) \/ Queue(c) \/ Woken(c) \/ TimeOut(c)
      PROVE  SyncInv'
  BY <1>2, BeginSync, BuildSync, QueueSync, WokenSync, TimeOutSync
<1>3. CASE Interrupt \/ PollGo \/ PollFetch \/ PollRead \/ PollClear
  BY <1>3, SyncFrame DEF Interrupt, PollGo, PollFetch, PollRead, PollClear, engine
<1>4. CASE Work
  BY <1>4, ServeSync DEF Work
<1>5. CASE PollServe
  BY <1>5, ServeSync DEF PollServe
<1>6. CASE WorkRest
  BY <1>6, ServeRestSync DEF WorkRest
<1>7. CASE PollServed
  <2>1. svc # Nil
    BY <1>7 DEF PollServed, PollInv
  <2> QED BY <1>7, <2>1, ServeRestSync DEF PollServed
<1>8. CASE OfflineFlag \/ OfflineIrq \/ OnlineEngine \/ OnlineIrq \/ OnlineFlag
  BY <1>8, SyncFrame DEF OfflineFlag, OfflineIrq, OnlineEngine, OnlineIrq, OnlineFlag, engine
<1>9. CASE OfflineStop
  <2>1. hw'.busy = FALSE /\ hw'.next = hw.next /\ hw'.left = hw.left
    BY <1>9 DEF OfflineStop, Halted, EngineInv, Shape
  <2> QED BY <1>9, <2>1, SyncFrame DEF OfflineStop
<1>10. CASE UNCHANGED vars
  BY <1>10, SyncFrame DEF vars, engine
<1> QED BY <1>1, <1>2, <1>3, <1>4, <1>5, <1>6, <1>7, <1>8, <1>9, <1>10 DEF Next

LEMMA SyncInductive == ASSUME SyncOnly PROVE Spec => [](IInv /\ SyncInv)
<1>1. Init => SyncInv
  BY InitSync
<1>2. IInv /\ SyncInv /\ [Next]_vars => SyncInv'
  BY NextSync
<1> QED BY <1>1, <1>2, Inductive, PTL DEF Spec

\* Where every caller waits for its transfer (xdma_xfer_submit), the engine
\* executes the transfer at the head of the list and the driver knows that it
\* runs, however waits time out, the engine fails and the device is reset.
THEOREM WaitingRunsTheHead == ASSUME SyncOnly PROVE Spec => []RunsTheHead
<1>1. IInv /\ SyncInv => RunsTheHead
  <2> SUFFICES ASSUME IInv, SyncInv, hw.busy
               PROVE  /\ running /\ transfer_list # <<>>
                      /\ hw.next + hw.left = slot[Head(transfer_list)] + num[Head(transfer_list)]
    BY DEF RunsTheHead
  <2>1. running /\ transfer_list # <<>>
    BY DEF IInv, EngineInv, BusyIsKnown
  <2>2. PICK t \in Transfers : transfer_list = <<t>>
    BY <2>1 DEF SyncInv, QueueInv, Queued
  <2> QED BY <2>1, <2>2 DEF SyncInv, HeadInv, OnHead
<1> QED BY <1>1, SyncInductive, PTL

\* Where every caller waits, a call that has returned leaves nothing of its
\* request in the list or in the engine (transfer_abort, xdma_engine_stop):
\* its pages may be unmapped.
THEOREM WaitingLeavesNothing == ASSUME SyncOnly PROVE Spec => []NothingAfterReturn
<1>1. IInv /\ SyncInv => NothingAfterReturn
  <2> SUFFICES ASSUME IInv, SyncInv, NEW c \in Client, pc[c] = "done"
               PROVE  /\ \A i \in 1..Len(transfer_list) : transfer_list[i][1] # c
                      /\ hw.busy => \A i \in hw.next..(hw.next + hw.left - 1) :
                                      ring[i] = Nil \/ ring[i][1] # c
    BY DEF NothingAfterReturn
  <2>1. CASE transfer_list = <<>>
    BY <2>1 DEF IInv, EngineInv, BusyIsKnown
  <2>2. ASSUME NEW t \in Transfers, Queued(t)
        PROVE  /\ \A i \in 1..Len(transfer_list) : transfer_list[i][1] # c
               /\ hw.busy => \A i \in hw.next..(hw.next + hw.left - 1) : ring[i][1] # c
    <3>1. transfer_list = <<t>> /\ t[1] # c /\ InRing(t)
      BY <2>2 DEF Queued
    <3>2. ASSUME hw.busy, NEW i \in hw.next..(hw.next + hw.left - 1)
          PROVE  ring[i][1] # c
      <4>1. /\ slot[t] <= hw.next /\ hw.next + hw.left = slot[t] + num[t]
            /\ slot[t] \in Nat /\ num[t] \in Nat /\ hw.next \in Int /\ hw.left \in Int
        BY <3>1, <3>2 DEF SyncInv, HeadInv, OnHead, Types
      <4>2. i - slot[t] \in 0..(num[t] - 1) /\ slot[t] + (i - slot[t]) = i
        BY <4>1
      <4>3. ring[i] = <<t[1], t[2] + (i - slot[t])>>
        BY <3>1, <4>2 DEF InRing
      <4> QED BY <3>1, <4>3
    <3> QED BY <3>1, <3>2
  <2> QED BY <2>1, <2>2 DEF SyncInv, QueueInv
<1> QED BY <1>1, SyncInductive, PTL

-----------------------------------------------------------------------------
(* Types, for all callers                                                  *)

\* What is listed has descriptors, which count as sent.
Listed(t) == t \in Transfers /\ num[t] > 0 /\ t[2] + num[t] <= sent[t[1]]

Values ==
  /\ scen \in Scenarios
  /\ pc \in [Client -> {"call", "init", "queue", "wait", "pending", "done"}]
  /\ res \in [Client -> {"none", "ok", "failed", "aborted", "busy"}]
  /\ sent \in [Client -> Nat]
  /\ desc_lock \in Client \cup {Nil}
  /\ num \in [Transfers -> Nat] /\ slot \in [Transfers -> Nat]
  /\ state \in [Transfers -> {"new", "submitted", "completed", "failed", "aborted"}]
  /\ desc_idx \in 0..(DescMax - 1)

\* A transfer ends with the ring.
ListInv ==
  /\ \A t \in Transfers : slot[t] + num[t] <= DescMax
  /\ transfer_list \in Seq(Transfers)
  /\ \A i \in 1..Len(transfer_list) : Listed(transfer_list[i])

\* The engine is at a descriptor of its transfer.
HwInv ==
  /\ hw.next \in Nat /\ hw.left \in Nat /\ hw.count \in Nat
  /\ hw.next + hw.left <= DescMax /\ hw.count + hw.left <= DescMax
  /\ hw.busy => hw.left >= 1

ThreadAt == poll.at \in {"idle", "fetch", "read", "clear", "serve", "served"}

TypeInv == Values /\ SentInv /\ ListInv /\ HwInv /\ ThreadAt

LEMMA InitTypes == Init => TypeInv
<1> SUFFICES ASSUME Init PROVE TypeInv
  OBVIOUS
<1>1. scen.n \in [Client -> 0..MaxN] /\ MaxN \in Nat
  BY ScenarioAssumption DEF Init
<1>2. Values
  BY DescMaxAssumption DEF Init, Values
<1>3. SentInv
  BY <1>1 DEF Init, SentInv
<1>4. ListInv /\ HwInv /\ ThreadAt
  BY DescMaxAssumption DEF Init, ListInv, HwInv, ThreadAt
<1> QED BY <1>2, <1>3, <1>4 DEF TypeInv

\* What the first step of engine_service leaves is the engine's place.
LEMMA ServeRegisters ==
  ASSUME EngineInv, NEW count, Serve(count)
  PROVE  /\ hw'.busy = hw.busy /\ hw'.next = hw.next
         /\ hw'.left = hw.left /\ hw'.count = hw.count
<1>1. \/ hw' = hw
      \/ hw' = [hw EXCEPT !.event = FALSE, !.err = FALSE]
  BY DEF Serve, ClearStatus
<1> QED BY <1>1 DEF EngineInv, Shape

LEMMA TypeFrame ==
  ASSUME TypeInv, UNCHANGED <<scen, client, xfer, desc_idx, transfer_list>>, HwInv', ThreadAt'
  PROVE  TypeInv'
<1> USE DEF client, xfer
<1>1. Values' /\ SentInv'
  BY DEF TypeInv, Values, SentInv, Front
<1>2. ListInv'
  BY DEF TypeInv, ListInv, Listed
<1> QED BY <1>1, <1>2 DEF TypeInv

LEMMA HwTypes ==
  ASSUME TypeInv, EngineInv, HwStep \/ HwError
  PROVE  TypeInv'
<1>1. UNCHANGED <<scen, client, xfer, desc_idx, transfer_list, poll>> /\ hw.busy
  BY DEF HwStep, HwError, engine
<1>2. HwInv'
  <2>1. CASE HwStep
    <3>1. /\ hw'.next = hw.next + 1 /\ hw'.left = hw.left - 1 /\ hw'.count = hw.count + 1
          /\ hw'.busy => hw.left # 1
      BY <2>1 DEF HwStep, EngineInv, Shape
    <3> QED BY <1>1, <3>1 DEF TypeInv, HwInv
  <2>2. CASE HwError
    <3>1. hw'.next = hw.next /\ hw'.left = hw.left /\ hw'.count = hw.count /\ ~hw'.busy
      BY <2>2 DEF HwError, EngineInv, Shape
    <3> QED BY <3>1 DEF TypeInv, HwInv
  <2> QED BY <2>1, <2>2
<1> QED BY <1>1, <1>2, TypeFrame DEF TypeInv, ThreadAt

\* A call that is over takes nothing with it.
LEMMA CallTypes ==
  ASSUME TypeInv, NEW c \in Client,
         UNCHANGED <<scen, sent, num, slot, desc_idx, hw, poll, transfer_list>>,
         state' \in [Transfers -> {"new", "submitted", "completed", "failed", "aborted"}],
         desc_lock' \in {Nil, c, desc_lock},
         \/ pc' = [pc EXCEPT ![c] = "done"]
         \/ pc' = [pc EXCEPT ![c] = "init"] /\ sent[c] < scen.n[c],
         \/ res' = res
         \/ \E r \in {"ok", "failed", "aborted", "busy"} : res' = [res EXCEPT ![c] = r]
  PROVE  TypeInv'
<1>1. Values'
  BY DEF TypeInv, Values
<1>2. SentInv'
  BY DEF TypeInv, Values, SentInv, Front
<1>3. ListInv' /\ HwInv' /\ ThreadAt'
  BY DEF TypeInv, ListInv, Listed, HwInv, ThreadAt
<1> QED BY <1>1, <1>2, <1>3 DEF TypeInv

LEMMA BeginTypes ==
  ASSUME TypeInv, NEW c \in Client, Begin(c)
  PROVE  TypeInv'
<1>1. /\ UNCHANGED <<scen, sent, num, slot, state, desc_idx, hw, poll, transfer_list>>
      /\ pc[c] = "call"
      /\ desc_lock' \in {Nil, c, desc_lock}
      /\ pc' \in {[pc EXCEPT ![c] = "done"], [pc EXCEPT ![c] = "init"]}
      /\ res' = res \/ res' = [res EXCEPT ![c] = "busy"]
  BY DEF Begin, xfer, engine
<1>2. sent[c] < scen.n[c]
  BY <1>1 DEF TypeInv, SentInv
<1> QED BY <1>1, <1>2, CallTypes DEF TypeInv, Values

LEMMA WokenTypes ==
  ASSUME TypeInv, NEW c \in Client, Woken(c)
  PROVE  TypeInv'
<1>1. UNCHANGED <<scen, sent, num, slot, state, desc_idx, hw, poll, transfer_list>>
  BY DEF Woken, xfer, engine
<1>2. \/ \E r \in {"ok", "failed"} : Return(c, r)
      \/ pc' = [pc EXCEPT ![c] = "init"] /\ sent[c] # scen.n[c] /\ UNCHANGED <<res, desc_lock>>
  BY DEF Woken
<1>3. sent[c] # scen.n[c] => sent[c] < scen.n[c]
  BY ScenarioAssumption DEF TypeInv, SentInv, Values
<1> QED BY <1>1, <1>2, <1>3, CallTypes DEF Return, TypeInv, Values

LEMMA TimeOutTypes ==
  ASSUME TypeInv, EngineInv, NEW c \in Client, TimeOut(c)
  PROVE  TypeInv'
<1>1. UNCHANGED <<scen, sent, num, slot, desc_idx, poll>> /\ Return(c, "aborted")
  BY DEF TimeOut
<1>2. Values'
  BY <1>1 DEF TimeOut, Return, TypeInv, Values
<1>3. SentInv'
  BY <1>1 DEF Return, TypeInv, Values, SentInv, Front
<1>4. ListInv'
  <2>1. transfer_list' \in {transfer_list, Tail(transfer_list)} /\ transfer_list' \in Seq(Transfers)
    BY DEF TimeOut, TypeInv, ListInv
  <2>2. ASSUME NEW i \in 1..Len(transfer_list') PROVE Listed(transfer_list'[i])
    <3>1. PICK j \in 1..Len(transfer_list) : transfer_list'[i] = transfer_list[j]
      <4>1. CASE transfer_list' = transfer_list
        BY <4>1
      <4>2. CASE transfer_list' # transfer_list
        <5>1. transfer_list # <<>> /\ transfer_list' = Tail(transfer_list)
          BY <2>1, <4>2 DEF TimeOut
        <5>2. i + 1 \in 1..Len(transfer_list) /\ transfer_list'[i] = transfer_list[i + 1]
          BY <5>1, <2>2 DEF TypeInv, ListInv
        <5> QED BY <5>2
      <4> QED BY <4>1, <4>2
    <3>2. Listed(transfer_list[j])
      BY DEF TypeInv, ListInv
    <3> QED BY <3>1, <3>2
  <2> QED BY <1>1, <2>1, <2>2 DEF TypeInv, ListInv, Listed
<1>5. HwInv' /\ ThreadAt'
  <2>1. hw'.next = hw.next /\ hw'.left = hw.left /\ hw'.count = hw.count /\ ~hw'.busy
    BY DEF TimeOut, Halted, EngineInv, Shape
  <2> QED BY <1>1, <2>1 DEF TypeInv, HwInv, ThreadAt
<1> QED BY <1>2, <1>3, <1>4, <1>5 DEF TypeInv

LEMMA FrontAt ==
  ASSUME NEW c \in Client, sent[c] \in 0..(MaxN - 1)
  PROVE  Front(c) \in Transfers /\ Front(c)[1] = c /\ Front(c)[2] = sent[c]
BY DEF Front, Transfers

LEMMA BuildTypes ==
  ASSUME TypeInv, NEW c \in Client, MakeTransfer(c)
  PROVE  TypeInv'
<1>1. pc[c] = "init" /\ UNCHANGED <<scen, sent, state, transfer_list, hw, poll>>
  BY DEF MakeTransfer, engine
<1>2. sent[c] < scen.n[c] /\ scen.n[c] \in 0..MaxN /\ sent[c] \in Nat /\ MaxN \in Nat
  BY <1>1, ScenarioAssumption DEF TypeInv, SentInv, Values
<1>3. PICK t \in Transfers : t = Front(c) /\ t[1] = c /\ t[2] = sent[c]
  <2>1. sent[c] \in 0..(MaxN - 1)
    BY <1>2
  <2> QED BY <2>1, FrontAt
<1>4. PICK k :
      /\ k = Least(scen.n[c] - sent[c], DescMax - desc_idx)
      /\ k \in Nat /\ k > 0 /\ sent[c] + k <= scen.n[c]
      /\ desc_idx + k <= DescMax /\ desc_idx \in Nat
  BY <1>2, DescMaxAssumption DEF Least, TypeInv, Values
<1>5. /\ num' = [num EXCEPT ![t] = k]
      /\ slot' = [slot EXCEPT ![t] = desc_idx]
      /\ desc_idx' = (desc_idx + k) % DescMax
  BY <1>3, <1>4 DEF MakeTransfer, Build, Front
<1>6. \/ pc' = [pc EXCEPT ![c] = "queue"] /\ desc_lock' = desc_lock /\ res' = res
      \/ pc' = [pc EXCEPT ![c] = "done"] /\ desc_lock' \in {Nil, desc_lock}
           /\ res' = [res EXCEPT ![c] = "busy"]
  BY DEF MakeTransfer, Return
<1>7. num'[t] = k /\ slot'[t] = desc_idx
  BY <1>3, <1>5 DEF TypeInv, Values
<1>8. ASSUME NEW u \in Transfers, u # t PROVE num'[u] = num[u] /\ slot'[u] = slot[u]
  BY <1>5, <1>8 DEF TypeInv, Values
<1>9. Values'
  <2>1. desc_idx' \in 0..(DescMax - 1)
    BY <1>4, <1>5, DescMaxAssumption
  <2> QED BY <1>1, <1>3, <1>4, <1>5, <1>6, <2>1 DEF TypeInv, Values
<1>10. SentInv'
  <2>1. ASSUME NEW d \in Client, d # c
        PROVE  pc'[d] = pc[d] /\ (Front(d) \in Transfers => num'[Front(d)] = num[Front(d)])
    BY <1>3, <1>6, <1>8, <2>1 DEF Front, TypeInv, Values
  <2>2. ASSUME NEW d \in Client, d # c, pc[d] = "queue" PROVE Front(d) \in Transfers
    <3>1. sent[d] < scen.n[d] /\ scen.n[d] \in 0..MaxN /\ sent[d] \in Nat
      BY <2>2, ScenarioAssumption DEF TypeInv, SentInv, Values
    <3>2. sent[d] \in 0..(MaxN - 1)
      BY <1>2, <3>1
    <3> QED BY <3>2 DEF Front, Transfers
  <2>3. ASSUME NEW d \in Client, d # c
        PROVE  /\ sent'[d] <= scen'.n[d]
               /\ pc'[d] \in {"call", "init", "queue"} => sent'[d] < scen'.n[d]
               /\ pc'[d] = "queue" =>
                    num'[<<d, sent'[d]>>] > 0 /\ sent'[d] + num'[<<d, sent'[d]>>] <= scen'.n[d]
    BY <1>1, <2>1, <2>2, <2>3 DEF Front, TypeInv, SentInv
  <2>4. /\ sent'[c] <= scen'.n[c] /\ sent'[c] < scen'.n[c]
        /\ num'[<<c, sent'[c]>>] > 0 /\ sent'[c] + num'[<<c, sent'[c]>>] <= scen'.n[c]
    BY <1>1, <1>2, <1>3, <1>4, <1>7 DEF Front
  <2> QED BY <2>3, <2>4 DEF SentInv, Front
<1>11. ListInv'
  <2>1. ASSUME NEW u \in Transfers PROVE slot'[u] + num'[u] <= DescMax
    BY <1>4, <1>7, <1>8 DEF TypeInv, ListInv
  <2>2. ASSUME NEW i \in 1..Len(transfer_list)
        PROVE  /\ transfer_list[i] \in Transfers /\ num'[transfer_list[i]] = num[transfer_list[i]]
               /\ Listed(transfer_list[i])
    <3>1. PICK u : u = transfer_list[i] /\ Listed(u)
      BY DEF TypeInv, ListInv
    <3>2. u \in Transfers /\ num[u] \in Nat /\ u[2] \in Nat
      BY <3>1, TransferIs DEF Listed, TypeInv, Values
    <3>3. u # t
      BY <1>2, <1>3, <3>1, <3>2 DEF Listed
    <3> QED BY <1>8, <3>1, <3>2, <3>3
  <2> QED BY <1>1, <2>1, <2>2 DEF TypeInv, ListInv, Listed
<1>12. HwInv' /\ ThreadAt'
  BY <1>1 DEF TypeInv, HwInv, ThreadAt
<1> QED BY <1>9, <1>10, <1>11, <1>12 DEF TypeInv

\* The engine started on a transfer that is listed.
LEMMA StartTypes ==
  ASSUME TypeInv, EngineInv, NEW t \in Transfers, num[t] > 0, NEW h,
         h = [busy |-> h.busy, next |-> h.next, left |-> h.left, count |-> h.count,
              event |-> h.event, err |-> h.err],
         hw' = Started(h, t)
  PROVE  HwInv'
<1>1. hw'.next = slot[t] /\ hw'.left = num[t] /\ hw'.count = 0
  BY DEF Started
<1>2. slot[t] \in Nat /\ num[t] \in Nat /\ slot[t] + num[t] <= DescMax
  BY DEF TypeInv, Values, ListInv
<1> QED BY <1>1, <1>2, DescMaxAssumption DEF HwInv

LEMMA QueueTypes ==
  ASSUME TypeInv, EngineInv, NEW c \in Client, Queue(c)
  PROVE  TypeInv'
<1>1. pc[c] = "queue" /\ UNCHANGED <<scen, num, slot, desc_idx, poll>>
  BY DEF Queue
<1>2. CASE shutdown
  <2>1. Return(c, "busy") /\ UNCHANGED <<sent, state, transfer_list, hw>>
    BY <1>2 DEF Queue, engine
  <2> QED BY <1>1, <2>1, CallTypes DEF Return, TypeInv, Values
<1>3. CASE ~shutdown
  <2>1. /\ sent[c] < scen.n[c] /\ scen.n[c] \in 0..MaxN /\ sent[c] \in Nat /\ MaxN \in Nat
        /\ num[Front(c)] > 0 /\ sent[c] + num[Front(c)] <= scen.n[c]
    BY <1>1, ScenarioAssumption DEF TypeInv, SentInv, Values
  <2>2. PICK t \in Transfers : t = Front(c) /\ t[1] = c /\ t[2] = sent[c]
    <3>1. sent[c] \in 0..(MaxN - 1)
      BY <2>1
    <3> QED BY <3>1, FrontAt
  <2>3. num[t] \in Nat /\ num[t] > 0 /\ sent[c] + num[t] <= scen.n[c]
    BY <2>1, <2>2 DEF TypeInv, Values
  <2>4. /\ transfer_list' = Append(transfer_list, t)
        /\ state' = [state EXCEPT ![t] = "submitted"]
        /\ sent' = [sent EXCEPT ![c] = @ + num[t]]
        /\ pc' = [pc EXCEPT ![c] = IF scen.sync THEN "wait"
                                   ELSE IF sent[c] + num[t] = scen.n[c] THEN "pending" ELSE "init"]
        /\ UNCHANGED <<res, desc_lock>>
        /\ hw' = hw \/ hw' = Started(hw, Head(Append(transfer_list, t)))
    BY <1>3, <2>2 DEF Queue, Start, Front
  <2>5. sent'[c] = sent[c] + num[t]
    BY <2>4 DEF TypeInv, Values
  <2>6. Values'
    BY <1>1, <2>2, <2>3, <2>4 DEF TypeInv, Values
  <2>7. SentInv'
    <3>1. ASSUME NEW d \in Client, d # c PROVE pc'[d] = pc[d] /\ sent'[d] = sent[d]
      BY <2>4, <3>1 DEF TypeInv, Values
    <3>2. pc'[c] \notin {"call", "queue"} /\ (pc'[c] = "init" => sent[c] + num[t] # scen.n[c])
      BY <2>4 DEF TypeInv, Values
    <3>3. sent'[c] <= scen.n[c] /\ (pc'[c] = "init" => sent'[c] < scen.n[c])
      BY <2>1, <2>3, <2>5, <3>2
    <3> QED BY <1>1, <3>1, <3>2, <3>3 DEF TypeInv, SentInv, Front
  <2>8. ASSUME NEW u, Listed(u) \/ u = t
        PROVE  u \in Transfers /\ num[u] > 0 /\ u[2] + num[u] <= sent'[u[1]]
    <3>1. CASE u = t
      BY <2>1, <2>2, <2>3, <2>5, <3>1
    <3>2. CASE u # t /\ u[1] = c
      <4>1. u \in Transfers /\ num[u] \in Nat /\ u[2] \in Nat /\ u[2] + num[u] <= sent[c]
        BY <2>8, <3>2, TransferIs DEF Listed, TypeInv, Values
      <4> QED BY <2>1, <2>3, <2>5, <2>8, <3>2, <4>1 DEF Listed
    <3>3. CASE u # t /\ u[1] # c
      BY <2>4, <2>8, <3>3, TransferIs DEF Listed, TypeInv, Values
    <3> QED BY <3>1, <3>2, <3>3
  <2>9. ASSUME NEW i \in 1..Len(transfer_list')
        PROVE  Listed(transfer_list'[i]) \/ transfer_list'[i] = t
    <3>1. transfer_list \in Seq(Transfers)
      BY DEF TypeInv, ListInv
    <3>2. \/ i \in 1..Len(transfer_list) /\ transfer_list'[i] = transfer_list[i]
          \/ transfer_list'[i] = t
      BY <2>4, <3>1
    <3> QED BY <3>2 DEF TypeInv, ListInv
  <2>10. ListInv'
    <3>1. transfer_list' \in Seq(Transfers)
      BY <2>4 DEF TypeInv, ListInv
    <3> QED BY <1>1, <2>8, <2>9, <3>1 DEF TypeInv, ListInv, Listed
  <2>11. HwInv'
    <3>1. CASE hw' = hw
      BY <3>1 DEF TypeInv, HwInv
    <3>2. CASE hw' = Started(hw, Head(Append(transfer_list, t)))
      <4>1. PICK u : u = Head(Append(transfer_list, t)) /\ (Listed(u) \/ u = t)
        <5>1. transfer_list \in Seq(Transfers)
          BY DEF TypeInv, ListInv
        <5>2. Head(Append(transfer_list, t)) = transfer_list'[1] /\ 1 \in 1..Len(transfer_list')
          BY <2>4, <5>1
        <5> QED BY <2>9, <5>2
      <4> QED BY <2>8, <3>2, <4>1, StartTypes DEF EngineInv, Shape
    <3> QED BY <2>4, <3>1, <3>2
  <2> QED BY <1>1, <2>6, <2>7, <2>10, <2>11 DEF TypeInv, ThreadAt
<1> QED BY <1>2, <1>3

\* Of the transfers in a list, those that fit are a prefix.
LEMMA FirstUnfit ==
  ASSUME NEW n \in Nat, NEW S
  PROVE  \E j \in 0..n : (\A i \in 1..j : i \in S) /\ (j = n \/ j + 1 \notin S)
<1> DEFINE T == {i \in 1..n : i \notin S}
<1>1. CASE T = {}
  BY <1>1
<1>2. CASE T # {}
  <2>1. PICK m \in T : \A i \in T : ~(<<i, m>> \in OpToRel(<, Nat))
    <3>1. T \subseteq Nat
      OBVIOUS
    <3> HIDE DEF T
    <3> QED BY <1>2, <3>1, NatLessThanWellFounded, WFMin
  <2>2. \A i \in T : ~(i < m)
    <3>1. OpToRel(<, Nat) = {ss \in Nat \X Nat : ss[1] < ss[2]}
      BY DEF OpToRel
    <3>2. ASSUME NEW i \in T PROVE ~(i < m)
      <4>1. i \in Nat /\ m \in Nat
        OBVIOUS
      <4>2. <<i, m>> \notin {ss \in Nat \X Nat : ss[1] < ss[2]}
        <5> HIDE DEF T
        <5> QED BY <2>1, <3>1
      <4> QED BY <4>1, <4>2
    <3> QED BY <3>2
  <2>3. m - 1 \in 0..n /\ m - 1 # n /\ (m - 1) + 1 \notin S
    OBVIOUS
  <2>4. ASSUME NEW i \in 1..(m - 1) PROVE i \in S
    BY <2>2
  <2> QED BY <2>3, <2>4
<1> QED BY <1>1, <1>2

\* What engine_service_resume leaves in the registers.
LEMMA ResumeTypes ==
  ASSUME TypeInv, EngineInv, NEW stopped, NEW h, NEW queue, NEW deq,
         h \in {hw, Halted(hw), Halted(Halted(hw))},
         queue # <<>> => Head(queue) \in Transfers /\ num[Head(queue)] > 0,
         Resume(stopped, h, queue, deq)
  PROVE  HwInv'
<1>1. /\ h = [busy |-> h.busy, next |-> h.next, left |-> h.left, count |-> h.count,
              event |-> h.event, err |-> h.err]
      /\ h.next = hw.next /\ h.left = hw.left /\ h.count = hw.count /\ h.busy \in {FALSE, hw.busy}
  BY DEF EngineInv, Shape, Halted
<1>2. CASE stopped /\ queue # <<>>
  <2>1. hw' = Started(h, Head(queue))
    BY <1>2 DEF Resume, Start
  <2> QED BY <1>1, <1>2, <2>1, StartTypes
<1>3. CASE ~(stopped /\ queue # <<>>)
  <2>1. hw' \in {h, Halted(h)}
    BY <1>3 DEF Resume
  <2>2. /\ hw'.next = hw.next /\ hw'.left = hw.left /\ hw'.count = hw.count
        /\ hw'.busy \in {FALSE, hw.busy}
    BY <1>1, <2>1 DEF Halted
  <2> QED BY <2>2 DEF TypeInv, HwInv
<1> QED BY <1>2, <1>3

LEMMA CallBackTypes ==
  ASSUME TypeInv, NEW over, NEW st, CallBack(over, st)
  PROVE  /\ pc' \in [Client -> {"call", "init", "queue", "wait", "pending", "done"}]
         /\ \A c \in Client : pc'[c] \in {pc[c], "done"}
         /\ res' \in [Client -> {"none", "ok", "failed", "aborted", "busy"}]
         /\ UNCHANGED <<sent, desc_lock>>
BY DEF CallBack, TypeInv, Values

\* engine_service ends the transfers it counted, and starts what is left.
LEMMA ServeRestTypes ==
  ASSUME TypeInv, EngineInv, ServeRest, ThreadAt'
  PROVE  TypeInv'
<1> DEFINE stopped == ~status.busy \/ svc.n # 0
           h == IF stopped THEN Halted(hw) ELSE hw
           count == IF svc.n # 0 THEN svc.n ELSE hw.count
           d == Minus(count, desc_dequeued)
           Fits(j) == /\ \A i \in 1..j : d > Total(i)
                      /\ j = Len(transfer_list) \/ ~(d > Total(j + 1))
           k == CHOOSE j \in 0..Len(transfer_list) : Fits(j)
           over == {transfer_list[i] : i \in 1..k}
           last == transfer_list[k + 1]
           fails == status.err \/ d - Total(k) < num[last]
           rest == SubSeq(transfer_list, k + 2, Len(transfer_list))
           halt == stopped \/ status.err
           regs == IF status.err THEN Halted(h) ELSE h
           deq == desc_dequeued + Total(k) + IF status.err THEN 0 ELSE num[last]
<1>1. UNCHANGED <<scen, num, slot, desc_idx>>
  BY DEF ServeRest
<1>2. transfer_list \in Seq(Transfers) /\ Len(transfer_list) \in Nat
  BY DEF TypeInv, ListInv
<1>3. h \in {hw, Halted(hw)} /\ regs \in {hw, Halted(hw), Halted(Halted(hw))}
  OBVIOUS
<1>4. k \in 0..Len(transfer_list)
  <2>1. \E j \in 0..Len(transfer_list) : Fits(j)
    <3> DEFINE S == {i \in 1..Len(transfer_list) : d > Total(i)}
    <3> HIDE DEF d
    <3>1. PICK j \in 0..Len(transfer_list) :
                 (\A i \in 1..j : i \in S) /\ (j = Len(transfer_list) \/ j + 1 \notin S)
      BY <1>2, FirstUnfit
    <3>2. j = Len(transfer_list) \/ ~(d > Total(j + 1))
      BY <1>2, <3>1
    <3>3. \A i \in 1..j : d > Total(i)
      BY <3>1
    <3> QED BY <3>2, <3>3
  <2> HIDE DEF Fits
  <2> QED BY <2>1
<1>5. CASE count = 0
  <2>1. UNCHANGED <<client, state, transfer_list>> /\ hw' = h
    BY <1>5 DEF ServeRest
  <2>2. /\ hw'.next = hw.next /\ hw'.left = hw.left /\ hw'.count = hw.count
        /\ hw'.busy \in {FALSE, hw.busy}
    BY <2>1 DEF EngineInv, Shape, Halted
  <2>3. HwInv'
    BY <2>2 DEF TypeInv, HwInv
  <2> QED BY <1>1, <2>1, <2>3, TypeFrame DEF xfer
<1>6. CASE count # 0 /\ k = Len(transfer_list)
  <2>1. /\ state' = [t \in Transfers |-> IF t \in over THEN "completed" ELSE state[t]]
        /\ transfer_list' = <<>>
        /\ CallBack(over, state')
        /\ Resume(stopped, h, <<>>, desc_dequeued + Total(k))
    BY <1>6 DEF ServeRest
  <2> HIDE DEF over, k, h, stopped
  <2>2. HwInv'
    BY <1>3, <2>1, ResumeTypes
  <2>3. Values' /\ SentInv'
    BY <1>1, <2>1, CallBackTypes DEF TypeInv, Values, SentInv, Front
  <2>4. ListInv'
    BY <1>1, <2>1 DEF TypeInv, ListInv
  <2> QED BY <2>2, <2>3, <2>4 DEF TypeInv
<1>7. CASE count # 0 /\ k # Len(transfer_list)
  <2>1. /\ state' = [u \in Transfers |->
                       IF u \in over THEN "completed"
                       ELSE IF u = last THEN IF fails THEN "failed" ELSE "completed"
                       ELSE state[u]]
        /\ transfer_list' = rest
        /\ CallBack(over \cup {last}, state')
        /\ Resume(halt, regs, rest, deq)
    BY <1>7 DEF ServeRest
  <2> HIDE DEF k
  <2>2. rest \in Seq(Transfers) /\ \A i \in 1..Len(rest) : Listed(rest[i])
    <3>1. k + 2 \in 1..(Len(transfer_list) + 1) /\ k \in Nat
      BY <1>2, <1>4, <1>7
    <3>2. rest \in Seq(Transfers) /\ Len(rest) = Len(transfer_list) - (k + 1)
          /\ \A i \in 1..Len(rest) : rest[i] = transfer_list[k + 1 + i]
      BY <1>2, <3>1
    <3> HIDE DEF rest
    <3>3. ASSUME NEW i \in 1..Len(rest) PROVE Listed(rest[i])
      <4>1. k + 1 + i \in 1..Len(transfer_list)
        BY <1>2, <3>1, <3>2
      <4> QED BY <3>2, <4>1 DEF TypeInv, ListInv
    <3> QED BY <3>2, <3>3
  <2>3. rest # <<>> => Head(rest) \in Transfers /\ num[Head(rest)] > 0
    <3>1. rest # <<>> => Head(rest) = rest[1] /\ 1 \in 1..Len(rest)
      BY <2>2
    <3> HIDE DEF rest
    <3> QED BY <2>2, <3>1 DEF Listed
  <2> HIDE DEF over, last, fails, rest, halt, regs, deq, h
  <2>4. HwInv'
    BY <1>3, <2>1, <2>3, ResumeTypes
  <2>5. sent' = sent
    BY <2>1, CallBackTypes
  <2>6. Values' /\ SentInv'
    BY <1>1, <2>1, CallBackTypes DEF TypeInv, Values, SentInv, Front
  <2>7. ListInv'
    BY <1>1, <2>1, <2>2, <2>5 DEF TypeInv, ListInv, Listed
  <2> QED BY <2>4, <2>6, <2>7 DEF TypeInv
<1> QED BY <1>5, <1>6, <1>7

LEMMA NextTypes == IInv /\ TypeInv /\ [Next]_vars => TypeInv'
<1> SUFFICES ASSUME EngineInv, PollInv, TypeInv, [Next]_vars PROVE TypeInv'
  BY DEF IInv
<1> DEFINE Same == UNCHANGED <<scen, client, xfer, desc_idx, transfer_list>>
<1>1. CASE HwStep \/ HwError
  BY <1>1, HwTypes
<1>2. ASSUME NEW c \in Client,
             Begin(c) \/ MakeTransfer(c) \/ Queue(c) \/ Woken(c) \/ TimeOut(c)
      PROVE  TypeInv'
  BY <1>2, BeginTypes, BuildTypes, QueueTypes, WokenTypes, TimeOutTypes
<1>3. CASE \/ Interrupt \/ PollGo \/ PollFetch \/ PollRead \/ PollClear
           \/ OfflineFlag \/ OfflineIrq \/ OnlineEngine \/ OnlineIrq \/ OnlineFlag
  <2>1. Same /\ hw' = hw
    BY <1>3 DEF Interrupt, PollGo, PollFetch, PollRead, PollClear,
                OfflineFlag, OfflineIrq, OnlineEngine, OnlineIrq, OnlineFlag, engine
  <2>2. ThreadAt'
    <3>1. CASE poll' = poll
      BY <3>1 DEF TypeInv, ThreadAt
    <3>2. CASE PollGo \/ PollFetch \/ PollRead \/ PollClear
      BY <3>2 DEF PollGo, PollFetch, PollRead, PollClear, PollInv, TypeInv, ThreadAt
    <3> QED BY <1>3, <3>1, <3>2 DEF Interrupt, OfflineFlag, OfflineIrq, OnlineEngine, OnlineIrq,
                                    OnlineFlag
  <2> QED BY <2>1, <2>2, TypeFrame DEF TypeInv, HwInv
<1>4. ASSUME NEW count, Serve(count), Same, ThreadAt' PROVE TypeInv'
  <2>1. HwInv'
    BY <1>4, ServeRegisters DEF TypeInv, HwInv
  <2> QED BY <1>4, <2>1, TypeFrame
<1>5. CASE Work
  <2>1. Serve(NoWb) /\ Same /\ ThreadAt'
    BY <1>5 DEF Work, TypeInv, ThreadAt
  <2> QED BY <1>4, <2>1
<1>6. CASE PollServe
  <2>1. Serve(poll.val) /\ Same /\ ThreadAt'
    BY <1>6 DEF PollServe, ThreadAt, PollInv
  <2> QED BY <1>4, <2>1
<1>7. CASE WorkRest \/ PollServed
  <2>1. ServeRest /\ ThreadAt'
    BY <1>7 DEF WorkRest, PollServed, ThreadAt, TypeInv, PollInv
  <2> QED BY <2>1, ServeRestTypes
<1>8. CASE OfflineStop
  <2>1. hw'.next = hw.next /\ hw'.left = hw.left /\ hw'.count = hw.count /\ ~hw'.busy
    BY <1>8 DEF OfflineStop, Halted, EngineInv, Shape
  <2>2. HwInv' /\ ThreadAt' /\ Same
    BY <1>8, <2>1 DEF OfflineStop, TypeInv, HwInv, ThreadAt
  <2> QED BY <2>2, TypeFrame
<1>9. CASE UNCHANGED vars
  BY <1>9, TypeFrame DEF vars, engine, TypeInv, HwInv, ThreadAt
<1> QED BY <1>1, <1>2, <1>3, <1>5, <1>6, <1>7, <1>8, <1>9 DEF Next

\* Whatever the callers, the engine, timeouts and resets do: no transfer and no
\* step of the engine leaves the descriptor ring, and every state is one the
\* driver knows (transfer_init ends a transfer with the ring, libxdma.c:2989).
THEOREM TypeCorrect == Spec => []TypeOK
<1>1. Init => TypeInv
  BY InitTypes
<1>2. IInv /\ TypeInv /\ [Next]_vars => TypeInv'
  BY NextTypes
<1>3. TypeInv => TypeOK
  BY DescMaxAssumption DEF TypeInv, Values, ListInv, HwInv, ThreadAt, TypeOK
<1> QED BY <1>1, <1>2, <1>3, Inductive, PTL DEF Spec

-----------------------------------------------------------------------------
(* Waiting callers are told the truth                                      *)

AllMoved(c, from, to) == \A k \in from..(to - 1) : <<c, k>> \in moved
Runs(t) == transfer_list = <<t>> /\ running
Blamed(c) == \E d \in bad : d[1] = c

\* What the engine has counted of the transfer it runs, it has executed.
RunInv == \A t \in Transfers : Runs(t) =>
  /\ desc_dequeued = 0
  /\ hw.next = slot[t] + hw.count /\ hw.count + hw.left = num[t]
  /\ AllMoved(t[1], t[2], t[2] + hw.count)

\* A transfer that completed was executed.
DoneInv == \A t \in Transfers :
  /\ state[t] # "new" => Listed(t)
  /\ state[t] = "completed" => AllMoved(t[1], t[2], t[2] + num[t])

\* A caller goes on only after what it sent was executed.
LastSent(c, t) == t[1] = c /\ EndsLast(t) /\ state[t] \in {"submitted", "completed", "failed"}
                    /\ AllMoved(c, 0, t[2])
WaitFor(c) ==
  /\ pc[c] \in {"call", "init", "queue"} => AllMoved(c, 0, sent[c])
  /\ pc[c] = "wait" => \E t \in Transfers : LastSent(c, t)
  /\ res[c] = "ok" => AllMoved(c, 0, scen.n[c])

ProgressInv == RunInv /\ DoneInv /\ (\A c \in Client : WaitFor(c))

\* Who serves the engine in which mode, and with what.
ModeInv ==
  /\ irq = [on |-> irq.on, mask |-> irq.mask, work |-> irq.work]
  /\ status = [busy |-> status.busy, err |-> status.err]
  /\ Polling => ~irq.on /\ ~irq.work /\ (svc # Nil => poll.at = "served")
  /\ ~Polling => svc \in {Nil, NoWb}
  /\ svc # Nil => svc \in [n : Nat, err : BOOLEAN]

\* A writeback is of the transfer in the list, where the engine stopped.
StoppedAt(w) == w # NoWb => transfer_list # <<>> /\ ~hw.busy /\ w.n = hw.count
WbInv == Polling =>
  /\ StoppedAt(wb) /\ (wb # NoWb => (wb.err <=> hw.err))
  /\ poll.at \in {"clear", "serve"} =>
       poll.val # NoWb /\ StoppedAt(poll.val) /\ (poll.val.err <=> hw.err)
  /\ poll.at \in {"serve", "served"} => wb = NoWb
  /\ svc # Nil => svc # NoWb /\ StoppedAt(svc)

\* The events of the engine are of the transfer in the list.
EventInv == ~scen.timed =>
  /\ hw.busy => ~hw.err
  /\ ~Polling => /\ hw.event => ~hw.busy
                 /\ irq.work => hw.event
  /\ transfer_list = <<>> => ~hw.err /\ (~Polling => ~hw.event)
  /\ svc # Nil => /\ ~hw.busy /\ ~hw.err
                  /\ ~status.busy \/ svc.n # 0
                  /\ ~Polling => ~hw.event
  /\ running /\ svc = Nil => ~status.err

\* What fails has a cause.
CauseInv == ~scen.timed =>
  /\ \A t \in Transfers : state[t] = "failed" => Blamed(t[1])
  /\ \A c \in Client : res[c] = "failed" => Blamed(c)
  /\ \A t \in Transfers : transfer_list = <<t>> =>
       /\ running /\ ~hw.busy /\ hw.left > 0 => Blamed(t[1])
       /\ hw.err \/ (svc # Nil /\ status.err) => Blamed(t[1])

TruthInv == ProgressInv /\ ModeInv /\ WbInv /\ EventInv /\ CauseInv

\* Without the timeouts in polled mode after which a stale writeback is taken
\* for that of the next transfer.
PolledPatient == \A s \in Scenarios : s.mode = "poll" => ~s.timed

Known == SyncOnly /\ PolledPatient /\ IInv /\ SyncInv /\ TypeInv /\ TruthInv

\* The one transfer of a list that is not empty.
LEMMA TheHead ==
  ASSUME SyncInv, transfer_list # <<>>
  PROVE  \E t \in Transfers : Queued(t)
BY DEF SyncInv, QueueInv

LEMMA InitTruth == SyncOnly /\ Init => TruthInv
<1> SUFFICES ASSUME SyncOnly, Init PROVE TruthInv
  OBVIOUS
<1>1. scen.n \in [Client -> 0..MaxN] /\ MaxN \in Nat
  BY ScenarioAssumption DEF Init
<1>2. RunInv /\ DoneInv
  BY DEF Init, RunInv, Runs, DoneInv
<1>3. ASSUME NEW c \in Client PROVE WaitFor(c)
  BY <1>1, <1>3 DEF Init, WaitFor, AllMoved
<1>4. ModeInv /\ WbInv
  BY DEF Init, ModeInv, WbInv, Polling, StoppedAt
<1>5. EventInv /\ CauseInv
  BY DEF Init, EventInv, CauseInv
<1> QED BY <1>2, <1>3, <1>4, <1>5 DEF TruthInv, ProgressInv

\* The engine keeps its place, and what it has executed only grows.
LEMMA ProgressFrame ==
  ASSUME ProgressInv,
         UNCHANGED <<scen, pc, sent, res, num, slot, state, transfer_list, desc_dequeued>>,
         running' => running, hw'.next = hw.next, hw'.left = hw.left, hw'.count = hw.count,
         moved \subseteq moved'
  PROVE  ProgressInv'
<1>1. RunInv'
  BY DEF ProgressInv, RunInv, Runs, AllMoved
<1>2. DoneInv'
  BY DEF ProgressInv, DoneInv, Listed, AllMoved
<1>3. ASSUME NEW c \in Client PROVE WaitFor(c)'
  <2>1. WaitFor(c)
    BY DEF ProgressInv
  <2> QED BY <2>1 DEF WaitFor, LastSent, EndsLast, AllMoved
<1> QED BY <1>1, <1>2, <1>3 DEF ProgressInv

LEMMA ModeFrame ==
  ASSUME ModeInv, UNCHANGED <<scen, irq, svc, poll>>,
         status' = [busy |-> status'.busy, err |-> status'.err]
  PROVE  ModeInv'
BY DEF ModeInv, Polling

LEMMA WbFrame ==
  ASSUME WbInv, UNCHANGED <<scen, transfer_list, hw, wb, poll, svc>>
  PROVE  WbInv'
BY DEF WbInv, StoppedAt, Polling

LEMMA EventFrame ==
  ASSUME EventInv, UNCHANGED <<scen, transfer_list, hw, svc, status, running>>,
         irq'.work = irq.work
  PROVE  EventInv'
BY DEF EventInv, Polling

LEMMA CauseFrame ==
  ASSUME CauseInv, UNCHANGED <<scen, state, res, transfer_list, bad, running, hw, svc, status>>
  PROVE  CauseInv'
BY DEF CauseInv, Blamed

\* Who waits is the only one who is not at rest.
LEMMA OthersRest ==
  ASSUME SyncInv, NEW c \in Client, pc[c] \in {"init", "queue", "wait"},
         NEW d \in Client, d # c
  PROVE  pc[d] \notin {"init", "queue", "wait"}
BY DEF SyncInv, LockInv

LEMMA AwaitedIs ==
  ASSUME SyncInv, NEW c \in Client, pc[c] = "wait", WaitFor(c)
  PROVE  Awaited(c) \in Transfers /\ LastSent(c, Awaited(c))
<1>1. PICK t \in Transfers : LastSent(c, t)
  BY DEF WaitFor
<1>2. \A u \in Transfers : u[1] = c /\ num[u] > 0 /\ u[2] + num[u] = sent[c] => u = t
  BY <1>1 DEF SyncInv, EndsInv, EndsLast, LastSent
<1>3. t[1] = c /\ num[t] > 0 /\ t[2] + num[t] = sent[c]
  BY <1>1 DEF LastSent, EndsLast
<1> QED BY <1>1, <1>2, <1>3 DEF Awaited

-----------------------------------------------------------------------------
(* The callers                                                             *)

LEMMA BeginTruth ==
  ASSUME Known, NEW c \in Client, Begin(c)
  PROVE  TruthInv'
<1>1. /\ UNCHANGED <<scen, sent, num, slot, state, engine, hw, svc, wb, poll, irq, moved, bad>>
      /\ pc[c] = "call"
      /\ pc' \in {[pc EXCEPT ![c] = "done"], [pc EXCEPT ![c] = "init"]}
      /\ res' = res \/ res' = [res EXCEPT ![c] = "busy"]
  BY DEF Begin, xfer
<1> USE DEF Known, TruthInv, engine
<1>2. RunInv' /\ DoneInv'
  BY <1>1 DEF ProgressInv, RunInv, Runs, DoneInv, Listed, AllMoved
<1>3. ASSUME NEW d \in Client PROVE WaitFor(d)'
  <2>1. WaitFor(d) /\ WaitFor(c)
    BY DEF ProgressInv
  <2> QED BY <1>1, <2>1 DEF WaitFor, LastSent, EndsLast, AllMoved, TypeInv, Values
<1>4. ModeInv' /\ WbInv' /\ EventInv'
  BY <1>1, ModeFrame, WbFrame, EventFrame DEF ModeInv
<1>5. CauseInv'
  BY <1>1 DEF CauseInv, Blamed, TypeInv, Values
<1> QED BY <1>2, <1>3, <1>4, <1>5 DEF ProgressInv

LEMMA BuildTruth ==
  ASSUME Known, NEW c \in Client, MakeTransfer(c)
  PROVE  TruthInv'
<1> USE DEF Known, TruthInv
<1>1. pc[c] = "init" /\ transfer_list = <<>>
  BY NothingQueued DEF MakeTransfer
<1>2. UNCHANGED <<scen, sent, state, engine, hw, svc, wb, poll, irq, moved, bad>>
  BY DEF MakeTransfer
<1>3. \/ pc' = [pc EXCEPT ![c] = "queue"] /\ res' = res
      \/ pc' = [pc EXCEPT ![c] = "done"] /\ res' = [res EXCEPT ![c] = "busy"]
  BY DEF MakeTransfer, Return
<1>4. \A u \in Transfers : u # Front(c) => num'[u] = num[u] /\ slot'[u] = slot[u]
  BY DEF MakeTransfer, Build, Front, TypeInv, Values
<1>5. RunInv'
  BY <1>1, <1>2 DEF RunInv, Runs, engine
<1>6. DoneInv'
  <2>1. ASSUME NEW u \in Transfers, state[u] # "new" PROVE Listed(u) /\ u # Front(c)
    <3>1. Listed(u)
      BY <2>1 DEF ProgressInv, DoneInv
    <3>2. u[2] \in Nat /\ num[u] \in Nat /\ sent[u[1]] \in Nat
      BY TransferIs DEF TypeInv, Values
    <3>3. u[2] # sent[u[1]]
      BY <3>1, <3>2 DEF Listed
    <3> QED BY <3>1, <3>3 DEF Front
  <2> QED BY <1>2, <1>4, <2>1 DEF ProgressInv, DoneInv, Listed, AllMoved
<1>7. ASSUME NEW d \in Client PROVE WaitFor(d)'
  <2>1. WaitFor(d) /\ WaitFor(c)
    BY DEF ProgressInv
  <2>2. pc'[d] # "wait"
    BY <1>1, <1>3, OthersRest DEF TypeInv, Values
  <2> QED BY <1>1, <1>2, <1>3, <2>1, <2>2 DEF WaitFor, AllMoved, TypeInv, Values
<1>8. ModeInv' /\ WbInv' /\ EventInv'
  BY <1>2, ModeFrame, WbFrame, EventFrame DEF ModeInv, engine
<1>9. CauseInv'
  BY <1>2, <1>3 DEF CauseInv, Blamed, TypeInv, Values, engine
<1> QED BY <1>5, <1>6, <1>7, <1>8, <1>9 DEF ProgressInv

LEMMA WokenTruth ==
  ASSUME Known, NEW c \in Client, Woken(c)
  PROVE  TruthInv'
<1> USE DEF Known, TruthInv
<1>1. /\ pc[c] = "wait" /\ state[Awaited(c)] # "submitted"
      /\ UNCHANGED <<scen, sent, num, slot, state, engine, hw, svc, wb, poll, irq, moved, bad>>
  BY DEF Woken, xfer
<1>2. PICK t \in Transfers : t = Awaited(c) /\ LastSent(c, t)
  BY <1>1, AwaitedIs DEF ProgressInv
<1>3. \/ state[t] = "failed" /\ pc' = [pc EXCEPT ![c] = "done"] /\ res' = [res EXCEPT ![c] = "failed"]
      \/ state[t] = "completed" /\ sent[c] = scen.n[c]
           /\ pc' = [pc EXCEPT ![c] = "done"] /\ res' = [res EXCEPT ![c] = "ok"]
      \/ state[t] = "completed" /\ pc' = [pc EXCEPT ![c] = "init"] /\ res' = res
  BY <1>1, <1>2 DEF Woken, Return, LastSent
<1>4. state[t] = "completed" => AllMoved(c, 0, sent[c])
  <2> SUFFICES ASSUME state[t] = "completed", NEW k \in 0..(sent[c] - 1) PROVE <<c, k>> \in moved
    BY DEF AllMoved
  <2>1. /\ t[1] = c /\ t[2] + num[t] = sent[c] /\ t[2] \in Nat /\ num[t] \in Nat
        /\ AllMoved(c, 0, t[2]) /\ AllMoved(c, t[2], t[2] + num[t])
    BY <1>2, TransferIs DEF LastSent, EndsLast, ProgressInv, DoneInv, TypeInv, Values
  <2>2. k \in 0..(t[2] - 1) \/ k \in t[2]..(t[2] + num[t] - 1)
    BY <2>1
  <2> QED BY <2>1, <2>2 DEF AllMoved
<1>5. RunInv' /\ DoneInv'
  BY <1>1 DEF ProgressInv, RunInv, Runs, DoneInv, Listed, AllMoved, engine
<1>6. ASSUME NEW d \in Client PROVE WaitFor(d)'
  <2>1. WaitFor(d)
    BY DEF ProgressInv
  <2> QED BY <1>1, <1>3, <1>4, <2>1 DEF WaitFor, LastSent, EndsLast, AllMoved, TypeInv, Values
<1>7. ModeInv' /\ WbInv' /\ EventInv'
  BY <1>1, ModeFrame, WbFrame, EventFrame DEF ModeInv, engine
<1>8. CauseInv'
  <2>1. t[1] = c
    BY <1>2 DEF LastSent
  <2>2. ~scen.timed /\ state[t] = "failed" => Blamed(c)
    BY <2>1 DEF CauseInv
  <2> QED BY <1>1, <1>3, <2>2 DEF CauseInv, Blamed, TypeInv, Values, engine
<1> QED BY <1>5, <1>6, <1>7, <1>8 DEF ProgressInv

LEMMA TimeOutTruth ==
  ASSUME Known, NEW c \in Client, TimeOut(c)
  PROVE  TruthInv'
<1> USE DEF Known, TruthInv
<1>1. /\ pc[c] = "wait" /\ scen.timed /\ state[Awaited(c)] = "submitted"
      /\ state' = [state EXCEPT ![Awaited(c)] = "aborted"] /\ running' = FALSE
      /\ pc' = [pc EXCEPT ![c] = "done"] /\ res' = [res EXCEPT ![c] = "aborted"]
      /\ UNCHANGED <<scen, sent, num, slot, svc, wb, poll, irq, moved, bad>>
  BY DEF TimeOut, Return
<1>2. PICK t \in Transfers : t = Awaited(c)
  BY <1>1, AwaitedIs DEF ProgressInv
<1>3. RunInv'
  BY <1>1 DEF RunInv, Runs
<1>4. DoneInv'
  BY <1>1, <1>2 DEF ProgressInv, DoneInv, Listed, AllMoved, TypeInv, Values
<1>5. ASSUME NEW d \in Client PROVE WaitFor(d)'
  <2>1. WaitFor(d)
    BY DEF ProgressInv
  <2>2. pc'[d] # "wait"
    BY <1>1, OthersRest DEF TypeInv, Values
  <2> QED BY <1>1, <2>1, <2>2 DEF WaitFor, AllMoved, TypeInv, Values
<1>6. ModeInv'
  BY <1>1, ModeFrame DEF TimeOut, ReadStatus
<1>7. ~Polling /\ ~Polling'
  BY <1>1 DEF PolledPatient, SyncInv, Types, Polling
<1>8. WbInv' /\ EventInv' /\ CauseInv'
  BY <1>1, <1>7 DEF WbInv, EventInv, CauseInv
<1> QED BY <1>3, <1>4, <1>5, <1>6, <1>8 DEF ProgressInv

\* The engine starts on a transfer that was built.
LEMMA QueueTruth ==
  ASSUME Known, NEW c \in Client, Queue(c)
  PROVE  TruthInv'
<1> USE DEF Known, TruthInv
<1>1. /\ pc[c] = "queue" /\ svc = Nil /\ transfer_list = <<>> /\ ~running /\ scen.sync
      /\ UNCHANGED <<scen, num, slot, svc, wb, poll, irq, moved, bad>>
  BY NothingQueued DEF Queue, SyncInv, Types, SyncOnly, IInv, EngineInv, BusyIsKnown
<1>2. CASE shutdown
  <2>1. /\ pc' = [pc EXCEPT ![c] = "done"] /\ res' = [res EXCEPT ![c] = "busy"]
        /\ UNCHANGED <<sent, state, engine, hw>>
    BY <1>2 DEF Queue, Return
  <2>2. RunInv' /\ DoneInv'
    BY <1>1, <2>1 DEF ProgressInv, RunInv, Runs, DoneInv, Listed, AllMoved, engine
  <2>3. ASSUME NEW d \in Client PROVE WaitFor(d)'
    <3>1. WaitFor(d)
      BY DEF ProgressInv
    <3> QED BY <1>1, <2>1, <3>1 DEF WaitFor, LastSent, EndsLast, AllMoved, TypeInv, Values
  <2>4. ModeInv' /\ WbInv' /\ EventInv'
    BY <1>1, <2>1, ModeFrame, WbFrame, EventFrame DEF ModeInv, engine
  <2>5. CauseInv'
    BY <1>1, <2>1 DEF CauseInv, Blamed, TypeInv, Values, engine
  <2> QED BY <2>2, <2>3, <2>4, <2>5 DEF ProgressInv
<1>3. CASE ~shutdown
  <2>1. /\ sent[c] < scen.n[c] /\ sent[c] \in Nat
        /\ num[Front(c)] > 0
    BY <1>1 DEF SyncInv, SentInv, Types
  <2>2. PICK t \in Transfers : t = Front(c) /\ t[1] = c /\ t[2] = sent[c]
    BY <2>1, FrontIs DEF SyncInv
  <2>3. num[t] \in Nat /\ num[t] > 0 /\ slot[t] \in Nat
    BY <2>1, <2>2 DEF SyncInv, Types
  <2>4. /\ transfer_list' = <<t>>
        /\ state' = [state EXCEPT ![t] = "submitted"]
        /\ sent' = [sent EXCEPT ![c] = @ + num[t]]
        /\ pc' = [pc EXCEPT ![c] = "wait"]
        /\ res' = res /\ running' = TRUE /\ desc_dequeued' = 0
        /\ hw' = Started(hw, t) /\ status' = [busy |-> TRUE, err |-> hw.err]
    <3>1. Append(transfer_list, t) = <<t>> /\ Head(<<t>>) = t
      BY <1>1
    <3> QED BY <1>1, <1>3, <2>2, <3>1 DEF Queue, Start, Front
  <2>5. /\ hw'.next = slot[t] /\ hw'.left = num[t] /\ hw'.count = 0 /\ hw'.busy
        /\ hw'.event = hw.event /\ hw'.err = hw.err
    BY <2>4 DEF Started, IInv, EngineInv, Shape
  <2>6. sent'[c] = sent[c] + num[t]
    BY <2>4 DEF SyncInv, Types
  <2>7. \A u \in Transfers : transfer_list' = <<u>> => u = t
    BY <2>4
  <2>8. RunInv'
    BY <1>1, <2>3, <2>4, <2>5, <2>7, TransferIs DEF RunInv, Runs, AllMoved
  <2>9. DoneInv'
    <3>1. ASSUME NEW u \in Transfers, Listed(u) PROVE Listed(u)'
      BY <1>1, <2>3, <2>4, <3>1, TransferIs DEF Listed, TypeInv, Values
    <3>2. Listed(t)'
      BY <1>1, <2>2, <2>3, <2>1, <2>6 DEF Listed
    <3>3. ASSUME NEW u \in Transfers, u # t PROVE state'[u] = state[u]
      BY <2>4, <3>3 DEF TypeInv, Values
    <3>4. state'[t] = "submitted"
      BY <2>4 DEF TypeInv, Values
    <3> QED BY <1>1, <3>1, <3>2, <3>3, <3>4 DEF ProgressInv, DoneInv, AllMoved
  <2>10. ASSUME NEW d \in Client PROVE WaitFor(d)'
    <3>1. WaitFor(d) /\ WaitFor(c)
      BY DEF ProgressInv
    <3>2. CASE d # c
      <4>1. pc'[d] = pc[d] /\ sent'[d] = sent[d] /\ pc[d] # "wait"
        BY <1>1, <2>4, <3>2, OthersRest DEF TypeInv, Values
      <4> QED BY <1>1, <2>4, <3>1, <4>1 DEF WaitFor, AllMoved
    <3>3. CASE d = c
      <4>1. EndsLast(t)'
        BY <1>1, <2>2, <2>3, <2>6 DEF EndsLast
      <4>2. LastSent(c, t)'
        BY <1>1, <2>2, <2>4, <3>1, <4>1 DEF WaitFor, LastSent, AllMoved, TypeInv, Values
      <4> QED BY <1>1, <2>4, <3>1, <3>3, <4>2 DEF WaitFor, AllMoved, TypeInv, Values
    <3> QED BY <3>2, <3>3
  <2>11. ModeInv'
    BY <1>1, <2>4, ModeFrame
  <2>12. WbInv'
    BY <1>1, <2>4, <2>5 DEF WbInv, StoppedAt, Polling
  <2>13. EventInv'
    BY <1>1, <2>4, <2>5 DEF EventInv, Polling
  <2>14. CauseInv'
    <3>1. ASSUME NEW u \in Transfers, state'[u] = "failed" PROVE state[u] = "failed"
      BY <2>4, <3>1 DEF TypeInv, Values
    <3> QED BY <1>1, <2>4, <2>5, <3>1 DEF CauseInv, Blamed, EventInv
  <2> QED BY <2>8, <2>9, <2>10, <2>11, <2>12, <2>13, <2>14 DEF ProgressInv
<1> QED BY <1>2, <1>3

-----------------------------------------------------------------------------
(* The engine                                                              *)

LEMMA HwTruth ==
  ASSUME Known, HwStep
  PROVE  TruthInv'
<1> USE DEF Known, TruthInv
<1>1. /\ hw.busy /\ moved' = moved \cup {ring[hw.next]}
      /\ UNCHANGED <<scen, client, xfer, engine, svc, bad, irq, poll>>
  BY DEF HwStep
<1>2. /\ hw'.next = hw.next + 1 /\ hw'.left = hw.left - 1 /\ hw'.count = hw.count + 1
      /\ hw'.busy => hw.left # 1
      /\ ~hw'.busy => hw.left = 1
      /\ hw'.event => hw.event \/ hw.left = 1
      /\ hw.event \/ hw.left = 1 => hw'.event
      /\ hw'.err = hw.err
  BY DEF HwStep, IInv, EngineInv, Shape
<1>3. running /\ transfer_list # <<>>
  BY <1>1 DEF IInv, EngineInv, BusyIsKnown
<1>4. PICK t \in Transfers : Queued(t)
  BY <1>3, TheHead
<1>5. /\ transfer_list = <<t>> /\ InRing(t)
      /\ \A u \in Transfers : transfer_list = <<u>> => u = t
  BY <1>4 DEF Queued
<1>6. /\ desc_dequeued = 0 /\ hw.next = slot[t] + hw.count /\ hw.count + hw.left = num[t]
      /\ AllMoved(t[1], t[2], t[2] + hw.count)
      /\ hw.count \in Nat /\ hw.left \in Nat /\ hw.left >= 1 /\ num[t] \in Nat /\ slot[t] \in Nat
      /\ t[1] \in Client /\ t[2] \in Nat
  BY <1>1, <1>3, <1>5, TransferIs DEF ProgressInv, RunInv, Runs, TypeInv, HwInv, Values
<1>7. moved' = moved \cup {<<t[1], t[2] + hw.count>>}
  <2>1. hw.count \in 0..(num[t] - 1)
    BY <1>6
  <2> QED BY <1>1, <1>5, <1>6, <2>1 DEF InRing
<1>8. RunInv'
  <2>1. ASSUME NEW k \in t[2]..(t[2] + hw.count) PROVE <<t[1], k>> \in moved'
    <3>1. k \in t[2]..(t[2] + hw.count - 1) \/ k = t[2] + hw.count
      BY <1>6
    <3> QED BY <1>6, <1>7, <3>1 DEF AllMoved
  <2>2. \A u \in Transfers : transfer_list' = <<u>> => u = t
    BY <1>1, <1>5 DEF engine
  <2>3. desc_dequeued' = 0 /\ hw'.next = slot'[t] + hw'.count /\ hw'.count + hw'.left = num'[t]
    BY <1>1, <1>2, <1>6 DEF engine, xfer
  <2>4. \A k \in t[2]..((t[2] + hw'.count) - 1) : <<t[1], k>> \in moved'
    BY <1>2, <1>6, <2>1
  <2>5. AllMoved(t[1], t[2], t[2] + hw.count)'
    BY <2>4 DEF AllMoved
  <2>6. ASSUME NEW u \in Transfers, transfer_list' = <<u>> PROVE u = t
    BY <2>2, <2>6
  <2> QED BY <2>3, <2>5, <2>6 DEF RunInv, Runs
<1>9. DoneInv'
  BY <1>1, <1>7 DEF ProgressInv, DoneInv, Listed, AllMoved, client, xfer
<1>10. ASSUME NEW c \in Client PROVE WaitFor(c)'
  <2>1. WaitFor(c)
    BY DEF ProgressInv
  <2> QED BY <1>1, <1>7, <2>1 DEF WaitFor, LastSent, EndsLast, AllMoved, client, xfer
<1>11. ModeInv'
  BY <1>1, ModeFrame DEF ModeInv, engine
<1>12. WbInv'
  <2> SUFFICES ASSUME Polling PROVE WbInv'
    BY <1>1 DEF WbInv, Polling
  <2>1. wb = NoWb /\ poll.at \notin {"clear", "serve"} /\ svc = Nil /\ ~hw.err
    BY <1>1 DEF WbInv, StoppedAt, PolledPatient, SyncInv, Types, Polling, EventInv
  <2>2. poll.at # "served"
    BY <2>1 DEF IInv, PollInv
  <2>3. wb' = NoWb \/ (wb' = [n |-> hw.count + 1, err |-> FALSE] /\ hw.left = 1)
    BY <2>1 DEF HwStep
  <2>4. StoppedAt(wb)' /\ (wb' # NoWb => (wb'.err <=> hw'.err))
    BY <1>1, <1>2, <1>3, <2>1, <2>3 DEF StoppedAt, NoWb, engine
  <2> QED BY <1>1, <2>1, <2>2, <2>4 DEF WbInv, StoppedAt
<1>13. EventInv'
  BY <1>1, <1>2, <1>3 DEF EventInv, Polling, engine
<1>14. CauseInv'
  BY <1>1, <1>2, <1>6 DEF CauseInv, Blamed, engine, client, xfer
<1> QED BY <1>8, <1>9, <1>10, <1>11, <1>12, <1>13, <1>14 DEF ProgressInv

LEMMA HwErrorTruth ==
  ASSUME Known, HwError
  PROVE  TruthInv'
<1> USE DEF Known, TruthInv
<1>1. /\ hw.busy /\ bad = {} /\ bad' = {ring[hw.next]}
      /\ UNCHANGED <<scen, client, xfer, engine, svc, moved, irq, poll>>
      /\ hw'.next = hw.next /\ hw'.left = hw.left /\ hw'.count = hw.count
      /\ ~hw'.busy /\ hw'.event /\ hw'.err
  BY DEF HwError, IInv, EngineInv, Shape
<1>2. running /\ transfer_list # <<>>
  BY <1>1 DEF IInv, EngineInv, BusyIsKnown
<1>3. PICK t \in Transfers : Queued(t)
  BY <1>2, TheHead
<1>4. /\ transfer_list = <<t>> /\ InRing(t)
      /\ \A u \in Transfers : transfer_list = <<u>> => u = t
  BY <1>3 DEF Queued
<1>5. ring[hw.next] = <<t[1], t[2] + hw.count>>
  <2>1. /\ hw.next = slot[t] + hw.count /\ hw.count + hw.left = num[t]
        /\ hw.count \in Nat /\ hw.left \in Nat /\ hw.left >= 1 /\ num[t] \in Nat
    BY <1>1, <1>2, <1>4 DEF ProgressInv, RunInv, Runs, TypeInv, HwInv, Values
  <2>2. hw.count \in 0..(num[t] - 1)
    BY <2>1
  <2> QED BY <1>4, <2>1, <2>2 DEF InRing
<1>6. Blamed(t[1])'
  BY <1>1, <1>5 DEF Blamed
<1>7. ProgressInv' /\ ModeInv'
  BY <1>1, ProgressFrame, ModeFrame DEF client, xfer, engine, ModeInv
<1>8. WbInv'
  <2> SUFFICES ASSUME Polling PROVE WbInv'
    BY <1>1 DEF WbInv, Polling
  <2>1. wb = NoWb /\ poll.at \notin {"clear", "serve"} /\ svc = Nil
    BY <1>1 DEF WbInv, StoppedAt
  <2>2. poll.at # "served"
    BY <2>1 DEF IInv, PollInv
  <2>3. wb' = [n |-> hw.count, err |-> TRUE]
    BY DEF HwError
  <2> QED BY <1>1, <1>2, <2>1, <2>2, <2>3 DEF WbInv, StoppedAt, engine
<1>9. EventInv'
  BY <1>1, <1>2 DEF EventInv, Polling, engine
<1>10. CauseInv'
  <2>1. \A c : ~Blamed(c)
    BY <1>1 DEF Blamed
  <2> QED BY <1>1, <1>4, <1>6, <2>1 DEF CauseInv, engine, client, xfer
<1> QED BY <1>7, <1>8, <1>9, <1>10

LEMMA InterruptTruth ==
  ASSUME Known, Interrupt
  PROVE  TruthInv'
<1> USE DEF Known, TruthInv
<1>1. /\ irq.on /\ hw.event /\ irq' = [irq EXCEPT !.mask = FALSE, !.work = TRUE]
      /\ UNCHANGED <<scen, client, xfer, engine, svc, hw, moved, bad, wb, poll>>
  BY DEF Interrupt
<1>2. ~Polling /\ irq' = [on |-> TRUE, mask |-> FALSE, work |-> TRUE]
  BY <1>1 DEF ModeInv
<1>3. ProgressInv' /\ WbInv' /\ CauseInv'
  BY <1>1, ProgressFrame, WbFrame, CauseFrame DEF client, xfer, engine
<1>4. ModeInv'
  BY <1>1, <1>2 DEF ModeInv, Polling, engine
<1>5. EventInv'
  BY <1>1, <1>2 DEF EventInv, Polling, engine
<1> QED BY <1>3, <1>4, <1>5

-----------------------------------------------------------------------------
(* engine_service                                                          *)

\* Its first step, with what the work item or the polling thread has read.
LEMMA ServeFacts ==
  ASSUME EngineInv, ModeInv, NEW count, Serve(count)
  PROVE  /\ svc = Nil /\ svc' \in {Nil, count} /\ (svc' # Nil => running)
         /\ running => svc' = count
         /\ hw'.busy = hw.busy /\ hw'.next = hw.next /\ hw'.left = hw.left /\ hw'.count = hw.count
         /\ \/ /\ status' = [busy |-> hw.busy, err |-> hw.err] /\ ~hw'.event /\ ~hw'.err
            \/ /\ running /\ count.n # 0 /\ ~count.err
               /\ status' = status /\ hw' = hw
<1>1. \/ hw' = hw
      \/ hw' = [hw EXCEPT !.event = FALSE, !.err = FALSE]
  BY DEF Serve, ClearStatus
<1>2. hw'.busy = hw.busy /\ hw'.next = hw.next /\ hw'.left = hw.left /\ hw'.count = hw.count
  BY <1>1 DEF EngineInv, Shape
<1>3. ASSUME ClearStatus PROVE ~hw'.event /\ ~hw'.err
  BY <1>3 DEF ClearStatus, EngineInv, Shape
<1> QED BY <1>2, <1>3 DEF Serve, ReadStatus

LEMMA WorkTruth ==
  ASSUME Known, Work
  PROVE  TruthInv'
<1> USE DEF Known, TruthInv
<1>1. /\ irq.work /\ Serve(NoWb) /\ irq' = [irq EXCEPT !.work = FALSE, !.mask = ~running]
      /\ UNCHANGED <<scen, client, xfer, transfer_list, running, desc_dequeued, moved, bad, wb, poll>>
  BY DEF Work
<1>2. /\ svc = Nil /\ svc' \in {Nil, NoWb} /\ (svc' # Nil => running)
      /\ running => svc' = NoWb
      /\ hw'.busy = hw.busy /\ hw'.next = hw.next /\ hw'.left = hw.left /\ hw'.count = hw.count
      /\ status' = [busy |-> hw.busy, err |-> hw.err] /\ ~hw'.event /\ ~hw'.err
  BY <1>1, ServeFacts DEF IInv, NoWb
<1>3. ~Polling /\ irq'.on = irq.on /\ ~irq'.work
      /\ irq' = [on |-> irq'.on, mask |-> irq'.mask, work |-> irq'.work]
  BY <1>1 DEF ModeInv
<1>4. ProgressInv'
  BY <1>1, <1>2, ProgressFrame DEF client, xfer
<1>5. NoWb # Nil /\ NoWb \in [n : Nat, err : BOOLEAN]
  <2>1. NoWb \in [n : Nat, err : BOOLEAN]
    BY DEF NoWb
  <2> QED BY <2>1, NilAssumption
<1>6. ModeInv'
  <2>1. status' = [busy |-> status'.busy, err |-> status'.err]
    BY <1>2
  <2> QED BY <1>1, <1>2, <1>3, <1>5, <2>1 DEF ModeInv, Polling
<1>7. WbInv'
  BY <1>1, <1>3 DEF WbInv, Polling
<1>8. EventInv'
  <2> SUFFICES ASSUME ~scen.timed PROVE EventInv'
    BY <1>1 DEF EventInv
  <2>1. ~hw.busy /\ ~status'.busy
    BY <1>1, <1>2, <1>3 DEF EventInv
  <2>2. running /\ svc' = Nil => FALSE
    BY <1>2, <1>5
  <2> QED BY <1>1, <1>2, <1>3, <2>1, <2>2 DEF EventInv, Polling
<1>9. CauseInv'
  BY <1>1, <1>2 DEF CauseInv, Blamed, client, xfer
<1> QED BY <1>4, <1>6, <1>7, <1>8, <1>9

LEMMA PollServeTruth ==
  ASSUME Known, PollServe
  PROVE  TruthInv'
<1> USE DEF Known, TruthInv
<1>1. /\ poll.at = "serve" /\ Serve(poll.val) /\ Polling /\ ~scen.timed
      /\ poll' = [poll EXCEPT !.at = IF running THEN "served" ELSE "idle"]
      /\ UNCHANGED <<scen, client, xfer, transfer_list, running, desc_dequeued, moved, bad, irq, wb>>
  BY DEF PollServe, IInv, PollInv, PolledPatient, SyncInv, Types, Polling
<1> DEFINE w == poll.val
<1>2. /\ w # NoWb /\ w \in [n : Nat, err : BOOLEAN] /\ w # Nil /\ wb = NoWb
      /\ transfer_list # <<>> /\ ~hw.busy /\ w.n = hw.count /\ (w.err <=> hw.err)
  BY <1>1, NilAssumption DEF WbInv, StoppedAt, IInv, PollInv
<1> HIDE DEF w
<1>3. /\ svc = Nil /\ svc' \in {Nil, w} /\ (svc' # Nil => running)
      /\ running => svc' = w
      /\ hw'.busy = hw.busy /\ hw'.next = hw.next /\ hw'.left = hw.left /\ hw'.count = hw.count
      /\ \/ /\ status' = [busy |-> hw.busy, err |-> hw.err] /\ ~hw'.event /\ ~hw'.err
         \/ /\ running /\ w.n # 0 /\ ~w.err /\ status' = status /\ hw' = hw
  BY <1>1, ServeFacts DEF IInv, w
<1>4. poll'.at = (IF running THEN "served" ELSE "idle") /\ ~Polling' = FALSE
  BY <1>1 DEF IInv, PollInv, Polling
<1>5. ProgressInv'
  BY <1>1, <1>3, ProgressFrame DEF client, xfer
<1>6. ModeInv'
  <2>1. status' = [busy |-> status'.busy, err |-> status'.err]
    BY <1>3 DEF ModeInv
  <2> QED BY <1>1, <1>2, <1>3, <1>4, <2>1 DEF ModeInv, Polling
<1>7. WbInv'
  BY <1>1, <1>2, <1>3, <1>4 DEF WbInv, StoppedAt
<1>8. EventInv'
  <2>1. /\ hw'.busy => ~hw'.err
        /\ transfer_list' # <<>> /\ Polling'
    BY <1>1, <1>2, <1>3, <1>4
  <2>2. svc' # Nil => ~hw'.busy /\ ~hw'.err /\ (~status'.busy \/ svc'.n # 0)
    BY <1>2, <1>3
  <2>3. ~(running' /\ svc' = Nil)
    BY <1>1, <1>2, <1>3
  <2> QED BY <2>1, <2>2, <2>3 DEF EventInv
<1>9. CauseInv'
  <2>1. running => ~status.err
    BY <1>1, <1>3 DEF EventInv
  <2>2. ASSUME NEW t \in Transfers, transfer_list' = <<t>>
        PROVE  /\ running' /\ ~hw'.busy /\ hw'.left > 0 => Blamed(t[1])'
               /\ hw'.err \/ (svc' # Nil /\ status'.err) => Blamed(t[1])'
    BY <1>1, <1>2, <1>3, <2>1, <2>2 DEF CauseInv, Blamed
  <2> QED BY <1>1, <2>2 DEF CauseInv, Blamed, client, xfer
<1> QED BY <1>5, <1>6, <1>7, <1>8, <1>9

\* Of the list <<t>>, what engine_service_transfer_list sums up.
LEMMA Totals ==
  ASSUME NEW t \in Transfers, transfer_list = <<t>>, num[t] \in Nat
  PROVE  Total(0) = 0 /\ Total(1) = num[t]
<1> DEFINE Sums(k, s) == s = [i \in 0..k |-> IF i = 0 THEN 0 ELSE s[i - 1] + num[transfer_list[i]]]
<1>1. Total(0) = (CHOOSE s : Sums(0, s))[0] /\ Total(1) = (CHOOSE s : Sums(1, s))[1]
  BY DEF Total
<1>2. \E s : Sums(0, s)
  <2>1. Sums(0, [i \in 0..0 |-> 0])
    OBVIOUS
  <2> QED BY <2>1
<1>3. \E s : Sums(1, s)
  <2> DEFINE f == [i \in 0..1 |-> IF i = 0 THEN 0 ELSE num[t]]
  <2>1. Sums(1, f)
    <3>1. ASSUME NEW i \in 0..1
          PROVE  f[i] = IF i = 0 THEN 0 ELSE f[i - 1] + num[transfer_list[i]]
      <4>1. CASE i = 0
        BY <4>1
      <4>2. CASE i = 1
        BY <4>2
      <4> QED BY <4>1, <4>2
    <3> QED BY <3>1
  <2> QED BY <2>1
<1>4. ASSUME NEW s, Sums(0, s) PROVE s[0] = 0
  BY <1>4
<1>5. ASSUME NEW s, Sums(1, s) PROVE s[1] = num[t]
  <2>1. s[0] = 0
    BY <1>5
  <2>2. s[1] = s[0] + num[t]
    BY <1>5
  <2> QED BY <2>1, <2>2
<1> HIDE DEF Sums
<1> QED BY <1>1, <1>2, <1>3, <1>4, <1>5

\* The rest of engine_service, of the one transfer it was called for: nothing
\* counted, or the transfer ends as the count says.
Nothing ==
  /\ UNCHANGED <<client, state, transfer_list, desc_dequeued, status>>
  /\ running' = ~(~status.busy \/ svc.n # 0)
Ends(t, count) ==
  /\ transfer_list' = <<>> /\ running' = FALSE
  /\ UNCHANGED <<pc, sent, res, desc_lock, status>>
  /\ state' = [state EXCEPT ![t] = IF status.err \/ count < num[t] THEN "failed" ELSE "completed"]

LEMMA ServeRestFacts ==
  ASSUME SyncOnly, SyncInv, TypeInv, EngineInv, ServeRest, NEW t \in Transfers, Queued(t),
         desc_dequeued = 0, NEW n, n = IF svc.n # 0 THEN svc.n ELSE hw.count, n \in 0..num[t]
  PROVE  /\ svc' = Nil /\ UNCHANGED <<scen, num, slot, moved, bad, wb>>
         /\ hw'.next = hw.next /\ hw'.left = hw.left /\ hw'.count = hw.count
         /\ hw'.event = hw.event /\ hw'.err = hw.err /\ hw'.busy \in {FALSE, hw.busy}
         /\ (n = 0 /\ Nothing) \/ (n # 0 /\ Ends(t, n))
<1> DEFINE stopped == ~status.busy \/ svc.n # 0
           h == IF stopped THEN Halted(hw) ELSE hw
           count == IF svc.n # 0 THEN svc.n ELSE hw.count
           d == Minus(count, desc_dequeued)
           Fits(j) == /\ \A i \in 1..j : d > Total(i)
                      /\ j = Len(transfer_list) \/ ~(d > Total(j + 1))
           k == CHOOSE j \in 0..Len(transfer_list) : Fits(j)
           over == {transfer_list[i] : i \in 1..k}
           last == transfer_list[k + 1]
           fails == status.err \/ d - Total(k) < num[last]
           rest == SubSeq(transfer_list, k + 2, Len(transfer_list))
           halt == stopped \/ status.err
           regs == IF status.err THEN Halted(h) ELSE h
           deq == desc_dequeued + Total(k) + IF status.err THEN 0 ELSE num[last]
<1>1. svc' = Nil /\ UNCHANGED <<scen, num, slot, moved, bad, wb>>
  BY DEF ServeRest
<1>2. transfer_list = <<t>> /\ Len(transfer_list) = 1 /\ num[t] \in Nat /\ n \in Nat /\ count = n
  BY DEF Queued, SyncInv, Types
<1>3. CASE count = 0
  <2>1. Nothing /\ hw' = h
    BY <1>3 DEF ServeRest, Nothing
  <2>2. h \in {hw, Halted(hw)}
    OBVIOUS
  <2> HIDE DEF h, count
  <2> QED BY <1>1, <1>2, <1>3, <2>1, <2>2 DEF EngineInv, Shape, Halted
<1>4. ASSUME count # 0, k # Len(transfer_list)
      PROVE  /\ state' = [u \in Transfers |->
                            IF u \in over THEN "completed"
                            ELSE IF u = last THEN IF fails THEN "failed" ELSE "completed"
                            ELSE state[u]]
             /\ transfer_list' = rest
             /\ CallBack(over \cup {last}, state')
             /\ Resume(halt, regs, rest, deq)
  BY <1>4 DEF ServeRest
<1>5. h \in {hw, Halted(hw)} /\ regs \in {h, Halted(h)}
  OBVIOUS
<1> HIDE DEF h, regs, count, halt, deq
<1>6. d = n /\ Total(0) = 0 /\ Total(1) = num[t]
  <2>1. num[t] <= DescMax
    BY DescMaxAssumption DEF Queued, InRing, SyncInv, Types
  <2>2. n % U32 = n
    BY <1>2, <2>1, WidthAssumption, DescMaxAssumption
  <2> QED BY <1>2, <2>2, Totals DEF Minus
<1> HIDE DEF d
<1>7. k = 0
  <2>1. Fits(0) /\ ~Fits(1)
    BY <1>2, <1>6
  <2> HIDE DEF Fits
  <2>2. \A j \in 0..Len(transfer_list) : j = 0 \/ j = 1
    BY <1>2
  <2> QED BY <1>2, <2>1, <2>2
<1> HIDE DEF k
<1>8. over = {} /\ last = t /\ rest = <<>> /\ (fails <=> status.err \/ n < num[t])
  BY <1>2, <1>6, <1>7
<1>9. CASE count # 0
  <2> HIDE DEF over, last, fails, rest
  <2>1. k # Len(transfer_list)
    BY <1>2, <1>7
  <2>2. UNCHANGED <<pc, sent, res, desc_lock>>
    <3>1. scen.sync
      BY DEF SyncInv, Types, SyncOnly
    <3>2. pc' = [c \in Client |-> pc[c]] /\ res' = [c \in Client |-> res[c]]
          /\ UNCHANGED <<sent, desc_lock>>
      BY <1>4, <1>9, <2>1, <3>1 DEF CallBack, LastOf
    <3>3. pc' = pc /\ res' = res
      BY <3>2 DEF TypeInv, Values
    <3> QED BY <3>2, <3>3
  <2>3. running' = FALSE /\ hw' = Halted(regs) /\ status' = status
    BY <1>4, <1>8, <1>9, <2>1 DEF Resume
  <2>4. state' = [state EXCEPT ![t] = IF status.err \/ n < num[t] THEN "failed" ELSE "completed"]
    BY <1>4, <1>8, <1>9, <2>1 DEF SyncInv, Types
  <2>5. PICK b : h = [busy |-> b, next |-> hw.next, left |-> hw.left, count |-> hw.count,
                      event |-> hw.event, err |-> hw.err]
    BY <1>5 DEF EngineInv, Shape, Halted
  <2>6. PICK b2 : regs = [busy |-> b2, next |-> hw.next, left |-> hw.left, count |-> hw.count,
                          event |-> hw.event, err |-> hw.err]
    BY <1>5, <2>5 DEF Halted
  <2>7. hw' = [busy |-> FALSE, next |-> hw.next, left |-> hw.left, count |-> hw.count,
               event |-> hw.event, err |-> hw.err]
    BY <2>3, <2>6 DEF Halted
  <2>8. transfer_list' = <<>>
    BY <1>4, <1>8, <1>9, <2>1
  <2> QED BY <1>1, <1>2, <1>9, <2>2, <2>3, <2>4, <2>7, <2>8 DEF Ends
<1> QED BY <1>3, <1>9

LEMMA ServeRestTruth ==
  ASSUME Known, WorkRest \/ PollServed
  PROVE  TruthInv'
<1> USE DEF Known, TruthInv
<1>1. /\ ServeRest /\ svc # Nil
      /\ irq' = irq \/ irq' = [irq EXCEPT !.mask = TRUE]
      /\ Polling => poll' = [poll EXCEPT !.at = "idle"]
  BY DEF WorkRest, PollServed, IInv, PollInv
<1>2. running /\ transfer_list # <<>>
  BY <1>1 DEF IInv, EngineInv, BusyIsKnown
<1>3. PICK t \in Transfers : Queued(t)
  BY <1>2, TheHead
<1>4. /\ transfer_list = <<t>> /\ state[t] = "submitted" /\ Listed(t)
      /\ \A u \in Transfers : transfer_list = <<u>> => u = t
  BY <1>3 DEF Queued, ProgressInv, DoneInv
<1>5. /\ desc_dequeued = 0 /\ hw.count + hw.left = num[t]
      /\ AllMoved(t[1], t[2], t[2] + hw.count)
      /\ hw.count \in Nat /\ hw.left \in Nat /\ num[t] \in Nat
      /\ t[1] \in Client /\ t[2] \in Nat
  BY <1>2, <1>4, TransferIs DEF ProgressInv, RunInv, Runs, TypeInv, HwInv, Values
<1>6. hw.count = IF svc.n # 0 THEN svc.n ELSE hw.count
  BY <1>1 DEF WbInv, StoppedAt, ModeInv, NoWb
<1>7. hw.count \in 0..num[t]
  BY <1>5
<1>8. /\ svc' = Nil /\ UNCHANGED <<scen, num, slot, moved, bad, wb>>
      /\ hw'.next = hw.next /\ hw'.left = hw.left /\ hw'.count = hw.count
      /\ hw'.event = hw.event /\ hw'.err = hw.err /\ hw'.busy \in {FALSE, hw.busy}
      /\ (hw.count = 0 /\ Nothing) \/ (hw.count # 0 /\ Ends(t, hw.count))
  BY <1>1, <1>3, <1>5, <1>6, <1>7, ServeRestFacts DEF IInv
<1>9. UNCHANGED <<scen, pc, sent, res, num, slot, status>>
  BY <1>8 DEF Nothing, Ends, client
<1>10. ModeInv'
  BY <1>1, <1>8, <1>9 DEF ModeInv, Polling
<1>11. WbInv'
  <2> SUFFICES ASSUME Polling PROVE WbInv'
    BY <1>8 DEF WbInv, Polling
  <2>1. poll.at = "served" /\ poll'.at = "idle"
    BY <1>1 DEF ModeInv, IInv, PollInv
  <2> QED BY <1>8, <2>1 DEF WbInv, StoppedAt
<1>12. irq'.work = irq.work
  BY <1>1 DEF ModeInv
<1>13. CASE Nothing
  <2>1. ProgressInv'
    BY <1>2, <1>8, <1>13, ProgressFrame DEF Nothing, client
  <2>2. EventInv'
    BY <1>1, <1>2, <1>8, <1>12, <1>13 DEF EventInv, Nothing, Polling
  <2>3. CauseInv'
    <3>1. ~scen.timed => ~running'
      BY <1>1, <1>13 DEF EventInv, Nothing
    <3> QED BY <1>8, <1>9, <1>13, <3>1 DEF CauseInv, Blamed, Nothing
  <2> QED BY <1>10, <1>11, <2>1, <2>2, <2>3
<1>14. CASE Ends(t, hw.count)
  <2>1. /\ transfer_list' = <<>> /\ running' = FALSE /\ status' = status
        /\ state' = [state EXCEPT ![t] =
                       IF status.err \/ hw.count < num[t] THEN "failed" ELSE "completed"]
    BY <1>14 DEF Ends
  <2>2. /\ state'[t] \in {"failed", "completed"}
        /\ \A u \in Transfers : u # t => state'[u] = state[u]
        /\ state'[t] = "failed" => status.err \/ hw.count < num[t]
        /\ state'[t] = "completed" => ~(hw.count < num[t])
    BY <2>1 DEF TypeInv, Values
  <2>3. RunInv'
    BY <2>1 DEF RunInv, Runs
  <2>4. DoneInv'
    <3>1. state'[t] = "completed" => hw.count = num[t]
      BY <1>7, <1>5, <2>2
    <3>2. ASSUME NEW u \in Transfers
          PROVE  /\ state'[u] # "new" => Listed(u)
                 /\ state'[u] = "completed" => AllMoved(u[1], u[2], u[2] + num[u])
      BY <1>4, <1>5, <2>2, <3>1 DEF ProgressInv, DoneInv
    <3> QED BY <1>8, <1>9, <3>2 DEF DoneInv, Listed, AllMoved
  <2>5. ASSUME NEW c \in Client PROVE WaitFor(c)'
    <3>1. WaitFor(c)
      BY DEF ProgressInv
    <3>2. ASSUME NEW u \in Transfers, LastSent(c, u) PROVE LastSent(c, u)'
      BY <1>8, <1>9, <2>2, <3>2 DEF LastSent, EndsLast, AllMoved
    <3> QED BY <1>8, <1>9, <3>1, <3>2 DEF WaitFor, AllMoved
  <2>6. EventInv'
    BY <1>1, <1>8, <1>12, <2>1 DEF EventInv, Polling
  <2>7. CauseInv'
    <3> SUFFICES ASSUME ~scen.timed PROVE CauseInv'
      BY <1>8 DEF CauseInv
    <3>1. state'[t] = "failed" => Blamed(t[1])
      <4>1. CASE status.err
        BY <1>1, <1>4, <4>1 DEF CauseInv
      <4>2. CASE hw.count < num[t]
        <5>1. hw.left > 0
          BY <1>5, <4>2
        <5> QED BY <1>1, <1>2, <1>4, <5>1 DEF CauseInv, EventInv
      <4> QED BY <2>2, <4>1, <4>2
    <3>2. \A u \in Transfers : state'[u] = "failed" => Blamed(u[1])
      BY <2>2, <3>1 DEF CauseInv
    <3> QED BY <1>8, <1>9, <2>1, <3>2 DEF CauseInv, Blamed
  <2> QED BY <1>10, <1>11, <2>3, <2>4, <2>5, <2>6, <2>7 DEF ProgressInv
<1> QED BY <1>8, <1>13, <1>14

-----------------------------------------------------------------------------
(* The polling thread and the device                                       *)

LEMMA PollTruth ==
  ASSUME Known, PollGo \/ PollFetch \/ PollRead \/ PollClear
  PROVE  TruthInv'
<1> USE DEF Known, TruthInv
<1>1. /\ UNCHANGED <<scen, client, xfer, engine, svc, hw, moved, bad, irq>>
      /\ Polling /\ poll.at # "served"
  BY DEF PollGo, PollFetch, PollRead, PollClear, IInv, PollInv
<1>2. svc = Nil
  BY <1>1 DEF ModeInv
<1>3. ProgressInv' /\ EventInv' /\ CauseInv'
  BY <1>1, ProgressFrame, EventFrame, CauseFrame DEF client, xfer, engine
<1>4. ModeInv'
  BY <1>1, <1>2 DEF ModeInv, Polling, engine
<1>5. WbInv'
  <2>1. /\ wb' = wb \/ wb' = NoWb
        /\ poll'.at \in {"clear", "serve"} => wb' = wb \/ poll.at = "clear"
    BY DEF PollGo, PollFetch, PollRead, PollClear, IInv, PollInv
  <2>2. StoppedAt(wb)' /\ (wb' # NoWb => (wb'.err <=> hw'.err))
    BY <1>1, <2>1 DEF WbInv, StoppedAt, engine
  <2>3. CASE PollGo \/ PollFetch
    <3>1. poll'.at \in {"fetch", "idle", "read"}
      BY <2>3 DEF PollGo, PollFetch, IInv, PollInv
    <3> QED BY <1>1, <1>2, <2>2, <3>1 DEF WbInv, engine
  <2>4. CASE PollRead
    <3>1. \/ poll'.at = "idle"
          \/ poll'.at = "clear" /\ poll'.val = wb /\ wb # NoWb /\ wb' = wb
      BY <2>4 DEF PollRead, IInv, PollInv
    <3> QED BY <1>1, <1>2, <2>2, <3>1 DEF WbInv, StoppedAt, engine
  <2>5. CASE PollClear
    <3>1. poll.at = "clear" /\ poll'.at \in {"serve", "read"} /\ poll'.val = poll.val /\ wb' = NoWb
      BY <2>5 DEF PollClear, IInv, PollInv
    <3> QED BY <1>1, <1>2, <2>2, <3>1 DEF WbInv, StoppedAt, engine
  <2> QED BY <2>3, <2>4, <2>5
<1> QED BY <1>3, <1>4, <1>5

LEMMA DeviceTruth ==
  ASSUME Known,
         OfflineFlag \/ OfflineStop \/ OfflineIrq \/ OnlineEngine \/ OnlineIrq \/ OnlineFlag
  PROVE  TruthInv'
<1> USE DEF Known, TruthInv
<1>1. /\ UNCHANGED <<scen, client, xfer, transfer_list, desc_dequeued, status, svc, moved, bad, poll>>
      /\ (running' => running) /\ wb' \in {wb, NoWb}
      /\ hw' = hw \/ (hw' = Halted(hw) /\ running' = FALSE)
      /\ \/ irq' = irq
         \/ irq' = [irq EXCEPT !.on = FALSE]
         \/ irq' = [irq EXCEPT !.mask = TRUE]
         \/ irq' = [irq EXCEPT !.on = ~Polling]
  <2>1. CASE OfflineFlag \/ OnlineFlag
    BY <2>1 DEF OfflineFlag, OnlineFlag, engine
  <2>2. CASE OfflineStop
    BY <2>2 DEF OfflineStop
  <2>3. CASE OfflineIrq \/ OnlineIrq
    BY <2>3 DEF OfflineIrq, OnlineIrq, engine
  <2>4. CASE OnlineEngine
    BY <2>4 DEF OnlineEngine
  <2> QED BY <2>1, <2>2, <2>3, <2>4
<1>2. /\ hw'.next = hw.next /\ hw'.left = hw.left /\ hw'.count = hw.count
      /\ hw'.event = hw.event /\ hw'.err = hw.err /\ hw'.busy \in {FALSE, hw.busy}
  BY <1>1 DEF Halted, IInv, EngineInv, Shape
<1>3. irq'.work = irq.work /\ irq' = [on |-> irq'.on, mask |-> irq'.mask, work |-> irq'.work]
      /\ (Polling => ~irq'.on)
  BY <1>1 DEF ModeInv
<1>4. ProgressInv'
  BY <1>1, <1>2, ProgressFrame DEF client, xfer
<1>5. ModeInv'
  BY <1>1, <1>3 DEF ModeInv, Polling
<1>6. WbInv'
  BY <1>1, <1>2 DEF WbInv, StoppedAt, Polling
<1>7. EventInv'
  BY <1>1, <1>2, <1>3 DEF EventInv, Polling
<1>8. CauseInv'
  BY <1>1, <1>2 DEF CauseInv, Blamed, client, xfer
<1> QED BY <1>4, <1>5, <1>6, <1>7, <1>8

LEMMA NextTruth == Known /\ [Next]_vars => TruthInv'
<1> SUFFICES ASSUME Known, [Next]_vars PROVE TruthInv'
  OBVIOUS
<1>1. CASE HwStep \/ HwError \/ Interrupt
  BY <1>1, HwTruth, HwErrorTruth, InterruptTruth
<1>2. ASSUME NEW c \in Client,
             Begin(c) \/ MakeTransfer(c) \/ Queue(c) \/ Woken(c) \/ TimeOut(c)
      PROVE  TruthInv'
  BY <1>2, BeginTruth, BuildTruth, QueueTruth, WokenTruth, TimeOutTruth
<1>3. CASE Work \/ PollServe \/ WorkRest \/ PollServed
  BY <1>3, WorkTruth, PollServeTruth, ServeRestTruth
<1>4. CASE PollGo \/ PollFetch \/ PollRead \/ PollClear
  BY <1>4, PollTruth
<1>5. CASE OfflineFlag \/ OfflineStop \/ OfflineIrq \/ OnlineEngine \/ OnlineIrq \/ OnlineFlag
  BY <1>5, DeviceTruth
<1>6. CASE UNCHANGED vars
  <2>1. UNCHANGED <<scen, client, xfer, engine, svc, hw, moved, bad, irq, wb, poll>>
    BY <1>6 DEF vars
  <2> QED BY <2>1, ProgressFrame, ModeFrame, WbFrame, EventFrame, CauseFrame
          DEF Known, TruthInv, ModeInv, client, xfer, engine
<1> QED BY <1>1, <1>2, <1>3, <1>4, <1>5, <1>6 DEF Next

\* Where the callers wait for their transfers, and those of a polled engine
\* wait for as long as it takes, a caller is told that its request was done
\* only when the engine has executed all of it, and, where nobody is timed out,
\* that it failed only when the engine failed on one of its own descriptors
\* (engine_service_final_transfer, xdma_xfer_submit).  What a timeout leaves in
\* polled mode, a writeback nobody has read, is taken for that of the next
\* transfer: there the outcome is not always true.
THEOREM WaitingAreToldTheTruth ==
  ASSUME SyncOnly, PolledPatient
  PROVE  Spec => []OutcomeIsTrue
<1>1. Init => TypeInv /\ TruthInv
  BY InitTypes, InitTruth
<1>2. IInv /\ SyncInv /\ TypeInv /\ TruthInv /\ [Next]_vars => TypeInv' /\ TruthInv'
  BY NextTypes, NextTruth DEF Known
<1>3. TruthInv => OutcomeIsTrue
  <2> SUFFICES ASSUME TruthInv, NEW c \in Client
               PROVE  /\ res[c] = "ok" => \A k \in 0..(scen.n[c] - 1) : <<c, k>> \in moved
                      /\ ~scen.timed /\ res[c] = "failed" => \E d \in bad : d[1] = c
    BY DEF OutcomeIsTrue, ResultIsTrue, FailsForCause
  <2> QED BY DEF TruthInv, ProgressInv, WaitFor, AllMoved, CauseInv, Blamed
<1> QED BY <1>1, <1>2, <1>3, SyncInductive, PTL DEF Spec
=============================================================================
