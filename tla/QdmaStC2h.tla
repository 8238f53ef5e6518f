------------------------------ MODULE QdmaStC2h ------------------------------
(***************************************************************************)
(* A streaming card-to-host queue (qdma_st_c2h.c).  The card writes        *)
(* packets into the buffers of a free-list ring and says so in a           *)
(* completion ring; the driver walks the completions, copies the data to   *)
(* the requests that wait, in order, and gives the emptied buffers back.   *)
(* The card works at any time, also while the driver holds the queue's     *)
(* lock.  Data is counted in units: the n-th unit the card sends is n.     *)
(***************************************************************************)
EXTENDS Integers, Sequences, SequencesExt, FiniteSets, FiniteSetsExt

CONSTANTS Requests,    \* requests of callers, each submitted once
          Async,       \* those with a callback instead of a waiting caller
          Direct,      \* those of qdma_queue_packet_read, which never wait
          RingSize,    \* conf.rngsz, the descriptors of the free list
          CmptSize,    \* conf.rngsz_cmpt
          IntrSize,    \* entries of the interrupt aggregation ring
          C2hBufsz,    \* units a buffer takes from the card
          DescBufSize, \* the room of a buffer, the next power of two
          Lengths,     \* the packet lengths the card sends
          Asked,       \* the units each request asks for
          MaxPackets,  \* bound: packets the card sends
          MayFail      \* whether the card reports an error

ASSUME SizesAssumption ==
    /\ RingSize \in Nat \ {0, 1} /\ CmptSize \in Nat \ {0, 1} /\ IntrSize \in Nat \ {0}
    /\ C2hBufsz \in Nat \ {0} /\ DescBufSize \in Nat /\ DescBufSize >= C2hBufsz
    /\ Lengths \subseteq Nat /\ Asked \in [Requests -> Nat \ {0}] /\ MaxPackets \in Nat
    /\ Async \subseteq Requests /\ Direct \subseteq Requests \ Async /\ MayFail \in BOOLEAN

VARIABLES
    mode,       \* "poll", "direct" or "indirect" completion notices
    card,       \* the card: free list, completion ring and interrupt state
    mem,        \* what the card wrote into each buffer
    cmpt,       \* the completion ring in memory
    iring,      \* the interrupt aggregation ring and what is known of it
    sdesc,      \* length and offset of the unread part of each buffer
    valid,      \* the buffers marked as holding data
    q,          \* the other fields of the queue
    svc,        \* where the completion handler is; it holds the lock
    work,       \* intr_work is scheduled
    pend,       \* pend_list
    req,        \* the requests
    readOut     \* every unit copied to a request, in the order copied

vars == <<mode, card, mem, cmpt, iring, sdesc, valid, q, svc, work, pend, req, readOut>>

Bufs == 0 .. RingSize - 1

\* ring_idx_delta, ring_idx_incr and ring_idx_decr for a ring of n entries.
Delta(new, old, n) == IF new >= old THEN new - old ELSE new + (n - old)
Incr(i, k, n) == IF i + k >= n THEN i + k - n ELSE i + k
Decr(i, k, n) == IF i >= k THEN i - k ELSE n - (k - i)

\* The ring indices from a up to, not including, b.
Between(a, b) == {Incr(a, k, RingSize) : k \in 0 .. Delta(b, a, RingSize) - 1}

Least(a, b) == IF a < b THEN a ELSE b

Free == svc.at = "idle"

Init ==
    /\ mode \in {"poll", "direct", "indirect"}
    /\ card = [next |-> 0, posted |-> RingSize - 1, pidx |-> 0, cidx |-> 0, color |-> 1,
               armed |-> TRUE, sent |-> 0, packets |-> 0]
    /\ mem = [b \in Bufs |-> [k \in 1 .. DescBufSize |-> 0]]
    /\ cmpt = [i \in 0 .. CmptSize - 1 |-> [color |-> 0, kind |-> "none", len |-> 0]]
    /\ iring = [entry |-> [i \in 0 .. IntrSize - 1 |-> 0], hwPidx |-> 0, hwColor |-> 1,
                cidx |-> 0, color |-> 1]
    /\ sdesc = [b \in Bufs |-> [len |-> C2hBufsz, off |-> 0]]
    /\ valid = {}
    /\ q = [state |-> "online", stopWait |-> FALSE, listEmpty |-> TRUE, err |-> FALSE,
            avail |-> RingSize - 1, pidx |-> 0, pidxPend |-> 0, cidxCmpt |-> 0, color |-> 1,
            dlen |-> 0, skewed |-> FALSE]
    /\ svc = [at |-> "idle"]
    /\ work = FALSE
    /\ pend = <<>>
    /\ req = [r \in Requests |-> [st |-> "new", left |-> 0, ret |-> 0]]
    /\ readOut = <<>>

-----------------------------------------------------------------------------
(* The card. *)

\* Buffers the card fills with a packet of len units; an empty packet takes one.
CardUses(len) == IF len = 0 THEN 1 ELSE (len + C2hBufsz - 1) \div C2hBufsz

CmptRoom == Incr(card.pidx, 1, CmptSize) # card.cidx

\* The card adds a completion and the status with the new index.
Complete(kind, len, next, count) ==
    LET wraps == card.pidx = CmptSize - 1
    IN  /\ cmpt' = [cmpt EXCEPT ![card.pidx] = [color |-> card.color, kind |-> kind, len |-> len]]
        /\ card' = [card EXCEPT !.pidx = Incr(@, 1, CmptSize), !.next = next,
                                !.color = IF wraps THEN 1 - @ ELSE @,
                                !.sent = @ + len, !.packets = count]

\* A packet is written into the next posted buffers, then completed.
HwPacket(len) ==
    LET n == CardUses(len)
        At(b) == Delta(b, card.next, RingSize)
    IN  /\ q.state = "online" /\ card.packets < MaxPackets /\ CmptRoom
        /\ n <= Delta(card.posted, card.next, RingSize)
        /\ mem' = [b \in Bufs |-> [k \in 1 .. DescBufSize |->
                     IF At(b) < n /\ k <= C2hBufsz /\ At(b) * C2hBufsz + k <= len
                     THEN card.sent + At(b) * C2hBufsz + k ELSE mem[b][k]]]
        /\ Complete("data", len, Incr(card.next, n, RingSize), card.packets + 1)
        /\ UNCHANGED <<mode, iring, sdesc, valid, q, svc, work, pend, req, readOut>>

\* A completion the driver must refuse: an error, or one without a packet.
\* Nothing after it is ever taken, so it is the last the card sends here.
HwError ==
    /\ MayFail /\ q.state = "online" /\ card.packets < MaxPackets /\ CmptRoom
    /\ Complete("err", 0, card.next, MaxPackets)
    /\ UNCHANGED <<mode, mem, iring, sdesc, valid, q, svc, work, pend, req, readOut>>

Pending == card.armed /\ card.pidx # card.cidx /\ mode # "poll" /\ q.state = "online"

\* Direct interrupt: the vector's handler schedules the queue (data_intr_direct).
HwInterrupt ==
    /\ mode = "direct" /\ Pending
    /\ card' = [card EXCEPT !.armed = FALSE]
    /\ work' = TRUE
    /\ UNCHANGED <<mode, mem, cmpt, iring, sdesc, valid, q, svc, pend, req, readOut>>

\* It schedules every queue of the vector, so one may come for another queue.
OtherInterrupt ==
    /\ mode = "direct" /\ ~work /\ q.state = "online"
    /\ work' = TRUE
    /\ UNCHANGED <<mode, card, mem, cmpt, iring, sdesc, valid, q, svc, pend, req, readOut>>

\* Aggregated: the card adds an entry for the queue to the function's ring.
HwRingEntry ==
    /\ mode = "indirect" /\ Pending
    /\ card' = [card EXCEPT !.armed = FALSE]
    /\ iring' = [iring EXCEPT !.entry[iring.hwPidx] = iring.hwColor,
                              !.hwPidx = Incr(@, 1, IntrSize),
                              !.hwColor = IF iring.hwPidx = IntrSize - 1 THEN 1 - @ ELSE @]
    /\ UNCHANGED <<mode, mem, cmpt, sdesc, valid, q, svc, work, pend, req, readOut>>

\* data_intr_aggregate: every entry of the current color schedules its queue,
\* and the index is written back, which lets the vector fire again.
NewEntries == {n \in 1 .. IntrSize : \A k \in 0 .. n - 1 :
                 LET i == Incr(iring.cidx, k, IntrSize)
                     c == IF iring.cidx + k >= IntrSize THEN 1 - iring.color ELSE iring.color
                 IN  iring.entry[i] = c}

Isr ==
    /\ iring.hwPidx # iring.cidx
    /\ LET n == Cardinality(NewEntries)
           cidx == Incr(iring.cidx, n, IntrSize)
       IN  /\ iring' = [iring EXCEPT !.cidx = cidx,
                          !.color = IF iring.cidx + n >= IntrSize THEN 1 - @ ELSE @]
           /\ work' = (work \/ n > 0)
    /\ UNCHANGED <<mode, card, mem, cmpt, sdesc, valid, q, svc, pend, req, readOut>>

-----------------------------------------------------------------------------
(* Reading and giving back buffers. *)

\* The buffers that hold received data nobody read, oldest first.
Unread == [d \in 1 .. Delta(q.pidx, q.pidxPend, RingSize) |-> Incr(q.pidxPend, d - 1, RingSize)]

\* The units in the first n of them.
LenUpTo[n \in 0 .. Delta(q.pidx, q.pidxPend, RingSize)] ==
    IF n = 0 THEN 0 ELSE LenUpTo[n - 1] + sdesc[Unread[n]].len

\* The k-th unit still to be read, which lies in the buffer that reaches it.
UnreadUnit(k) ==
    LET d == CHOOSE d \in DOMAIN Unread : LenUpTo[d - 1] < k /\ k <= LenUpTo[d]
        at == sdesc[Unread[d]].off + k - LenUpTo[d - 1]
    IN  IF at <= DescBufSize THEN mem[Unread[d]][at] ELSE 0

UnreadData == [k \in 1 .. LenUpTo[Len(Unread)] |-> UnreadUnit(k)]

\* descq_st_c2h_read copies until the request's list is full or nothing is
\* left; the buffers it emptied, the units copied and those of a buffer it
\* left half read.
ReadFor(room) ==
    LET total == LenUpTo[Len(Unread)]
        enough == {n \in 0 .. Len(Unread) : LenUpTo[n] <= room
                     /\ \A k \in 0 .. n - 1 : LenUpTo[k] < room}
        n == Max(enough)
        c == Least(room, total)
    IN  [emptied |-> n, copied |-> c, part |-> c - LenUpTo[n]]

Copied(r, c) == readOut \o [k \in 1 .. c |-> [unit |-> UnreadData[k], to |-> r]]

\* Mistake: A half-read buffer keeps its offset.
LeftIn_KeepsOffset(d) ==
    IF d.part = 0 THEN sdesc
    ELSE [sdesc EXCEPT ![Unread[d.emptied + 1]] = [len |-> @.len - d.part, off |-> @.off]]

\* What reading leaves of the buffers.
LeftIn(d) ==
    IF d.part = 0 THEN sdesc
    ELSE [sdesc EXCEPT ![Unread[d.emptied + 1]] = [len |-> @.len - d.part, off |-> @.off + d.part]]

\* qdma_flq_refill of n buffers from index b on, recycling them: only the
\* length is set again.
Recycled(sd, B) == [b \in Bufs |-> IF b \in B THEN [sd[b] EXCEPT !.len = C2hBufsz] ELSE sd[b]]

Refilled(qq, sd, B, list) ==
    [qq EXCEPT !.avail = @ + Cardinality(B), !.listEmpty = @ \/ list = <<>>,
               !.skewed = @ \/ \E b \in B : sd[b].off # 0]

Unmarked(B) == valid \ B

\* Mistake: The buffers up to the received ones are posted, read or not.
LastPosted_Received(qq) == Decr(q.pidx, 1, RingSize)

\* queue_pidx_update: all buffers but the one before pidx_pend are the card's.
LastPosted(qq) == Decr(qq.pidxPend, 1, RingSize)

-----------------------------------------------------------------------------
(* The completion handler, under the lock: qdma_descq_service_cmpl_update. *)

Begin ==
    LET n == Delta(card.pidx, q.cidxCmpt, CmptSize)
        takes == q.state = "online" /\ ~q.err
    IN  /\ Free
        /\ svc' = IF takes /\ n > 0
                  THEN [at |-> "entries", left |-> n, done |-> 0, pidx |-> q.pidx, from |-> q.pidxPend]
                  ELSE svc
        /\ card' = IF takes /\ n = 0 /\ mode # "poll" THEN [card EXCEPT !.armed = TRUE] ELSE card

\* intr_work.
IntrWork ==
    /\ work
    /\ Begin
    /\ work' = FALSE
    /\ UNCHANGED <<mode, mem, cmpt, iring, sdesc, valid, q, pend, req, readOut>>

\* The completion thread serves a queue while a request waits.
PollWork ==
    /\ mode = "poll" /\ pend # <<>> /\ q.state = "online"
    /\ Begin
    /\ UNCHANGED <<mode, mem, cmpt, iring, sdesc, valid, q, work, pend, req, readOut>>

\* get_fl_nr: buffers of a packet and the length of the last one.  Powers of
\* two are divided by the room of a buffer, other lengths by its size.
PowerOfTwo(len) == \E k \in 0 .. len : 2 ^ k = len

FlSize(len) == IF len = 0 \/ PowerOfTwo(len) THEN DescBufSize ELSE C2hBufsz

FlNr(len) == IF len = 0 THEN 1 ELSE (len + FlSize(len) - 1) \div FlSize(len)

LastLen(len) ==
    IF len = 0 THEN 0
    ELSE IF len % FlSize(len) = 0 THEN C2hBufsz ELSE len % FlSize(len)

Entry == cmpt[q.cidxCmpt]

EntryBufs == {Incr(svc.pidx, k, RingSize) : k \in 0 .. FlNr(Entry.len) - 1}

\* cmpt_next.
NextEntry(qq) ==
    LET wraps == qq.cidxCmpt + 1 = CmptSize
    IN  [qq EXCEPT !.cidxCmpt = IF wraps THEN 0 ELSE @ + 1, !.color = IF wraps THEN 1 - @ ELSE @]

\* A completion with an error stops the queue for good.
ErrorEntry ==
    /\ Entry.kind = "err"
    /\ q' = [q EXCEPT !.err = TRUE]
    /\ svc' = [at |-> "idle"]
    /\ UNCHANGED <<sdesc, valid>>

\* Nothing more to take: an entry not written yet, or too few buffers.
StopAtEntry ==
    /\ Entry.kind # "err"
    /\ \/ Entry.color # q.color /\ UNCHANGED sdesc
       \/ /\ Entry.color = q.color /\ Entry.kind = "data" /\ q.avail < FlNr(Entry.len)
          /\ sdesc' = [sdesc EXCEPT ![Incr(svc.pidx, FlNr(Entry.len) - 1, RingSize)].len
                                     = LastLen(Entry.len)]
    /\ svc' = [svc EXCEPT !.at = "cidx"]
    /\ UNCHANGED <<q, valid>>

\* rcv_pkt.
RcvPkt ==
    LET n == FlNr(Entry.len)
        last == Incr(svc.pidx, n - 1, RingSize)
    IN  /\ Entry.kind = "data" /\ Entry.color = q.color /\ q.avail >= n
        /\ sdesc' = [sdesc EXCEPT ![last].len = LastLen(Entry.len)]
        /\ valid' = valid \cup EntryBufs
        /\ q' = NextEntry([q EXCEPT !.avail = @ - n, !.dlen = @ + Entry.len])
        /\ svc' = [svc EXCEPT !.pidx = Incr(last, 1, RingSize), !.left = @ - 1, !.done = @ + 1]

\* One completion entry of descq_process_completion_st_c2h.
SvcEntry ==
    /\ svc.at = "entries" /\ svc.left > 0
    /\ ErrorEntry \/ StopAtEntry \/ RcvPkt
    /\ UNCHANGED <<mode, card, mem, cmpt, iring, work, pend, req, readOut>>

\* Mistake: The index is written without enabling the interrupt.
CidxWritten_NoRearm == [card EXCEPT !.cidx = q.cidxCmpt]

\* queue_cmpt_cidx_update.
CidxWritten == [card EXCEPT !.cidx = q.cidxCmpt, !.armed = TRUE]

\* Entries taken: the card learns the new index and may interrupt again.
SvcCidx ==
    /\ svc.at = "cidx" \/ (svc.at = "entries" /\ svc.left = 0)
    /\ IF svc.done = 0 THEN svc' = [at |-> "idle"] /\ UNCHANGED <<q, card>>
       ELSE /\ q' = [q EXCEPT !.pidx = svc.pidx]
            /\ card' = CidxWritten
            /\ svc' = [svc EXCEPT !.at = "deliver"]
    /\ UNCHANGED <<mode, mem, cmpt, iring, sdesc, valid, work, pend, req, readOut>>

\* Mistake: The loop over the requests ends after the first.
Served_OnlyOne(left) == [svc EXCEPT !.at = "refill"]

\* After a request the next one is served, if the data sufficed.
Served(left) == IF left = 0 THEN svc ELSE [svc EXCEPT !.at = "refill"]

\* qdma_c2h_packets_proc_dflt, one request: data goes to the first that waits.
SvcDeliver ==
    LET r == Head(pend)
        d == ReadFor(req[r].left)
        left == req[r].left - d.copied
    IN  /\ svc.at = "deliver" /\ pend # <<>>
        /\ sdesc' = LeftIn(d)
        /\ readOut' = Copied(r, d.copied)
        /\ req' = [req EXCEPT ![r].left = left,
                              ![r].st = IF left = 0 THEN "done" ELSE @,
                              ![r].ret = IF left = 0 /\ r \notin Async THEN Asked[r] ELSE @]
        /\ pend' = IF left = 0 THEN Tail(pend) ELSE pend
        /\ q' = [q EXCEPT !.pidxPend = Incr(@, d.emptied, RingSize), !.dlen = @ - d.copied,
                          !.listEmpty = IF left = 0 THEN q.avail = 0 ELSE @]
        /\ svc' = Served(left)
        /\ UNCHANGED <<mode, card, mem, cmpt, iring, valid, work>>

\* The buffers read since are recycled and, unless the queue stops, posted.
SvcRefill ==
    LET B == Between(svc.from, q.pidxPend)
    IN  /\ svc.at = "refill" \/ (svc.at = "deliver" /\ pend = <<>>)
        /\ svc' = [at |-> "idle"]
        /\ IF B = {} THEN UNCHANGED <<sdesc, valid, q, card>>
           ELSE /\ sdesc' = Recycled(sdesc, B)
                /\ valid' = Unmarked(B)
                /\ q' = Refilled(q, sdesc, B, pend)
                /\ card' = IF q.stopWait THEN card ELSE [card EXCEPT !.posted = LastPosted(q)]
        /\ UNCHANGED <<mode, mem, cmpt, iring, work, pend, req, readOut>>

-----------------------------------------------------------------------------
(* Callers. *)

\* descq_st_c2h_read on behalf of a caller, which recycles and posts at once.
ReadNow(r, room, list) ==
    LET d == ReadFor(room)
        B == {Unread[k] : k \in 1 .. d.emptied}
        qq == [q EXCEPT !.pidxPend = Incr(@, d.emptied, RingSize), !.dlen = @ - d.copied]
    IN  /\ readOut' = Copied(r, d.copied)
        /\ sdesc' = Recycled(LeftIn(d), B)
        /\ valid' = Unmarked(B)
        /\ q' = LET new == IF B = {} THEN qq ELSE Refilled(qq, sdesc, B, list)
                IN  [new EXCEPT !.listEmpty = @ /\ (r \in Direct \/ d.copied = room)]
        /\ card' = IF B = {} THEN card ELSE [card EXCEPT !.posted = LastPosted(qq)]

\* What a request of that size still lacks after reading at once.
Missing(size) == size - ReadFor(size).copied

\* qdma_request_submit_st_c2h: data already received is read at once, the
\* request waits for what is missing.
Submit(r) ==
    LET size == Asked[r]
        left == Missing(size)
    IN  /\ r \notin Direct /\ req[r].st = "new" /\ Free /\ q.state = "online"
        /\ IF q.stopWait
           THEN /\ req' = [req EXCEPT ![r].st = "done", ![r].left = size]
                /\ UNCHANGED <<card, sdesc, valid, q, pend, readOut>>
           ELSE /\ ReadNow(r, size, Append(pend, r))
                /\ pend' = IF left = 0 THEN pend ELSE Append(pend, r)
                /\ req' = [req EXCEPT ![r] = [st |-> IF left = 0 THEN "done" ELSE "waiting",
                             left |-> left, ret |-> IF left = 0 THEN size ELSE 0]]
        /\ UNCHANGED <<mode, mem, cmpt, iring, svc, work>>

\* qdma_queue_packet_read clears the request's bookkeeping, its left included.
PacketRead(r) ==
    LET size == Asked[r]
    IN
    /\ r \in Direct /\ req[r].st = "new" /\ Free /\ q.state = "online"
    /\ ReadNow(r, size, pend)
    /\ req' = [req EXCEPT ![r] = [st |-> "done", left |-> 0 - ReadFor(size).copied,
                                  ret |-> size - (0 - ReadFor(size).copied)]]
    /\ UNCHANGED <<mode, mem, cmpt, iring, svc, work, pend>>

\* A caller's wait times out; data it was given is lost.
TimeOut(r) ==
    /\ req[r].st = "waiting" /\ r \notin Async /\ Free
    /\ \E i \in DOMAIN pend : pend[i] = r /\ pend' = RemoveAt(pend, i)
    /\ req' = [req EXCEPT ![r].st = "failed"]
    /\ UNCHANGED <<mode, card, mem, cmpt, iring, sdesc, valid, q, svc, work, readOut>>

\* qdma_queue_stop asks the queue to drain ...
StopBegin ==
    /\ Free /\ q.state = "online" /\ ~q.stopWait
    /\ q' = [q EXCEPT !.stopWait = TRUE]
    /\ UNCHANGED <<mode, card, mem, cmpt, iring, sdesc, valid, svc, work, pend, req, readOut>>

\* Of the first i requests on the list those whose callers sleep: a stop wakes
\* the callers and takes only requests with a callback off the list.
Blocking[i \in 0 .. Len(pend)] ==
    IF i = 0 THEN <<>>
    ELSE IF pend[i] \in Async THEN Blocking[i - 1] ELSE Append(Blocking[i - 1], pend[i])

\* ... and, drained or timed out, fails what is left.
StopEnd ==
    /\ Free /\ q.stopWait
    /\ q' = [q EXCEPT !.state = "enabled", !.stopWait = FALSE]
    /\ req' = [r \in Requests |->
                 IF req[r].st = "waiting" THEN [req[r] EXCEPT !.st = "failed"] ELSE req[r]]
    /\ pend' = Blocking[Len(pend)]
    /\ UNCHANGED <<mode, card, mem, cmpt, iring, sdesc, valid, svc, work, readOut>>

-----------------------------------------------------------------------------
Handler == IntrWork \/ PollWork \/ SvcEntry \/ SvcCidx \/ SvcDeliver \/ SvcRefill

Notices == HwInterrupt \/ HwRingEntry \/ Isr

Next ==
    \/ \E len \in Lengths : HwPacket(len)
    \/ HwError
    \/ Notices \/ OtherInterrupt \/ Handler
    \/ \E r \in Requests : Submit(r) \/ PacketRead(r) \/ TimeOut(r)
    \/ StopBegin \/ StopEnd

\* The card raises the interrupts it owes, the kernel runs interrupt handlers,
\* scheduled work and the completion thread.  Packets, calls, time-outs and a
\* stop need not come.
Fairness ==
    /\ WF_vars(HwInterrupt) /\ WF_vars(HwRingEntry) /\ WF_vars(Isr)
    /\ WF_vars(IntrWork) /\ WF_vars(PollWork)
    /\ WF_vars(SvcEntry \/ SvcCidx \/ SvcDeliver \/ SvcRefill)

Spec == Init /\ [][Next]_vars /\ Fairness

-----------------------------------------------------------------------------
(* Properties. *)

\* Types of the variables.
TypeOK ==
    /\ mode \in {"poll", "direct", "indirect"} /\ work \in BOOLEAN
    /\ card.next \in Bufs /\ card.posted \in Bufs
    /\ card.pidx \in 0 .. CmptSize - 1 /\ card.cidx \in 0 .. CmptSize - 1
    /\ card.armed \in BOOLEAN /\ card.packets \in 0 .. MaxPackets
    /\ iring.cidx \in 0 .. IntrSize - 1 /\ iring.hwPidx \in 0 .. IntrSize - 1
    /\ \A b \in Bufs : sdesc[b].len \in 0 .. DescBufSize /\ sdesc[b].off \in Nat
    /\ valid \subseteq Bufs
    /\ q.state \in {"online", "enabled"} /\ q.avail \in 0 .. RingSize - 1
    /\ q.pidx \in Bufs /\ q.pidxPend \in Bufs /\ q.cidxCmpt \in 0 .. CmptSize - 1
    /\ svc.at \in {"idle", "entries", "cidx", "deliver", "refill"}
    /\ pend \in Seq(Requests)
    /\ \A r \in Requests : req[r].st \in {"new", "waiting", "done", "failed"}

\* What the card streams reaches the requests unit by unit in the order sent:
\* nothing lost, repeated or taken from a buffer before its time.  (Only as
\* long as no half-read buffer was recycled, which leaves its offset moved.)
StreamInOrder ==
    ~q.skewed => \A i \in DOMAIN readOut : readOut[i].unit = i

\* Nobody waits while received data lies unread: what the handler leaves, no
\* request wanted, and a newcomer cannot take the data of an earlier request.
NoDataWhileWaiting ==
    Free /\ pend # <<>> /\ q.state = "online" => Unread = <<>>

\* The buffers the card may fill next hold nothing that is still to be read or
\* whose completion is still to be taken.
NoOverwrite ==
    Between(card.next, card.posted) \cap
      (Between(q.pidxPend, q.pidx) \cup Between(q.pidx, card.next)) = {}

\* WARN_ON(sinfo->f.valid) of rcv_pkt: a packet is never received into a
\* buffer that still holds one.
NothingReceivedTwice ==
    svc.at = "entries" /\ svc.left > 0 /\ Entry.kind = "data" => EntryBufs \cap valid = {}

\* With the lock free the books agree: avail counts the buffers without data,
\* pkt_dlen the units not yet read, and all but one of the others are posted.
BuffersAccounted ==
    Free /\ q.state = "online" /\ ~q.err =>
       /\ valid = Between(q.pidxPend, q.pidx)
       /\ q.avail = RingSize - 1 - Cardinality(valid)
       /\ q.dlen = Len(UnreadData)
       /\ ~q.stopWait => card.posted = LastPosted(q)

\* A caller that waited and succeeds returns the number of units it was given.
UnitsFor(r) == Cardinality({i \in DOMAIN readOut : readOut[i].to = r})

ReturnsWhatItCopied ==
    \A r \in Requests \ (Async \cup Direct) : req[r].st = "done" => req[r].ret = UnitsFor(r)

\* Readers get the stream: in order, whole, and as much as they are told.
ReadersGetTheStream == StreamInOrder /\ ReturnsWhatItCopied

\* The free list is sound: each buffer is with the card, holds one received
\* packet, or is the spare one, and the counters say so (rcv_pkt,
\* descq_st_c2h_read, qdma_c2h_packets_proc).
FreeListSound == TypeOK /\ NoOverwrite /\ NothingReceivedTwice /\ BuffersAccounted

\* No notice is lost: a completion in the ring is taken, with direct and
\* aggregated interrupts always, with polling as long as a request waits.
Waiting == card.pidx # q.cidxCmpt /\ q.state = "online" /\ ~q.err /\ (mode = "poll" => pend # <<>>)

PacketsNoticed == Waiting ~> ~Waiting
=============================================================================
