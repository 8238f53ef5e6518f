------------------------------ MODULE QdmaMbox ------------------------------
(***************************************************************************)
(* The mailbox of a virtual function ("vf") and that of its parent ("pf"): *)
(* qdma_mbox.c on both sides, with the registers it drives                 *)
(* (qdma_access/qdma_mbox_protocol.c, qdma_mbox_send, qdma_mbox_rcv).      *)
(*                                                                         *)
(* A sender appends its message to tx_todo_list and waits.  One worker per *)
(* side (a single threaded workqueue) runs tx_work, which pushes messages  *)
(* through the one outgoing slot, and rx_work, which empties the incoming  *)
(* one.  A message that waits for a response moves to rx_pend_list; a      *)
(* response is matched by its operation.  Every step that holds list_lock  *)
(* is one action.                                                          *)
(*                                                                         *)
(* Every wait for a response is limited and can be interrupted.  A sender  *)
(* of the virtual function frees its message afterwards, whoever still     *)
(* holds it.  A step that writes to freed memory or unlinks twice is       *)
(* recorded, and the behaviour ends with it: what follows is undefined.    *)
(***************************************************************************)
EXTENDS Integers, SequencesExt

CONSTANTS
  VfReq,           \* requests the virtual function sends and waits for
  PfReq,           \* requests the parent sends and waits for
  Bye,             \* what the virtual function sends when it leaves
  Op,              \* the operation of each request
  Modes,           \* how the sides receive messages: functions to {"poll", "intr"}
  Retries,         \* tries of a message that waits for no response
  Traffic,         \* bound: the sets of messages that one behaviour sends, answers apart
  Nil

End   == {"vf", "pf"}
Peer(e) == IF e = "vf" THEN "pf" ELSE "vf"
Req   == VfReq \cup PfReq
Answer(r) == <<r>>
Answers == {Answer(r) : r \in Req}
Msg   == Req \cup Answers \cup {Bye}
Side(r) == IF r \in VfReq THEN "vf" ELSE "pf"
Home(m) == IF m = Bye THEN "vf" ELSE IF m \in Req THEN Side(m) ELSE Peer(Side(m[1]))

ASSUME ReqAssumption == VfReq \cap PfReq = {} /\ Bye \notin Req /\ Nil \notin Msg
ASSUME AnswerAssumption == Answers \cap (Req \cup {Bye}) = {}
ASSUME RetryAssumption == Retries \in Nat /\ Retries >= 1
ASSUME BoundAssumption == Traffic \subseteq SUBSET (Req \cup {Bye})
ASSUME ModeAssumption == Modes \subseteq [{"vf", "pf"} -> {"poll", "intr"}]

VARIABLES
  slow_peer,       \* may a receiver outlast the tries of a message?  (fixed)
  rx_poll,         \* per side: received by polling, not by interrupt
  tx_todo_list, rx_pend_list,
  send_busy,       \* per side: the slot was taken at the last try
  timer,           \* per side: the timer runs
  workq,           \* per side: the queued work items, "tx" and "rx"
  pc,              \* per side: the next step of the worker
  cur,             \* per side: the message the worker holds (m, m_snd)
  rx,              \* per side: mbox->rx, the message just received
  slot,            \* per side: its outgoing message, Nil when acknowledged
  retry_cnt,       \* of messages that wait for no response
  stage,           \* of a request: "new", "queued", "asleep", "awake", "late", "ok", "failed"
  resp_op_matched, \* of a request
  raw,             \* of a request: itself, or the message copied over it
  hurried,         \* history: the requests left by their sender while the
                   \* worker held them or had just matched them
  freed,           \* the messages that were freed
  wild,            \* the messages touched after that, or unlinked twice
  handled,         \* how often the other side handled a message
  leaving          \* the virtual function on its way out: "no", "stop", "bye", "stop2", "off"

mode    == <<slow_peer, rx_poll>>
lists   == <<tx_todo_list, rx_pend_list>>
work    == <<send_busy, timer, workq>>
worker  == <<pc, cur, rx>>
senders == <<stage, resp_op_matched, raw, hurried>>
memory  == <<freed, wild>>
vars == <<mode, lists, work, worker, slot, retry_cnt, senders, memory, handled, leaving>>

----------------------------------------------------------------------------
(* Work items, lists and memory.                                           *)

\* queue_work does nothing when the item is queued already.
Queued(q, w) == IF Contains(q, w) THEN q ELSE Append(q, w)
QueueWork(e, w) == workq' = [workq EXCEPT ![e] = Queued(@, w)]

WaitsResp(m) == m \in Req

\* is the message in the slot the response to the request r?  (By operation.)
IsMsgResponse(r, m) == m \in Answers /\ Op[m[1]] = Op[r]

FirstMatch_Last(e) ==
  LET hits == {i \in DOMAIN rx_pend_list[e] : IsMsgResponse(rx_pend_list[e][i], rx[e])}
  IN IF hits = {} THEN Nil ELSE rx_pend_list[e][Max(hits)]

FirstMatch(e) ==
  LET hits == {i \in DOMAIN rx_pend_list[e] : IsMsgResponse(rx_pend_list[e][i], rx[e])}
  IN IF hits = {} THEN Nil ELSE rx_pend_list[e][Min(hits)]

Linked(m) == \E e \in End : Contains(tx_todo_list[e], m) \/ Contains(rx_pend_list[e], m)
\* list_del: the one entry of m leaves; a message that is on no list stays so.
Unlink(list, m) == RemoveFirst(list, m)

\* Touching messages that are gone.
Touch(ms) == wild' = wild \cup (ms \cap freed)
TouchLinked(m) == wild' = wild \cup (IF m \in freed \/ ~Linked(m) THEN {m} ELSE {})

\* Memory is damaged: freed memory written to, or an entry unlinked twice.  A
\* sender of the parent that merely reads its freed message, and finds it as it
\* was, does no harm.
Broken == \E m \in wild : m \in PfReq => stage[m] \in {"asleep", "failed"}

----------------------------------------------------------------------------
(* Senders: qdma_mbox_msg_send with wait_resp.                             *)

Init ==
  /\ slow_peer \in BOOLEAN
  /\ rx_poll \in {[e \in End |-> md[e] = "poll"] : md \in Modes}
  /\ tx_todo_list = [e \in End |-> <<>>] /\ rx_pend_list = [e \in End |-> <<>>]
  /\ send_busy = [e \in End |-> FALSE]
  /\ timer = rx_poll
  /\ workq = [e \in End |-> <<>>]
  /\ pc = [e \in End |-> "idle"] /\ cur = [e \in End |-> Nil] /\ rx = [e \in End |-> Nil]
  /\ slot = [e \in End |-> Nil]
  /\ retry_cnt = [m \in Answers \cup {Bye} |-> Retries]
  /\ stage = [r \in Req |-> "new"]
  /\ resp_op_matched = [r \in Req |-> FALSE]
  /\ raw = [r \in Req |-> r]
  /\ hurried = {}
  /\ freed = {} /\ wild = {}
  /\ handled = [m \in Req \cup {Bye} |-> 0]
  /\ leaving = "no"

\* Append to the list and kick the transmit work.
Send(e, m) ==
  /\ tx_todo_list' = [tx_todo_list EXCEPT ![e] = Append(@, m)]
  /\ QueueWork(e, "tx")

Begun == {r \in Req : stage[r] # "new"} \cup (IF leaving = "no" THEN {} ELSE {Bye})
MaySend(m) == \E ms \in Traffic : Begun \cup {m} \subseteq ms

MsgSend(r) ==
  /\ stage[r] = "new" /\ MaySend(r)
  /\ Side(r) = "vf" => leaving = "no"
  /\ stage' = [stage EXCEPT ![r] = "queued"]
  /\ Send(Side(r), r)
  /\ UNCHANGED <<mode, rx_pend_list, send_busy, timer, worker, slot, retry_cnt,
                 resp_op_matched, raw, hurried, memory, handled, leaving>>

\* What a sender may read as resp_op_matched: the parent's message may be gone,
\* and what its memory holds by then decides.
Reads(r) == {resp_op_matched[r]} \cup (IF r \in freed THEN {FALSE} ELSE {})

\* The sender looks at resp_op_matched before it sleeps.
Wait(r) ==
  /\ stage[r] = "queued"
  /\ \E matched \in Reads(r) :
       stage' = [stage EXCEPT ![r] = IF matched THEN "awake" ELSE "asleep"]
  /\ Touch({r})
  /\ UNCHANGED <<mode, lists, work, worker, slot, retry_cnt, resp_op_matched, raw, hurried,
                 freed, handled, leaving>>

\* The wait is over, by its limit of 10 s or a signal.  The sender looks once
\* more, without the lock.
TimeOut(r) ==
  /\ stage[r] = "asleep"
  /\ stage' = [stage EXCEPT ![r] = IF resp_op_matched[r] THEN "awake" ELSE "late"]
  /\ UNCHANGED <<mode, lists, work, worker, slot, retry_cnt, resp_op_matched, raw, hurried,
                 memory, handled, leaving>>

\* The virtual function's callers free the message when they have read it;
\* the parent's do not.
Release(r) == freed' = freed \cup (IF r \in VfReq THEN {r} ELSE {})

\* The worker has taken r from a list, or matched it, and is not done with it.
Held(r) ==
  /\ cur[Side(r)] = r
  /\ pc[Side(r)] \in {"send", "unlink", "pend", "dispatch", "copy"}
Hurry(r, early) == hurried' = hurried \cup (IF early THEN {r} ELSE {})

\* A woken sender finds its response.
Return(r) ==
  /\ stage[r] = "awake"
  /\ Touch({r})
  /\ Release(r)
  /\ Hurry(r, Held(r))
  /\ \E matched \in Reads(r) :
       stage' = [stage EXCEPT ![r] = IF matched THEN "ok" ELSE "failed"]
  /\ UNCHANGED <<mode, lists, work, worker, slot, retry_cnt, resp_op_matched, raw,
                 handled, leaving>>

Expire_NoUnlink(r) ==
  /\ stage[r] = "late"
  /\ stage' = [stage EXCEPT ![r] = "failed"]
  /\ Release(r)
  /\ UNCHANGED <<mode, lists, work, worker, slot, retry_cnt, resp_op_matched, raw, hurried, wild,
                 handled, leaving>>

\* Not matched when it looked, the sender unlinks its message, wherever that is.
Expire(r) ==
  /\ stage[r] = "late"
  /\ stage' = [stage EXCEPT ![r] = "failed"]
  /\ tx_todo_list' = [tx_todo_list EXCEPT ![Side(r)] = Unlink(@, r)]
  /\ rx_pend_list' = [rx_pend_list EXCEPT ![Side(r)] = Unlink(@, r)]
  /\ TouchLinked(r)
  /\ Release(r)
  /\ Hurry(r, Held(r) \/ resp_op_matched[r])
  /\ UNCHANGED <<mode, work, worker, slot, retry_cnt, resp_op_matched, raw, handled, leaving>>

----------------------------------------------------------------------------
(* The worker: transmitting.                                               *)

\* The workqueue runs the queued items one at a time, in their order.
Start(e) ==
  /\ pc[e] = "idle" /\ workq[e] # <<>>
  /\ pc' = [pc EXCEPT ![e] = IF Head(workq[e]) = "tx" THEN "pick" ELSE "read"]
  /\ workq' = [workq EXCEPT ![e] = Tail(@)]
  /\ UNCHANGED <<mode, lists, send_busy, timer, cur, rx, slot, retry_cnt, senders,
                 memory, handled, leaving>>

TxPick(e) ==
  /\ pc[e] = "pick"
  /\ IF tx_todo_list[e] = <<>>
     THEN pc' = [pc EXCEPT ![e] = "idle"] /\ UNCHANGED cur
     ELSE /\ pc' = [pc EXCEPT ![e] = "send"]
          /\ cur' = [cur EXCEPT ![e] = Head(tx_todo_list[e])]
  /\ UNCHANGED <<mode, lists, work, rx, slot, retry_cnt, senders, memory, handled, leaving>>

\* qdma_mbox_send finds the slot free; the other side is interrupted.
TxSend(e) ==
  /\ pc[e] = "send" /\ slot[e] = Nil
  /\ pc' = [pc EXCEPT ![e] = "unlink"]
  /\ slot' = [slot EXCEPT ![e] = cur[e]]
  /\ send_busy' = [send_busy EXCEPT ![e] = FALSE]
  /\ IF rx_poll[Peer(e)] THEN UNCHANGED workq ELSE QueueWork(Peer(e), "rx")
  /\ Touch({cur[e]})
  /\ UNCHANGED <<mode, lists, timer, cur, rx, retry_cnt, senders, freed, handled, leaving>>

LastTry(m) == slow_peer /\ ~WaitsResp(m) /\ retry_cnt[m] = 1

TxBusy_NoTimer(e) ==
  /\ pc[e] = "send" /\ slot[e] # Nil /\ ~LastTry(cur[e])
  /\ pc' = [pc EXCEPT ![e] = "idle"]
  /\ send_busy' = [send_busy EXCEPT ![e] = TRUE]
  /\ IF WaitsResp(cur[e]) \/ ~slow_peer THEN UNCHANGED retry_cnt
     ELSE retry_cnt' = [retry_cnt EXCEPT ![cur[e]] = @ - 1]
  /\ Touch({cur[e]})
  /\ UNCHANGED <<mode, lists, workq, timer, cur, rx, slot, senders, freed, handled, leaving>>

\* The slot is still taken: try again when the timer expires.
TxBusy(e) ==
  /\ pc[e] = "send" /\ slot[e] # Nil /\ ~LastTry(cur[e])
  /\ pc' = [pc EXCEPT ![e] = "idle"]
  /\ send_busy' = [send_busy EXCEPT ![e] = TRUE]
  /\ timer' = [timer EXCEPT ![e] = TRUE]
  /\ IF WaitsResp(cur[e]) \/ ~slow_peer THEN UNCHANGED retry_cnt
     ELSE retry_cnt' = [retry_cnt EXCEPT ![cur[e]] = @ - 1]
  /\ Touch({cur[e]})
  /\ UNCHANGED <<mode, lists, workq, cur, rx, slot, senders, freed, handled, leaving>>

\* Give a message up that waits for no response.
TxDrop(e) ==
  /\ pc[e] = "send" /\ slot[e] # Nil /\ LastTry(cur[e])
  /\ pc' = [pc EXCEPT ![e] = "idle"]
  /\ tx_todo_list' = [tx_todo_list EXCEPT ![e] = Unlink(@, cur[e])]
  /\ retry_cnt' = [retry_cnt EXCEPT ![cur[e]] = 0]
  /\ freed' = freed \cup {cur[e]}
  /\ UNCHANGED <<mode, rx_pend_list, work, cur, rx, slot, senders, wild, handled,
                 leaving>>

\* Sent: off the list.  A message without response is done with.
TxUnlink(e) ==
  /\ pc[e] = "unlink"
  /\ tx_todo_list' = [tx_todo_list EXCEPT ![e] = Unlink(@, cur[e])]
  /\ TouchLinked(cur[e])
  /\ IF WaitsResp(cur[e])
     THEN pc' = [pc EXCEPT ![e] = "pend"] /\ UNCHANGED freed
     ELSE pc' = [pc EXCEPT ![e] = "pick"] /\ freed' = freed \cup {cur[e]}
  /\ UNCHANGED <<mode, rx_pend_list, work, cur, rx, slot, retry_cnt, senders, handled,
                 leaving>>

TxPend(e) ==
  /\ pc[e] = "pend"
  /\ pc' = [pc EXCEPT ![e] = "pick"]
  /\ rx_pend_list' = [rx_pend_list EXCEPT ![e] = Append(@, cur[e])]
  /\ Touch({cur[e]})
  /\ UNCHANGED <<mode, tx_todo_list, work, cur, rx, slot, retry_cnt, senders, freed,
                 handled, leaving>>

----------------------------------------------------------------------------
(* The worker: receiving.                                                  *)

\* qdma_mbox_rcv reads the message and acknowledges it, which empties the slot.
RxRead(e) ==
  /\ pc[e] = "read" /\ slot[Peer(e)] # Nil
  /\ pc' = [pc EXCEPT ![e] = "match"]
  /\ rx' = [rx EXCEPT ![e] = slot[Peer(e)]]
  /\ slot' = [slot EXCEPT ![Peer(e)] = Nil]
  /\ UNCHANGED <<mode, lists, work, cur, retry_cnt, senders, memory, handled, leaving>>

\* Nothing more to read.  In poll mode the timer looks again later.
RxEnd(e) ==
  /\ pc[e] = "read" /\ slot[Peer(e)] = Nil
  /\ pc' = [pc EXCEPT ![e] = "idle"]
  /\ timer' = [timer EXCEPT ![e] = @ \/ rx_poll[e]]
  /\ UNCHANGED <<mode, lists, send_busy, workq, cur, rx, slot, retry_cnt, senders,
                 memory, handled, leaving>>

Wake(r) == [stage EXCEPT ![r] = IF @ = "asleep" THEN "awake" ELSE @]

\* The virtual function marks the request the message responds to.
RxMatchVf ==
  /\ pc["vf"] = "match"
  /\ pc' = [pc EXCEPT !["vf"] = "dispatch"]
  /\ cur' = [cur EXCEPT !["vf"] = FirstMatch("vf")]
  /\ resp_op_matched' = [r \in Req |-> resp_op_matched[r] \/ r = FirstMatch("vf")]
  /\ UNCHANGED <<mode, lists, work, rx, slot, retry_cnt, stage, raw, hurried,
                 memory, handled, leaving>>

\* The other side has handled request r; its answer goes out.
Handle(e, r) ==
  /\ handled' = [handled EXCEPT ![r] = @ + 1]
  /\ Send(e, Answer(r))

\* A message of the parent is looked at only while nothing waits for a
\* response.
RxDispatchVf ==
  /\ pc["vf"] = "dispatch"
  /\ pc' = [pc EXCEPT !["vf"] = IF cur["vf"] = Nil THEN "read" ELSE "copy"]
  /\ IF rx_pend_list["vf"] = <<>> /\ rx["vf"] \in PfReq
     THEN Handle("vf", rx["vf"])
     ELSE UNCHANGED <<handled, tx_todo_list, workq>>
  /\ UNCHANGED <<mode, rx_pend_list, send_busy, timer, cur, rx, slot, retry_cnt, senders,
                 memory, leaving>>

\* The response is copied over the request, or over whatever is in its memory
\* by now, and its sender woken.
RxCopyVf ==
  /\ pc["vf"] = "copy"
  /\ pc' = [pc EXCEPT !["vf"] = "read"]
  /\ rx_pend_list' = [rx_pend_list EXCEPT !["vf"] = Unlink(@, cur["vf"])]
  /\ TouchLinked(cur["vf"])
  /\ raw' = [raw EXCEPT ![cur["vf"]] = IF cur["vf"] \in freed THEN @ ELSE rx["vf"]]
  /\ stage' = Wake(cur["vf"])
  /\ UNCHANGED <<mode, tx_todo_list, work, cur, rx, slot, retry_cnt, resp_op_matched,
                 hurried, freed, handled, leaving>>

\* The parent handles a request and answers; to a bye it sends no answer.
RxRequestPf ==
  /\ pc["pf"] = "match" /\ rx["pf"] \in VfReq \cup {Bye}
  /\ pc' = [pc EXCEPT !["pf"] = "read"]
  /\ IF rx["pf"] # Bye THEN Handle("pf", rx["pf"])
     ELSE handled' = [handled EXCEPT ![Bye] = @ + 1] /\ UNCHANGED <<tx_todo_list, workq>>
  /\ UNCHANGED <<mode, rx_pend_list, send_busy, timer, cur, rx, slot, retry_cnt, senders,
                 memory, leaving>>

\* A response to the parent: matched, unlinked, copied, woken and freed under
\* one hold of the lock.
RxResponsePf ==
  /\ pc["pf"] = "match" /\ rx["pf"] \in Answers
  /\ pc' = [pc EXCEPT !["pf"] = "read"]
  /\ LET r == FirstMatch("pf") IN
     IF r = Nil THEN UNCHANGED <<rx_pend_list, senders, memory>>
     ELSE /\ resp_op_matched' = [resp_op_matched EXCEPT ![r] = TRUE]
          /\ rx_pend_list' = [rx_pend_list EXCEPT !["pf"] = Unlink(@, r)]
          /\ raw' = [raw EXCEPT ![r] = rx["pf"]]
          /\ stage' = Wake(r)
          /\ Touch({r})
          /\ freed' = freed \cup {r}
          /\ UNCHANGED hurried
  /\ UNCHANGED <<mode, tx_todo_list, work, cur, rx, slot, retry_cnt, handled, leaving>>

----------------------------------------------------------------------------
(* The timer, and the virtual function leaving.                            *)

TimerFire_NoTx(e) ==
  /\ timer[e]
  /\ timer' = [timer EXCEPT ![e] = FALSE]
  /\ workq' = [workq EXCEPT ![e] = IF rx_poll[e] THEN Queued(@, "rx") ELSE @]
  /\ UNCHANGED <<mode, lists, send_busy, worker, slot, retry_cnt, senders, memory,
                 handled, leaving>>

TimerFire(e) ==
  /\ timer[e]
  /\ timer' = [timer EXCEPT ![e] = FALSE]
  /\ LET polled == IF rx_poll[e] THEN Queued(workq[e], "rx") ELSE workq[e]
     IN workq' = [workq EXCEPT ![e] = IF send_busy[e] THEN Queued(polled, "tx") ELSE polled]
  /\ UNCHANGED <<mode, lists, send_busy, worker, slot, retry_cnt, senders, memory, handled,
                 leaving>>

\* qdma_mbox_stop: all messages sent, then acknowledged (unless the other
\* side is too slow for its 100 looks), then no timer.
TodoEmpty == tx_todo_list["vf"] = <<>>
Acknowledged == slot["vf"] = Nil \/ slow_peer
StopDone_Unacknowledged == TodoEmpty
StopDone == TodoEmpty /\ Acknowledged

\* qdma_device_offline: stop, receive by polling, and say good bye.
LeaveStop ==
  /\ leaving = "no" /\ MaySend(Bye) /\ \A r \in VfReq : stage[r] \in {"new", "ok", "failed"}
  /\ StopDone
  /\ leaving' = "stop"
  /\ timer' = [timer EXCEPT !["vf"] = FALSE]
  /\ UNCHANGED <<mode, lists, send_busy, workq, worker, slot, retry_cnt, senders, memory,
                 handled>>

LeaveBye ==
  /\ leaving = "stop" /\ leaving' = "bye"
  /\ rx_poll' = [rx_poll EXCEPT !["vf"] = TRUE]
  /\ timer' = [timer EXCEPT !["vf"] = TRUE]
  /\ Send("vf", Bye)
  /\ UNCHANGED <<slow_peer, rx_pend_list, send_busy, worker, slot, retry_cnt, senders, memory, handled>>

\* Stop again and tear the mailbox down: no timer, the queued work runs first.
LeaveOff ==
  /\ leaving = "bye" /\ leaving' = "off"
  /\ StopDone
  /\ timer' = [timer EXCEPT !["vf"] = FALSE]
  /\ UNCHANGED <<mode, lists, send_busy, workq, worker, slot, retry_cnt, senders, memory,
                 handled>>

Tx(e) == TxPick(e) \/ TxSend(e) \/ TxBusy(e) \/ TxDrop(e) \/ TxUnlink(e) \/ TxPend(e)
RxVf  == RxMatchVf \/ RxDispatchVf \/ RxCopyVf
RxPf  == RxRequestPf \/ RxResponsePf
Rx(e) == RxRead(e) \/ RxEnd(e) \/ (e = "vf" /\ RxVf) \/ (e = "pf" /\ RxPf)
Worker(e) == Start(e) \/ Tx(e) \/ Rx(e)

Sender(r) == MsgSend(r) \/ Wait(r) \/ TimeOut(r) \/ Return(r) \/ Expire(r)

\* Nothing is claimed of what the code does once memory is damaged.
Next ==
  /\ ~Broken
  /\ \/ \E r \in Req : Sender(r)
     \/ \E e \in End : Worker(e) \/ TimerFire(e)
     \/ LeaveStop \/ LeaveBye \/ LeaveOff

Spec == Init /\ [][Next]_vars
FairSpec ==
  /\ Spec
  /\ \A e \in End : WF_vars(~Broken /\ Worker(e)) /\ WF_vars(~Broken /\ TimerFire(e))
  /\ \A r \in Req : WF_vars(~Broken /\ (Wait(r) \/ Return(r) \/ Expire(r)))
  /\ \A r \in PfReq : WF_vars(~Broken /\ TimeOut(r))
  /\ WF_vars(~Broken /\ (LeaveBye \/ LeaveOff))

----------------------------------------------------------------------------
(* Properties.                                                             *)

\* Every variable has its type; a work item is queued once.
TypeOK ==
  /\ slow_peer \in BOOLEAN
  /\ rx_poll \in [End -> BOOLEAN] /\ send_busy \in [End -> BOOLEAN]
  /\ timer \in [End -> BOOLEAN]
  /\ \A e \in End :
       /\ Range(tx_todo_list[e]) \subseteq {m \in Msg : Home(m) = e}
       /\ Range(rx_pend_list[e]) \subseteq {r \in Req : Side(r) = e}
       /\ workq[e] \in {<<>>, <<"tx">>, <<"rx">>, <<"tx", "rx">>, <<"rx", "tx">>}
  /\ pc \in [End -> {"idle", "pick", "send", "unlink", "pend", "read", "match", "dispatch", "copy"}]
  /\ cur \in [End -> Msg \cup {Nil}] /\ rx \in [End -> Msg \cup {Nil}]
  /\ slot \in [End -> Msg \cup {Nil}]
  /\ retry_cnt \in [Answers \cup {Bye} -> 0 .. Retries]
  /\ stage \in [Req -> {"new", "queued", "asleep", "awake", "late", "ok", "failed"}]
  /\ resp_op_matched \in [Req -> BOOLEAN]
  /\ raw \in [Req -> Msg]
  /\ hurried \subseteq Req /\ freed \subseteq Msg /\ wild \subseteq Msg
  /\ handled \in [Req \cup {Bye} -> Nat]
  /\ leaving \in {"no", "stop", "bye", "off"}

Occurrences(m, list) == Cardinality({i \in DOMAIN list : list[i] = m})

\* A request whose sender waits and which was not answered is in one place:
\* to be sent, in the hand of the worker between the two lists, or waiting for
\* its response (tx_work moves it in two holds of list_lock).
OnePlace ==
  \A e \in End : \A r \in Req :
    (Side(r) = e /\ stage[r] \in {"asleep", "late"} /\ ~resp_op_matched[r]) =>
      Occurrences(r, tx_todo_list[e]) + Occurrences(r, rx_pend_list[e])
        + (IF pc[e] = "pend" /\ cur[e] = r THEN 1 ELSE 0) = 1

\* When the mailbox touches a message after it was freed, or unlinks one that
\* is on no list, then it is a request whose sender stopped waiting just while
\* the worker held or matched it (of either side), or a request of the parent
\* that was answered, which the worker frees under its sender.  No answer, no
\* bye and no request whose sender stopped earlier or later is ever touched.
MessagesAlive == \A m \in wild : m \in hurried \/ (m \in PfReq /\ raw[m] # m)

\* Were the tries of some message used up?
GivenUp == \E m \in DOMAIN retry_cnt : retry_cnt[m] = 0

\* While a message is to be sent, something will try: the worker, a queued
\* work item, or the timer that finds send_busy.  (Giving a message up ends
\* tx_work with neither: then a later send or poll has to come first.)
NoStrandedMessage ==
  \A e \in End :
    tx_todo_list[e] # <<>> =>
      \/ pc[e] # "idle" \/ Contains(workq[e], "tx")
      \/ timer[e] /\ send_busy[e]
      \/ GivenUp

\* A polling side that is not torn down keeps polling.
PollGoesOn ==
  \A e \in End :
    (rx_poll[e] /\ ~(e = "vf" /\ leaving \in {"stop", "off"})) =>
      timer[e] \/ pc[e] \in {"read", "match", "dispatch", "copy"} \/ Contains(workq[e], "rx")

\* The two ends keep what they hold moving: no request in two places or in
\* none, no message that nothing will send, no polling that stops.
LinkOK == TypeOK /\ OnePlace /\ NoStrandedMessage /\ PollGoesOn

\* A virtual function is gone only after its parent read its bye.
ByeNotLost ==
  (leaving = "off" /\ ~slow_peer) => rx["pf"] = Bye \/ handled[Bye] = 1

\* Every request of the virtual function ends, even when no limit of its wait
\* helps, as long as no message is given up; every one of the parent ends; and
\* the way out of the virtual function does: again and again nobody waits.
NobodyWaits ==
  /\ \A r \in Req : stage[r] \in {"new", "ok", "failed"} \/ (r \in VfReq /\ slow_peer)
  /\ leaving \in {"no", "off"}
EveryRequestAnswered == []<>(NobodyWaits \/ Broken)

\* To the virtual function the mailbox is a MailboxService.  What a request that
\* ended well was told is what was copied over it, or nothing.
ServiceStage(r) == IF stage[r] \in {"new", "ok", "failed"} THEN stage[r] ELSE "asked"
Told(r) == IF stage[r] # "ok" \/ raw[r] = r THEN Nil ELSE raw[r][1]
Promise == INSTANCE MailboxService WITH
  Req <- VfReq,
  None <- Nil,
  stage <- [r \in VfReq |-> ServiceStage(r)],
  handled <- [r \in VfReq |-> handled[r]],
  given_up <- GivenUp,
  hurried <- hurried \cap VfReq,
  answer <- [r \in VfReq |-> Told(r)]
KeepsPromise == Promise!Spec

=============================================================================
