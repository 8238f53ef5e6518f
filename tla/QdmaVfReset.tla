----------------------------- MODULE QdmaVfReset -----------------------------
(***************************************************************************)
(* A physical function (PF) and its virtual functions (VF) through loading *)
(* and unloading of the drivers and through a function level reset of the  *)
(* PF: qdma_sriov.c on both sides, qdma_pf_trigger_vf_reset and            *)
(* qdma_pf_trigger_vf_offline (qdma_device.c), qdma_device_offline,        *)
(* qdma_device_online and xdev_reset_work (xdev.c).                        *)
(*                                                                         *)
(* Messages travel in order between the PF and each VF (module QdmaMbox).  *)
(* The PF's mailbox worker, the thread that resets the PF, the mailbox     *)
(* worker of each VF and its driver thread or reset work take steps of     *)
(* their own.  A wait may end by its timeout at any time, and a driver may be    *)
(* loaded at any time; disturbed remembers that a wait did time out or     *)
(* that a hello came in the middle of a reset.                             *)
(***************************************************************************)
EXTENDS Integers, SequencesExt

CONSTANTS
  VF,          \* the virtual functions
  MaxResets,   \* bound: resets of the PF
  MaxLoads,    \* bound: how often the driver of a VF is loaded
  Invalid,     \* QDMA_FUNC_ID_INVALID
  NoOp

ASSUME ConstAssumption == IsFiniteSet(VF) /\ {Invalid, NoOp} \cap VF = {}
ASSUME BoundAssumption == MaxResets \in Nat /\ MaxLoads \in Nat

NumVf == Cardinality(VF)          \* vf_count
Slots == 1 .. NumVf

VARIABLES
  vf_info,          \* vf_info[i]: the function in slot i, or Invalid
  vf_count_online,  \* u8
  entries,          \* the VFs with an entry in the resource manager
  pf_state,         \* reset_state of the PF
  pf_pc,            \* what the PF's control thread does
  pf_i, pf_n,       \* its loop variables
  pf_wait,          \* the operation whose response it waits for, or NoOp
  pf_reply,         \* the response its mailbox worker is about to send: <<v, op>>, or NoOp
  vf_state,         \* reset_state of each VF
  vf_pc,            \* what each VF does
  vf_work,          \* is its reset_work queued?
  vf_wait,          \* the operation it waits for the response to, or NoOp
  toVf, toPf,       \* per VF: the messages under way
  resets, loads,    \* counted for the bounds
  disturbed         \* did a wait time out, or a driver come in the middle of a reset?

pf   == <<vf_info, vf_count_online, entries>>
ctl  == <<pf_pc, pf_i, pf_n>>
vfs  == <<vf_state, vf_pc, vf_work, vf_wait>>
bounds == <<resets, loads>>
vars == <<pf, pf_state, ctl, pf_wait, pf_reply, vfs, toVf, toPf, bounds, disturbed>>

Ops == {"HELLO", "VF_BYE", "RESET_VF_BYE", "RESET_PREPARE", "RESET_DONE", "PF_BYE"}

ASSUME NoOpAssumption == NoOp \notin Ops /\ NoOp \notin VF \X Ops

Msg(op) == [op |-> op, resp |-> FALSE]
Resp(op) == [op |-> op, resp |-> TRUE]

Init ==
  /\ vf_info = [i \in Slots |-> Invalid]
  /\ vf_count_online = 0 /\ entries = {}
  /\ pf_state = "IDLE" /\ pf_pc = "up" /\ pf_i = 0 /\ pf_n = 0 /\ pf_wait = NoOp /\ pf_reply = NoOp
  /\ vf_state = [v \in VF |-> "IDLE"]
  /\ vf_pc = [v \in VF |-> "gone"]
  /\ vf_work = [v \in VF |-> FALSE]
  /\ vf_wait = [v \in VF |-> NoOp]
  /\ toVf = [v \in VF |-> <<>>] /\ toPf = [v \in VF |-> <<>>]
  /\ resets = 0 /\ loads = [v \in VF |-> 0]
  /\ disturbed = FALSE

----------------------------------------------------------------------------
(* The PF's mailbox worker: qdma_mbox_pf_rcv_msg_handler and qdma_sriov.c. *)

PfListens == pf_pc \notin {"down", "off"}
VfListens(v) == vf_pc[v] \notin {"gone", "dead", "parked"}

Dec_Signed(n) == n - 1
Dec(n) == (n + 255) % 256
Inc(n) == (n + 1) % 256

VfOffline_Forget(v) ==
  /\ vf_count_online' = Dec(vf_count_online)
  /\ vf_info' = [i \in Slots |-> IF vf_info[i] = v THEN Invalid ELSE vf_info[i]]

\* xdev_sriov_vf_offline: the slot is kept during a reset of the PF, to tell
\* the function when the reset is done.
VfOffline(v) ==
  /\ vf_count_online' = Dec(vf_count_online)
  /\ vf_info' = [i \in Slots |-> IF vf_info[i] = v /\ pf_state = "IDLE" THEN Invalid ELSE vf_info[i]]

\* xdev_sriov_vf_online: counted in any case, and in the first free slot.
VfOnline(v) ==
  /\ vf_count_online' = Inc(vf_count_online)
  /\ LET free == {i \in Slots : vf_info[i] = Invalid}
     IN IF pf_state = "IDLE" /\ free # {} THEN vf_info' = [vf_info EXCEPT ![Min(free)] = v]
        ELSE UNCHANGED vf_info

\* The response is handed to the mailbox after the books are changed.
PfHello(v) ==
  /\ Head(toPf[v]) = Msg("HELLO")
  /\ entries' = entries \cup {v}
  /\ VfOnline(v)
  /\ pf_reply' = <<v, "HELLO">>
  /\ disturbed' = (disturbed \/ (vf_pc[v] = "hello" /\ pf_pc # "up"))
  /\ UNCHANGED pf_wait

PfBye(v) ==
  /\ Head(toPf[v]) \in {Msg("VF_BYE"), Msg("RESET_VF_BYE")}
  /\ entries' = entries \ {v}
  /\ VfOffline(v)
  /\ pf_reply' = IF Head(toPf[v]).op = "VF_BYE" THEN NoOp ELSE <<v, "RESET_VF_BYE">>
  /\ UNCHANGED <<pf_wait, disturbed>>

\* A response ends the wait for its operation, whichever function sent it.
PfResponse(v) ==
  /\ Head(toPf[v]).resp
  /\ pf_wait' = IF Head(toPf[v]).op = pf_wait THEN NoOp ELSE pf_wait
  /\ UNCHANGED <<pf, pf_reply, disturbed>>

PfRcv(v) ==
  /\ PfListens /\ pf_reply = NoOp /\ toPf[v] # <<>>
  /\ PfHello(v) \/ PfBye(v) \/ PfResponse(v)
  /\ toPf' = [toPf EXCEPT ![v] = Tail(@)]
  /\ UNCHANGED <<pf_state, ctl, vfs, toVf, bounds>>

PfReply ==
  /\ pf_reply # NoOp
  /\ toVf' = [toVf EXCEPT ![pf_reply[1]] = Append(@, Resp(pf_reply[2]))]
  /\ pf_reply' = NoOp
  /\ UNCHANGED <<pf, pf_state, ctl, pf_wait, vfs, toPf, bounds, disturbed>>

----------------------------------------------------------------------------
(* The PF's control thread.                                                *)

\* A response that is still under way is assumed to come in time: the mailbox
\* waits 10 seconds for it.
Lost(v, op) ==
  /\ PfListens => {Msg(op), Resp(op)} \cap Range(toPf[v]) = {}
  /\ VfListens(v) => {Msg(op), Resp(op)} \cap Range(toVf[v]) = {}
  /\ pf_reply # <<v, op>>
TimedOut == pf_wait # NoOp /\ \A v \in VF : Lost(v, pf_wait)

\* Send op to the function in slot i and wait for the response.
Tell(i, op) ==
  /\ pf_wait' = op
  /\ toVf' = IF vf_info[i] = Invalid THEN toVf
             ELSE [toVf EXCEPT ![vf_info[i]] = Append(@, Msg(op))]

\* qdma_pf_trigger_vf_reset, unless no function is online.
ResetPrepare ==
  /\ pf_pc = "up" /\ resets < MaxResets
  /\ resets' = resets + 1
  /\ pf_i' = 0 /\ pf_n' = vf_count_online
  /\ IF vf_count_online # 0
     THEN pf_state' = "PF_WAIT_FOR_BYES" /\ pf_pc' = "prepare"
     ELSE pf_state' = pf_state /\ pf_pc' = "down"
  /\ UNCHANGED <<pf, pf_wait, pf_reply, vfs, toVf, toPf, loads, disturbed>>

PrepareSend ==
  /\ pf_pc = "prepare" /\ pf_i < pf_n /\ pf_i < NumVf
  /\ Tell(pf_i + 1, "RESET_PREPARE")
  /\ pf_pc' = "ack"
  /\ UNCHANGED <<pf, pf_state, pf_i, pf_n, pf_reply, vfs, toPf, bounds, disturbed>>

PrepareAcked ==
  /\ pf_pc = "ack" /\ pf_wait = NoOp
  /\ pf_pc' = "bye"
  /\ UNCHANGED <<pf, pf_state, pf_i, pf_n, pf_wait, pf_reply, vfs, toVf, toPf, bounds, disturbed>>

ByeCame == vf_count_online = pf_n - pf_i - 1

ByeReceived ==
  /\ pf_pc = "bye" /\ ByeCame
  /\ pf_pc' = "prepare" /\ pf_i' = pf_i + 1
  /\ UNCHANGED <<pf, pf_state, pf_n, pf_wait, pf_reply, vfs, toVf, toPf, bounds, disturbed>>

\* No response, or no good bye, in time: the function is counted out.
ByeMissed ==
  /\ (pf_pc = "ack" /\ TimedOut) \/ (pf_pc = "bye" /\ ~ByeCame)
  /\ disturbed' = TRUE
  /\ pf_wait' = NoOp
  /\ vf_count_online' = IF ByeCame THEN vf_count_online ELSE Dec(vf_count_online)
  /\ pf_pc' = "prepare" /\ pf_i' = pf_i + 1
  /\ UNCHANGED <<vf_info, entries, pf_state, pf_n, pf_reply, vfs, toVf, toPf, bounds>>

\* All were told: the PF goes down.  (A slot beyond the table is undefined.)
PrepareEnd ==
  /\ pf_pc = "prepare" /\ (pf_i = pf_n \/ pf_i = NumVf)
  /\ pf_state' = "IDLE"
  /\ pf_pc' = "down"
  /\ UNCHANGED <<pf, pf_i, pf_n, pf_wait, pf_reply, vfs, toVf, toPf, bounds, disturbed>>

\* qdma_device_online: the mailbox discards what came in the meantime.
ResetDone ==
  /\ pf_pc = "down"
  /\ toPf' = [v \in VF |-> IF toPf[v] = <<>> THEN <<>> ELSE Tail(toPf[v])]
  /\ pf_pc' = "done" /\ pf_i' = 0
  /\ UNCHANGED <<pf, pf_state, pf_n, pf_wait, pf_reply, vfs, toVf, bounds, disturbed>>

DoneSend ==
  /\ pf_pc = "done" /\ pf_i < NumVf
  /\ pf_n' = vf_count_online
  /\ Tell(pf_i + 1, "RESET_DONE")
  /\ pf_pc' = "hello"
  /\ UNCHANGED <<pf, pf_state, pf_i, pf_reply, vfs, toPf, bounds, disturbed>>

HelloReceived ==
  /\ pf_pc = "hello" /\ pf_wait = NoOp /\ vf_count_online = pf_n + 1
  /\ pf_pc' = "done" /\ pf_i' = pf_i + 1
  /\ UNCHANGED <<pf, pf_state, pf_n, pf_wait, pf_reply, vfs, toVf, toPf, bounds, disturbed>>

\* A slot nobody is in cannot answer: waiting for it is no lapse of anybody.
HelloMissed ==
  /\ pf_pc = "hello" /\ (pf_wait = NoOp \/ TimedOut)
  /\ disturbed' = (disturbed \/ vf_info[pf_i + 1] # Invalid)
  /\ pf_wait' = NoOp
  /\ pf_pc' = "done" /\ pf_i' = pf_i + 1
  /\ UNCHANGED <<pf, pf_state, pf_n, pf_reply, vfs, toVf, toPf, bounds>>

DoneEnd ==
  /\ pf_pc = "done" /\ pf_i = NumVf
  /\ pf_pc' = "up"
  /\ UNCHANGED <<pf, pf_state, pf_i, pf_n, pf_wait, pf_reply, vfs, toVf, toPf, bounds, disturbed>>

\* Unloading the PF's driver: qdma_pf_trigger_vf_offline, xdev_sriov_disable.
PfUnload ==
  /\ pf_pc = "up"
  /\ pf_pc' = "offline" /\ pf_i' = 0 /\ pf_n' = vf_count_online
  /\ UNCHANGED <<pf, pf_state, pf_wait, pf_reply, vfs, toVf, toPf, bounds, disturbed>>

OfflineSend ==
  /\ pf_pc = "offline" /\ pf_i < pf_n /\ pf_i < NumVf
  /\ Tell(pf_i + 1, "PF_BYE")
  /\ pf_pc' = "parting"
  /\ UNCHANGED <<pf, pf_state, pf_i, pf_n, pf_reply, vfs, toPf, bounds, disturbed>>

Parted ==
  /\ pf_pc = "parting"
  /\ \/ pf_wait = NoOp /\ vf_info[pf_i + 1] = Invalid /\ UNCHANGED disturbed
     \/ (pf_wait = NoOp \/ TimedOut) /\ disturbed' = TRUE
  /\ pf_wait' = NoOp
  /\ pf_pc' = "offline" /\ pf_i' = pf_i + 1
  /\ UNCHANGED <<pf, pf_state, pf_n, pf_reply, vfs, toVf, toPf, bounds>>

PfOff ==
  /\ pf_pc = "offline" /\ (pf_i = pf_n \/ pf_i = NumVf)
  /\ pf_pc' = "off"
  /\ UNCHANGED <<pf, pf_state, pf_i, pf_n, pf_wait, pf_reply, vfs, toVf, toPf, bounds, disturbed>>

----------------------------------------------------------------------------
(* A VF's mailbox worker.                                                  *)

Announced_NotQueued(v, op) ==
  /\ toPf' = [toPf EXCEPT ![v] = Append(@, Resp(op))]
  /\ vf_state' = [vf_state EXCEPT ![v] =
       CASE op = "RESET_PREPARE" -> "RECV_PF_RESET_REQ"
         [] op = "RESET_DONE"    -> "RECV_PF_RESET_DONE"
         [] op = "PF_BYE"        -> "RECV_PF_OFFLINE_REQ"]
  /\ vf_work' = [vf_work EXCEPT ![v] = op = "PF_BYE"]

\* What the PF announces: the new reset_state, and is the reset work queued?
Announced(v, op) ==
  /\ toPf' = [toPf EXCEPT ![v] = Append(@, Resp(op))]
  /\ vf_state' = [vf_state EXCEPT ![v] =
       CASE op = "RESET_PREPARE" -> "RECV_PF_RESET_REQ"
         [] op = "RESET_DONE"    -> "RECV_PF_RESET_DONE"
         [] op = "PF_BYE"        -> "RECV_PF_OFFLINE_REQ"]
  /\ vf_work' = [vf_work EXCEPT ![v] = @ \/ op # "RESET_DONE"]

\* An announcement is dropped while a request of the function, once it is sent,
\* waits for its response.
VfRcv(v) ==
  /\ VfListens(v) /\ toVf[v] # <<>>
  /\ toVf' = [toVf EXCEPT ![v] = Tail(@)]
  /\ LET m == Head(toVf[v]) IN
     IF m.resp
     THEN /\ vf_wait' = [vf_wait EXCEPT ![v] = IF @ = m.op THEN NoOp ELSE @]
          /\ UNCHANGED <<toPf, vf_state, vf_work>>
     ELSE /\ \/ Announced(v, m.op)
             \/ vf_wait[v] # NoOp /\ UNCHANGED <<toPf, vf_state, vf_work>>
          /\ UNCHANGED vf_wait
  /\ UNCHANGED <<pf, pf_state, ctl, pf_wait, pf_reply, vf_pc, bounds, disturbed>>

----------------------------------------------------------------------------
(* A VF's driver thread and its reset work.                                *)

Send(v, op) == toPf' = [toPf EXCEPT ![v] = Append(@, Msg(op))]
Ask(v, op) == Send(v, op) /\ vf_wait' = [vf_wait EXCEPT ![v] = op]
Go(v, to) == vf_pc' = [vf_pc EXCEPT ![v] = to]
Discard(v) == toVf' = [toVf EXCEPT ![v] = IF @ = <<>> THEN @ ELSE Tail(@)]

\* Wait for the response: it came, or the wait timed out.
Answered(v) ==
  \/ vf_wait[v] = NoOp /\ UNCHANGED <<disturbed, vf_wait>>
  \/ vf_wait[v] # NoOp /\ Lost(v, vf_wait[v]) /\ disturbed' = TRUE /\ vf_wait' = [vf_wait EXCEPT ![v] = NoOp]

\* The driver is loaded: qdma_device_online says hello.
Load(v) ==
  /\ vf_pc[v] = "gone" /\ loads[v] < MaxLoads /\ pf_pc \notin {"offline", "parting", "off"}
  /\ loads' = [loads EXCEPT ![v] = @ + 1]
  /\ vf_state' = [vf_state EXCEPT ![v] = "IDLE"]
  /\ vf_work' = [vf_work EXCEPT ![v] = FALSE]
  /\ Discard(v)
  /\ Ask(v, "HELLO") /\ Go(v, "hello")
  /\ UNCHANGED <<pf, pf_state, ctl, pf_wait, pf_reply, resets, disturbed>>

Loaded(v) ==
  /\ vf_pc[v] = "hello" /\ Answered(v) /\ Go(v, "up")
  /\ UNCHANGED <<pf, pf_state, ctl, pf_wait, pf_reply, vf_state, vf_work, toVf, toPf, bounds>>

\* The driver is unloaded (bound: not in the middle of the reset work).
\* A function that is offline already says no bye.
Unload(v) ==
  /\ vf_pc[v] \in {"up", "dead", "parked"} /\ ~vf_work[v]
  /\ Go(v, "gone")
  /\ IF vf_pc[v] = "up" THEN Send(v, "VF_BYE") ELSE UNCHANGED toPf
  /\ UNCHANGED <<pf, pf_state, ctl, pf_wait, pf_reply, vf_state, vf_work, vf_wait, toVf, bounds, disturbed>>

\* xdev_reset_work, the branches by reset_state.
Work(v) ==
  /\ vf_pc[v] = "up" /\ vf_work[v]
  /\ vf_work' = [vf_work EXCEPT ![v] = FALSE]
  /\ Go(v, CASE vf_state[v] = "RECV_PF_RESET_REQ"   -> "offline"
             [] vf_state[v] = "RECV_PF_OFFLINE_REQ" -> "parting"
             [] OTHER -> "up")
  /\ UNCHANGED <<pf, pf_state, ctl, pf_wait, pf_reply, vf_state, vf_wait, toVf, toPf, bounds, disturbed>>

\* qdma_device_offline during a reset: the state is read again.
WorkBye(v) ==
  /\ vf_pc[v] = "offline"
  /\ IF vf_state[v] = "RECV_PF_RESET_REQ"
     THEN Ask(v, "RESET_VF_BYE") /\ Go(v, "bye")
     ELSE Send(v, "VF_BYE") /\ Go(v, "online") /\ UNCHANGED vf_wait
  /\ UNCHANGED <<pf, pf_state, ctl, pf_wait, pf_reply, vf_state, vf_work, toVf, bounds, disturbed>>

WorkByeAnswered(v) ==
  /\ vf_pc[v] = "bye" /\ Answered(v) /\ Go(v, "done")
  /\ UNCHANGED <<pf, pf_state, ctl, pf_wait, pf_reply, vf_state, vf_work, toVf, toPf, bounds>>

DoneCame(v) == vf_state[v] = "RECV_PF_RESET_DONE"

WorkDone_NoTimeout(v) ==
  /\ vf_pc[v] = "done" /\ DoneCame(v)
  /\ Go(v, "online")
  /\ UNCHANGED <<pf, pf_state, ctl, pf_wait, pf_reply, vf_state, vf_work, vf_wait, toVf, toPf,
                 bounds, disturbed>>

\* Wait for the PF to be back; without word from it the function is invalid.
WorkDone(v) ==
  /\ vf_pc[v] = "done"
  /\ Go(v, "online")
  /\ \/ DoneCame(v) /\ UNCHANGED <<vf_state, disturbed>>
     \/ ~DoneCame(v) /\ disturbed' = TRUE /\ vf_state' = [vf_state EXCEPT ![v] = "INVALID"]
  /\ UNCHANGED <<pf, pf_state, ctl, pf_wait, pf_reply, vf_work, vf_wait, toVf, toPf, bounds>>

\* qdma_device_online after the reset: hello again, with a new mailbox.
WorkOnline(v) ==
  /\ vf_pc[v] = "online"
  /\ IF vf_state[v] = "INVALID"
     THEN Go(v, "dead") /\ UNCHANGED <<toPf, toVf, vf_wait>>
     ELSE Discard(v) /\ Ask(v, "HELLO") /\ Go(v, "rehello")
  /\ UNCHANGED <<pf, pf_state, ctl, pf_wait, pf_reply, vf_state, vf_work, bounds, disturbed>>

WorkEnd(v) ==
  /\ vf_pc[v] = "rehello" /\ Answered(v) /\ Go(v, "up")
  /\ vf_state' = [vf_state EXCEPT ![v] = IF DoneCame(v) THEN "IDLE" ELSE @]
  /\ UNCHANGED <<pf, pf_state, ctl, pf_wait, pf_reply, vf_work, toVf, toPf, bounds>>

\* qdma_device_offline because the PF leaves.
WorkPark(v) ==
  /\ vf_pc[v] = "parting"
  /\ Send(v, "VF_BYE") /\ Go(v, "parked")
  /\ vf_state' = [vf_state EXCEPT ![v] =
       IF @ = "RECV_PF_OFFLINE_REQ" THEN "PF_OFFLINE_REQ_PROCESSING" ELSE @]
  /\ UNCHANGED <<pf, pf_state, ctl, pf_wait, pf_reply, vf_work, vf_wait, toVf, bounds, disturbed>>

PfStep ==
  \/ PrepareSend \/ PrepareAcked \/ ByeReceived \/ ByeMissed \/ PrepareEnd
  \/ ResetDone \/ DoneSend \/ HelloReceived \/ HelloMissed \/ DoneEnd
  \/ OfflineSend \/ Parted \/ PfOff
WorkStep(v) ==
  \/ Work(v) \/ WorkBye(v) \/ WorkByeAnswered(v) \/ WorkDone(v) \/ WorkOnline(v) \/ WorkEnd(v)
  \/ WorkPark(v)

Next ==
  \/ ResetPrepare \/ PfUnload \/ PfStep \/ PfReply
  \/ \E v \in VF : PfRcv(v) \/ VfRcv(v) \/ Load(v) \/ Loaded(v) \/ Unload(v) \/ WorkStep(v)

Spec == Init /\ [][Next]_vars
FairSpec ==
  /\ Spec
  /\ WF_vars(PfStep) /\ WF_vars(PfReply)
  /\ \A v \in VF : WF_vars(PfRcv(v)) /\ WF_vars(VfRcv(v)) /\ WF_vars(Loaded(v) \/ WorkStep(v))

----------------------------------------------------------------------------
(* Properties.                                                             *)

\* Every variable has its type.
TypeOK ==
  /\ vf_info \in [Slots -> VF \cup {Invalid}]
  /\ vf_count_online \in 0 .. 255 /\ entries \subseteq VF
  /\ pf_state \in {"IDLE", "PF_WAIT_FOR_BYES"}
  /\ pf_pc \in {"up", "prepare", "ack", "bye", "down", "done", "hello", "offline", "parting", "off"}
  /\ pf_i \in 0 .. NumVf /\ pf_n \in 0 .. 255
  /\ pf_wait \in {"RESET_PREPARE", "RESET_DONE", "PF_BYE", NoOp}
  /\ pf_reply \in (VF \X {"HELLO", "RESET_VF_BYE"}) \cup {NoOp}
  /\ vf_state \in [VF -> {"IDLE", "RECV_PF_RESET_REQ", "RECV_PF_RESET_DONE", "INVALID",
                          "RECV_PF_OFFLINE_REQ", "PF_OFFLINE_REQ_PROCESSING"}]
  /\ vf_pc \in [VF -> {"gone", "hello", "up", "offline", "bye", "done", "online", "rehello",
                       "dead", "parting", "parked"}]
  /\ vf_work \in [VF -> BOOLEAN]
  /\ vf_wait \in [VF -> {"HELLO", "RESET_VF_BYE", NoOp}]
  /\ \A v \in VF : Range(toVf[v]) \cup Range(toPf[v]) \subseteq [op : Ops, resp : BOOLEAN]

Calm ==
  /\ pf_pc = "up" /\ pf_reply = NoOp
  /\ \A v \in VF : toVf[v] = <<>> /\ toPf[v] = <<>> /\ ~vf_work[v] /\ vf_pc[v] \in {"gone", "up"}

Online == {v \in VF : vf_pc[v] = "up"}

\* Whenever things have settled and no reset was disturbed, what the PF keeps of
\* its functions is what they are: count, slots and entries.
BooksAgree ==
  (Calm /\ ~disturbed) =>
    /\ vf_count_online = Cardinality(Online)
    /\ entries = Online
    /\ Range(vf_info) \ {Invalid} = Online
    /\ \A v \in Online : vf_state[v] = "IDLE"

\* The PF goes down for its reset only when each function it found online has
\* given its queues back, if nothing disturbed it.
GoneBeforeReset ==
  (pf_pc = "down" /\ ~disturbed) => \A v \in entries : vf_pc[v] # "up"

\* A reset that was announced to a function is not forgotten by it.
AnnouncementServed ==
  \A v \in VF : vf_state[v] = "RECV_PF_RESET_REQ" =>
    vf_work[v] \/ vf_pc[v] \in {"offline", "bye", "done", "gone"}

\* When the PF is up again and has no more to say, no function is still waiting
\* for it in its reset work, if nothing disturbed it.
NobodyLeftWaiting ==
  (pf_pc = "up" /\ pf_reply = NoOp /\ ~disturbed) =>
    \A v \in VF : (toVf[v] = <<>> /\ toPf[v] = <<>> /\ vf_pc[v] # "hello") =>
      vf_pc[v] # "done" /\ vf_wait[v] = NoOp

\* A reset that no load, unload or timeout disturbs goes the way the handshake
\* is written: queues are given back before the PF goes down, and afterwards
\* the books are those of the functions and nobody waits
\* (qdma_device_prep_reset, pf_device_prep_reset, xdev_sriov_vf_reset_offline).
UndisturbedReset == BooksAgree /\ GoneBeforeReset /\ NobodyLeftWaiting

\* A reset of the PF ends, and every function that said good bye for it comes
\* back or is declared invalid.
ResetEnds ==
  /\ (pf_pc = "prepare") ~> (pf_pc = "up")
  /\ \A v \in VF : (vf_pc[v] = "bye") ~> (vf_pc[v] \in {"up", "dead", "gone"})
=============================================================================
