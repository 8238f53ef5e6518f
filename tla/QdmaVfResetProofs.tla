-------------------------- MODULE QdmaVfResetProofs --------------------------
(***************************************************************************)
(* Proofs about QdmaVfReset for every set of virtual functions.            *)
(***************************************************************************)
EXTENDS QdmaVfReset, SequenceTheorems, FiniteSetTheorems, WellFoundedInduction, TLAPS

Announcement == {Msg("RESET_PREPARE"), Msg("RESET_DONE"), Msg("PF_BYE")}
Request == {Msg("HELLO"), Msg("VF_BYE"), Msg("RESET_VF_BYE")}
Response == {Resp(op) : op \in Ops}

PfPcs == {"up", "prepare", "ack", "bye", "down", "done", "hello", "offline", "parting", "off"}
VfStates == {"IDLE", "RECV_PF_RESET_REQ", "RECV_PF_RESET_DONE", "INVALID",
             "RECV_PF_OFFLINE_REQ", "PF_OFFLINE_REQ_PROCESSING"}
VfPcs == {"gone", "hello", "up", "offline", "bye", "done", "online", "rehello",
          "dead", "parting", "parked"}

PfType ==
  /\ vf_info \in [Slots -> VF \cup {Invalid}]
  /\ vf_count_online \in 0 .. 255 /\ entries \subseteq VF
  /\ pf_state \in {"IDLE", "PF_WAIT_FOR_BYES"}
  /\ pf_wait \in {"RESET_PREPARE", "RESET_DONE", "PF_BYE", NoOp}
  /\ pf_reply \in (VF \X {"HELLO", "RESET_VF_BYE"}) \cup {NoOp}

\* The loops over the slots stay within the table.
LoopType ==
  /\ pf_pc \in PfPcs
  /\ pf_i \in 0 .. NumVf /\ pf_n \in 0 .. 255
  /\ pf_pc \in {"ack", "bye", "hello", "parting"} => pf_i < NumVf

VfType ==
  /\ vf_state \in [VF -> VfStates]
  /\ vf_pc \in [VF -> VfPcs]
  /\ vf_work \in [VF -> BOOLEAN]
  /\ vf_wait \in [VF -> {"HELLO", "RESET_VF_BYE", NoOp}]

\* A VF is sent announcements and responses, the PF requests and responses.
MsgType ==
  /\ toVf \in [VF -> Seq(Announcement \cup Response)]
  /\ toPf \in [VF -> Seq(Request \cup Response)]

IInv == PfType /\ LoopType /\ VfType /\ MsgType /\ AnnouncementServed

-----------------------------------------------------------------------------
LEMMA SlotCount == NumVf \in Nat
BY ConstAssumption, FS_CardinalityType DEF NumVf

LEMMA InitIInv == Init => IInv
<1> SUFFICES ASSUME Init PROVE IInv
  OBVIOUS
<1>1. PfType
  BY DEF Init, PfType
<1>2. LoopType
  BY SlotCount DEF Init, LoopType, PfPcs
<1>3. VfType /\ AnnouncementServed
  BY DEF Init, VfType, VfStates, VfPcs, AnnouncementServed
<1>4. MsgType
  BY DEF Init, MsgType
<1> QED BY <1>1, <1>2, <1>3, <1>4 DEF IInv

\* Heads and tails of the messages under way.
LEMMA Messages ==
  ASSUME MsgType, NEW v \in VF
  PROVE  /\ toVf[v] # <<>> => Head(toVf[v]) \in Announcement \cup Response
         /\ toPf[v] # <<>> => Head(toPf[v]) \in Request \cup Response
         /\ toVf[v] # <<>> => Tail(toVf[v]) \in Seq(Announcement \cup Response)
         /\ toPf[v] # <<>> => Tail(toPf[v]) \in Seq(Request \cup Response)
BY HeadTailProperties DEF MsgType

LEMMA Counting ==
  ASSUME NEW n \in 0 .. 255
  PROVE  Dec(n) \in 0 .. 255 /\ Inc(n) \in 0 .. 255
BY DEF Dec, Inc

\* A part of the state an action leaves alone keeps its type.
LEMMA Frame ==
  ASSUME IInv
  PROVE  /\ UNCHANGED <<pf, pf_state, pf_wait, pf_reply>> => PfType'
         /\ UNCHANGED ctl => LoopType'
         /\ UNCHANGED vfs => VfType' /\ AnnouncementServed'
         /\ UNCHANGED <<toVf, toPf>> => MsgType'
<1>1. UNCHANGED <<pf, pf_state, pf_wait, pf_reply>> => PfType'
  BY DEF IInv, PfType, pf
<1>2. UNCHANGED ctl => LoopType'
  BY DEF IInv, LoopType, ctl
<1>3. UNCHANGED vfs => VfType' /\ AnnouncementServed'
  BY DEF IInv, VfType, AnnouncementServed, vfs
<1>4. UNCHANGED <<toVf, toPf>> => MsgType'
  BY DEF IInv, MsgType
<1> QED BY <1>1, <1>2, <1>3, <1>4

-----------------------------------------------------------------------------
(* The PF *)

LEMMA PfRcvStep ==
  ASSUME IInv, NEW v \in VF, PfRcv(v)
  PROVE  IInv'
<1>1. /\ UNCHANGED <<pf_state, ctl, vfs, toVf>> /\ toPf[v] # <<>>
      /\ toPf' = [toPf EXCEPT ![v] = Tail(@)]
  BY DEF PfRcv
<1>2. MsgType'
  BY <1>1, Messages DEF IInv, MsgType
<1>3. PfType'
  <2>1. PfType
    BY DEF IInv
  <2>2. CASE PfHello(v)
    <3>1. vf_info' \in [Slots -> VF \cup {Invalid}]
      BY <2>1, <2>2 DEF PfHello, VfOnline, PfType
    <3>2. vf_count_online' \in 0 .. 255
      BY <2>1, <2>2, Counting DEF PfHello, VfOnline, PfType
    <3> QED BY <1>1, <2>1, <2>2, <3>1, <3>2 DEF PfHello, PfType
  <2>3. CASE PfBye(v)
    <3>1. vf_info' \in [Slots -> VF \cup {Invalid}]
      BY <2>1, <2>3 DEF PfBye, VfOffline, PfType
    <3>2. vf_count_online' \in 0 .. 255
      BY <2>1, <2>3, Counting DEF PfBye, VfOffline, PfType
    <3> QED BY <1>1, <2>1, <2>3, <3>1, <3>2 DEF PfBye, PfType
  <2>4. CASE PfResponse(v)
    BY <1>1, <2>1, <2>4 DEF PfResponse, PfType, pf
  <2> QED BY <2>2, <2>3, <2>4 DEF PfRcv
<1> QED BY <1>1, <1>2, <1>3, Frame DEF IInv

LEMMA PfReplyStep ==
  ASSUME IInv, PfReply
  PROVE  IInv'
<1>1. PfType'
  BY DEF IInv, PfType, PfReply, pf
<1>2. MsgType'
  <2>1. pf_reply[1] \in VF /\ pf_reply[2] \in Ops
    BY DEF IInv, PfType, PfReply, Ops
  <2>2. Resp(pf_reply[2]) \in Announcement \cup Response
    BY <2>1 DEF Response
  <2> QED BY <2>1, <2>2, AppendProperties DEF IInv, MsgType, PfReply
<1> QED BY <1>1, <1>2, Frame DEF PfReply, IInv

\* What the PF tells a slot is an announcement.
LEMMA TellStep ==
  ASSUME IInv, NEW i \in Slots, NEW op \in {"RESET_PREPARE", "RESET_DONE", "PF_BYE"},
         Tell(i, op), UNCHANGED <<pf, pf_state, pf_reply, toPf>>
  PROVE  PfType' /\ MsgType'
<1>1. PfType'
  BY DEF IInv, PfType, Tell, pf
<1>2. Msg(op) \in Announcement \cup Response
  BY DEF Announcement
<1>3. MsgType'
  BY <1>2, AppendProperties DEF IInv, MsgType, Tell
<1> QED BY <1>1, <1>3

LEMMA PfControlStep ==
  ASSUME IInv, ResetPrepare \/ PfUnload \/ PfStep
  PROVE  IInv'
<1> USE SlotCount
<1>1. UNCHANGED vfs
  BY DEF ResetPrepare, PfUnload, PfStep, PrepareSend, PrepareAcked, ByeReceived, ByeMissed,
         PrepareEnd, ResetDone, DoneSend, HelloReceived, HelloMissed, DoneEnd, OfflineSend,
         Parted, PfOff
<1>2. LoopType'
  <2> USE DEF IInv, LoopType, PfPcs
  <2>1. vf_count_online \in 0 .. 255
    BY DEF PfType
  <2>2. CASE ResetPrepare
    BY <2>1, <2>2 DEF ResetPrepare
  <2>3. CASE PfUnload
    BY <2>1, <2>3 DEF PfUnload
  <2>4. CASE PrepareSend \/ PrepareAcked \/ ByeReceived \/ ByeMissed \/ PrepareEnd
    BY <2>4 DEF PrepareSend, PrepareAcked, ByeReceived, ByeMissed, PrepareEnd
  <2>5. CASE ResetDone \/ DoneSend \/ HelloReceived \/ HelloMissed \/ DoneEnd
    <3>1. CASE ResetDone
      BY <3>1 DEF ResetDone
    <3>2. CASE DoneSend
      BY <2>1, <3>2 DEF DoneSend
    <3>3. CASE HelloReceived
      BY <3>3 DEF HelloReceived
    <3>4. CASE HelloMissed
      BY <3>4 DEF HelloMissed
    <3>5. CASE DoneEnd
      BY <3>5 DEF DoneEnd
    <3> QED BY <2>5, <3>1, <3>2, <3>3, <3>4, <3>5
  <2>6. CASE OfflineSend \/ Parted \/ PfOff
    BY <2>6 DEF OfflineSend, Parted, PfOff
  <2> QED BY <2>2, <2>3, <2>4, <2>5, <2>6 DEF PfStep
<1>3. PfType' /\ MsgType'
  <2>1. CASE PrepareSend \/ DoneSend \/ OfflineSend
    <3>1. pf_i + 1 \in Slots
      BY <2>1 DEF IInv, LoopType, PrepareSend, DoneSend, OfflineSend, Slots
    <3> QED BY <2>1, <3>1, TellStep DEF PrepareSend, DoneSend, OfflineSend
  <2>2. CASE ResetDone
    <3>1. toPf' \in [VF -> Seq(Request \cup Response)]
      <4>1. ASSUME NEW v \in VF, toPf[v] # <<>>
            PROVE  Tail(toPf[v]) \in Seq(Request \cup Response)
        BY <4>1, Messages DEF IInv
      <4> QED BY <2>2, <4>1 DEF ResetDone, IInv, MsgType
    <3> QED BY <2>2, <3>1, Frame DEF ResetDone, IInv, MsgType
  <2>3. CASE ByeMissed
    BY <2>3, Counting, Frame DEF ByeMissed, IInv, PfType
  <2>4. CASE ResetPrepare \/ PfUnload \/ PrepareAcked \/ ByeReceived \/ PrepareEnd
    BY <2>4, Frame DEF ResetPrepare, PfUnload, PrepareAcked, ByeReceived, PrepareEnd, IInv,
                       PfType, pf
  <2>5. CASE HelloReceived \/ HelloMissed \/ DoneEnd \/ Parted \/ PfOff
    BY <2>5, Frame DEF HelloReceived, HelloMissed, DoneEnd, Parted, PfOff, IInv, PfType, pf
  <2> QED BY <2>1, <2>2, <2>3, <2>4, <2>5 DEF PfStep
<1> QED BY <1>1, <1>2, <1>3, Frame DEF IInv

-----------------------------------------------------------------------------
(* The VFs *)

\* An announcement that is taken sets the state and queues the work; one that is
\* dropped, or a response, leaves both alone.
LEMMA VfRcvStep ==
  ASSUME IInv, NEW v \in VF, VfRcv(v)
  PROVE  IInv'
<1> DEFINE m == Head(toVf[v])
<1>1. UNCHANGED <<pf, pf_state, ctl, pf_wait, pf_reply, vf_pc>> /\ toVf[v] # <<>>
      /\ toVf' = [toVf EXCEPT ![v] = Tail(@)]
  BY DEF VfRcv
<1>2. m \in Announcement \cup Response
  BY <1>1, Messages DEF IInv
<1>3. toVf' \in [VF -> Seq(Announcement \cup Response)]
  BY <1>1, Messages DEF IInv, MsgType
<1>4. \/ m.resp /\ vf_wait' = [vf_wait EXCEPT ![v] = IF @ = m.op THEN NoOp ELSE @]
         /\ UNCHANGED <<toPf, vf_state, vf_work>>
      \/ ~m.resp /\ Announced(v, m.op) /\ UNCHANGED vf_wait
      \/ UNCHANGED <<toPf, vf_state, vf_work, vf_wait>>
  BY DEF VfRcv
<1>5. CASE UNCHANGED <<toPf, vf_state, vf_work>>
  <2>1. vf_wait' \in [VF -> {"HELLO", "RESET_VF_BYE", NoOp}]
    BY <1>4, <1>5 DEF IInv, VfType, Announced
  <2>2. VfType' /\ AnnouncementServed' /\ MsgType'
    BY <1>1, <1>3, <1>5, <2>1 DEF IInv, VfType, AnnouncementServed, MsgType
  <2> QED BY <1>1, <2>2, Frame DEF IInv
<1>6. CASE ~m.resp /\ Announced(v, m.op) /\ UNCHANGED vf_wait
  <2>1. m.op \in {"RESET_PREPARE", "RESET_DONE", "PF_BYE"}
    BY <1>2, <1>6 DEF Announcement, Response, Msg, Resp
  <2>2. toPf' \in [VF -> Seq(Request \cup Response)]
    <3>1. Resp(m.op) \in Request \cup Response
      BY <2>1 DEF Response, Ops
    <3> QED BY <1>6, <3>1, AppendProperties DEF Announced, IInv, MsgType
  <2>3. VfType'
    BY <1>1, <1>6, <2>1 DEF Announced, IInv, VfType, VfStates
  <2>4. AnnouncementServed'
    BY <1>1, <1>6, <2>1 DEF Announced, IInv, VfType, AnnouncementServed
  <2> QED BY <1>1, <1>3, <2>2, <2>3, <2>4, Frame DEF IInv, MsgType
<1> QED BY <1>4, <1>5, <1>6

LEMMA SendStep ==
  ASSUME MsgType, NEW v \in VF, NEW op \in {"HELLO", "VF_BYE", "RESET_VF_BYE"}, Send(v, op),
         UNCHANGED toVf \/ Discard(v)
  PROVE  MsgType'
<1>1. Msg(op) \in Request \cup Response
  BY DEF Request
<1>2. toPf' \in [VF -> Seq(Request \cup Response)]
  BY <1>1, AppendProperties DEF Send, MsgType
<1>3. toVf' \in [VF -> Seq(Announcement \cup Response)]
  BY Messages DEF Discard, MsgType
<1> QED BY <1>2, <1>3 DEF MsgType

\* The driver thread and the reset work: each step leaves the PF alone.
LEMMA VfStep ==
  ASSUME IInv, NEW v \in VF, Load(v) \/ Loaded(v) \/ Unload(v) \/ WorkStep(v)
  PROVE  IInv'
<1> USE DEF IInv, VfType, VfStates, VfPcs, AnnouncementServed, Go
<1>1. UNCHANGED <<pf, pf_state, ctl, pf_wait, pf_reply>>
  BY DEF Load, Loaded, Unload, WorkStep, Work, WorkBye, WorkByeAnswered, WorkDone, WorkOnline,
         WorkEnd, WorkPark
<1>2. MsgType'
  <2>1. CASE UNCHANGED <<toVf, toPf>>
    BY <2>1 DEF MsgType
  <2>2. CASE \E op \in {"HELLO", "VF_BYE", "RESET_VF_BYE"} :
                Send(v, op) /\ (UNCHANGED toVf \/ Discard(v))
    BY <2>2, SendStep
  <2> QED BY <2>1, <2>2 DEF Load, Loaded, Unload, WorkStep, Work, WorkBye, WorkByeAnswered,
                            WorkDone, WorkOnline, WorkEnd, WorkPark, Ask
<1>3. VfType' /\ AnnouncementServed'
  <2>1. CASE Load(v)
    BY <2>1 DEF Load, Ask
  <2>2. CASE Loaded(v)
    BY <2>2 DEF Loaded, Answered
  <2>3. CASE Unload(v)
    BY <2>3 DEF Unload
  <2>4. CASE Work(v)
    BY <2>4 DEF Work
  <2>5. CASE WorkBye(v)
    BY <2>5 DEF WorkBye, Ask
  <2>6. CASE WorkByeAnswered(v)
    BY <2>6 DEF WorkByeAnswered, Answered
  <2>7. CASE WorkDone(v)
    BY <2>7 DEF WorkDone, DoneCame
  <2>8. CASE WorkOnline(v)
    BY <2>8 DEF WorkOnline, Ask
  <2>9. CASE WorkEnd(v)
    BY <2>9 DEF WorkEnd, Answered, DoneCame
  <2>10. CASE WorkPark(v)
    BY <2>10 DEF WorkPark
  <2> QED BY <2>1, <2>2, <2>3, <2>4, <2>5, <2>6, <2>7, <2>8, <2>9, <2>10 DEF WorkStep
<1> QED BY <1>1, <1>2, <1>3, Frame

LEMMA NextIInv == IInv /\ [Next]_vars => IInv'
<1> SUFFICES ASSUME IInv, [Next]_vars PROVE IInv'
  OBVIOUS
<1>1. CASE UNCHANGED vars
  BY <1>1, Frame DEF vars, IInv
<1>2. CASE ResetPrepare \/ PfUnload \/ PfStep
  BY <1>2, PfControlStep
<1>3. CASE PfReply
  BY <1>3, PfReplyStep
<1>4. ASSUME NEW v \in VF, PfRcv(v) PROVE IInv'
  BY <1>4, PfRcvStep
<1>5. ASSUME NEW v \in VF, VfRcv(v) PROVE IInv'
  BY <1>5, VfRcvStep
<1>6. ASSUME NEW v \in VF, Load(v) \/ Loaded(v) \/ Unload(v) \/ WorkStep(v) PROVE IInv'
  BY <1>6, VfStep
<1> QED BY <1>1, <1>2, <1>3, <1>4, <1>5, <1>6 DEF Next

LEMMA Inductive == Spec => []IInv
BY InitIInv, NextIInv, PTL DEF Spec

\* The books of the PF, the loops over its table and the messages under way
\* keep their types: no loop runs past the table, whatever is counted.
THEOREM TypeCorrect == Spec => []TypeOK
<1>1. IInv => TypeOK
  <2> SUFFICES ASSUME IInv PROVE TypeOK
    OBVIOUS
  <2>1. ASSUME NEW v \in VF
        PROVE  Range(toVf[v]) \cup Range(toPf[v]) \subseteq [op : Ops, resp : BOOLEAN]
    <3>1. Announcement \cup Request \cup Response \subseteq [op : Ops, resp : BOOLEAN]
      <4>1. \A op \in Ops : Msg(op) \in [op : Ops, resp : BOOLEAN]
                          /\ Resp(op) \in [op : Ops, resp : BOOLEAN]
        BY DEF Msg, Resp
      <4>2. Announcement \cup Request \subseteq {Msg(op) : op \in Ops}
        BY DEF Announcement, Request, Ops
      <4> QED BY <4>1, <4>2 DEF Response
    <3>2. /\ \A i \in DOMAIN toVf[v] : toVf[v][i] \in Announcement \cup Response
          /\ \A i \in DOMAIN toPf[v] : toPf[v][i] \in Request \cup Response
      BY DEF IInv, MsgType
    <3> QED BY <3>1, <3>2 DEF Range
  <2> QED BY <2>1 DEF IInv, PfType, LoopType, VfType, PfPcs, VfPcs, VfStates, TypeOK
<1> QED BY <1>1, Inductive, PTL

\* A reset that was announced to a function, and taken by it, is not forgotten:
\* the reset work is queued, under way or over (qdma_mbox.c hands the message to
\* qdma_sriov.c, which queues xdev_reset_work).
THEOREM AnnouncementIsServed == Spec => []AnnouncementServed
<1>1. IInv => AnnouncementServed
  BY DEF IInv
<1> QED BY <1>1, Inductive, PTL


-----------------------------------------------------------------------------
(* A reset that nothing disturbs.  The rest of the module describes the states *)
(* in which no wait timed out, no function came in the middle of a reset and   *)
(* the PF's driver is not being unloaded, for drivers of functions that are    *)
(* loaded once: a function that comes back after a reset may find each slot    *)
(* taken, some by the second entry of another.                                 *)

LoadedOnce == MaxLoads <= 1 /\ NumVf <= 255

Live == ~disturbed /\ pf_pc \notin {"offline", "parting", "off"}
Resetting == pf_pc \in {"prepare", "ack", "bye"}
Returning == pf_pc \in {"done", "hello"}

Here(v) == vf_pc[v] # "gone"
Unknown(v) == loads[v] = 0

\* No message of the set S is in s, or m is the only one.
None(s, S) == \A i \in DOMAIN s : s[i] \notin S
Only(s, S, m) ==
  \E i \in DOMAIN s : s[i] = m /\ \A j \in DOMAIN s : j # i => s[j] \notin S

\* How far the call of a function is: the request, then its response.
NoReply(v) == \A op \in Ops : pf_reply # <<v, op>>
NoAnswer(v) == None(toVf[v], Response) /\ NoReply(v)
Settled(v) == vf_wait[v] = NoOp /\ NoAnswer(v)
Quiet(v) == None(toPf[v], Request)
Asks(v, op) == Only(toPf[v], Request, Msg(op))
Unheard(v, op) == vf_wait[v] = op /\ NoAnswer(v)
Answering(v, op) ==
  \/ vf_wait[v] = op /\ pf_reply = <<v, op>> /\ None(toVf[v], Response)
  \/ vf_wait[v] = op /\ NoReply(v) /\ Only(toVf[v], Response, Resp(op))
  \/ Settled(v)

\* What a function said and was answered, and whether the PF counts it.
CallOK(v) ==
  /\ vf_pc[v] \in {"gone", "hello", "up", "offline", "bye", "done", "online", "rehello"}
  /\ vf_pc[v] = "gone" =>
       Settled(v) /\ IF v \in entries THEN Asks(v, "VF_BYE") ELSE Quiet(v)
  /\ vf_pc[v] \in {"hello", "rehello"} =>
       IF v \in entries THEN Quiet(v) /\ Answering(v, "HELLO")
       ELSE /\ Unheard(v, "HELLO")
            /\ Asks(v, "HELLO") \/ (vf_pc[v] = "hello" /\ Quiet(v))
  /\ vf_pc[v] \in {"up", "offline"} => v \in entries /\ Quiet(v) /\ Settled(v)
  /\ vf_pc[v] = "bye" =>
       IF v \in entries THEN Unheard(v, "RESET_VF_BYE") /\ Asks(v, "RESET_VF_BYE")
       ELSE Quiet(v) /\ Answering(v, "RESET_VF_BYE")
  /\ vf_pc[v] \in {"done", "online"} => v \notin entries /\ Quiet(v) /\ Settled(v)

\* Nothing is under way to or from a function that was never loaded.
UnknownOK(v) ==
  Unknown(v) => /\ vf_pc[v] = "gone" /\ v \notin entries
                /\ toVf[v] = <<>> /\ toPf[v] = <<>>

\* An announcement is on its way to v, or its response on the way back.
Told(v) ==
  \/ Here(v) /\ ~None(toVf[v], Announcement)
  \/ ~None(toPf[v], Response)

\* It is the one the PF waits for, and a function that is told is the one whose
\* turn it is.
TellOK(v) ==
  Told(v) =>
    /\ pf_wait # NoOp
    /\ None(toPf[v], Response) \/ Only(toPf[v], Response, Resp(pf_wait))
    /\ Here(v) =>
         /\ vf_info[pf_i + 1] = v
         /\ None(toVf[v], Announcement) \/ Only(toVf[v], Announcement, Msg(pf_wait))
         /\ None(toPf[v], Response) \/ None(toVf[v], Announcement)


\* The functions that gave their queues back and have not said hello again.
Awaiting(v) ==
  vf_pc[v] \in {"bye", "done", "online"} \/ (vf_pc[v] = "rehello" /\ v \notin entries)

Turn(v) == pf_pc = "hello" /\ vf_info[pf_i + 1] = v

REQ == "RECV_PF_RESET_REQ"
DONE == "RECV_PF_RESET_DONE"

\* The state of a function fits what it does and what the PF does.
StateOK(v) ==
  Here(v) =>
    /\ vf_state[v] \in {"IDLE", REQ, DONE}
    /\ vf_pc[v] \in {"offline", "bye", "done", "rehello"} => vf_state[v] # "IDLE"
    /\ vf_pc[v] = "offline" => vf_state[v] = REQ
    /\ vf_pc[v] = "online" => vf_state[v] = DONE
    /\ v \in entries /\ (vf_state[v] = REQ \/ vf_pc[v] \in {"offline", "bye"}) => Resetting
    /\ vf_pc[v] = "hello" => /\ vf_state[v] # DONE
                             /\ v \in entries => pf_pc = "up" \/ Resetting
                             /\ v \notin entries => vf_state[v] = "IDLE"
    /\ vf_pc[v] = "up" /\ vf_state[v] = DONE => Turn(v)
    /\ Awaiting(v) => /\ pf_pc # "up"
                      /\ vf_pc[v] = "rehello" => vf_state[v] = DONE
                      /\ vf_state[v] = DONE => Turn(v) /\ None(toVf[v], Announcement)

\* A function that knows of the reset has a slot the PF has reached.
Reached == IF pf_pc \in {"ack", "bye"} THEN pf_i + 1 ELSE pf_i
Aware(v) == Here(v) /\ (Awaiting(v) \/ vf_pc[v] = "offline" \/ vf_state[v] = REQ)
AskedOK(v) ==
  (pf_pc = "down" \/ Resetting) /\ Aware(v) => \E j \in 1 .. Reached : vf_info[j] = v

\* While the PF waits for a hello, at most one more function is online than
\* when it sent its word, and none if this function is not, or was already.
TurnOK(v) ==
  Turn(v) /\ (\/ v \notin entries
              \/ Here(v) /\ ~None(toVf[v], Announcement)
              \/ vf_pc[v] = "up" /\ vf_state[v] = DONE)
    => vf_count_online <= pf_n

LocalOK(v) == CallOK(v) /\ UnknownOK(v) /\ TellOK(v) /\ StateOK(v) /\ AskedOK(v) /\ TurnOK(v)

WaitOK ==
  /\ pf_pc = "ack" => pf_wait \in {NoOp, "RESET_PREPARE"}
  /\ pf_pc = "hello" => pf_wait \in {NoOp, "RESET_DONE"}
  /\ pf_pc \notin {"ack", "hello"} => pf_wait = NoOp

\* One function at a time is told; a slot nobody is in gives no answer.
OneTold == \A v, u \in VF : Told(v) /\ Told(u) => v = u
HoleIsSilent ==
  pf_pc = "ack" /\ vf_info[pf_i + 1] = Invalid => pf_wait # NoOp /\ \A v \in VF : ~Told(v)

\* Functions that need a slot, and the slots there are for them.
Fresh == {v \in VF : Unknown(v) \/ (vf_pc[v] = "hello" /\ v \notin entries)}
InSlot(v) == \E i \in Slots : vf_info[i] = v
Vacant == {i \in Slots : vf_info[i] = Invalid}

SlotsOK ==
  /\ \A v \in Fresh : ~InSlot(v)
  /\ \A v \in entries : InSlot(v)
  /\ pf_state = IF Resetting THEN "PF_WAIT_FOR_BYES" ELSE "IDLE"
  /\ pf_pc = "up" => \A i \in Slots : vf_info[i] \in entries \cup {Invalid}
RoomOK == ~Returning => Cardinality(Fresh) <= Cardinality(Vacant)

CountOK ==
  /\ vf_count_online = Cardinality(entries)
  /\ Resetting => vf_count_online <= pf_n - pf_i /\ pf_n <= NumVf
  /\ pf_pc \in {"ack", "bye"} => pf_i < pf_n
  /\ pf_pc = "down" => entries = {}
  /\ pf_pc = "hello" => vf_count_online <= pf_n + 1

\* The slots the PF has been through in its preparations are taken.
Passed == IF pf_pc = "bye" THEN pf_i + 1 ELSE pf_i
PassedOK == pf_pc = "down" \/ Resetting => \A j \in 1 .. Passed : vf_info[j] # Invalid

\* The PF comes back: the slots it has been through belong to functions that
\* are online; those that still wait for it have a slot ahead up to n; and the
\* slots Z beyond, that were vacant at the reset, are vacant again.
Back(n, Z) ==
  /\ Cardinality(Fresh) <= Cardinality(Z)
  /\ \A v \in VF : Awaiting(v) => \E j \in pf_i + 1 .. n : vf_info[j] = v
  /\ \A j \in Z : /\ vf_info[j] \in entries \cup {Invalid}
                  /\ j <= pf_i => vf_info[j] = Invalid
  /\ pf_pc = "hello" /\ pf_i >= n => vf_count_online <= pf_n
BackOK ==
  Returning =>
    /\ \A j \in 1 .. pf_i : vf_info[j] \in entries \cup {Invalid}
    /\ \E n \in 0 .. NumVf : \E Z \in SUBSET (n + 1 .. NumVf) : Back(n, Z)

LoadsOK == loads \in [VF -> {0, 1}]
GlobalOK == LoadsOK /\ WaitOK /\ OneTold /\ HoleIsSilent /\ SlotsOK /\ RoomOK /\ CountOK /\ PassedOK /\ BackOK

\* The inductive invariant.
UInv == IInv /\ (Live => (\A v \in VF : LocalOK(v)) /\ GlobalOK)

-----------------------------------------------------------------------------
(* Messages.                                                               *)

LEMMA NoneEmpty == ASSUME NEW S PROVE None(<<>>, S)
BY DEF None

LEMMA OnlyIsThere ==
  ASSUME NEW s, NEW S, NEW m \in S, Only(s, S, m)
  PROVE  ~None(s, S) /\ s # <<>> /\ m \in Range(s)
<1>1. PICK i \in DOMAIN s : s[i] = m
  BY DEF Only
<1> QED BY <1>1 DEF None, Range

\* A message is added.
LEMMA AddOther ==
  ASSUME NEW M, NEW s \in Seq(M), NEW m, NEW S, m \notin S
  PROVE  /\ None(s, S) => None(Append(s, m), S)
         /\ \A x : Only(s, S, x) => Only(Append(s, m), S, x)
<1> DEFINE t == Append(s, m)
<1>1. /\ DOMAIN s = 1 .. Len(s) /\ Len(s) \in Nat /\ DOMAIN t = 1 .. Len(s) + 1
      /\ \A i \in 1 .. Len(s) : t[i] = s[i]
      /\ t[Len(s) + 1] = m
  OBVIOUS
<1>2. \A i \in DOMAIN t : (i \in DOMAIN s /\ t[i] = s[i]) \/ t[i] = m
  BY <1>1
<1>3. \A i \in DOMAIN s : i \in DOMAIN t /\ t[i] = s[i]
  BY <1>1
<1> HIDE DEF t
<1>4. None(s, S) => None(t, S)
  BY <1>2 DEF None
<1>5. ASSUME NEW x, Only(s, S, x) PROVE Only(t, S, x)
  <2>1. PICK i \in DOMAIN s : s[i] = x /\ \A j \in DOMAIN s : j # i => s[j] \notin S
    BY <1>5 DEF Only
  <2>2. i \in DOMAIN t /\ t[i] = x /\ \A j \in DOMAIN t : j # i => t[j] \notin S
    BY <1>2, <1>3, <2>1
  <2> QED BY <2>2 DEF Only
<1> QED BY <1>4, <1>5 DEF t

LEMMA AddFirst ==
  ASSUME NEW M, NEW s \in Seq(M), NEW m, NEW S, None(s, S)
  PROVE  Only(Append(s, m), S, m)
<1> DEFINE t == Append(s, m)
           k == Len(s) + 1
<1>1. /\ DOMAIN s = 1 .. Len(s) /\ Len(s) \in Nat /\ DOMAIN t = 1 .. k
      /\ \A i \in 1 .. Len(s) : t[i] = s[i]
      /\ t[k] = m
  OBVIOUS
<1>2. \A i \in DOMAIN t : i # k => i \in DOMAIN s /\ t[i] = s[i]
  BY <1>1
<1>3. k \in DOMAIN t
  BY <1>1
<1> HIDE DEF t, k
<1>4. \A j \in DOMAIN t : j # k => t[j] \notin S
  BY <1>2 DEF None
<1> QED BY <1>1, <1>3, <1>4 DEF Only, t

\* The first message is taken.
LEMMA TakeFirst ==
  ASSUME NEW M, NEW s \in Seq(M), NEW S, s # <<>>
  PROVE  /\ None(s, S) => None(Tail(s), S) /\ Head(s) \notin S
         /\ \A m \in S : Only(s, S, m) =>
              IF Head(s) \in S THEN Head(s) = m /\ None(Tail(s), S) ELSE Only(Tail(s), S, m)
<1> DEFINE t == Tail(s)
<1>1. /\ DOMAIN s = 1 .. Len(s) /\ Len(s) \in Nat /\ Len(s) >= 1
      /\ DOMAIN t = 1 .. Len(s) - 1
      /\ \A i \in 1 .. Len(s) - 1 : t[i] = s[i + 1]
      /\ Head(s) = s[1]
  OBVIOUS
<1>2. \A i \in DOMAIN t : i + 1 \in DOMAIN s /\ i + 1 # 1 /\ t[i] = s[i + 1] /\ i \in Nat
  BY <1>1
<1>3. 1 \in DOMAIN s /\ \A i \in DOMAIN s : i # 1 => i - 1 \in DOMAIN t /\ t[i - 1] = s[i]
  BY <1>1
<1>4. None(s, S) => None(t, S) /\ Head(s) \notin S
  BY <1>1, <1>2, <1>3 DEF None
<1>5. ASSUME NEW m \in S, Only(s, S, m)
      PROVE  IF Head(s) \in S THEN Head(s) = m /\ None(t, S) ELSE Only(t, S, m)
  <2>1. PICK i \in DOMAIN s : s[i] = m /\ \A j \in DOMAIN s : j # i => s[j] \notin S
    BY <1>5 DEF Only
  <2>2. CASE i = 1
    <3>1. Head(s) = m
      BY <1>1, <2>1, <2>2
    <3>2. None(t, S)
      BY <1>2, <2>1, <2>2 DEF None
    <3> QED BY <3>1, <3>2
  <2>3. CASE i # 1
    <3>1. Head(s) \notin S
      BY <1>1, <1>3, <2>1, <2>3
    <3>2. i - 1 \in DOMAIN t /\ t[i - 1] = m
      BY <1>3, <2>1, <2>3
    <3>3. ASSUME NEW j \in DOMAIN t, j # i - 1 PROVE t[j] \notin S
      <4>1. j + 1 \in DOMAIN s /\ t[j] = s[j + 1] /\ j + 1 # i
        BY <1>1, <1>2, <3>3
      <4> QED BY <2>1, <4>1
    <3> QED BY <3>1, <3>2, <3>3 DEF Only
  <2> QED BY <2>2, <2>3
<1> QED BY <1>4, <1>5 DEF t

\* What kind of message each is.
LEMMA Kinds ==
  /\ Msg("HELLO") \in Request /\ Msg("VF_BYE") \in Request /\ Msg("RESET_VF_BYE") \in Request
  /\ Msg("RESET_PREPARE") \in Announcement /\ Msg("RESET_DONE") \in Announcement
  /\ \A op \in Ops : Resp(op) \in Response /\ Resp(op) \notin Request /\ Resp(op) \notin Announcement
  /\ \A m \in Response : m.resp /\ m \notin Request /\ m \notin Announcement
  /\ \A m \in Request : ~m.resp /\ m \notin Response
  /\ \A m \in Announcement : ~m.resp /\ m \notin Response
<1>1. \A op : Msg(op).resp = FALSE /\ Resp(op).resp = TRUE /\ Msg(op).op = op /\ Resp(op).op = op
  BY DEF Msg, Resp
<1>2. \A m \in Response : m.resp = TRUE
  BY <1>1 DEF Response
<1>3. \A m \in Request : m.resp = FALSE
  BY <1>1 DEF Request
<1>4. \A m \in Announcement : m.resp = FALSE
  BY <1>1 DEF Announcement
<1>5. \A op \in Ops : Resp(op) \in Response
  BY DEF Response
<1>6. \A m \in Response : m.resp /\ m \notin Request /\ m \notin Announcement
  BY <1>2, <1>3, <1>4
<1> QED BY <1>2, <1>3, <1>4, <1>5, <1>6 DEF Request, Announcement

LEMMA OpOf ==
  /\ \A a, b : Msg(a) = Msg(b) => a = b
  /\ \A a, b : Resp(a) = Resp(b) => a = b
  /\ \A a : Msg(a).op = a /\ Resp(a).op = a
  /\ \A m \in Request : m.op \in {"HELLO", "VF_BYE", "RESET_VF_BYE"} /\ m = Msg(m.op)
  /\ \A m \in Announcement : m.op \in {"RESET_PREPARE", "RESET_DONE", "PF_BYE"} /\ m = Msg(m.op)
  /\ \A m \in Response : m.op \in Ops /\ m = Resp(m.op)
<1>1. \A a : Msg(a).op = a /\ Resp(a).op = a
  BY DEF Msg, Resp
<1>2. \A m \in Request : m.op \in {"HELLO", "VF_BYE", "RESET_VF_BYE"} /\ m = Msg(m.op)
  BY <1>1 DEF Request
<1>3. \A m \in Announcement : m.op \in {"RESET_PREPARE", "RESET_DONE", "PF_BYE"} /\ m = Msg(m.op)
  BY <1>1 DEF Announcement
<1>4. \A m \in Response : m.op \in Ops /\ m = Resp(m.op)
  BY <1>1 DEF Response
<1>5. \A a, b : Msg(a) = Msg(b) => a = b
  BY <1>1
<1>6. \A a, b : Resp(a) = Resp(b) => a = b
  BY <1>1
<1> QED BY <1>1, <1>2, <1>3, <1>4, <1>5, <1>6


-----------------------------------------------------------------------------
(* What an action leaves alone.                                            *)

\* Nothing makes up for a disturbance, and the driver that leaves is gone.
LEMMA WasLive ==
  ASSUME [Next]_vars, Live'
  PROVE  Live
<1> USE DEF Live
<1>1. CASE UNCHANGED vars
  BY <1>1 DEF vars, ctl
<1>2. CASE ResetPrepare \/ PfUnload
  BY <1>2 DEF ResetPrepare, PfUnload
<1>3. CASE PfStep
  <2>1. CASE PrepareSend \/ PrepareAcked \/ ByeReceived \/ ByeMissed \/ PrepareEnd
    BY <2>1 DEF PrepareSend, PrepareAcked, ByeReceived, ByeMissed, PrepareEnd
  <2>2. CASE ResetDone \/ DoneSend \/ HelloReceived \/ DoneEnd
    BY <2>2 DEF ResetDone, DoneSend, HelloReceived, DoneEnd
  <2>3. CASE HelloMissed
    <3>1. disturbed' = (disturbed \/ vf_info[pf_i + 1] # Invalid) /\ pf_pc = "hello"
      BY <2>3 DEF HelloMissed
    <3> QED BY <3>1
  <2>4. CASE OfflineSend \/ Parted \/ PfOff
    BY <2>4 DEF OfflineSend, Parted, PfOff
  <2> QED BY <1>3, <2>1, <2>2, <2>3, <2>4 DEF PfStep
<1>4. CASE PfReply
  BY <1>4 DEF PfReply, ctl
<1>5. ASSUME NEW v \in VF, PfRcv(v) PROVE Live
  <2>1. pf_pc' = pf_pc
    BY <1>5 DEF PfRcv, ctl
  <2>2. CASE PfHello(v)
    <3>1. disturbed' = (disturbed \/ (vf_pc[v] = "hello" /\ pf_pc # "up"))
      BY <2>2 DEF PfHello
    <3> QED BY <2>1, <3>1
  <2>3. CASE PfBye(v) \/ PfResponse(v)
    BY <2>1, <2>3 DEF PfBye, PfResponse
  <2> QED BY <1>5, <2>2, <2>3 DEF PfRcv
<1>6. ASSUME NEW v \in VF, VfRcv(v) \/ Load(v) \/ Loaded(v) \/ Unload(v) PROVE Live
  <2>1. CASE Load(v)
    BY <2>1 DEF Load, ctl
  <2>2. CASE Loaded(v)
    BY <2>2 DEF Loaded, Answered, ctl
  <2> QED BY <1>6, <2>1, <2>2 DEF VfRcv, Unload, ctl
<1>7. ASSUME NEW v \in VF, WorkStep(v) PROVE Live
  BY <1>7 DEF WorkStep, Work, WorkBye, WorkByeAnswered, WorkDone, WorkOnline, WorkEnd, WorkPark,
              Answered, ctl
<1> QED BY <1>1, <1>2, <1>3, <1>4, <1>5, <1>6, <1>7 DEF Next

\* Function u takes no part in the step.
Apart(u) ==
  /\ vf_pc'[u] = vf_pc[u] /\ vf_wait'[u] = vf_wait[u] /\ vf_state'[u] = vf_state[u]
  /\ loads'[u] = loads[u] /\ toPf'[u] = toPf[u] /\ toVf'[u] = toVf[u]

LEMMA ApartLocal ==
  ASSUME IInv, WaitOK, NEW u \in VF, LocalOK(u), Apart(u), u \in entries' <=> u \in entries,
         pf_reply' = pf_reply \/ (NoReply(u) /\ NoReply(u)'),
         UNCHANGED ctl, \A i \in Slots : vf_info'[i] = u <=> vf_info[i] = u,
         pf_wait' = pf_wait \/ ~Told(u),
         vf_count_online' <= vf_count_online \/ ~Turn(u),
         vf_count_online' \in 0 .. 255
  PROVE  LocalOK(u)'
<1>1. /\ pf_pc' = pf_pc /\ pf_i' = pf_i /\ pf_n' = pf_n
      /\ Here(u)' <=> Here(u)
      /\ Told(u)' <=> Told(u)
      /\ Awaiting(u)' <=> Awaiting(u)
      /\ Resetting' <=> Resetting
  BY DEF Apart, ctl, Here, Told, Awaiting, Resetting
<1>2. /\ pf_pc \in {"ack", "bye", "hello"} => pf_i + 1 \in Slots
      /\ Turn(u)' <=> Turn(u)
  <2>1. pf_pc \in {"ack", "bye", "hello"} => pf_i + 1 \in Slots
    BY SlotCount DEF IInv, LoopType, Slots
  <2> QED BY <1>1, <2>1 DEF Turn
<1>3. CallOK(u)'
  <2>1. CallOK(u)
    BY DEF LocalOK
  <2>2. /\ vf_pc'[u] = vf_pc[u] /\ vf_wait'[u] = vf_wait[u]
        /\ toVf'[u] = toVf[u] /\ toPf'[u] = toPf[u]
    BY DEF Apart
  <2>3. NoReply(u)' <=> NoReply(u)
    BY DEF NoReply
  <2>4. Quiet(u)' <=> Quiet(u)
    BY <2>2 DEF Quiet
  <2>5. \A op : Asks(u, op)' <=> Asks(u, op)
    BY <2>2 DEF Asks
  <2>6. NoAnswer(u)' <=> NoAnswer(u)
    BY <2>2, <2>3 DEF NoAnswer
  <2>7. \A op : Unheard(u, op)' <=> Unheard(u, op)
    BY <2>2, <2>6 DEF Unheard
  <2>8. Settled(u)' <=> Settled(u)
    BY <2>2, <2>6 DEF Settled
  <2>9. ASSUME NEW op \in Ops PROVE Answering(u, op)' <=> Answering(u, op)
    <3>1. pf_reply' = <<u, op>> <=> pf_reply = <<u, op>>
      BY DEF NoReply
    <3> QED BY <2>2, <2>3, <2>8, <3>1 DEF Answering
  <2>10. "HELLO" \in Ops /\ "RESET_VF_BYE" \in Ops
    BY DEF Ops
  <2> HIDE DEF Ops
  <2> QED BY <2>1, <2>2, <2>4, <2>5, <2>7, <2>8, <2>9, <2>10 DEF CallOK
<1>4. UnknownOK(u)'
  BY DEF LocalOK, UnknownOK, Unknown, Apart
<1>5. TellOK(u)'
  <2>1. TellOK(u) /\ (Told(u) => pf_wait' = pf_wait)
    BY DEF LocalOK
  <2>2. Told(u) => pf_pc \in {"ack", "hello"}
    BY <2>1 DEF TellOK, WaitOK
  <2>3. Told(u) => (vf_info'[pf_i' + 1] = u <=> vf_info[pf_i + 1] = u)
    BY <1>2, <1>1, <2>2
  <2> QED BY <1>1, <2>1, <2>3 DEF TellOK, Apart
<1>6. StateOK(u)'
  BY <1>2, <1>1 DEF LocalOK, StateOK, Apart
<1>7. AskedOK(u)'
  <2>1. AskedOK(u) /\ (Aware(u)' <=> Aware(u)) /\ Reached' = Reached
    BY <1>1 DEF LocalOK, Aware, Reached, Apart
  <2>2. 1 .. Reached \subseteq Slots
    BY SlotCount DEF IInv, LoopType, Reached, Slots
  <2> QED BY <1>1, <2>1, <2>2 DEF AskedOK
<1>8. TurnOK(u)'
  <2>1. vf_count_online \in 0 .. 255 /\ pf_n \in 0 .. 255
    BY DEF IInv, PfType, LoopType
  <2>2. TurnOK(u)
    BY DEF LocalOK
  <2>3. vf_pc'[u] = vf_pc[u] /\ vf_state'[u] = vf_state[u] /\ toVf'[u] = toVf[u]
    BY DEF Apart
  <2>4. CASE Turn(u)
    <3>1. vf_count_online' <= vf_count_online
      BY <2>4
    <3>2. vf_count_online <= pf_n => vf_count_online' <= pf_n'
      <4> DEFINE c == vf_count_online
                 d == vf_count_online'
                 n == pf_n
      <4>1. c \in Int /\ d \in Int /\ n \in Int /\ d <= c /\ pf_n' = n
        BY <1>1, <2>1, <3>1
      <4> HIDE DEF c, d, n
      <4>2. c <= n => d <= n
        BY <4>1
      <4> QED BY <4>1, <4>2 DEF c, d, n
    <3> QED BY <1>2, <1>1, <2>2, <2>3, <2>4, <3>2 DEF TurnOK
  <2>5. CASE ~Turn(u)
    BY <1>2, <1>1, <2>5 DEF TurnOK
  <2> QED BY <2>4, <2>5
<1> QED BY <1>3, <1>4, <1>5, <1>6, <1>7, <1>8 DEF LocalOK

LEMMA FiniteVf ==
  /\ IsFiniteSet(VF) /\ NumVf \in Nat
  /\ \A S : S \subseteq VF => IsFiniteSet(S) /\ Cardinality(S) \in Nat /\ Cardinality(S) <= NumVf
  /\ \A S : S \subseteq Slots => IsFiniteSet(S) /\ Cardinality(S) \in Nat
<1>1. IsFiniteSet(VF) /\ NumVf \in Nat
  BY ConstAssumption, SlotCount
<1>2. IsFiniteSet(Slots)
  BY <1>1, FS_Interval DEF Slots
<1>3. ASSUME NEW S, S \subseteq VF
      PROVE  IsFiniteSet(S) /\ Cardinality(S) \in Nat /\ Cardinality(S) <= NumVf
  BY <1>1, <1>3, FS_Subset, FS_CardinalityType DEF NumVf
<1>4. ASSUME NEW S, S \subseteq Slots PROVE IsFiniteSet(S) /\ Cardinality(S) \in Nat
  BY <1>2, <1>4, FS_Subset, FS_CardinalityType
<1> QED BY <1>1, <1>3, <1>4

\* A step that changes nothing the PF keeps.
LEMMA BooksKept ==
  ASSUME GlobalOK, UNCHANGED <<pf, pf_state, ctl>>,
         \A u \in VF : (Told(u)' => Told(u)) /\ (Awaiting(u)' => Awaiting(u) \/ ~Returning),
         Fresh' = Fresh, LoadsOK', WaitOK', HoleIsSilent'
  PROVE  GlobalOK'
<1>1. /\ pf_pc' = pf_pc /\ pf_i' = pf_i /\ pf_n' = pf_n /\ vf_info' = vf_info
      /\ entries' = entries /\ vf_count_online' = vf_count_online
  BY DEF pf, ctl
<1>2. OneTold'
  BY DEF GlobalOK, OneTold
<1>3. SlotsOK'
  BY <1>1 DEF GlobalOK, SlotsOK, InSlot, Resetting
<1>4. RoomOK'
  BY <1>1 DEF GlobalOK, RoomOK, Vacant, Returning
<1>5. CountOK' /\ PassedOK'
  BY <1>1 DEF GlobalOK, CountOK, PassedOK, Passed, Resetting
<1>6. BackOK'
  <2> SUFFICES ASSUME Returning' PROVE BackOK'
    BY DEF BackOK
  <2>1. Returning
    BY <1>1 DEF Returning
  <2>2. PICK n \in 0 .. NumVf : \E Z \in SUBSET (n + 1 .. NumVf) : Back(n, Z)
    BY <2>1 DEF GlobalOK, BackOK
  <2>3. PICK Z \in SUBSET (n + 1 .. NumVf) : Back(n, Z)
    BY <2>2
  <2>4. Back(n, Z)'
    BY <1>1, <2>1, <2>3 DEF Back
  <2>5. \A j \in 1 .. pf_i' : vf_info'[j] \in entries' \cup {Invalid}
    BY <1>1, <2>1 DEF GlobalOK, BackOK
  <2> QED BY <2>4, <2>5 DEF BackOK
<1> QED BY <1>2, <1>3, <1>4, <1>5, <1>6 DEF GlobalOK

\* A step of function v.
LEMMA VfGlobal ==
  ASSUME GlobalOK, NEW v \in VF, UNCHANGED <<pf, pf_state, ctl, pf_wait>>,
         \A u \in VF : u # v => Apart(u),
         Told(v)' => Told(v), Unknown(v)' \/ (vf_pc'[v] = "hello" /\ v \notin entries) <=> v \in Fresh,
         Awaiting(v)' => Awaiting(v) \/ ~Returning, LoadsOK'
  PROVE  GlobalOK'
<1>1. /\ pf_pc' = pf_pc /\ pf_i' = pf_i /\ vf_info' = vf_info /\ entries' = entries
  BY DEF pf, ctl
<1>2. \A u \in VF : (Told(u)' => Told(u)) /\ (Awaiting(u)' => Awaiting(u) \/ ~Returning)
  <2>1. ASSUME NEW u \in VF, u # v
        PROVE  (Told(u)' => Told(u)) /\ (Awaiting(u)' => Awaiting(u) \/ ~Returning)
    BY <1>1, <2>1 DEF Apart, Told, Awaiting, Here
  <2> QED BY <2>1
<1>3. Fresh' = Fresh
  <2>1. ASSUME NEW u \in VF PROVE u \in Fresh' <=> u \in Fresh
    <3>1. CASE u = v
      BY <1>1, <3>1 DEF Fresh
    <3>2. CASE u # v
      BY <1>1, <3>2 DEF Fresh, Apart, Unknown
    <3> QED BY <3>1, <3>2
  <2>2. Fresh \subseteq VF /\ Fresh' \subseteq VF
    BY DEF Fresh
  <2> QED BY <2>1, <2>2
<1>4. WaitOK' /\ HoleIsSilent'
  BY <1>1, <1>2 DEF GlobalOK, WaitOK, HoleIsSilent
<1> QED BY <1>2, <1>3, <1>4, BooksKept

\* Together: what is left to show of a function's own step.
LEMMA VfLocalStep ==
  ASSUME IInv, GlobalOK, \A u \in VF : LocalOK(u),
         NEW v \in VF, UNCHANGED <<pf, pf_state, ctl, pf_wait, pf_reply>>,
         \A u \in VF : u # v => Apart(u),
         Told(v)' => Told(v), Unknown(v)' \/ (vf_pc'[v] = "hello" /\ v \notin entries) <=> v \in Fresh,
         Awaiting(v)' => Awaiting(v) \/ ~Returning, LoadsOK',
         LocalOK(v)'
  PROVE  (\A u \in VF : LocalOK(u)') /\ GlobalOK'
<1>1. GlobalOK'
  BY VfGlobal
<1>2. ASSUME NEW u \in VF, u # v PROVE LocalOK(u)'
  <2>1. /\ Apart(u) /\ (u \in entries' <=> u \in entries) /\ pf_reply' = pf_reply
        /\ \A i \in Slots : vf_info'[i] = u <=> vf_info[i] = u
        /\ pf_wait' = pf_wait
    BY <1>2 DEF pf
  <2>2. vf_count_online' <= vf_count_online /\ vf_count_online' \in 0 .. 255
    BY DEF pf, IInv, PfType
  <2> QED BY <2>1, <2>2, ApartLocal DEF GlobalOK
<1> QED BY <1>1, <1>2


-----------------------------------------------------------------------------
(* The driver thread and the reset work of a function.                      *)

\* A request is sent: the function asks, and its responses are as before.
LEMMA Sent ==
  ASSUME IInv, NEW v \in VF, NEW op \in {"HELLO", "VF_BYE", "RESET_VF_BYE"},
         toPf'[v] = Append(toPf[v], Msg(op))
  PROVE  /\ Quiet(v) => Asks(v, op)'
         /\ None(toPf[v], Response) => None(toPf'[v], Response)
         /\ \A m : Only(toPf[v], Response, m) => Only(toPf'[v], Response, m)
<1>1. toPf[v] \in Seq(Request \cup Response)
  BY DEF IInv, MsgType
<1>2. Msg(op) \notin Response
  BY Kinds
<1>3. Quiet(v) => Asks(v, op)'
  BY <1>1, AddFirst DEF Quiet, Asks
<1> QED BY <1>1, <1>2, <1>3, AddOther

\* The call of a function stays as it was when only its own place changes.
LEMMA SameCalls ==
  ASSUME NEW v \in VF, vf_wait'[v] = vf_wait[v], toVf'[v] = toVf[v], pf_reply' = pf_reply
  PROVE  /\ NoAnswer(v)' <=> NoAnswer(v)
         /\ Settled(v)' <=> Settled(v)
         /\ \A op : (Unheard(v, op)' <=> Unheard(v, op)) /\ (Answering(v, op)' <=> Answering(v, op))
<1>1. NoReply(v)' <=> NoReply(v)
  BY DEF NoReply
<1>2. NoAnswer(v)' <=> NoAnswer(v)
  BY <1>1 DEF NoAnswer
<1>3. Settled(v)' <=> Settled(v)
  BY <1>2 DEF Settled
<1> QED BY <1>1, <1>2, <1>3 DEF Unheard, Answering

LEMMA UnloadLive ==
  ASSUME IInv, GlobalOK, \A u \in VF : LocalOK(u), NEW v \in VF, Unload(v)
  PROVE  (\A u \in VF : LocalOK(u)') /\ GlobalOK'
<1>1. /\ CallOK(v) /\ UnknownOK(v) /\ TellOK(v)
      /\ UNCHANGED <<pf, pf_state, ctl, pf_wait, pf_reply, vf_state, vf_work, vf_wait, toVf, loads>>
      /\ vf_pc' = [vf_pc EXCEPT ![v] = "gone"]
  BY DEF LocalOK, Unload, Go, bounds
<1>2. vf_pc[v] = "up" /\ toPf' = [toPf EXCEPT ![v] = Append(@, Msg("VF_BYE"))]
  BY <1>1 DEF CallOK, Unload, Send
<1>3. vf_pc'[v] = "gone" /\ toPf'[v] = Append(toPf[v], Msg("VF_BYE"))
  BY <1>1, <1>2 DEF IInv, VfType, MsgType
<1>4. ASSUME NEW u \in VF, u # v PROVE Apart(u)
  BY <1>1, <1>2, <1>4 DEF Apart
<1>5. /\ Quiet(v) => Asks(v, "VF_BYE")'
      /\ None(toPf[v], Response) => None(toPf'[v], Response)
      /\ \A m : Only(toPf[v], Response, m) => Only(toPf'[v], Response, m)
  BY <1>3, Sent
<1>6. entries' = entries /\ v \in entries /\ Quiet(v) /\ Settled(v)
  BY <1>1, <1>2 DEF CallOK, pf
<1>7. CallOK(v)'
  BY <1>1, <1>3, <1>5, <1>6, SameCalls DEF CallOK
<1>8. ~Unknown(v) /\ ~Unknown(v)' /\ UnknownOK(v)'
  BY <1>1, <1>2 DEF UnknownOK, Unknown
<1>9. ~Here(v)'
  BY <1>3 DEF Here
<1>10. (Told(v)' => Told(v)) /\ TellOK(v)'
  BY <1>1, <1>5, <1>9 DEF Told, TellOK
<1>11. StateOK(v)' /\ AskedOK(v)'
  BY <1>9 DEF StateOK, AskedOK, Aware
<1>12. TurnOK(v)'
  BY <1>3, <1>6, <1>9 DEF TurnOK
<1>13. LocalOK(v)'
  BY <1>7, <1>8, <1>10, <1>11, <1>12 DEF LocalOK
<1>14. ~Awaiting(v)' /\ ~(vf_pc'[v] = "hello") /\ v \notin Fresh
  BY <1>2, <1>3, <1>8 DEF Awaiting, Fresh
<1>15. LoadsOK'
  BY <1>1 DEF GlobalOK, LoadsOK
<1> QED BY <1>1, <1>4, <1>8, <1>10, <1>13, <1>14, <1>15, VfLocalStep

\* A driver is loaded where none was before.
LEMMA LoadLive ==
  ASSUME IInv, Live, LoadedOnce, GlobalOK, \A u \in VF : LocalOK(u), NEW v \in VF, Load(v)
  PROVE  (\A u \in VF : LocalOK(u)') /\ GlobalOK'
<1>1. /\ CallOK(v) /\ UnknownOK(v) /\ TellOK(v)
      /\ UNCHANGED <<pf, pf_state, ctl, pf_wait, pf_reply>>
      /\ vf_pc' = [vf_pc EXCEPT ![v] = "hello"]
      /\ vf_wait' = [vf_wait EXCEPT ![v] = "HELLO"]
      /\ vf_state' = [vf_state EXCEPT ![v] = "IDLE"]
      /\ loads' = [loads EXCEPT ![v] = @ + 1]
      /\ toPf' = [toPf EXCEPT ![v] = Append(@, Msg("HELLO"))]
      /\ toVf' = [toVf EXCEPT ![v] = IF @ = <<>> THEN @ ELSE Tail(@)]
      /\ loads[v] < MaxLoads
  BY DEF LocalOK, Load, Go, Ask, Send, Discard
<1>2. Unknown(v) /\ vf_pc[v] = "gone" /\ v \notin entries /\ toVf[v] = <<>> /\ toPf[v] = <<>>
  <2>1. loads[v] \in {0, 1} /\ MaxLoads \in Nat /\ MaxLoads <= 1
    BY BoundAssumption DEF GlobalOK, LoadsOK, LoadedOnce
  <2> QED BY <1>1, <2>1 DEF UnknownOK, Unknown
<1>3. /\ vf_pc'[v] = "hello" /\ vf_wait'[v] = "HELLO" /\ vf_state'[v] = "IDLE"
      /\ toPf'[v] = Append(toPf[v], Msg("HELLO")) /\ toVf'[v] = toVf[v]
  BY <1>1, <1>2 DEF IInv, VfType, MsgType
<1>4. ASSUME NEW u \in VF, u # v PROVE Apart(u)
  BY <1>1, <1>4 DEF Apart
<1>5. Asks(v, "HELLO")' /\ None(toPf'[v], Response) /\ None(toVf'[v], Announcement)
  BY <1>2, <1>3, Sent, NoneEmpty DEF Quiet
<1>6. entries' = entries /\ NoAnswer(v)' /\ Unheard(v, "HELLO")'
  <2>1. NoAnswer(v)
    BY <1>1, <1>2 DEF CallOK, Settled
  <2> QED BY <1>1, <1>3, <2>1 DEF NoAnswer, NoReply, Unheard, pf
<1>7. CallOK(v)'
  BY <1>2, <1>3, <1>5, <1>6 DEF CallOK
<1>8. UnknownOK(v)' /\ ~Unknown(v)' /\ v \in Fresh
  <2>1. loads'[v] = 1
    BY <1>1, <1>2 DEF Unknown, GlobalOK, LoadsOK
  <2> QED BY <1>1, <1>2, <2>1 DEF UnknownOK, Unknown, Fresh
<1>9. ~Told(v)' /\ TellOK(v)'
  BY <1>5 DEF Told, TellOK
<1>10. StateOK(v)' /\ ~Awaiting(v)'
  BY <1>2, <1>3, <1>6 DEF StateOK, Awaiting, REQ, DONE
<1>11. AskedOK(v)'
  BY <1>3, <1>10 DEF AskedOK, Aware, REQ
<1>12. TurnOK(v)'
  <2>1. ~InSlot(v)
    BY <1>8 DEF GlobalOK, SlotsOK
  <2>2. CASE Turn(v)'
    <3>1. pf_pc = "hello" /\ vf_info[pf_i + 1] = v
      BY <1>1, <2>2 DEF Turn, pf, ctl
    <3>2. pf_i + 1 \in Slots
      BY <3>1, FiniteVf DEF IInv, LoopType, Slots
    <3> QED BY <2>1, <3>1, <3>2 DEF InSlot
  <2>3. CASE ~Turn(v)'
    BY <2>3 DEF TurnOK
  <2> QED BY <2>2, <2>3
<1>13. LocalOK(v)'
  BY <1>7, <1>8, <1>9, <1>10, <1>11, <1>12 DEF LocalOK
<1>14. LoadsOK'
  BY <1>1, <1>2 DEF GlobalOK, LoadsOK, Unknown
<1> QED BY <1>1, <1>2, <1>3, <1>4, <1>8, <1>9, <1>10, <1>13, <1>14, VfLocalStep


\* A function takes its next step between two calls.
LEMMA OwnStep ==
  ASSUME IInv, GlobalOK, \A u \in VF : LocalOK(u), NEW v \in VF, Here(v),
         UNCHANGED <<pf, pf_state, ctl, pf_wait, pf_reply, vf_wait, toVf, toPf, loads>>,
         \A u \in VF : u # v => Apart(u),
         vf_pc'[v] \notin {"gone", "hello"}, v \in entries \/ vf_pc[v] # "hello",
         CallOK(v)', StateOK(v)', AskedOK(v)', TurnOK(v)', Awaiting(v)' => Awaiting(v)
  PROVE  (\A u \in VF : LocalOK(u)') /\ GlobalOK'
<1>1. UnknownOK(v) /\ TellOK(v)
  BY DEF LocalOK
<1>2. ~Unknown(v) /\ ~Unknown(v)' /\ UnknownOK(v)'
  BY <1>1 DEF Here, UnknownOK, Unknown
<1>3. Here(v)'
  BY DEF Here
<1>4. /\ toVf' = toVf /\ toPf' = toPf /\ pf_wait' = pf_wait /\ pf_i' = pf_i
      /\ vf_info' = vf_info /\ entries' = entries
  BY DEF pf, ctl
<1>5. (Told(v)' => Told(v)) /\ TellOK(v)'
  BY <1>1, <1>3, <1>4 DEF Told, TellOK
<1>6. LocalOK(v)'
  BY <1>2, <1>5 DEF LocalOK
<1>7. v \notin Fresh /\ ~(vf_pc'[v] = "hello")
  BY <1>2 DEF Fresh
<1>8. LoadsOK'
  BY DEF GlobalOK, LoadsOK
<1> QED BY <1>2, <1>5, <1>6, <1>7, <1>8, VfLocalStep

\* The wait of a function is over: what it asked for was done and answered.
LEMMA Over ==
  ASSUME IInv, NEW v \in VF, CallOK(v), vf_wait[v] = NoOp, vf_pc[v] \in {"hello", "rehello", "bye"}
  PROVE  /\ Quiet(v) /\ Settled(v)
         /\ v \in entries <=> vf_pc[v] # "bye"
<1>1. NoOp # "HELLO" /\ NoOp # "RESET_VF_BYE"
  BY NoOpAssumption DEF Ops
<1>2. ~Unheard(v, "HELLO") /\ ~Unheard(v, "RESET_VF_BYE")
  BY <1>1 DEF Unheard
<1>3. \A op \in {"HELLO", "RESET_VF_BYE"} : Answering(v, op) => Settled(v)
  BY <1>1 DEF Answering
<1> QED BY <1>2, <1>3 DEF CallOK

\* The first hello is answered, and the driver is up.
LEMMA LoadedLive ==
  ASSUME IInv, Live', GlobalOK, \A u \in VF : LocalOK(u), NEW v \in VF, Loaded(v)
  PROVE  (\A u \in VF : LocalOK(u)') /\ GlobalOK'
<1>1. /\ CallOK(v) /\ StateOK(v) /\ AskedOK(v) /\ TurnOK(v)
      /\ vf_pc[v] = "hello" /\ vf_wait[v] = NoOp
      /\ UNCHANGED <<pf, pf_state, ctl, pf_wait, pf_reply, vf_wait, vf_state, toVf, toPf, loads>>
      /\ vf_pc' = [vf_pc EXCEPT ![v] = "up"]
  BY DEF LocalOK, Loaded, Go, Answered, bounds, Live
<1>2. Quiet(v) /\ Settled(v) /\ v \in entries
  BY <1>1, Over
<1>3. vf_pc'[v] = "up"
  BY <1>1 DEF IInv, VfType
<1>4. ASSUME NEW u \in VF, u # v PROVE Apart(u)
  BY <1>1, <1>4 DEF Apart
<1>5. CallOK(v)'
  BY <1>1, <1>2, <1>3, SameCalls DEF CallOK, Quiet, pf
<1>6. Here(v) /\ Here(v)' /\ ~Awaiting(v)'
  BY <1>1, <1>3 DEF Here, Awaiting
<1>7. entries' = entries /\ (Turn(v)' <=> Turn(v)) /\ (Resetting' <=> Resetting)
  BY <1>1 DEF Turn, Resetting, pf, ctl
<1>8. StateOK(v)'
  BY <1>1, <1>2, <1>3, <1>6, <1>7 DEF StateOK, REQ, DONE
<1>9. AskedOK(v)'
  BY <1>1, <1>3, <1>6, <1>7 DEF AskedOK, Aware, Reached, pf, ctl
<1>10. TurnOK(v)'
  BY <1>1, <1>2, <1>3, <1>6, <1>7 DEF TurnOK, StateOK, pf, ctl
<1> QED BY <1>1, <1>2, <1>3, <1>4, <1>5, <1>6, <1>8, <1>9, <1>10, OwnStep

\* The reset work begins, or finds nothing to do.
LEMMA WorkLive ==
  ASSUME IInv, GlobalOK, \A u \in VF : LocalOK(u), NEW v \in VF, Work(v)
  PROVE  (\A u \in VF : LocalOK(u)') /\ GlobalOK'
<1>1. /\ CallOK(v) /\ StateOK(v) /\ AskedOK(v) /\ TurnOK(v)
      /\ vf_pc[v] = "up"
      /\ UNCHANGED <<pf, pf_state, ctl, pf_wait, pf_reply, vf_wait, vf_state, toVf, toPf, loads>>
  BY DEF LocalOK, Work, bounds
<1>2. Here(v) /\ vf_state[v] \in {"IDLE", REQ, DONE}
  BY <1>1 DEF Here, StateOK
<1>3. vf_pc' = [vf_pc EXCEPT ![v] = IF vf_state[v] = REQ THEN "offline" ELSE "up"]
  BY <1>2 DEF Work, Go, REQ, DONE
<1>4. vf_pc'[v] = IF vf_state[v] = REQ THEN "offline" ELSE "up"
  BY <1>3 DEF IInv, VfType
<1>5. ASSUME NEW u \in VF, u # v PROVE Apart(u)
  BY <1>1, <1>3, <1>5 DEF Apart
<1>6. CallOK(v)'
  BY <1>1, <1>4, SameCalls DEF CallOK, Quiet, pf
<1>7. Here(v)' /\ ~Awaiting(v)'
  BY <1>4 DEF Here, Awaiting
<1>8. entries' = entries /\ (Turn(v)' <=> Turn(v)) /\ (Resetting' <=> Resetting)
  BY <1>1 DEF Turn, Resetting, pf, ctl
<1>9. StateOK(v)'
  BY <1>1, <1>2, <1>4, <1>7, <1>8 DEF StateOK, REQ, DONE
<1>10. AskedOK(v)'
  BY <1>1, <1>2, <1>4, <1>7, <1>8 DEF AskedOK, Aware, Reached, pf, ctl
<1>11. TurnOK(v)'
  BY <1>1, <1>2, <1>4, <1>7, <1>8 DEF TurnOK, pf, ctl
<1> QED BY <1>1, <1>2, <1>4, <1>5, <1>6, <1>7, <1>9, <1>10, <1>11, OwnStep


\* The good bye is answered, the word of the PF has come, the new hello is
\* answered.
LEMMA GoneLive ==
  ASSUME IInv, Live', GlobalOK, \A u \in VF : LocalOK(u), NEW v \in VF,
         WorkByeAnswered(v) \/ WorkDone(v)
  PROVE  (\A u \in VF : LocalOK(u)') /\ GlobalOK'
<1> DEFINE to == IF vf_pc[v] = "bye" THEN "done" ELSE "online"
<1>1. /\ CallOK(v) /\ StateOK(v) /\ AskedOK(v) /\ TurnOK(v)
      /\ UNCHANGED <<pf, pf_state, ctl, pf_wait, pf_reply, vf_wait, vf_state, toVf, toPf, loads>>
      /\ vf_pc' = [vf_pc EXCEPT ![v] = to]
      /\ vf_pc[v] \in {"bye", "done"}
      /\ vf_pc[v] = "bye" => vf_wait[v] = NoOp
      /\ vf_pc[v] = "done" => vf_state[v] = DONE
  BY DEF LocalOK, WorkByeAnswered, WorkDone, DoneCame, Go, Answered, bounds, Live, DONE
<1>2. Quiet(v) /\ Settled(v) /\ v \notin entries
  BY <1>1, Over DEF CallOK
<1>3. vf_pc'[v] = to
  BY <1>1 DEF IInv, VfType
<1>4. ASSUME NEW u \in VF, u # v PROVE Apart(u)
  BY <1>1, <1>4 DEF Apart
<1>5. CallOK(v)'
  BY <1>1, <1>2, <1>3, SameCalls DEF CallOK, Quiet, pf
<1>6. Here(v) /\ Here(v)' /\ Awaiting(v) /\ Awaiting(v)'
  BY <1>1, <1>3 DEF Here, Awaiting
<1>7. entries' = entries /\ (Turn(v)' <=> Turn(v)) /\ pf_pc' = pf_pc
  BY <1>1 DEF Turn, pf, ctl
<1>8. StateOK(v)'
  BY <1>1, <1>2, <1>3, <1>6, <1>7 DEF StateOK, REQ, DONE
<1>9. AskedOK(v)'
  BY <1>1, <1>6, <1>7 DEF AskedOK, Aware, Reached, Resetting, pf, ctl
<1>10. TurnOK(v)'
  BY <1>1, <1>2, <1>3, <1>6, <1>7 DEF TurnOK, pf, ctl
<1> QED BY <1>1, <1>3, <1>4, <1>5, <1>6, <1>8, <1>9, <1>10, OwnStep

LEMMA WorkEndLive ==
  ASSUME IInv, Live', GlobalOK, \A u \in VF : LocalOK(u), NEW v \in VF, WorkEnd(v)
  PROVE  (\A u \in VF : LocalOK(u)') /\ GlobalOK'
<1>1. /\ CallOK(v) /\ StateOK(v) /\ AskedOK(v) /\ TurnOK(v)
      /\ vf_pc[v] = "rehello" /\ vf_wait[v] = NoOp
      /\ UNCHANGED <<pf, pf_state, ctl, pf_wait, pf_reply, vf_wait, toVf, toPf, loads>>
      /\ vf_pc' = [vf_pc EXCEPT ![v] = "up"]
      /\ vf_state' = [vf_state EXCEPT ![v] = IF vf_state[v] = DONE THEN "IDLE" ELSE @]
  BY DEF LocalOK, WorkEnd, Go, Answered, bounds, Live, DoneCame, DONE
<1>2. Quiet(v) /\ Settled(v) /\ v \in entries
  BY <1>1, Over
<1>3. vf_pc'[v] = "up" /\ vf_state'[v] = IF vf_state[v] = DONE THEN "IDLE" ELSE vf_state[v]
  BY <1>1 DEF IInv, VfType
<1>4. ASSUME NEW u \in VF, u # v PROVE Apart(u)
  BY <1>1, <1>4 DEF Apart
<1>5. CallOK(v)'
  BY <1>1, <1>2, <1>3, SameCalls DEF CallOK, Quiet, pf
<1>6. Here(v) /\ Here(v)' /\ ~Awaiting(v)' /\ ~Awaiting(v)
  BY <1>1, <1>2, <1>3 DEF Here, Awaiting
<1>7. vf_state[v] \in {REQ, DONE}
  BY <1>1, <1>6 DEF StateOK
<1>8. entries' = entries /\ (Turn(v)' <=> Turn(v)) /\ (Resetting' <=> Resetting)
  BY <1>1 DEF Turn, Resetting, pf, ctl
<1>9. StateOK(v)'
  BY <1>1, <1>2, <1>3, <1>6, <1>7, <1>8 DEF StateOK, REQ, DONE
<1>10. AskedOK(v)'
  BY <1>1, <1>3, <1>6, <1>7, <1>8 DEF AskedOK, Aware, Reached, pf, ctl, REQ, DONE
<1>11. TurnOK(v)'
  BY <1>1, <1>2, <1>3, <1>6, <1>7, <1>8 DEF TurnOK, pf, ctl, REQ, DONE
<1> QED BY <1>1, <1>2, <1>3, <1>4, <1>5, <1>6, <1>9, <1>10, <1>11, OwnStep

\* The good bye for the reset.
LEMMA WorkByeLive ==
  ASSUME IInv, GlobalOK, \A u \in VF : LocalOK(u), NEW v \in VF, WorkBye(v)
  PROVE  (\A u \in VF : LocalOK(u)') /\ GlobalOK'
<1>1. /\ CallOK(v) /\ UnknownOK(v) /\ TellOK(v) /\ StateOK(v) /\ AskedOK(v)
      /\ vf_pc[v] = "offline"
  BY DEF LocalOK, WorkBye
<1>2. Here(v) /\ vf_state[v] = REQ /\ v \in entries /\ Quiet(v) /\ Settled(v) /\ Resetting
  BY <1>1 DEF Here, StateOK, CallOK
<1>3. /\ UNCHANGED <<pf, pf_state, ctl, pf_wait, pf_reply, vf_state, toVf, loads>>
      /\ vf_pc' = [vf_pc EXCEPT ![v] = "bye"]
      /\ vf_wait' = [vf_wait EXCEPT ![v] = "RESET_VF_BYE"]
      /\ toPf' = [toPf EXCEPT ![v] = Append(@, Msg("RESET_VF_BYE"))]
  BY <1>2 DEF WorkBye, REQ, Ask, Send, Go, bounds
<1>4. /\ vf_pc'[v] = "bye" /\ vf_wait'[v] = "RESET_VF_BYE"
      /\ toPf'[v] = Append(toPf[v], Msg("RESET_VF_BYE"))
  BY <1>3 DEF IInv, VfType, MsgType
<1>5. ASSUME NEW u \in VF, u # v PROVE Apart(u)
  BY <1>3, <1>5 DEF Apart
<1>6. /\ Asks(v, "RESET_VF_BYE")'
      /\ None(toPf[v], Response) => None(toPf'[v], Response)
      /\ \A m : Only(toPf[v], Response, m) => Only(toPf'[v], Response, m)
  BY <1>2, <1>4, Sent
<1>7. CallOK(v)'
  <2>1. Unheard(v, "RESET_VF_BYE")'
    BY <1>2, <1>3, <1>4 DEF Unheard, Settled, NoAnswer, NoReply
  <2> QED BY <1>2, <1>3, <1>4, <1>6, <2>1 DEF CallOK, pf
<1>8. Here(v)' /\ ~Unknown(v) /\ ~Unknown(v)' /\ UnknownOK(v)'
  BY <1>1, <1>2, <1>3, <1>4 DEF UnknownOK, Unknown, Here
<1>9. (Told(v)' => Told(v)) /\ TellOK(v)'
  <2>1. /\ toVf' = toVf /\ pf_wait' = pf_wait /\ pf_i' = pf_i /\ vf_info' = vf_info
    BY <1>3 DEF pf, ctl
  <2> QED BY <1>1, <1>2, <1>6, <1>8, <2>1 DEF Told, TellOK
<1>10. entries' = entries /\ Resetting' /\ ~Turn(v)' /\ ~Returning
  BY <1>2, <1>3 DEF Resetting, Returning, Turn, pf, ctl
<1>11. StateOK(v)'
  BY <1>2, <1>3, <1>4, <1>10 DEF StateOK, REQ, DONE, Resetting
<1>12. AskedOK(v)'
  BY <1>1, <1>2, <1>3 DEF AskedOK, Aware, Reached, pf, ctl
<1>13. TurnOK(v)'
  BY <1>10 DEF TurnOK
<1>14. LocalOK(v)'
  BY <1>7, <1>8, <1>9, <1>11, <1>12, <1>13 DEF LocalOK
<1>15. LoadsOK' /\ v \notin Fresh /\ ~(vf_pc'[v] = "hello")
  BY <1>1, <1>3, <1>4, <1>8 DEF GlobalOK, LoadsOK, Fresh
<1> QED BY <1>3, <1>5, <1>8, <1>9, <1>10, <1>14, <1>15, VfLocalStep

\* The hello after the reset, from a new mailbox that had nothing to discard.
LEMMA WorkOnlineLive ==
  ASSUME IInv, GlobalOK, \A u \in VF : LocalOK(u), NEW v \in VF, WorkOnline(v)
  PROVE  (\A u \in VF : LocalOK(u)') /\ GlobalOK'
<1>1. /\ CallOK(v) /\ UnknownOK(v) /\ TellOK(v) /\ StateOK(v) /\ AskedOK(v) /\ TurnOK(v)
      /\ vf_pc[v] = "online"
  BY DEF LocalOK, WorkOnline
<1>2. /\ Here(v) /\ vf_state[v] = DONE /\ v \notin entries /\ Quiet(v) /\ Settled(v) /\ Awaiting(v)
      /\ Turn(v) /\ None(toVf[v], Announcement)
  BY <1>1 DEF Here, StateOK, CallOK, Awaiting
<1>3. toVf[v] = <<>>
  <2>1. toVf[v] \in Seq(Announcement \cup Response) /\ None(toVf[v], Response)
    BY <1>2 DEF IInv, MsgType, Settled, NoAnswer
  <2>2. CASE toVf[v] # <<>>
    <3>1. Head(toVf[v]) \in Announcement \cup Response
      BY <2>2, Messages DEF IInv
    <3>2. Head(toVf[v]) \notin Announcement /\ Head(toVf[v]) \notin Response
      BY <1>2, <2>1, <2>2, TakeFirst
    <3> QED BY <3>1, <3>2
  <2> QED BY <2>2
<1>4. /\ UNCHANGED <<pf, pf_state, ctl, pf_wait, pf_reply, vf_state, loads>>
      /\ vf_pc' = [vf_pc EXCEPT ![v] = "rehello"]
      /\ vf_wait' = [vf_wait EXCEPT ![v] = "HELLO"]
      /\ toPf' = [toPf EXCEPT ![v] = Append(@, Msg("HELLO"))]
      /\ toVf' = [toVf EXCEPT ![v] = IF @ = <<>> THEN @ ELSE Tail(@)]
  BY <1>2 DEF WorkOnline, DONE, Ask, Send, Go, Discard, bounds
<1>5. /\ vf_pc'[v] = "rehello" /\ vf_wait'[v] = "HELLO" /\ toVf'[v] = toVf[v]
      /\ toPf'[v] = Append(toPf[v], Msg("HELLO"))
  BY <1>3, <1>4 DEF IInv, VfType, MsgType
<1>6. ASSUME NEW u \in VF, u # v PROVE Apart(u)
  BY <1>4, <1>6 DEF Apart
<1>7. /\ Asks(v, "HELLO")'
      /\ None(toPf[v], Response) => None(toPf'[v], Response)
      /\ \A m : Only(toPf[v], Response, m) => Only(toPf'[v], Response, m)
  BY <1>2, <1>5, Sent
<1>8. /\ entries' = entries /\ pf_pc' = pf_pc /\ pf_i' = pf_i /\ vf_info' = vf_info
      /\ vf_count_online' = vf_count_online /\ pf_n' = pf_n /\ pf_wait' = pf_wait
  BY <1>4 DEF pf, ctl
<1>9. CallOK(v)'
  <2>1. Unheard(v, "HELLO")'
    BY <1>2, <1>4, <1>5 DEF Unheard, Settled, NoAnswer, NoReply
  <2> QED BY <1>2, <1>5, <1>7, <1>8, <2>1 DEF CallOK
<1>10. Here(v)' /\ ~Unknown(v) /\ ~Unknown(v)' /\ UnknownOK(v)'
  BY <1>1, <1>2, <1>4, <1>5 DEF UnknownOK, Unknown, Here
<1>11. (Told(v)' => Told(v)) /\ TellOK(v)'
  BY <1>1, <1>2, <1>5, <1>7, <1>8, <1>10 DEF Told, TellOK
<1>12. Turn(v)' /\ pf_pc = "hello"
  BY <1>2, <1>8 DEF Turn
<1>13. StateOK(v)'
  BY <1>2, <1>4, <1>5, <1>8, <1>12 DEF StateOK, REQ, DONE
<1>14. AskedOK(v)'
  BY <1>8, <1>12 DEF AskedOK, Resetting
<1>15. TurnOK(v)'
  BY <1>1, <1>2, <1>8 DEF TurnOK
<1>16. LocalOK(v)'
  BY <1>9, <1>10, <1>11, <1>13, <1>14, <1>15 DEF LocalOK
<1>17. LoadsOK' /\ v \notin Fresh /\ ~(vf_pc'[v] = "hello")
  BY <1>1, <1>4, <1>5, <1>10 DEF GlobalOK, LoadsOK, Fresh
<1> QED BY <1>2, <1>4, <1>6, <1>10, <1>11, <1>16, <1>17, VfLocalStep


LEMMA VfStepLive ==
  ASSUME IInv, Live, Live', LoadedOnce, GlobalOK, \A u \in VF : LocalOK(u), NEW v \in VF,
         Load(v) \/ Loaded(v) \/ Unload(v) \/ WorkStep(v)
  PROVE  (\A u \in VF : LocalOK(u)') /\ GlobalOK'
<1>1. ~WorkPark(v)
  BY DEF WorkPark, LocalOK, CallOK
<1> QED BY <1>1, LoadLive, LoadedLive, UnloadLive, WorkLive, WorkByeLive, GoneLive, WorkOnlineLive,
           WorkEndLive DEF WorkStep

-----------------------------------------------------------------------------
(* The mailbox worker of a function.                                        *)

\* A response: it is the one the function waits for.
LEMMA HeardLive ==
  ASSUME IInv, GlobalOK, \A u \in VF : LocalOK(u), NEW v \in VF, VfRcv(v), Head(toVf[v]).resp
  PROVE  (\A u \in VF : LocalOK(u)') /\ GlobalOK'
<1> DEFINE m == Head(toVf[v])
<1>1. /\ CallOK(v) /\ UnknownOK(v) /\ TellOK(v) /\ StateOK(v) /\ AskedOK(v) /\ TurnOK(v)
      /\ UNCHANGED <<pf, pf_state, ctl, pf_wait, pf_reply, vf_state, vf_pc, toPf, loads>>
      /\ toVf' = [toVf EXCEPT ![v] = Tail(@)]
      /\ vf_wait' = [vf_wait EXCEPT ![v] = IF @ = m.op THEN NoOp ELSE @]
      /\ toVf[v] # <<>> /\ vf_pc[v] \notin {"gone", "dead", "parked"}
  BY DEF LocalOK, VfRcv, VfListens, bounds
<1>2. /\ toVf'[v] = Tail(toVf[v]) /\ vf_wait'[v] = IF vf_wait[v] = m.op THEN NoOp ELSE vf_wait[v]
      /\ toVf[v] \in Seq(Announcement \cup Response)
  BY <1>1 DEF IInv, VfType, MsgType
<1>3. m \in Response /\ m \notin Announcement
  BY <1>1, Messages, Kinds DEF IInv
<1>4. ~None(toVf[v], Response)
  BY <1>1, <1>2, <1>3, TakeFirst
<1>5. ASSUME NEW op \in Ops, Answering(v, op)
      PROVE  Settled(v)'
  <2>1. vf_wait[v] = op /\ NoReply(v) /\ Only(toVf[v], Response, Resp(op))
    BY <1>4, <1>5 DEF Answering, Settled, NoAnswer
  <2>2. Resp(op) \in Response
    BY Kinds
  <2>3. m = Resp(op) /\ None(toVf'[v], Response)
    BY <1>1, <1>2, <1>3, <2>1, <2>2, TakeFirst
  <2>4. vf_wait'[v] = NoOp
    BY <1>2, <2>1, <2>3, OpOf
  <2> QED BY <1>1, <2>1, <2>3, <2>4 DEF Settled, NoAnswer, NoReply
<1>6. \E op \in Ops : Answering(v, op)
  <2>1. "HELLO" \in Ops /\ "RESET_VF_BYE" \in Ops
    BY DEF Ops
  <2>2. ~NoAnswer(v)
    BY <1>4 DEF NoAnswer
  <2> HIDE DEF Ops
  <2> QED BY <1>1, <2>1, <2>2 DEF CallOK, Unheard, Settled
<1>7. Settled(v)' /\ ~NoAnswer(v)
  BY <1>4, <1>5, <1>6 DEF NoAnswer
<1>8. CallOK(v)'
  BY <1>1, <1>7 DEF CallOK, Answering, Settled, Unheard, Quiet, pf
<1>9. ASSUME NEW u \in VF, u # v PROVE Apart(u)
  BY <1>1, <1>9 DEF Apart
<1>10. UnknownOK(v)' /\ (Unknown(v)' <=> Unknown(v)) /\ Here(v) /\ Here(v)'
  BY <1>1 DEF UnknownOK, Unknown, Here
<1>11. /\ None(toVf[v], Announcement) <=> None(toVf'[v], Announcement)
       /\ \A a \in Announcement : Only(toVf[v], Announcement, a) => Only(toVf'[v], Announcement, a)
  <2>1. \A a \in Announcement : Only(toVf[v], Announcement, a) => Only(toVf'[v], Announcement, a)
    BY <1>1, <1>2, <1>3, TakeFirst
  <2>2. None(toVf[v], Announcement) => None(toVf'[v], Announcement)
    BY <1>1, <1>2, TakeFirst
  <2>3. None(toVf'[v], Announcement) => None(toVf[v], Announcement)
    <3> SUFFICES ASSUME None(toVf'[v], Announcement), ~None(toVf[v], Announcement) PROVE FALSE
      OBVIOUS
    <3>1. ~None(toVf[v], Announcement) /\ Told(v)
      BY <1>10 DEF Told
    <3>2. Only(toVf[v], Announcement, Msg(pf_wait))
      BY <1>1, <1>10, <3>1 DEF TellOK
    <3>3. Msg(pf_wait) \in Announcement
      <4>1. pf_wait \in {"RESET_PREPARE", "RESET_DONE", "PF_BYE", NoOp} /\ pf_wait # NoOp
        BY <1>1, <3>1 DEF TellOK, IInv, PfType
      <4> QED BY <4>1 DEF Announcement
    <3>4. Only(toVf'[v], Announcement, Msg(pf_wait))
      BY <2>1, <3>2, <3>3
    <3> QED BY <3>3, <3>4, OnlyIsThere
  <2> QED BY <2>1, <2>2, <2>3
<1>12. /\ entries' = entries /\ pf_pc' = pf_pc /\ pf_i' = pf_i /\ vf_info' = vf_info
       /\ vf_count_online' = vf_count_online /\ pf_n' = pf_n /\ pf_wait' = pf_wait
       /\ vf_pc' = vf_pc /\ toPf' = toPf /\ vf_state' = vf_state
  BY <1>1 DEF pf, ctl
<1>13. Told(v)' <=> Told(v)
  BY <1>10, <1>11, <1>12 DEF Told
<1>14. TellOK(v)'
  <2> SUFFICES ASSUME Told(v) PROVE TellOK(v)'
    BY <1>13 DEF TellOK
  <2>1. Msg(pf_wait) \in Announcement
    <3>1. pf_wait \in {"RESET_PREPARE", "RESET_DONE", "PF_BYE", NoOp} /\ pf_wait # NoOp
      BY <1>1 DEF TellOK, IInv, PfType
    <3> QED BY <3>1 DEF Announcement
  <2> QED BY <1>1, <1>11, <1>12, <1>10, <2>1 DEF TellOK
<1>15. StateOK(v)'
  BY <1>1, <1>10, <1>11, <1>12 DEF StateOK, Awaiting, Turn, Resetting
<1>16. AskedOK(v)' /\ TurnOK(v)'
  BY <1>1, <1>10, <1>11, <1>12 DEF AskedOK, Aware, Reached, Resetting, Awaiting, TurnOK, Turn
<1>17. LocalOK(v)'
  BY <1>8, <1>10, <1>14, <1>15, <1>16 DEF LocalOK
<1>18. (Awaiting(v)' <=> Awaiting(v)) /\ LoadsOK'
  BY <1>1, <1>12 DEF Awaiting, GlobalOK, LoadsOK
<1>19. Unknown(v)' \/ (vf_pc'[v] = "hello" /\ v \notin entries) <=> v \in Fresh
  BY <1>10, <1>12 DEF Fresh
<1> QED BY <1>1, <1>9, <1>13, <1>17, <1>18, <1>19, VfLocalStep


\* An announcement is the one the PF waits for an answer to, for the function
\* whose turn it is.
LEMMA Announcing ==
  ASSUME IInv, WaitOK, NEW v \in VF, TellOK(v), Here(v), toVf[v] # <<>>, ~Head(toVf[v]).resp
  PROVE  /\ Told(v) /\ vf_info[pf_i + 1] = v /\ ~None(toVf[v], Announcement)
         /\ Head(toVf[v]) = Msg(pf_wait) /\ Msg(pf_wait) \in Announcement
         /\ None(Tail(toVf[v]), Announcement) /\ None(toPf[v], Response)
         /\ \/ pf_pc = "ack" /\ pf_wait = "RESET_PREPARE"
            \/ pf_pc = "hello" /\ pf_wait = "RESET_DONE"
<1>1. toVf[v] \in Seq(Announcement \cup Response)
  BY DEF IInv, MsgType
<1>2. Head(toVf[v]) \in Announcement
  BY Messages, Kinds DEF IInv
<1>3. ~None(toVf[v], Announcement)
  BY <1>1, <1>2, TakeFirst
<1>4. Told(v)
  BY <1>3 DEF Told
<1>5. /\ pf_wait # NoOp /\ vf_info[pf_i + 1] = v
      /\ Only(toVf[v], Announcement, Msg(pf_wait)) /\ None(toPf[v], Response)
  BY <1>3, <1>4 DEF TellOK
<1>6. \/ pf_pc = "ack" /\ pf_wait = "RESET_PREPARE"
      \/ pf_pc = "hello" /\ pf_wait = "RESET_DONE"
  BY <1>5 DEF WaitOK
<1>7. Msg(pf_wait) \in Announcement
  BY <1>6 DEF Announcement
<1>8. Head(toVf[v]) = Msg(pf_wait) /\ None(Tail(toVf[v]), Announcement)
  BY <1>1, <1>2, <1>5, <1>7, TakeFirst
<1> QED BY <1>3, <1>4, <1>5, <1>6, <1>7, <1>8

\* It is taken, or dropped because a call of the function is under way.
LEMMA ToldLive ==
  ASSUME IInv, GlobalOK, \A u \in VF : LocalOK(u), NEW v \in VF, VfRcv(v), ~Head(toVf[v]).resp
  PROVE  (\A u \in VF : LocalOK(u)') /\ GlobalOK'
<1>1. /\ CallOK(v) /\ UnknownOK(v) /\ TellOK(v) /\ StateOK(v) /\ AskedOK(v) /\ TurnOK(v)
      /\ UNCHANGED <<pf, pf_state, ctl, pf_wait, pf_reply, vf_pc, vf_wait, loads>>
      /\ toVf' = [toVf EXCEPT ![v] = Tail(@)]
      /\ toVf[v] # <<>> /\ Here(v)
  BY DEF LocalOK, VfRcv, VfListens, bounds, Here
<1>2. /\ Told(v) /\ vf_info[pf_i + 1] = v /\ ~None(toVf[v], Announcement)
      /\ Head(toVf[v]) = Msg(pf_wait) /\ Msg(pf_wait) \in Announcement
      /\ None(Tail(toVf[v]), Announcement) /\ None(toPf[v], Response)
      /\ \/ pf_pc = "ack" /\ pf_wait = "RESET_PREPARE"
         \/ pf_pc = "hello" /\ pf_wait = "RESET_DONE"
  BY <1>1, Announcing DEF GlobalOK
<1>3. /\ \/ /\ toPf' = [toPf EXCEPT ![v] = Append(@, Resp(pf_wait))]
            /\ vf_state' = [vf_state EXCEPT ![v] = IF pf_pc = "ack" THEN REQ ELSE DONE]
         \/ UNCHANGED <<toPf, vf_state>>
  <2>1. Head(toVf[v]).op = pf_wait
    BY <1>2, OpOf
  <2> QED BY <1>2, <2>1 DEF VfRcv, Announced, REQ, DONE
<1>4. /\ toVf'[v] = Tail(toVf[v])
      /\ \/ toPf'[v] = Append(toPf[v], Resp(pf_wait)) /\ vf_state'[v] = IF pf_pc = "ack" THEN REQ ELSE DONE
         \/ toPf'[v] = toPf[v] /\ vf_state'[v] = vf_state[v]
  BY <1>1, <1>3 DEF IInv, VfType, MsgType
<1>5. /\ entries' = entries /\ pf_pc' = pf_pc /\ pf_i' = pf_i /\ vf_info' = vf_info
      /\ vf_count_online' = vf_count_online /\ pf_n' = pf_n /\ pf_wait' = pf_wait
      /\ vf_pc' = vf_pc /\ vf_wait' = vf_wait /\ pf_reply' = pf_reply
  BY <1>1 DEF pf, ctl
<1>6. ASSUME NEW u \in VF, u # v PROVE Apart(u)
  <2>1. toPf'[u] = toPf[u] /\ vf_state'[u] = vf_state[u]
    <3>1. CASE UNCHANGED <<toPf, vf_state>>
      BY <3>1
    <3>2. CASE toPf' = [toPf EXCEPT ![v] = Append(@, Resp(pf_wait))]
      <4>1. toPf'[u] = toPf[u]
        BY <1>6, <3>2 DEF IInv, MsgType
      <4>2. vf_state'[u] = vf_state[u]
        BY <1>3, <1>6 DEF IInv, VfType
      <4> QED BY <4>1, <4>2
    <3> QED BY <1>3, <3>1, <3>2
  <2>2. vf_pc' = vf_pc /\ vf_wait' = vf_wait /\ loads' = loads /\ toVf'[u] = toVf[u]
    BY <1>1, <1>6
  <2> QED BY <2>1, <2>2 DEF Apart
<1>7. Resp(pf_wait) \in Response /\ Resp(pf_wait) \notin Request
  <2>1. pf_wait \in Ops
    BY <1>2 DEF Ops
  <2> QED BY <2>1, Kinds
<1>8. /\ Quiet(v) => Quiet(v)'
      /\ \A op : Asks(v, op) => Asks(v, op)'
      /\ None(toPf'[v], Response) \/ Only(toPf'[v], Response, Resp(pf_wait))
  <2>1. toPf[v] \in Seq(Request \cup Response)
    BY DEF IInv, MsgType
  <2>2. CASE toPf'[v] = toPf[v]
    BY <1>2, <2>2 DEF Quiet, Asks
  <2>3. CASE toPf'[v] = Append(toPf[v], Resp(pf_wait))
    <3>1. /\ None(toPf[v], Request) => None(toPf'[v], Request)
          /\ \A x : Only(toPf[v], Request, x) => Only(toPf'[v], Request, x)
      BY <1>7, <2>1, <2>3, AddOther
    <3>2. Only(toPf'[v], Response, Resp(pf_wait))
      BY <1>2, <2>1, <2>3, AddFirst
    <3> QED BY <3>1, <3>2 DEF Quiet, Asks
  <2> QED BY <1>4, <2>2, <2>3
<1>9. /\ None(toVf[v], Response) => None(toVf'[v], Response)
      /\ \A x \in Response : Only(toVf[v], Response, x) => Only(toVf'[v], Response, x)
  <2>1. toVf[v] \in Seq(Announcement \cup Response)
    BY DEF IInv, MsgType
  <2>2. Head(toVf[v]) \notin Response
    BY <1>2, Kinds
  <2> QED BY <1>1, <1>4, <2>1, <2>2, TakeFirst
<1>10. CallOK(v)'
  <2>1. NoReply(v)' <=> NoReply(v)
    BY <1>5 DEF NoReply
  <2>2. NoAnswer(v) => NoAnswer(v)'
    BY <1>9, <2>1 DEF NoAnswer
  <2>3. Settled(v) => Settled(v)'
    BY <1>5, <2>2 DEF Settled
  <2>4. \A op : Unheard(v, op) => Unheard(v, op)'
    BY <1>5, <2>2 DEF Unheard
  <2>5. ASSUME NEW op \in Ops, Answering(v, op) PROVE Answering(v, op)'
    <3>1. Resp(op) \in Response
      BY Kinds
    <3> QED BY <1>5, <1>9, <2>1, <2>3, <2>5, <3>1 DEF Answering
  <2>6. "HELLO" \in Ops /\ "RESET_VF_BYE" \in Ops
    BY DEF Ops
  <2> HIDE DEF Ops
  <2> QED BY <1>1, <1>5, <1>8, <2>3, <2>4, <2>5, <2>6 DEF CallOK
<1>11. /\ UnknownOK(v)' /\ ~Unknown(v) /\ ~Unknown(v)' /\ Here(v)'
  BY <1>1 DEF UnknownOK, Unknown, Here
<1>12. TellOK(v)'
  <2>1. pf_wait # NoOp
    BY <1>1, <1>2 DEF TellOK
  <2>2. None(toVf'[v], Announcement) /\ pf_wait' # NoOp /\ vf_info'[pf_i' + 1] = v
    BY <1>2, <1>4, <1>5, <2>1
  <2>3. None(toPf'[v], Response) \/ Only(toPf'[v], Response, Resp(pf_wait'))
    BY <1>5, <1>8
  <2> QED BY <2>2, <2>3 DEF TellOK
<1>13. v \notin Fresh
  <2>1. pf_i + 1 \in Slots
    BY <1>2, FiniteVf DEF IInv, LoopType, Slots
  <2>2. InSlot(v)
    BY <1>2, <2>1 DEF InSlot
  <2> QED BY <2>2 DEF GlobalOK, SlotsOK
<1>14. ~(vf_pc[v] = "hello" /\ v \notin entries)
  BY <1>13 DEF Fresh
<1>15. /\ Awaiting(v)' <=> Awaiting(v)
       /\ Turn(v)' <=> Turn(v)
       /\ Resetting' <=> Resetting
       /\ Turn(v) <=> pf_pc = "hello"
       /\ Resetting <=> pf_pc = "ack"
       /\ None(toVf'[v], Announcement)
  BY <1>2, <1>4, <1>5 DEF Awaiting, Turn, Resetting
<1>16. StateOK(v)'
  <2>1. CASE vf_state'[v] = vf_state[v]
    BY <1>1, <1>5, <1>15, <2>1 DEF StateOK
  <2>2. CASE vf_state'[v] = REQ /\ pf_pc = "ack"
    BY <1>1, <1>5, <1>14, <1>15, <2>2 DEF StateOK, REQ, DONE, Awaiting
  <2>3. CASE vf_state'[v] = DONE /\ pf_pc = "hello"
    BY <1>1, <1>5, <1>14, <1>15, <2>3 DEF StateOK, REQ, DONE, CallOK, Awaiting
  <2> QED BY <1>2, <1>4, <2>1, <2>2, <2>3
<1>17. AskedOK(v)'
  <2>1. CASE vf_state'[v] = vf_state[v]
    BY <1>1, <1>5, <1>11, <1>15, <2>1 DEF AskedOK, Aware, Reached
  <2>2. CASE vf_state'[v] # vf_state[v] /\ pf_pc = "ack"
    <3>1. pf_i + 1 \in 1 .. Reached /\ Reached' = Reached
      BY <1>5, <2>2 DEF Reached, IInv, LoopType
    <3> QED BY <1>2, <1>5, <3>1 DEF AskedOK
  <2>3. CASE pf_pc = "hello"
    BY <1>5, <2>3 DEF AskedOK, Resetting
  <2> QED BY <1>2, <2>1, <2>2, <2>3
<1>18. TurnOK(v)'
  BY <1>1, <1>2, <1>5, <1>15 DEF TurnOK
<1>19. LocalOK(v)'
  BY <1>10, <1>11, <1>12, <1>16, <1>17, <1>18 DEF LocalOK
<1>20. LoadsOK'
  BY <1>1 DEF GlobalOK, LoadsOK
<1> QED BY <1>1, <1>2, <1>5, <1>6, <1>11, <1>13, <1>14, <1>15, <1>19, <1>20, VfLocalStep

LEMMA VfRcvLive ==
  ASSUME IInv, GlobalOK, \A u \in VF : LocalOK(u), NEW v \in VF, VfRcv(v)
  PROVE  (\A u \in VF : LocalOK(u)') /\ GlobalOK'
BY HeardLive, ToldLive


-----------------------------------------------------------------------------
(* The mailbox worker of the PF.                                            *)

\* The answer it gives is handed to the mailbox.
LEMMA ReplyLive ==
  ASSUME IInv, GlobalOK, \A u \in VF : LocalOK(u), PfReply
  PROVE  (\A u \in VF : LocalOK(u)') /\ GlobalOK'
<1>1. PICK v \in VF, op \in {"HELLO", "RESET_VF_BYE"} : pf_reply = <<v, op>>
  BY DEF PfReply, IInv, PfType
<1>2. /\ CallOK(v) /\ UnknownOK(v) /\ TellOK(v) /\ StateOK(v) /\ AskedOK(v) /\ TurnOK(v)
      /\ UNCHANGED <<pf, pf_state, ctl, pf_wait, vf_state, vf_pc, vf_wait, toPf, loads>>
      /\ toVf' = [toVf EXCEPT ![v] = Append(@, Resp(op))]
      /\ pf_reply' = NoOp
  BY <1>1 DEF LocalOK, PfReply, bounds, vfs
<1>3. toVf'[v] = Append(toVf[v], Resp(op)) /\ toVf[v] \in Seq(Announcement \cup Response)
  BY <1>2 DEF IInv, MsgType
<1>4. Resp(op) \in Response /\ Resp(op) \notin Announcement /\ op \in Ops
  BY Kinds DEF Ops
<1>5. \A u \in VF, o \in Ops : NoOp # <<u, o>>
  BY NoOpAssumption
<1>6. \A u \in VF : NoReply(u)'
  BY <1>2, <1>5 DEF NoReply
<1>7. ~NoReply(v)
  BY <1>1, <1>4 DEF NoReply
<1>8. ASSUME NEW o \in Ops, Answering(v, o) PROVE Answering(v, o)'
  <2>1. vf_wait[v] = o /\ pf_reply = <<v, o>> /\ None(toVf[v], Response)
    BY <1>7, <1>8 DEF Answering, Settled, NoAnswer
  <2>2. o = op
    BY <1>1, <2>1
  <2>3. Only(toVf'[v], Response, Resp(op))
    BY <1>3, <2>1, AddFirst
  <2> QED BY <1>2, <1>6, <2>1, <2>2, <2>3 DEF Answering
<1>9. CallOK(v)'
  <2>1. ~Settled(v) /\ \A o : ~Unheard(v, o)
    BY <1>7 DEF Settled, Unheard, NoAnswer
  <2>2. "HELLO" \in Ops /\ "RESET_VF_BYE" \in Ops
    BY DEF Ops
  <2> HIDE DEF Ops
  <2> QED BY <1>2, <1>8, <2>1, <2>2 DEF CallOK, Quiet, pf
<1>10. Here(v) /\ Here(v)' /\ ~Unknown(v) /\ ~Unknown(v)' /\ UnknownOK(v)'
  BY <1>2, <1>7 DEF CallOK, Settled, NoAnswer, UnknownOK, Unknown, Here
<1>11. /\ None(toVf[v], Announcement) => None(toVf'[v], Announcement)
       /\ \A x : Only(toVf[v], Announcement, x) => Only(toVf'[v], Announcement, x)
  BY <1>3, <1>4, AddOther
<1>12. /\ entries' = entries /\ pf_pc' = pf_pc /\ pf_i' = pf_i /\ vf_info' = vf_info
       /\ vf_count_online' = vf_count_online /\ pf_n' = pf_n /\ pf_wait' = pf_wait
       /\ vf_pc' = vf_pc /\ toPf' = toPf /\ vf_state' = vf_state
  BY <1>2 DEF pf, ctl
<1>13. Told(v)' => Told(v)
  BY <1>10, <1>11, <1>12 DEF Told
<1>14. TellOK(v)'
  BY <1>2, <1>10, <1>11, <1>12, <1>13 DEF TellOK
<1>15. StateOK(v)'
  BY <1>2, <1>10, <1>11, <1>12 DEF StateOK, Awaiting, Turn, Resetting
<1>16. AskedOK(v)' /\ TurnOK(v)'
  BY <1>2, <1>10, <1>11, <1>12 DEF AskedOK, Aware, Reached, Resetting, Awaiting, TurnOK, Turn
<1>17. LocalOK(v)'
  BY <1>9, <1>10, <1>14, <1>15, <1>16 DEF LocalOK
<1>18. (Awaiting(v)' <=> Awaiting(v)) /\ LoadsOK'
  BY <1>2, <1>12 DEF Awaiting, GlobalOK, LoadsOK
<1>19. Unknown(v)' \/ (vf_pc'[v] = "hello" /\ v \notin entries) <=> v \in Fresh
  BY <1>10, <1>12 DEF Fresh
<1>20. ASSUME NEW u \in VF, u # v PROVE Apart(u)
  BY <1>2, <1>20 DEF Apart, IInv, MsgType
<1>21. GlobalOK'
  BY <1>2, <1>13, <1>18, <1>19, <1>20, VfGlobal
<1>22. ASSUME NEW u \in VF, u # v PROVE LocalOK(u)'
  <2>1. NoReply(u) /\ NoReply(u)'
    BY <1>1, <1>6, <1>22 DEF NoReply
  <2>2. vf_count_online' <= vf_count_online /\ vf_count_online' \in 0 .. 255
    BY <1>12 DEF IInv, PfType
  <2> QED BY <1>2, <1>12, <1>20, <1>22, <2>1, <2>2, ApartLocal DEF GlobalOK
<1> QED BY <1>17, <1>21, <1>22


\* What the PF takes from a function was the first message of it.
LEMMA Taken ==
  ASSUME IInv, NEW v \in VF, toPf[v] # <<>>, toPf' = [toPf EXCEPT ![v] = Tail(@)]
  PROVE  /\ toPf'[v] = Tail(toPf[v])
         /\ Head(toPf[v]) \in Request \cup Response
         /\ Head(toPf[v]) \in Request =>
              /\ ~Quiet(v)
              /\ \A op \in {"HELLO", "VF_BYE", "RESET_VF_BYE"} :
                   Asks(v, op) => Head(toPf[v]) = Msg(op) /\ Quiet(v)'
              /\ None(toPf[v], Response) <=> None(toPf'[v], Response)
              /\ \A op \in Ops : Only(toPf[v], Response, Resp(op)) => Only(toPf'[v], Response, Resp(op))
         /\ Head(toPf[v]) \in Response =>
              /\ ~None(toPf[v], Response)
              /\ \A op \in Ops : Only(toPf[v], Response, Resp(op)) =>
                   Head(toPf[v]) = Resp(op) /\ None(toPf'[v], Response)
              /\ Quiet(v) => Quiet(v)'
              /\ \A op \in {"HELLO", "VF_BYE", "RESET_VF_BYE"} : Asks(v, op) => Asks(v, op)'
<1>1. toPf'[v] = Tail(toPf[v]) /\ toPf[v] \in Seq(Request \cup Response)
  BY DEF IInv, MsgType
<1>2. Head(toPf[v]) \in Request \cup Response
  BY Messages DEF IInv
<1>3. \A op \in {"HELLO", "VF_BYE", "RESET_VF_BYE"} : Msg(op) \in Request
  BY Kinds
<1>4. \A op \in Ops : Resp(op) \in Response
  BY Kinds
<1>5. ASSUME Head(toPf[v]) \in Request
      PROVE  /\ ~Quiet(v)
             /\ \A op \in {"HELLO", "VF_BYE", "RESET_VF_BYE"} :
                  Asks(v, op) => Head(toPf[v]) = Msg(op) /\ Quiet(v)'
             /\ None(toPf[v], Response) => None(toPf'[v], Response)
             /\ \A op \in Ops : Only(toPf[v], Response, Resp(op)) => Only(toPf'[v], Response, Resp(op))
  <2>1. Head(toPf[v]) \notin Response
    BY <1>5, Kinds
  <2>2. /\ ~Quiet(v)
        /\ \A op \in {"HELLO", "VF_BYE", "RESET_VF_BYE"} :
                  Asks(v, op) => Head(toPf[v]) = Msg(op) /\ Quiet(v)'
    BY <1>1, <1>3, <1>5, TakeFirst DEF Quiet, Asks
  <2>3. /\ None(toPf[v], Response) => None(toPf'[v], Response)
        /\ \A op \in Ops : Only(toPf[v], Response, Resp(op)) => Only(toPf'[v], Response, Resp(op))
    BY <1>1, <1>4, <2>1, TakeFirst
  <2> QED BY <2>2, <2>3
<1>6. ASSUME Head(toPf[v]) \notin Response, None(toPf'[v], Response)
      PROVE  None(toPf[v], Response)
  <2> DEFINE s == toPf[v]
  <2>1. /\ DOMAIN s = 1 .. Len(s) /\ Len(s) \in Nat
        /\ DOMAIN Tail(s) = 1 .. Len(s) - 1
        /\ \A i \in 1 .. Len(s) - 1 : Tail(s)[i] = s[i + 1]
        /\ Head(s) = s[1]
    BY <1>1
  <2>2. ASSUME NEW i \in DOMAIN s, i # 1 PROVE s[i] \notin Response
    <3>1. i - 1 \in DOMAIN Tail(s) /\ s[i] = Tail(s)[i - 1]
      BY <2>1, <2>2
    <3> QED BY <1>1, <1>6, <3>1 DEF None
  <2> QED BY <1>6, <2>1, <2>2 DEF None
<1>7. ASSUME Head(toPf[v]) \in Response
      PROVE  /\ ~None(toPf[v], Response)
             /\ \A op \in Ops : Only(toPf[v], Response, Resp(op)) =>
                  Head(toPf[v]) = Resp(op) /\ None(toPf'[v], Response)
             /\ Quiet(v) => Quiet(v)'
             /\ \A op \in {"HELLO", "VF_BYE", "RESET_VF_BYE"} : Asks(v, op) => Asks(v, op)'
  <2>1. Head(toPf[v]) \notin Request
    BY <1>7, Kinds
  <2>2. /\ ~None(toPf[v], Response)
        /\ \A op \in Ops : Only(toPf[v], Response, Resp(op)) =>
                  Head(toPf[v]) = Resp(op) /\ None(toPf'[v], Response)
    BY <1>1, <1>4, <1>7, TakeFirst
  <2>3. /\ Quiet(v) => Quiet(v)'
        /\ \A op \in {"HELLO", "VF_BYE", "RESET_VF_BYE"} : Asks(v, op) => Asks(v, op)'
    BY <1>1, <1>3, <2>1, TakeFirst DEF Quiet, Asks
  <2> QED BY <2>2, <2>3
<1>8. Head(toPf[v]) \in Request => Head(toPf[v]) \notin Response
  BY Kinds
<1> QED BY <1>1, <1>2, <1>5, <1>6, <1>7, <1>8

\* The response the PF waits for.
LEMMA ResponseLive ==
  ASSUME IInv, GlobalOK, \A u \in VF : LocalOK(u), NEW v \in VF, PfRcv(v), PfResponse(v)
  PROVE  (\A u \in VF : LocalOK(u)') /\ GlobalOK'
<1>1. /\ CallOK(v) /\ UnknownOK(v) /\ TellOK(v) /\ StateOK(v) /\ AskedOK(v) /\ TurnOK(v)
      /\ UNCHANGED <<pf, pf_state, ctl, pf_reply, vf_state, vf_pc, vf_wait, toVf, loads>>
      /\ toPf' = [toPf EXCEPT ![v] = Tail(@)] /\ toPf[v] # <<>>
      /\ pf_wait' = IF Head(toPf[v]).op = pf_wait THEN NoOp ELSE pf_wait
  BY DEF LocalOK, PfRcv, PfResponse, bounds, vfs
<1>2. Head(toPf[v]) \in Response
  BY <1>1, Taken, Kinds DEF PfResponse
<1>3. Told(v) /\ pf_wait # NoOp /\ Only(toPf[v], Response, Resp(pf_wait))
  BY <1>1, <1>2, Taken DEF Told, TellOK
<1>4. pf_wait \in Ops
  BY <1>3 DEF IInv, PfType, Ops
<1>5. Head(toPf[v]) = Resp(pf_wait) /\ None(toPf'[v], Response)
  BY <1>1, <1>2, <1>3, <1>4, Taken
<1>6. pf_wait' = NoOp
  BY <1>1, <1>5, OpOf
<1>7. Here(v) => None(toVf[v], Announcement)
  BY <1>1, <1>2, <1>3, Taken DEF TellOK
<1>8. /\ entries' = entries /\ pf_pc' = pf_pc /\ pf_i' = pf_i /\ vf_info' = vf_info
      /\ vf_count_online' = vf_count_online /\ pf_n' = pf_n /\ pf_reply' = pf_reply
      /\ vf_pc' = vf_pc /\ vf_wait' = vf_wait /\ vf_state' = vf_state /\ toVf' = toVf
  BY <1>1 DEF pf, ctl
<1>9. ~Told(v)' /\ (Here(v)' <=> Here(v))
  BY <1>5, <1>7, <1>8 DEF Told, Here
<1>10. CallOK(v)'
  <2>1. /\ Quiet(v) => Quiet(v)'
        /\ \A op \in {"HELLO", "VF_BYE", "RESET_VF_BYE"} : Asks(v, op) => Asks(v, op)'
    BY <1>1, <1>2, Taken
  <2> QED BY <1>1, <1>8, <2>1, SameCalls DEF CallOK
<1>11. UnknownOK(v)' /\ (Unknown(v)' <=> Unknown(v))
  BY <1>1 DEF UnknownOK, Unknown
<1>12. TellOK(v)'
  BY <1>9 DEF TellOK
<1>13. StateOK(v)'
  BY <1>1, <1>8, <1>9 DEF StateOK, Awaiting, Turn, Resetting
<1>14. AskedOK(v)' /\ TurnOK(v)'
  BY <1>1, <1>8, <1>9 DEF AskedOK, Aware, Reached, Resetting, Awaiting, TurnOK, Turn
<1>15. LocalOK(v)'
  BY <1>10, <1>11, <1>12, <1>13, <1>14 DEF LocalOK
<1>16. ASSUME NEW u \in VF, u # v PROVE Apart(u)
  BY <1>1, <1>16 DEF Apart, IInv, MsgType
<1>17. ASSUME NEW u \in VF, u # v PROVE ~Told(u) /\ LocalOK(u)'
  <2>1. ~Told(u)
    BY <1>3, <1>17 DEF GlobalOK, OneTold
  <2>2. vf_count_online' <= vf_count_online /\ vf_count_online' \in 0 .. 255
    BY <1>8 DEF IInv, PfType
  <2> QED BY <1>1, <1>8, <1>16, <1>17, <2>1, <2>2, ApartLocal DEF GlobalOK
<1>18. \A u \in VF : ~Told(u)'
  BY <1>8, <1>9, <1>16, <1>17 DEF Told, Apart, Here
<1>19. \A u \in VF : Awaiting(u)' <=> Awaiting(u)
  BY <1>8 DEF Awaiting
<1>20. Fresh' = Fresh /\ LoadsOK'
  BY <1>1, <1>8 DEF Fresh, Unknown, GlobalOK, LoadsOK
<1>21. WaitOK' /\ HoleIsSilent'
  BY <1>3, <1>6, <1>8 DEF GlobalOK, WaitOK, HoleIsSilent
<1>22. GlobalOK'
  BY <1>1, <1>18, <1>19, <1>20, <1>21, BooksKept
<1> QED BY <1>15, <1>17, <1>22


\* The PF counts a function on and off.
LEMMA CountDown ==
  ASSUME IInv, CountOK, NEW v \in entries
  PROVE  /\ Dec(vf_count_online) = vf_count_online - 1
         /\ Cardinality(entries \ {v}) = vf_count_online - 1
         /\ vf_count_online >= 1
<1>1. entries \subseteq VF /\ vf_count_online \in 0 .. 255 /\ vf_count_online = Cardinality(entries)
  BY DEF IInv, PfType, CountOK
<1>2. IsFiniteSet(entries)
  BY <1>1, FiniteVf
<1>3. Cardinality(entries \ {v}) = Cardinality(entries) - 1
  BY <1>2, FS_RemoveElement
<1>4. Cardinality(entries \ {v}) \in Nat
  BY <1>1, FiniteVf
<1>5. vf_count_online >= 1
  BY <1>1, <1>3, <1>4
<1> QED BY <1>1, <1>3, <1>5 DEF Dec

LEMMA CountUp ==
  ASSUME IInv, CountOK, LoadedOnce, NEW v \in VF, v \notin entries
  PROVE  /\ Inc(vf_count_online) = vf_count_online + 1
         /\ Cardinality(entries \cup {v}) = vf_count_online + 1
         /\ vf_count_online + 1 <= 255
<1>1. entries \subseteq VF /\ vf_count_online \in 0 .. 255 /\ vf_count_online = Cardinality(entries)
  BY DEF IInv, PfType, CountOK
<1>2. IsFiniteSet(entries)
  BY <1>1, FiniteVf
<1>3. Cardinality(entries \cup {v}) = Cardinality(entries) + 1
  BY <1>2, FS_AddElement
<1>4. Cardinality(entries \cup {v}) <= NumVf /\ NumVf \in Nat /\ NumVf <= 255
  BY <1>1, FiniteVf DEF LoadedOnce
<1>5. vf_count_online + 1 <= 255
  BY <1>1, <1>3, <1>4
<1> QED BY <1>1, <1>3, <1>5 DEF Inc


\* A good bye: of a driver that left, or for the reset.
LEMMA ByeLive ==
  ASSUME IInv, GlobalOK, \A u \in VF : LocalOK(u), NEW v \in VF, PfRcv(v), PfBye(v)
  PROVE  (\A u \in VF : LocalOK(u)') /\ GlobalOK'
<1>1. /\ CallOK(v) /\ UnknownOK(v) /\ TellOK(v) /\ StateOK(v) /\ AskedOK(v) /\ TurnOK(v)
      /\ UNCHANGED <<pf_state, ctl, pf_wait, vf_state, vf_pc, vf_wait, toVf, loads>>
      /\ toPf' = [toPf EXCEPT ![v] = Tail(@)] /\ toPf[v] # <<>>
      /\ pf_reply = NoOp /\ entries' = entries \ {v}
      /\ pf_reply' = IF Head(toPf[v]).op = "VF_BYE" THEN NoOp ELSE <<v, "RESET_VF_BYE">>
      /\ Head(toPf[v]) \in {Msg("VF_BYE"), Msg("RESET_VF_BYE")}
  BY DEF LocalOK, PfRcv, PfBye, bounds, vfs
<1>2. Head(toPf[v]) \in Request /\ Head(toPf[v]) # Msg("HELLO")
  <2>1. Msg("VF_BYE") # Msg("HELLO") /\ Msg("RESET_VF_BYE") # Msg("HELLO")
    BY OpOf
  <2> QED BY <1>1, <2>1, Kinds
<1>3. /\ v \in entries
      /\ \/ vf_pc[v] = "gone" /\ Asks(v, "VF_BYE") /\ Settled(v)
         \/ vf_pc[v] = "bye" /\ Asks(v, "RESET_VF_BYE") /\ Unheard(v, "RESET_VF_BYE") /\ Resetting
  <2>1. ~Quiet(v) /\ ~Asks(v, "HELLO")
    BY <1>1, <1>2, Taken
  <2>2. vf_pc[v] = "bye" => Here(v)
    BY DEF Here
  <2> QED BY <1>1, <2>1, <2>2 DEF CallOK, StateOK
<1>4. /\ Quiet(v)' /\ Head(toPf[v]).op = IF vf_pc[v] = "gone" THEN "VF_BYE" ELSE "RESET_VF_BYE"
      /\ None(toPf[v], Response) <=> None(toPf'[v], Response)
      /\ \A op \in Ops : Only(toPf[v], Response, Resp(op)) => Only(toPf'[v], Response, Resp(op))
  <2>1. \A op \in {"VF_BYE", "RESET_VF_BYE"} : Asks(v, op) => Head(toPf[v]) = Msg(op) /\ Quiet(v)'
    BY <1>1, <1>2, Taken
  <2>2. \A op : Msg(op).op = op
    BY OpOf
  <2> QED BY <1>1, <1>2, <1>3, <2>1, <2>2, Taken
<1>5. /\ vf_count_online' = vf_count_online - 1 /\ vf_count_online' = Cardinality(entries')
      /\ vf_count_online' \in 0 .. 255
  <2>1. vf_count_online' = Dec(vf_count_online) /\ vf_count_online \in 0 .. 255
    BY DEF PfBye, VfOffline, IInv, PfType
  <2>2. /\ Dec(vf_count_online) = vf_count_online - 1
        /\ Cardinality(entries \ {v}) = vf_count_online - 1
        /\ vf_count_online >= 1
    BY <1>3, CountDown DEF GlobalOK
  <2>3. vf_count_online' = vf_count_online - 1 /\ vf_count_online' = Cardinality(entries')
    BY <1>1, <2>1, <2>2
  <2>4. vf_count_online - 1 \in 0 .. 255
    BY <2>1, <2>2
  <2> QED BY <2>3, <2>4
<1>6. /\ vf_info \in [Slots -> VF \cup {Invalid}] /\ vf_info' \in [Slots -> VF \cup {Invalid}]
      /\ \A i \in Slots : vf_info'[i] = IF vf_info[i] = v /\ pf_state = "IDLE" THEN Invalid ELSE vf_info[i]
      /\ pf_state = "IDLE" <=> ~Resetting
  BY DEF PfBye, VfOffline, IInv, PfType, GlobalOK, SlotsOK
<1>7. /\ pf_pc' = pf_pc /\ pf_i' = pf_i /\ pf_n' = pf_n /\ pf_wait' = pf_wait /\ pf_state' = pf_state
      /\ vf_pc' = vf_pc /\ vf_wait' = vf_wait /\ vf_state' = vf_state /\ toVf' = toVf /\ loads' = loads
      /\ Resetting' <=> Resetting
  BY <1>1 DEF ctl, Resetting
<1>8. Invalid \notin VF /\ \A u \in VF : NoReply(u)
  <2>1. \A u \in VF, o \in Ops : NoOp # <<u, o>>
    BY NoOpAssumption
  <2> QED BY <1>1, <2>1, ConstAssumption DEF NoReply
<1>9. ASSUME NEW u \in VF, u # v
      PROVE  Apart(u) /\ NoReply(u)' /\ \A i \in Slots : vf_info'[i] = u <=> vf_info[i] = u
  <2>1. Apart(u)
    BY <1>1, <1>9 DEF Apart, IInv, MsgType
  <2>2. NoReply(u)'
    BY <1>1, <1>8, <1>9 DEF NoReply
  <2>3. \A i \in Slots : vf_info'[i] = u <=> vf_info[i] = u
    BY <1>6, <1>8, <1>9
  <2> QED BY <2>1, <2>2, <2>3
<1>10. \A u \in VF : Told(u)' <=> Told(u)
  <2>1. ASSUME NEW u \in VF, u # v PROVE Told(u)' <=> Told(u)
    BY <1>9, <2>1 DEF Told, Apart, Here
  <2>2. Told(v)' <=> Told(v)
    BY <1>4, <1>7 DEF Told, Here
  <2> QED BY <2>1, <2>2
<1>11. ASSUME NEW u \in VF, u # v PROVE LocalOK(u)'
  <2>1. vf_count_online' <= vf_count_online
    <3> DEFINE c == vf_count_online
    <3>1. c \in Int /\ vf_count_online' = c - 1
      BY <1>5 DEF IInv, PfType
    <3> HIDE DEF c
    <3>2. c - 1 <= c
      BY <3>1
    <3> QED BY <3>1, <3>2 DEF c
  <2>2. (u \in entries' <=> u \in entries) /\ UNCHANGED ctl
    BY <1>1, <1>11
  <2> QED BY <1>5, <1>7, <1>8, <1>9, <1>11, <2>1, <2>2, ApartLocal DEF GlobalOK

<1>12. Resetting => vf_info' = vf_info
  BY <1>6
<1>13. /\ ~Unknown(v) /\ ~Unknown(v)' /\ v \notin entries' /\ entries' \subseteq entries
       /\ Here(v)' <=> Here(v)
       /\ Awaiting(v)' <=> Awaiting(v)
       /\ vf_pc[v] = "bye" <=> Here(v)
  BY <1>1, <1>3, <1>7 DEF UnknownOK, Unknown, Here, Awaiting
<1>14. CallOK(v)'
  <2>1. CASE vf_pc[v] = "gone"
    <3>1. pf_reply' = pf_reply
      BY <1>1, <1>4, <2>1
    <3>2. Settled(v)'
      BY <1>3, <1>7, <2>1, <3>1, SameCalls
    <3> QED BY <1>4, <1>7, <1>13, <2>1, <3>2 DEF CallOK
  <2>2. CASE vf_pc[v] = "bye"
    <3>1. pf_reply' = <<v, "RESET_VF_BYE">>
      BY <1>1, <1>4, <2>2
    <3>2. Answering(v, "RESET_VF_BYE")'
      BY <1>3, <1>7, <2>2, <3>1 DEF Answering, Unheard, NoAnswer
    <3> QED BY <1>4, <1>7, <1>13, <2>2, <3>2 DEF CallOK
  <2> QED BY <1>3, <2>1, <2>2
<1>15. UnknownOK(v)'
  BY <1>13 DEF UnknownOK
<1>16. TellOK(v)'
  <2> SUFFICES ASSUME Told(v) PROVE TellOK(v)'
    BY <1>10 DEF TellOK
  <2>1. pf_wait # NoOp /\ pf_wait \in Ops
    BY <1>1 DEF TellOK, IInv, PfType, Ops
  <2>2. Here(v) => Resetting
    BY <1>3, <1>13
  <2> QED BY <1>1, <1>4, <1>7, <1>12, <1>13, <2>1, <2>2 DEF TellOK
<1>17. StateOK(v)'
  BY <1>1, <1>3, <1>7, <1>12, <1>13 DEF StateOK, Awaiting, Turn, Resetting
<1>18. AskedOK(v)'
  <2>1. Aware(v)' => Aware(v) /\ Resetting
    BY <1>3, <1>7, <1>13 DEF Aware
  <2> QED BY <1>1, <1>7, <1>12, <2>1 DEF AskedOK, Reached
<1>19. TurnOK(v)'
  <2>1. ASSUME Turn(v)' PROVE FALSE
    <3>1. pf_pc = "hello" /\ vf_info'[pf_i + 1] = v /\ ~Resetting
      BY <1>7, <2>1 DEF Turn, Resetting
    <3>2. pf_i + 1 \in Slots
      BY <3>1, SlotCount DEF IInv, LoopType, Slots
    <3> QED BY <1>6, <1>8, <3>1, <3>2
  <2> QED BY <2>1 DEF TurnOK
<1>20. LocalOK(v)'
  BY <1>14, <1>15, <1>16, <1>17, <1>18, <1>19 DEF LocalOK
<1>21. Fresh' = Fresh
  <2>1. ASSUME NEW u \in VF PROVE u \in Fresh' <=> u \in Fresh
    <3>1. CASE u = v
      BY <1>3, <1>7, <1>13, <3>1 DEF Fresh
    <3>2. CASE u # v
      BY <1>1, <1>7, <3>2 DEF Fresh, Unknown
    <3> QED BY <3>1, <3>2
  <2>2. Fresh \subseteq VF /\ Fresh' \subseteq VF
    BY DEF Fresh
  <2> QED BY <2>1, <2>2
<1>22. LoadsOK' /\ WaitOK' /\ OneTold' /\ HoleIsSilent'
  BY <1>7, <1>10, <1>12 DEF GlobalOK, LoadsOK, WaitOK, OneTold, HoleIsSilent, Resetting
<1>23. SlotsOK'
  <2>1. \A u \in Fresh' : ~InSlot(u)'
    <3>1. \A u \in VF : InSlot(u)' => InSlot(u)
      BY <1>6, <1>8 DEF InSlot
    <3> QED BY <1>21, <3>1 DEF GlobalOK, SlotsOK, Fresh
  <2>2. \A u \in entries' : InSlot(u)'
    BY <1>1, <1>9 DEF GlobalOK, SlotsOK, InSlot, IInv, PfType
  <2>3. pf_pc' = "up" => \A i \in Slots : vf_info'[i] \in entries' \cup {Invalid}
    <3> SUFFICES ASSUME pf_pc = "up", NEW i \in Slots PROVE vf_info'[i] \in entries' \cup {Invalid}
      BY <1>7
    <3>1. vf_info[i] \in entries \cup {Invalid} /\ pf_state = "IDLE"
      BY <1>6 DEF GlobalOK, SlotsOK, Resetting
    <3> QED BY <1>1, <1>6, <3>1
  <2> QED BY <1>7, <2>1, <2>2, <2>3 DEF GlobalOK, SlotsOK
<1>24. RoomOK'
  <2> SUFFICES ASSUME ~Returning PROVE (Cardinality(Fresh) <= Cardinality(Vacant))'
    BY <1>7 DEF RoomOK, Returning
  <2>1. Vacant \subseteq Vacant' /\ Vacant' \subseteq Slots /\ Vacant \subseteq Slots
    BY <1>6 DEF Vacant
  <2>2. /\ Cardinality(Vacant) <= Cardinality(Vacant')
        /\ Cardinality(Vacant) \in Nat /\ Cardinality(Vacant') \in Nat
    BY <2>1, FiniteVf, FS_Subset
  <2>3. Cardinality(Fresh) <= Cardinality(Vacant) /\ Cardinality(Fresh) \in Nat
    BY FiniteVf DEF GlobalOK, RoomOK, Fresh
  <2> DEFINE a == Cardinality(Fresh)
             b == Cardinality(Vacant)
             c == Cardinality(Vacant')
  <2>4. a <= b /\ b <= c /\ a \in Nat /\ b \in Nat /\ c \in Nat
    BY <2>2, <2>3
  <2>5. Cardinality(Fresh') = a /\ Cardinality(Vacant') = c
    BY <1>21
  <2> HIDE DEF a, b, c
  <2>6. a <= c
    BY <2>4
  <2> QED BY <2>5, <2>6
<1>25. CountOK'
  <2> DEFINE c == vf_count_online
             d == vf_count_online'
             n == pf_n
             i == pf_i
  <2>1. c \in Int /\ n \in Int /\ i \in Int /\ d = c - 1 /\ pf_n' = n /\ pf_i' = i
    BY <1>5, <1>7 DEF IInv, PfType, LoopType
  <2>2. /\ Resetting => c <= n - i /\ n <= NumVf
        /\ pf_pc \in {"ack", "bye"} => i < n
        /\ pf_pc = "down" => entries = {}
        /\ pf_pc = "hello" => c <= n + 1
    BY DEF GlobalOK, CountOK
  <2>3. d = Cardinality(entries')
    BY <1>5
  <2> HIDE DEF c, d, n, i
  <2>4. (c <= n - i => d <= n - i) /\ (c <= n + 1 => d <= n + 1)
    BY <2>1
  <2>5. /\ Resetting' => d <= n - i /\ n <= NumVf
        /\ pf_pc' \in {"ack", "bye"} => i < n
        /\ pf_pc' = "down" => entries' = {}
        /\ pf_pc' = "hello" => d <= n + 1
    BY <1>1, <1>7, <2>2, <2>4
  <2> QED BY <1>7, <2>3, <2>5 DEF d, n, i, CountOK
<1>26. PassedOK'
  <2>1. pf_pc # "down"
    BY <1>3 DEF GlobalOK, CountOK
  <2> QED BY <1>7, <1>12, <2>1 DEF GlobalOK, PassedOK, Passed
<1>27. BackOK'
  <2> SUFFICES ASSUME Returning PROVE BackOK'
    BY <1>7 DEF BackOK, Returning
  <2>1. pf_state = "IDLE"
    BY <1>6 DEF Returning, Resetting
  <2>2. PICK n \in 0 .. NumVf : \E Z \in SUBSET (n + 1 .. NumVf) : Back(n, Z)
    BY DEF GlobalOK, BackOK
  <2>3. PICK Z \in SUBSET (n + 1 .. NumVf) : Back(n, Z)
    BY <2>2
  <2>4. n + 1 .. NumVf \subseteq Slots /\ pf_i + 1 .. n \subseteq Slots /\ 1 .. pf_i \subseteq Slots
    BY SlotCount DEF Slots, IInv, LoopType
  <2>5. \A i \in Slots : /\ vf_info[i] \in entries \cup {Invalid} => vf_info'[i] \in entries' \cup {Invalid}
                         /\ vf_info[i] = Invalid => vf_info'[i] = Invalid
    BY <1>1, <1>6, <2>1
  <2>6. \A j \in 1 .. pf_i' : vf_info'[j] \in entries' \cup {Invalid}
    BY <1>7, <2>4, <2>5 DEF GlobalOK, BackOK
  <2>7. \A u \in VF : Awaiting(u)' => \E j \in pf_i' + 1 .. n : vf_info'[j] = u
    <3> SUFFICES ASSUME NEW u \in VF, Awaiting(u)' PROVE \E j \in pf_i + 1 .. n : vf_info'[j] = u
      BY <1>7
    <3>1. u # v
      BY <1>3, <1>7, <1>13 DEF Awaiting, Resetting, Returning
    <3>2. Awaiting(u)
      BY <1>1, <1>7, <3>1 DEF Awaiting
    <3>3. PICK j \in pf_i + 1 .. n : vf_info[j] = u
      BY <2>3, <3>2 DEF Back
    <3> QED BY <1>9, <2>4, <3>1, <3>3
  <2>8. \A j \in Z : /\ vf_info'[j] \in entries' \cup {Invalid}
                     /\ j <= pf_i' => vf_info'[j] = Invalid
    BY <1>7, <2>3, <2>4, <2>5 DEF Back
  <2>9. Cardinality(Fresh') <= Cardinality(Z)
    BY <1>21, <2>3 DEF Back
  <2>10. pf_pc' = "hello" /\ pf_i' >= n => vf_count_online' <= pf_n'
    <3> DEFINE c == vf_count_online
               d == vf_count_online'
               m == pf_n
    <3>1. c \in Int /\ m \in Int /\ d = c - 1 /\ pf_n' = m
      BY <1>5, <1>7 DEF IInv, PfType, LoopType
    <3>2. pf_pc' = "hello" /\ pf_i' >= n => c <= m
      BY <1>7, <2>3 DEF Back
    <3> HIDE DEF c, d, m
    <3>3. c <= m => d <= m
      BY <3>1
    <3> QED BY <3>1, <3>2, <3>3 DEF c, d, m
  <2>11. Back(n, Z)'
    BY <2>7, <2>8, <2>9, <2>10 DEF Back
  <2> QED BY <2>6, <2>11 DEF BackOK
<1> QED BY <1>11, <1>20, <1>22, <1>23, <1>24, <1>25, <1>26, <1>27 DEF GlobalOK


\* A hello is counted, whether it is the first of the function or not.
LEMMA Greeted ==
  ASSUME IInv, LoadedOnce, GlobalOK, \A u \in VF : LocalOK(u), NEW v \in VF, PfRcv(v), PfHello(v)
  PROVE  /\ UNCHANGED <<pf_state, ctl, pf_wait, vf_state, vf_pc, vf_wait, toVf, loads>>
         /\ v \notin entries /\ entries' = entries \cup {v}
         /\ vf_pc[v] \in {"hello", "rehello"} /\ ~Unknown(v) /\ Here(v)
         /\ vf_count_online' = vf_count_online + 1 /\ vf_count_online' = Cardinality(entries')
         /\ vf_count_online' \in 0 .. 255
         /\ VfOnline(v) /\ CallOK(v)' /\ UnknownOK(v)'
         /\ None(toPf[v], Response) <=> None(toPf'[v], Response)
         /\ \A op \in Ops : Only(toPf[v], Response, Resp(op)) => Only(toPf'[v], Response, Resp(op))
         /\ \A u \in VF : Told(u)' <=> Told(u)
         /\ \A u \in VF : u # v => Apart(u) /\ NoReply(u) /\ NoReply(u)'
<1>1. /\ CallOK(v) /\ UnknownOK(v)
      /\ UNCHANGED <<pf_state, ctl, pf_wait, vf_state, vf_pc, vf_wait, toVf, loads>>
      /\ toPf' = [toPf EXCEPT ![v] = Tail(@)] /\ toPf[v] # <<>>
      /\ pf_reply = NoOp /\ entries' = entries \cup {v}
      /\ pf_reply' = <<v, "HELLO">>
      /\ Head(toPf[v]) = Msg("HELLO") /\ VfOnline(v)
  BY DEF LocalOK, PfRcv, PfHello, bounds, vfs
<1>2. Head(toPf[v]) \in Request
  BY <1>1, Kinds
<1>3. ~Quiet(v) /\ ~Asks(v, "VF_BYE") /\ ~Asks(v, "RESET_VF_BYE")
  <2>1. Msg("VF_BYE") # Msg("HELLO") /\ Msg("RESET_VF_BYE") # Msg("HELLO")
    BY OpOf
  <2> QED BY <1>1, <1>2, <2>1, Taken
<1>4. v \notin entries /\ vf_pc[v] \in {"hello", "rehello"} /\ Unheard(v, "HELLO") /\ Asks(v, "HELLO")
  BY <1>1, <1>3 DEF CallOK
<1>5. ~Unknown(v) /\ ~Unknown(v)' /\ Here(v)
  BY <1>1, <1>4 DEF UnknownOK, Unknown, Here
<1>6. /\ Quiet(v)'
      /\ None(toPf[v], Response) <=> None(toPf'[v], Response)
      /\ \A op \in Ops : Only(toPf[v], Response, Resp(op)) => Only(toPf'[v], Response, Resp(op))
  BY <1>1, <1>2, <1>4, Taken
<1>7. CallOK(v)'
  <2>1. Answering(v, "HELLO")'
    BY <1>1, <1>4 DEF Answering, Unheard, NoAnswer
  <2> QED BY <1>1, <1>4, <1>6, <2>1 DEF CallOK
<1>8. UnknownOK(v)'
  BY <1>5 DEF UnknownOK
<1>9. /\ vf_count_online' = vf_count_online + 1 /\ vf_count_online' = Cardinality(entries')
      /\ vf_count_online' \in 0 .. 255
  <2>1. vf_count_online' = Inc(vf_count_online) /\ vf_count_online \in 0 .. 255
    BY <1>1 DEF VfOnline, IInv, PfType
  <2>2. /\ Inc(vf_count_online) = vf_count_online + 1
        /\ Cardinality(entries \cup {v}) = vf_count_online + 1
        /\ vf_count_online + 1 <= 255
    BY <1>4, CountUp DEF GlobalOK
  <2>3. vf_count_online' = vf_count_online + 1 /\ vf_count_online' = Cardinality(entries')
    BY <1>1, <2>1, <2>2
  <2>4. vf_count_online + 1 \in 0 .. 255
    BY <2>1, <2>2
  <2> QED BY <2>3, <2>4
<1>10. ASSUME NEW u \in VF, u # v PROVE Apart(u) /\ NoReply(u) /\ NoReply(u)'
  <2>1. Apart(u)
    BY <1>1, <1>10 DEF Apart, IInv, MsgType
  <2>2. \A o \in Ops : NoOp # <<u, o>>
    BY NoOpAssumption
  <2> QED BY <1>1, <1>10, <2>1, <2>2 DEF NoReply
<1>11. \A u \in VF : Told(u)' <=> Told(u)
  <2>1. ASSUME NEW u \in VF, u # v PROVE Told(u)' <=> Told(u)
    BY <1>10, <2>1 DEF Told, Apart, Here
  <2>2. Told(v)' <=> Told(v)
    BY <1>1, <1>6 DEF Told, Here
  <2> QED BY <2>1, <2>2
<1> QED BY <1>1, <1>4, <1>5, <1>6, <1>7, <1>8, <1>9, <1>10, <1>11

\* A set of naturals that is not empty has a least element.
LEMMA MinIn ==
  ASSUME NEW S, S \subseteq Nat, S # {}
  PROVE  Min(S) \in S
<1>1. PICK n \in S : \A m \in S : ~(<<m, n>> \in OpToRel(<, Nat))
  BY NatLessThanWellFounded, WFMin
<1>2. OpToRel(<, Nat) = {ss \in Nat \X Nat : ss[1] < ss[2]}
  BY DEF OpToRel
<1>3. ASSUME NEW m \in S PROVE n <= m
  <2>1. m \in Nat /\ n \in Nat /\ ~(<<m, n>> \in {ss \in Nat \X Nat : ss[1] < ss[2]})
    BY <1>1, <1>2
  <2> QED BY <2>1
<1>4. \E k \in S : \A m \in S : k <= m
  BY <1>3
<1> QED BY <1>4 DEF Min

\* A function takes the first free slot.
LEMMA FreeSlot ==
  ASSUME IInv, NEW v \in VF, VfOnline(v), pf_state = "IDLE"
  PROVE  /\ vf_info \in [Slots -> VF \cup {Invalid}] /\ Invalid \notin VF
         /\ Vacant # {} => \E k \in Vacant : vf_info' = [vf_info EXCEPT ![k] = v]
         /\ Vacant = {} => vf_info' = vf_info
         /\ \A u \in VF, i \in Slots : u # v => (vf_info'[i] = u <=> vf_info[i] = u)
         /\ \A i \in Slots : vf_info'[i] \in {vf_info[i], v} /\ (vf_info[i] \in VF => vf_info'[i] = vf_info[i])
<1>1. vf_info \in [Slots -> VF \cup {Invalid}] /\ Invalid \notin VF
  BY ConstAssumption DEF IInv, PfType
<1>2. Vacant \subseteq Nat
  BY SlotCount DEF Vacant, Slots
<1>3. Vacant # {} => \E k \in Vacant : vf_info' = [vf_info EXCEPT ![k] = v]
  <2> SUFFICES ASSUME Vacant # {} PROVE \E k \in Vacant : vf_info' = [vf_info EXCEPT ![k] = v]
    OBVIOUS
  <2>1. vf_info' = [vf_info EXCEPT ![Min(Vacant)] = v]
    BY DEF VfOnline, Vacant
  <2>2. Min(Vacant) \in Vacant
    BY <1>2, MinIn
  <2> QED BY <2>1, <2>2
<1>4. Vacant = {} => vf_info' = vf_info
  BY DEF VfOnline, Vacant
<1>5. Vacant \subseteq Slots /\ \A i \in Vacant : vf_info[i] = Invalid
  BY DEF Vacant
<1>6. /\ \A u \in VF, i \in Slots : u # v => (vf_info'[i] = u <=> vf_info[i] = u)
      /\ \A i \in Slots : vf_info'[i] \in {vf_info[i], v} /\ (vf_info[i] \in VF => vf_info'[i] = vf_info[i])
  <2>1. CASE Vacant = {}
    BY <1>4, <2>1
  <2>2. CASE Vacant # {}
    <3>1. PICK k \in Vacant : vf_info' = [vf_info EXCEPT ![k] = v]
      BY <1>3, <2>2
    <3> QED BY <1>1, <1>5, <3>1
  <2> QED BY <2>1, <2>2
<1> QED BY <1>1, <1>3, <1>4, <1>6


\* The first hello: no reset is under way, and there is a slot left.
LEMMA HelloLive ==
  ASSUME IInv, LoadedOnce, Live', GlobalOK, \A u \in VF : LocalOK(u), NEW v \in VF, PfRcv(v),
         PfHello(v), vf_pc[v] = "hello"
  PROVE  (\A u \in VF : LocalOK(u)') /\ GlobalOK'
<1>1. /\ UNCHANGED <<pf_state, ctl, pf_wait, vf_state, vf_pc, vf_wait, toVf, loads>>
      /\ v \notin entries /\ entries' = entries \cup {v}
      /\ ~Unknown(v) /\ Here(v)
      /\ vf_count_online' = Cardinality(entries') /\ vf_count_online' \in 0 .. 255
      /\ VfOnline(v) /\ CallOK(v)' /\ UnknownOK(v)'
      /\ \A u \in VF : Told(u)' <=> Told(u)
      /\ \A u \in VF : u # v => Apart(u) /\ NoReply(u) /\ NoReply(u)'
  BY Greeted
<1>2. pf_pc = "up"
  <2>1. disturbed' = (disturbed \/ (vf_pc[v] = "hello" /\ pf_pc # "up"))
    BY DEF PfHello
  <2> QED BY <2>1 DEF Live
<1>3. /\ pf_pc' = "up" /\ pf_wait' = pf_wait /\ pf_state' = pf_state
      /\ vf_pc' = vf_pc /\ vf_state' = vf_state /\ toVf' = toVf /\ loads' = loads
      /\ ~Resetting' /\ ~Returning' /\ ~Resetting /\ ~Returning
  BY <1>1, <1>2 DEF ctl, Resetting, Returning
<1>4. pf_state = "IDLE" /\ pf_wait = NoOp
  BY <1>2, <1>3 DEF GlobalOK, SlotsOK, WaitOK
<1>5. v \in Fresh /\ Fresh' = Fresh \ {v} /\ Fresh \subseteq VF
  <2>1. v \in Fresh
    BY <1>1 DEF Fresh
  <2>2. ASSUME NEW u \in VF PROVE u \in Fresh' <=> u \in Fresh /\ u # v
    BY <1>1, <1>3 DEF Fresh, Unknown
  <2>3. Fresh \subseteq VF /\ Fresh' \subseteq VF
    BY DEF Fresh
  <2> QED BY <2>1, <2>2, <2>3
<1>6. /\ Cardinality(Fresh') = Cardinality(Fresh) - 1 /\ Cardinality(Fresh) \in Nat
      /\ Cardinality(Fresh') \in Nat
      /\ Cardinality(Fresh) <= Cardinality(Vacant) /\ Vacant \subseteq Slots
      /\ Cardinality(Vacant) \in Nat
  <2>1. IsFiniteSet(Fresh) /\ Cardinality(Fresh) \in Nat
    BY <1>5, FiniteVf
  <2>2. Cardinality(Fresh \ {v}) = Cardinality(Fresh) - 1 /\ Cardinality(Fresh \ {v}) \in Nat
    BY <1>5, <2>1, FS_RemoveElement, FiniteVf
  <2>3. Vacant \subseteq Slots /\ Cardinality(Vacant) \in Nat
    BY FiniteVf DEF Vacant
  <2>4. Cardinality(Fresh) <= Cardinality(Vacant)
    BY <1>3 DEF GlobalOK, RoomOK
  <2> QED BY <1>5, <2>1, <2>2, <2>3, <2>4
<1>7. Vacant # {}
  <2>1. Cardinality(Vacant) # 0
    BY <1>6
  <2> QED BY <2>1, FS_EmptySet
<1>8. /\ vf_info \in [Slots -> VF \cup {Invalid}] /\ Invalid \notin VF
      /\ \A u \in VF, i \in Slots : u # v => (vf_info'[i] = u <=> vf_info[i] = u)
      /\ \A i \in Slots : vf_info'[i] \in {vf_info[i], v} /\ (vf_info[i] \in VF => vf_info'[i] = vf_info[i])
  BY <1>1, <1>4, FreeSlot
<1>9. PICK k \in Vacant : vf_info' = [vf_info EXCEPT ![k] = v]
  BY <1>1, <1>4, <1>7, FreeSlot
<1>10. vf_info'[k] = v /\ k \in Slots /\ Vacant' = Vacant \ {k}
  <2>1. k \in Slots /\ vf_info'[k] = v /\ \A i \in Slots : i # k => vf_info'[i] = vf_info[i]
    BY <1>6, <1>8, <1>9
  <2>2. \A i \in Slots : vf_info'[i] = Invalid <=> vf_info[i] = Invalid /\ i # k
    BY <1>8, <2>1
  <2> QED BY <2>1, <2>2 DEF Vacant
<1>11. ASSUME NEW u \in VF, u # v PROVE LocalOK(u)'
  <2>1. ~Turn(u) /\ (u \in entries' <=> u \in entries)
    BY <1>1, <1>2, <1>11 DEF Turn
  <2> QED BY <1>1, <1>8, <1>11, <2>1, ApartLocal DEF GlobalOK
<1>12. StateOK(v) /\ vf_state[v] = "IDLE"
  BY <1>1 DEF LocalOK, StateOK
<1>13. StateOK(v)'
  BY <1>1, <1>3, <1>12 DEF StateOK, REQ, DONE, Awaiting
<1>14. TellOK(v)'
  <2>1. ~Told(v)
    BY <1>4 DEF LocalOK, TellOK
  <2> QED BY <1>1, <2>1 DEF TellOK
<1>15. AskedOK(v)' /\ TurnOK(v)'
  BY <1>3 DEF AskedOK, TurnOK, Turn
<1>16. LocalOK(v)'
  BY <1>1, <1>13, <1>14, <1>15 DEF LocalOK
<1>17. LoadsOK' /\ WaitOK' /\ OneTold' /\ HoleIsSilent'
  BY <1>1, <1>3, <1>4 DEF GlobalOK, LoadsOK, WaitOK, OneTold, HoleIsSilent
<1>18. SlotsOK'
  <2>1. \A u \in Fresh' : ~InSlot(u)'
    <3>1. \A u \in Fresh' : u \in VF /\ u # v /\ ~InSlot(u)
      BY <1>5 DEF GlobalOK, SlotsOK
    <3> QED BY <1>8, <3>1 DEF InSlot
  <2>2. \A u \in entries' : InSlot(u)'
    <3>1. InSlot(v)'
      BY <1>10 DEF InSlot
    <3>2. ASSUME NEW u \in entries, u # v PROVE InSlot(u)'
      <4>1. InSlot(u) /\ u \in VF
        BY <3>2 DEF GlobalOK, SlotsOK, IInv, PfType
      <4> QED BY <1>8, <3>2, <4>1 DEF InSlot
    <3> QED BY <1>1, <3>1, <3>2
  <2>3. \A i \in Slots : vf_info'[i] \in entries' \cup {Invalid}
    BY <1>1, <1>2, <1>8 DEF GlobalOK, SlotsOK
  <2> QED BY <1>3, <1>4, <2>1, <2>2, <2>3 DEF SlotsOK
<1>19. RoomOK'
  <2>1. Cardinality(Vacant') = Cardinality(Vacant) - 1
    <3>1. IsFiniteSet(Vacant)
      BY <1>6, FiniteVf
    <3> QED BY <1>10, <3>1, FS_RemoveElement
  <2> DEFINE a == Cardinality(Fresh)
             b == Cardinality(Vacant)
             c == Cardinality(Fresh')
             d == Cardinality(Vacant')
  <2>2. a \in Nat /\ b \in Nat /\ a <= b /\ c = a - 1 /\ d = b - 1
    BY <1>6, <2>1
  <2> HIDE DEF a, b, c, d
  <2>3. c <= d
    BY <2>2
  <2> QED BY <2>3 DEF RoomOK, c, d
<1>20. CountOK'
  BY <1>1, <1>3 DEF CountOK, Resetting
<1>21. PassedOK' /\ BackOK'
  BY <1>3 DEF PassedOK, BackOK
<1> QED BY <1>11, <1>16, <1>17, <1>18, <1>19, <1>20, <1>21 DEF GlobalOK

\* The hello after the reset, of the function whose turn it is.
LEMMA RehelloLive ==
  ASSUME IInv, LoadedOnce, GlobalOK, \A u \in VF : LocalOK(u), NEW v \in VF, PfRcv(v),
         PfHello(v), vf_pc[v] = "rehello"
  PROVE  (\A u \in VF : LocalOK(u)') /\ GlobalOK'
<1>1. /\ UNCHANGED <<pf_state, ctl, pf_wait, vf_state, vf_pc, vf_wait, toVf, loads>>
      /\ v \notin entries /\ entries' = entries \cup {v}
      /\ ~Unknown(v) /\ Here(v)
      /\ vf_count_online' = vf_count_online + 1 /\ vf_count_online' = Cardinality(entries')
      /\ vf_count_online' \in 0 .. 255
      /\ VfOnline(v) /\ CallOK(v)' /\ UnknownOK(v)'
      /\ None(toPf[v], Response) <=> None(toPf'[v], Response)
      /\ \A op \in Ops : Only(toPf[v], Response, Resp(op)) => Only(toPf'[v], Response, Resp(op))
      /\ \A u \in VF : Told(u)' <=> Told(u)
      /\ \A u \in VF : u # v => Apart(u) /\ NoReply(u) /\ NoReply(u)'
  BY Greeted
<1>2. /\ StateOK(v) /\ TellOK(v) /\ TurnOK(v) /\ Awaiting(v) /\ ~Awaiting(v)'
      /\ vf_state[v] = DONE /\ Turn(v) /\ None(toVf[v], Announcement)
  BY <1>1 DEF LocalOK, StateOK, Awaiting
<1>3. /\ pf_pc = "hello" /\ vf_info[pf_i + 1] = v /\ vf_count_online <= pf_n
  BY <1>1, <1>2 DEF Turn, TurnOK
<1>4. /\ pf_pc' = pf_pc /\ pf_i' = pf_i /\ pf_n' = pf_n /\ pf_wait' = pf_wait /\ pf_state' = pf_state
      /\ vf_pc' = vf_pc /\ vf_state' = vf_state /\ toVf' = toVf /\ loads' = loads
      /\ ~Resetting' /\ Returning' /\ ~Resetting /\ Returning
  BY <1>1, <1>3 DEF ctl, Resetting, Returning
<1>5. pf_state = "IDLE"
  BY <1>4 DEF GlobalOK, SlotsOK
<1>6. /\ vf_info \in [Slots -> VF \cup {Invalid}] /\ Invalid \notin VF
      /\ \A u \in VF, i \in Slots : u # v => (vf_info'[i] = u <=> vf_info[i] = u)
      /\ \A i \in Slots : vf_info'[i] \in {vf_info[i], v} /\ (vf_info[i] \in VF => vf_info'[i] = vf_info[i])
  BY <1>1, <1>5, FreeSlot
<1>7. pf_i + 1 \in Slots /\ vf_info'[pf_i + 1] = v
  <2>1. pf_i + 1 \in Slots
    BY <1>3, SlotCount DEF IInv, LoopType, Slots
  <2> QED BY <1>3, <1>6, <2>1
<1>8. ASSUME NEW u \in VF, u # v PROVE LocalOK(u)'
  <2>1. ~Turn(u) /\ (u \in entries' <=> u \in entries)
    BY <1>1, <1>3, <1>8 DEF Turn
  <2> QED BY <1>1, <1>6, <1>8, <2>1, ApartLocal DEF GlobalOK
<1>9. StateOK(v)'
  BY <1>1, <1>2, <1>4 DEF StateOK, REQ, DONE
<1>10. TellOK(v)'
  <2> SUFFICES ASSUME Told(v) PROVE TellOK(v)'
    BY <1>1 DEF TellOK
  <2>1. pf_wait # NoOp /\ pf_wait \in Ops
    BY <1>2 DEF TellOK, IInv, PfType, Ops
  <2> QED BY <1>1, <1>2, <1>3, <1>4, <1>7, <2>1 DEF TellOK
<1>11. AskedOK(v)'
  BY <1>3, <1>4 DEF AskedOK
<1>12. TurnOK(v)'
  BY <1>1, <1>2, <1>4 DEF TurnOK
<1>13. LocalOK(v)'
  BY <1>1, <1>9, <1>10, <1>11, <1>12 DEF LocalOK
<1>14. Fresh' = Fresh
  <2>1. ASSUME NEW u \in VF PROVE u \in Fresh' <=> u \in Fresh
    BY <1>1, <1>4 DEF Fresh, Unknown
  <2>2. Fresh \subseteq VF /\ Fresh' \subseteq VF
    BY DEF Fresh
  <2> QED BY <2>1, <2>2
<1>15. LoadsOK' /\ WaitOK' /\ OneTold' /\ HoleIsSilent'
  BY <1>1, <1>3, <1>4 DEF GlobalOK, LoadsOK, WaitOK, OneTold, HoleIsSilent
<1>16. SlotsOK'
  <2>1. \A u \in Fresh' : ~InSlot(u)'
    <3>1. \A u \in Fresh' : u \in VF /\ u # v /\ ~InSlot(u)
      BY <1>1, <1>14 DEF GlobalOK, SlotsOK, Fresh
    <3> QED BY <1>6, <3>1 DEF InSlot
  <2>2. \A u \in entries' : InSlot(u)'
    <3>1. InSlot(v)'
      BY <1>7 DEF InSlot
    <3>2. ASSUME NEW u \in entries, u # v PROVE InSlot(u)'
      <4>1. InSlot(u) /\ u \in VF
        BY <3>2 DEF GlobalOK, SlotsOK, IInv, PfType
      <4> QED BY <1>6, <3>2, <4>1 DEF InSlot
    <3> QED BY <1>1, <3>1, <3>2
  <2> QED BY <1>3, <1>4, <1>5, <2>1, <2>2 DEF SlotsOK
<1>17. CountOK'
  <2> DEFINE c == vf_count_online
             d == vf_count_online'
             n == pf_n
  <2>1. c \in Int /\ n \in Int /\ d = c + 1 /\ c <= n /\ pf_n' = n
    BY <1>1, <1>3, <1>4 DEF IInv, PfType, LoopType
  <2>2. d = Cardinality(entries')
    BY <1>1
  <2> HIDE DEF c, d, n
  <2>3. d <= n + 1
    BY <2>1
  <2>4. ~Resetting' /\ pf_pc' \notin {"ack", "bye", "down"}
    BY <1>3, <1>4
  <2> QED BY <2>1, <2>2, <2>3, <2>4 DEF CountOK, d
<1>18. RoomOK' /\ PassedOK'
  BY <1>3, <1>4 DEF RoomOK, PassedOK
<1>19. BackOK'
  <2>1. PICK n \in 0 .. NumVf : \E Z \in SUBSET (n + 1 .. NumVf) : Back(n, Z)
    BY <1>4 DEF GlobalOK, BackOK
  <2>2. PICK Z \in SUBSET (n + 1 .. NumVf) : Back(n, Z)
    BY <2>1
  <2>3. n + 1 .. NumVf \subseteq Slots /\ pf_i + 1 .. n \subseteq Slots /\ 1 .. pf_i \subseteq Slots
    BY SlotCount DEF Slots, IInv, LoopType
  <2>4. \A i \in Slots : vf_info[i] \in entries \cup {Invalid} => vf_info'[i] \in entries' \cup {Invalid}
    BY <1>1, <1>6
  <2>5. \A j \in 1 .. pf_i' : vf_info'[j] \in entries' \cup {Invalid}
    BY <1>4, <2>3, <2>4 DEF GlobalOK, BackOK
  <2>6. pf_i < n /\ pf_i \in Int /\ n \in Int /\ \A j \in Z : ~(j <= pf_i)
    <3>1. PICK j \in pf_i + 1 .. n : vf_info[j] = v
      BY <1>2, <2>2 DEF Back
    <3>2. pf_i \in Int /\ n \in Int
      BY SlotCount DEF IInv, LoopType
    <3>3. pf_i < n
      BY <3>1, <3>2
    <3>4. \A x \in n + 1 .. NumVf : ~(x <= pf_i)
      BY <3>2, <3>3
    <3> QED BY <3>2, <3>3, <3>4
  <2>7. \A u \in VF : Awaiting(u)' => \E j \in pf_i' + 1 .. n : vf_info'[j] = u
    <3> SUFFICES ASSUME NEW u \in VF, Awaiting(u)' PROVE \E j \in pf_i + 1 .. n : vf_info'[j] = u
      BY <1>4
    <3>1. u # v
      BY <1>2
    <3>2. Awaiting(u)
      BY <1>1, <1>4, <3>1 DEF Awaiting
    <3>3. PICK j \in pf_i + 1 .. n : vf_info[j] = u
      BY <2>2, <3>2 DEF Back
    <3> QED BY <1>6, <2>3, <3>1, <3>3
  <2>8. \A j \in Z : /\ vf_info'[j] \in entries' \cup {Invalid}
                     /\ j <= pf_i' => vf_info'[j] = Invalid
    BY <1>4, <2>2, <2>3, <2>4, <2>6 DEF Back
  <2>9. Cardinality(Fresh') <= Cardinality(Z)
    BY <1>14, <2>2 DEF Back
  <2>10. ~(pf_i' >= n)
    BY <1>4, <2>6
  <2>11. Back(n, Z)'
    BY <2>7, <2>8, <2>9, <2>10 DEF Back
  <2> QED BY <2>5, <2>11 DEF BackOK
<1> QED BY <1>8, <1>13, <1>15, <1>16, <1>17, <1>18, <1>19 DEF GlobalOK

LEMMA PfRcvLive ==
  ASSUME IInv, LoadedOnce, Live', GlobalOK, \A u \in VF : LocalOK(u), NEW v \in VF, PfRcv(v)
  PROVE  (\A u \in VF : LocalOK(u)') /\ GlobalOK'
<1>1. CASE PfHello(v)
  <2>1. vf_pc[v] \in {"hello", "rehello"}
    BY <1>1, Greeted
  <2> QED BY <1>1, <2>1, HelloLive, RehelloLive
<1>2. CASE PfBye(v)
  BY <1>2, ByeLive
<1>3. CASE PfResponse(v)
  BY <1>3, ResponseLive
<1> QED BY <1>1, <1>2, <1>3 DEF PfRcv


-----------------------------------------------------------------------------
(* The control thread of the PF.                                            *)

\* A function does not notice what the PF does, but for an announcement.
LEMMA CallKept ==
  ASSUME IInv, NEW u \in VF, CallOK(u), UnknownOK(u),
         UNCHANGED <<pf, pf_reply, vfs, toPf, loads>>,
         \/ toVf'[u] = toVf[u]
         \/ ~Unknown(u) /\ \E m \in Announcement : toVf'[u] = Append(toVf[u], m)
  PROVE  CallOK(u)' /\ UnknownOK(u)' /\ (Here(u)' <=> Here(u)) /\ (Awaiting(u)' <=> Awaiting(u))
<1>1. /\ entries' = entries /\ vf_pc' = vf_pc /\ vf_wait' = vf_wait /\ toPf' = toPf
      /\ pf_reply' = pf_reply /\ loads' = loads
  BY DEF pf, vfs
<1>2. /\ None(toVf[u], Response) => None(toVf'[u], Response)
      /\ \A x : Only(toVf[u], Response, x) => Only(toVf'[u], Response, x)
  <2>1. CASE toVf'[u] = toVf[u]
    BY <2>1
  <2>2. CASE \E m \in Announcement : toVf'[u] = Append(toVf[u], m)
    <3>1. PICK m \in Announcement : toVf'[u] = Append(toVf[u], m)
      BY <2>2
    <3>2. m \notin Response /\ toVf[u] \in Seq(Announcement \cup Response)
      BY Kinds DEF IInv, MsgType
    <3> QED BY <3>1, <3>2, AddOther
  <2> QED BY <2>1, <2>2
<1>3. NoReply(u)' <=> NoReply(u)
  BY <1>1 DEF NoReply
<1>4. NoAnswer(u) => NoAnswer(u)'
  BY <1>2, <1>3 DEF NoAnswer
<1>5. Settled(u) => Settled(u)'
  BY <1>1, <1>4 DEF Settled
<1>6. \A op : Unheard(u, op) => Unheard(u, op)'
  BY <1>1, <1>4 DEF Unheard
<1>7. \A op : Answering(u, op) => Answering(u, op)'
  BY <1>1, <1>2, <1>3, <1>5 DEF Answering
<1>8. CallOK(u)'
  BY <1>1, <1>5, <1>6, <1>7 DEF CallOK, Quiet, Asks
<1>9. UnknownOK(u)'
  BY <1>1 DEF UnknownOK, Unknown
<1> QED BY <1>1, <1>8, <1>9 DEF Here, Awaiting

\* A step in which nobody is told anything.
LEMMA SilentStep ==
  ASSUME IInv, NEW u \in VF, LocalOK(u), ~Told(u),
         UNCHANGED <<pf, pf_reply, vfs, toVf, toPf, loads>>,
         StateOK(u)', AskedOK(u)', TurnOK(u)'
  PROVE  LocalOK(u)' /\ ~Told(u)'
<1>1. CallOK(u)' /\ UnknownOK(u)' /\ (Here(u)' <=> Here(u))
  BY CallKept DEF LocalOK
<1>2. ~Told(u)'
  BY <1>1 DEF Told
<1> QED BY <1>1, <1>2 DEF LocalOK, TellOK

LEMMA NobodyTold ==
  ASSUME \A u \in VF : LocalOK(u), pf_wait = NoOp
  PROVE  \A u \in VF : ~Told(u)
BY DEF LocalOK, TellOK

\* What the PF's control thread keeps.
LEMMA SameSets ==
  ASSUME UNCHANGED <<pf, vfs, loads>>
  PROVE  /\ Fresh' = Fresh /\ Vacant' = Vacant
         /\ \A u : (InSlot(u)' <=> InSlot(u)) /\ (Awaiting(u)' <=> Awaiting(u)) /\ (Here(u)' <=> Here(u))
         /\ vf_info' = vf_info /\ vf_count_online' = vf_count_online /\ entries' = entries
         /\ vf_pc' = vf_pc /\ vf_state' = vf_state
         /\ LoadsOK => LoadsOK'
<1>1. /\ vf_info' = vf_info /\ vf_count_online' = vf_count_online /\ entries' = entries
      /\ vf_pc' = vf_pc /\ vf_state' = vf_state /\ loads' = loads
  BY DEF pf, vfs
<1> QED BY <1>1 DEF Fresh, Vacant, InSlot, Awaiting, Here, Unknown, LoadsOK

\* The reset begins.
LEMMA ResetPrepareLive ==
  ASSUME IInv, GlobalOK, \A u \in VF : LocalOK(u), ResetPrepare
  PROVE  (\A u \in VF : LocalOK(u)') /\ GlobalOK'
<1> DEFINE first == IF vf_count_online # 0 THEN "prepare" ELSE "down"
<1>1. /\ UNCHANGED <<pf, pf_wait, pf_reply, vfs, toVf, toPf, loads>>
      /\ pf_pc = "up" /\ pf_pc' = first /\ pf_i' = 0 /\ pf_n' = vf_count_online
      /\ pf_state' = IF vf_count_online # 0 THEN "PF_WAIT_FOR_BYES" ELSE pf_state
  BY DEF ResetPrepare
<1>2. /\ Fresh' = Fresh /\ Vacant' = Vacant
      /\ \A u : (InSlot(u)' <=> InSlot(u)) /\ (Awaiting(u)' <=> Awaiting(u)) /\ (Here(u)' <=> Here(u))
      /\ vf_info' = vf_info /\ vf_count_online' = vf_count_online /\ entries' = entries
      /\ vf_pc' = vf_pc /\ vf_state' = vf_state /\ LoadsOK'
  BY <1>1, SameSets DEF GlobalOK
<1>3. pf_wait = NoOp /\ pf_wait' = NoOp /\ \A u \in VF : ~Told(u)
  BY <1>1, NobodyTold DEF GlobalOK, WaitOK
<1>4. vf_count_online = Cardinality(entries) /\ vf_count_online <= NumVf /\ vf_count_online \in Nat
  <2>1. vf_count_online = Cardinality(entries) /\ entries \subseteq VF
    BY DEF GlobalOK, CountOK, IInv, PfType
  <2> QED BY <2>1, FiniteVf
<1>5. vf_count_online = 0 => entries = {}
  BY <1>4, FiniteVf, FS_EmptySet DEF IInv, PfType
<1>6. /\ Resetting' <=> vf_count_online # 0
      /\ Resetting' \/ (entries = {} /\ pf_pc' = "down")
      /\ ~Resetting /\ ~Returning /\ ~Returning'
  BY <1>1, <1>5 DEF Resetting, Returning
<1>7. ASSUME NEW u \in VF PROVE LocalOK(u)' /\ ~Told(u)'
  <2>1. CallOK(u) /\ StateOK(u) /\ ~Awaiting(u) /\ ~Aware(u)
    <3>1. CallOK(u) /\ StateOK(u)
      BY DEF LocalOK
    <3>2. Here(u) => ~Awaiting(u)
      BY <1>1, <3>1 DEF StateOK
    <3>3. ~Awaiting(u)
      BY <3>2 DEF Awaiting, Here
    <3>4. Here(u) => vf_pc[u] # "offline" /\ vf_state[u] # REQ
      BY <1>6, <3>1, <3>3 DEF StateOK, CallOK, Awaiting, REQ, Here
    <3> QED BY <3>1, <3>3, <3>4 DEF Aware
  <2>2. StateOK(u)'
    BY <1>1, <1>2, <1>6, <2>1 DEF StateOK, Turn
  <2>3. AskedOK(u)' /\ TurnOK(u)'
    BY <1>1, <1>2, <2>1 DEF AskedOK, Aware, TurnOK, Turn
  <2> QED BY <1>1, <1>3, <2>2, <2>3, SilentStep
<1>8. WaitOK' /\ OneTold' /\ HoleIsSilent'
  BY <1>1, <1>3, <1>7 DEF WaitOK, OneTold, HoleIsSilent
<1>9. SlotsOK'
  BY <1>1, <1>2, <1>6 DEF GlobalOK, SlotsOK
<1>10. RoomOK'
  BY <1>2, <1>6 DEF GlobalOK, RoomOK
<1>11. CountOK'
  BY <1>1, <1>2, <1>4, <1>5, <1>6 DEF CountOK
<1>12. PassedOK' /\ BackOK'
  BY <1>1, <1>6 DEF PassedOK, Passed, BackOK
<1> QED BY <1>2, <1>7, <1>8, <1>9, <1>10, <1>11, <1>12 DEF GlobalOK


\* The PF goes on with its preparations: the response or the good bye came.
LEMMA PrepareOnLive ==
  ASSUME IInv, GlobalOK, \A u \in VF : LocalOK(u), PrepareAcked \/ ByeReceived
  PROVE  (\A u \in VF : LocalOK(u)') /\ GlobalOK'
<1>1. /\ UNCHANGED <<pf, pf_state, pf_wait, pf_reply, vfs, toVf, toPf, loads>>
      /\ pf_n' = pf_n
      /\ \/ pf_pc = "ack" /\ pf_wait = NoOp /\ pf_pc' = "bye" /\ pf_i' = pf_i
         \/ pf_pc = "bye" /\ ByeCame /\ pf_pc' = "prepare" /\ pf_i' = pf_i + 1
  BY DEF PrepareAcked, ByeReceived, bounds
<1>2. /\ Fresh' = Fresh /\ Vacant' = Vacant
      /\ \A u : (InSlot(u)' <=> InSlot(u)) /\ (Awaiting(u)' <=> Awaiting(u)) /\ (Here(u)' <=> Here(u))
      /\ vf_info' = vf_info /\ vf_count_online' = vf_count_online /\ entries' = entries
      /\ vf_pc' = vf_pc /\ vf_state' = vf_state /\ LoadsOK'
  BY <1>1, SameSets DEF GlobalOK
<1>3. pf_wait = NoOp /\ pf_wait' = NoOp /\ \A u \in VF : ~Told(u)
  BY <1>1, NobodyTold DEF GlobalOK, WaitOK
<1>4. /\ Resetting /\ Resetting' /\ ~Returning /\ ~Returning' /\ pf_pc # "up" /\ pf_pc' # "up"
      /\ pf_pc # "hello" /\ pf_pc' # "hello" /\ Reached' = Reached
  BY <1>1 DEF Resetting, Returning, Reached
<1>5. ASSUME NEW u \in VF PROVE LocalOK(u)' /\ ~Told(u)'
  <2>1. StateOK(u) /\ AskedOK(u)
    BY DEF LocalOK
  <2>2. StateOK(u)'
    BY <1>1, <1>2, <1>4, <2>1 DEF StateOK, Turn
  <2>3. AskedOK(u)' /\ TurnOK(u)'
    BY <1>2, <1>4, <2>1 DEF AskedOK, Aware, TurnOK, Turn
  <2> QED BY <1>1, <1>3, <2>2, <2>3, SilentStep
<1>6. WaitOK' /\ OneTold' /\ HoleIsSilent'
  BY <1>1, <1>3, <1>5 DEF WaitOK, OneTold, HoleIsSilent
<1>7. SlotsOK' /\ RoomOK'
  BY <1>1, <1>2, <1>4 DEF GlobalOK, SlotsOK, RoomOK
<1>8. CountOK'
  <2> DEFINE c == vf_count_online
             n == pf_n
             i == pf_i
             j == pf_i'
  <2>1. /\ c \in Int /\ n \in Int /\ i \in Int /\ pf_n' = n /\ vf_count_online' = c /\ entries' = entries
        /\ n <= NumVf /\ c <= n - i /\ i < n /\ c = Cardinality(entries)
    BY <1>1, <1>2, <1>4 DEF IInv, PfType, LoopType, GlobalOK, CountOK
  <2>2. CASE pf_pc = "ack"
    <3>1. j = i /\ pf_pc' = "bye"
      BY <1>1, <2>2
    <3> QED BY <1>4, <2>1, <3>1 DEF CountOK
  <2>3. CASE pf_pc = "bye"
    <3>1. j = i + 1 /\ pf_pc' = "prepare" /\ c = n - i - 1
      BY <1>1, <2>3 DEF ByeCame
    <3> HIDE DEF c, n, i, j
    <3>2. c <= n - j
      BY <2>1, <3>1
    <3> QED BY <1>4, <2>1, <3>1, <3>2 DEF CountOK, j
  <2> QED BY <1>1, <2>2, <2>3
<1>9. PassedOK'
  <2>1. CASE pf_pc = "ack"
    <3>1. vf_info[pf_i + 1] # Invalid
      BY <1>3, <2>1 DEF GlobalOK, HoleIsSilent
    <3>2. pf_i \in Nat /\ Passed = pf_i /\ Passed' = pf_i + 1
      BY <1>1, <2>1, SlotCount DEF IInv, LoopType, Passed
    <3>3. \A k \in 1 .. pf_i + 1 : k \in 1 .. pf_i \/ k = pf_i + 1
      BY <3>2
    <3>4. \A k \in 1 .. pf_i : vf_info[k] # Invalid
      BY <1>4, <3>2 DEF GlobalOK, PassedOK
    <3>5. \A k \in 1 .. pf_i + 1 : vf_info[k] # Invalid
      BY <3>1, <3>3, <3>4
    <3> QED BY <1>2, <3>2, <3>5 DEF PassedOK
  <2>2. CASE pf_pc = "bye"
    <3>1. Passed' = Passed
      BY <1>1, <2>2 DEF Passed
    <3> QED BY <1>2, <1>4, <3>1 DEF GlobalOK, PassedOK
  <2> QED BY <1>1, <2>1, <2>2
<1>10. BackOK'
  BY <1>4 DEF BackOK
<1> QED BY <1>2, <1>5, <1>6, <1>7, <1>8, <1>9, <1>10 DEF GlobalOK

\* All were told: every function gave its queues back.
LEMMA PrepareEndLive ==
  ASSUME IInv, GlobalOK, \A u \in VF : LocalOK(u), PrepareEnd
  PROVE  (\A u \in VF : LocalOK(u)') /\ GlobalOK'
<1>1. /\ UNCHANGED <<pf, pf_wait, pf_reply, vfs, toVf, toPf, loads>>
      /\ pf_pc = "prepare" /\ pf_pc' = "down" /\ pf_i' = pf_i /\ pf_n' = pf_n
      /\ pf_i = pf_n \/ pf_i = NumVf
      /\ pf_state' = "IDLE"
  BY DEF PrepareEnd, bounds
<1>2. /\ Fresh' = Fresh /\ Vacant' = Vacant
      /\ \A u : (InSlot(u)' <=> InSlot(u)) /\ (Awaiting(u)' <=> Awaiting(u)) /\ (Here(u)' <=> Here(u))
      /\ vf_info' = vf_info /\ vf_count_online' = vf_count_online /\ entries' = entries
      /\ vf_pc' = vf_pc /\ vf_state' = vf_state /\ LoadsOK'
  BY <1>1, SameSets DEF GlobalOK
<1>3. pf_wait = NoOp /\ pf_wait' = NoOp /\ \A u \in VF : ~Told(u)
  BY <1>1, NobodyTold DEF GlobalOK, WaitOK
<1>4. /\ Resetting /\ ~Resetting' /\ ~Returning /\ ~Returning' /\ Reached' = Reached /\ Passed' = Passed
  BY <1>1 DEF Resetting, Returning, Reached, Passed
<1>5. entries = {}
  <2> DEFINE c == vf_count_online
             n == pf_n
             i == pf_i
  <2>1. /\ c \in Nat /\ n \in Nat /\ i \in Nat /\ NumVf \in Nat
        /\ n <= NumVf /\ c <= n - i /\ (i = n \/ i = NumVf)
    BY <1>1, <1>4, SlotCount DEF IInv, PfType, LoopType, GlobalOK, CountOK
  <2> HIDE DEF c, n, i
  <2>2. c = 0
    BY <2>1
  <2>3. Cardinality(entries) = 0 /\ entries \subseteq VF
    BY <2>2 DEF c, GlobalOK, CountOK, IInv, PfType
  <2> QED BY <2>3, FiniteVf, FS_EmptySet
<1>6. ASSUME NEW u \in VF PROVE LocalOK(u)' /\ ~Told(u)'
  <2>1. StateOK(u) /\ AskedOK(u)
    BY DEF LocalOK
  <2>2. StateOK(u)'
    BY <1>1, <1>2, <1>4, <1>5, <2>1 DEF StateOK, Turn
  <2>3. AskedOK(u)' /\ TurnOK(u)'
    BY <1>1, <1>2, <1>4, <2>1 DEF AskedOK, Aware, TurnOK, Turn
  <2> QED BY <1>1, <1>3, <2>2, <2>3, SilentStep
<1>7. WaitOK' /\ OneTold' /\ HoleIsSilent'
  BY <1>1, <1>3, <1>6 DEF WaitOK, OneTold, HoleIsSilent
<1>8. SlotsOK' /\ RoomOK'
  BY <1>1, <1>2, <1>4 DEF GlobalOK, SlotsOK, RoomOK
<1>9. CountOK'
  BY <1>1, <1>2, <1>4, <1>5 DEF GlobalOK, CountOK
<1>10. PassedOK' /\ BackOK'
  BY <1>2, <1>4 DEF GlobalOK, PassedOK, BackOK
<1> QED BY <1>2, <1>6, <1>7, <1>8, <1>9, <1>10 DEF GlobalOK


\* The PF tells the function in the slot it is at.
LEMMA TellLive ==
  ASSUME IInv, GlobalOK, \A u \in VF : LocalOK(u), pf_wait = NoOp, pf_i + 1 \in Slots,
         NEW op \in {"RESET_PREPARE", "RESET_DONE"}, Tell(pf_i + 1, op),
         UNCHANGED <<pf, pf_reply, vfs, toPf, loads>>, pf_i' = pf_i
  PROVE  /\ pf_wait' = op /\ op # NoOp
         /\ \A u \in VF : /\ CallOK(u)' /\ UnknownOK(u)' /\ TellOK(u)'
                          /\ Told(u)' => vf_info[pf_i + 1] = u
<1> DEFINE w == vf_info[pf_i + 1]
<1>1. /\ pf_wait' = op /\ op # NoOp /\ Msg(op) \in Announcement
      /\ toVf' = IF w = Invalid THEN toVf ELSE [toVf EXCEPT ![w] = Append(@, Msg(op))]
  BY NoOpAssumption DEF Tell, Ops, Announcement
<1>2. \A u \in VF : ~Told(u)
  BY NobodyTold
<1>3. w = Invalid \/ (w \in VF /\ ~Unknown(w))
  <2>1. w \in VF \cup {Invalid}
    BY DEF IInv, PfType
  <2>2. w \in VF => InSlot(w)
    BY DEF InSlot
  <2> QED BY <2>1, <2>2 DEF GlobalOK, SlotsOK, Fresh
<1>4. Invalid \notin VF
  BY ConstAssumption
<1>5. /\ \A u \in VF : u # w => toVf'[u] = toVf[u]
      /\ w \in VF => toVf'[w] = Append(toVf[w], Msg(op))
  BY <1>1, <1>3, <1>4 DEF IInv, MsgType
<1>6. vf_info' = vf_info /\ toPf' = toPf
  BY DEF pf
<1>7. ASSUME NEW u \in VF
      PROVE  CallOK(u)' /\ UnknownOK(u)' /\ TellOK(u)' /\ (Told(u)' => w = u)
  <2>1. CallOK(u)' /\ UnknownOK(u)' /\ (Here(u)' <=> Here(u))
    <3>1. \/ toVf'[u] = toVf[u]
          \/ ~Unknown(u) /\ \E m \in Announcement : toVf'[u] = Append(toVf[u], m)
      BY <1>1, <1>3, <1>5
    <3> QED BY <3>1, CallKept DEF LocalOK
  <2>2. None(toPf[u], Response) /\ (Here(u) => None(toVf[u], Announcement))
    BY <1>2 DEF Told
  <2>3. CASE u # w
    <3>1. ~Told(u)'
      BY <1>2, <1>5, <1>6, <2>1, <2>3 DEF Told
    <3> QED BY <2>1, <3>1 DEF TellOK
  <2>4. CASE u = w
    <3>1. Here(u) => Only(toVf'[u], Announcement, Msg(op))
      <4>1. toVf[u] \in Seq(Announcement \cup Response)
        BY DEF IInv, MsgType
      <4> QED BY <1>5, <2>2, <2>4, <4>1, AddFirst
    <3>2. TellOK(u)'
      BY <1>1, <1>6, <2>1, <2>2, <2>4, <3>1 DEF TellOK
    <3> QED BY <2>1, <2>4, <3>2
  <2> QED BY <2>3, <2>4
<1> QED BY <1>1, <1>7

LEMMA OneIsTold ==
  ASSUME NEW i, \A u \in VF : Told(u)' => vf_info[i] = u
  PROVE  OneTold' /\ (vf_info[i] = Invalid => \A u \in VF : ~Told(u)')
<1>1. Invalid \notin VF
  BY ConstAssumption
<1> QED BY <1>1 DEF OneTold

LEMMA PrepareSendLive ==
  ASSUME IInv, GlobalOK, \A u \in VF : LocalOK(u), PrepareSend
  PROVE  (\A u \in VF : LocalOK(u)') /\ GlobalOK'
<1>1. /\ UNCHANGED <<pf, pf_state, pf_reply, vfs, toPf, loads>>
      /\ pf_pc = "prepare" /\ pf_pc' = "ack" /\ pf_i' = pf_i /\ pf_n' = pf_n
      /\ pf_i < pf_n /\ pf_i < NumVf /\ Tell(pf_i + 1, "RESET_PREPARE")
  BY DEF PrepareSend, bounds
<1>2. /\ Fresh' = Fresh /\ Vacant' = Vacant
      /\ \A u : (InSlot(u)' <=> InSlot(u)) /\ (Awaiting(u)' <=> Awaiting(u)) /\ (Here(u)' <=> Here(u))
      /\ vf_info' = vf_info /\ vf_count_online' = vf_count_online /\ entries' = entries
      /\ vf_pc' = vf_pc /\ vf_state' = vf_state /\ LoadsOK'
  BY <1>1, SameSets DEF GlobalOK
<1>3. /\ pf_wait' = "RESET_PREPARE" /\ pf_wait' # NoOp
      /\ \A u \in VF : /\ CallOK(u)' /\ UnknownOK(u)' /\ TellOK(u)'
                       /\ Told(u)' => vf_info[pf_i + 1] = u
  <2> DEFINE op == "RESET_PREPARE"
  <2>1. pf_wait = NoOp
    BY <1>1 DEF GlobalOK, WaitOK
  <2>2. pf_i + 1 \in Slots
    BY <1>1, SlotCount DEF IInv, LoopType, Slots
  <2>3. op \in {"RESET_PREPARE", "RESET_DONE"} /\ Tell(pf_i + 1, op)
    BY <1>1
  <2> HIDE DEF op
  <2>4. /\ pf_wait' = op /\ op # NoOp
        /\ \A u \in VF : /\ CallOK(u)' /\ UnknownOK(u)' /\ TellOK(u)'
                         /\ Told(u)' => vf_info[pf_i + 1] = u
    BY <1>1, <2>1, <2>2, <2>3, TellLive
  <2> QED BY <2>4 DEF op
<1>4. /\ Resetting /\ Resetting' /\ ~Returning /\ ~Returning' /\ Passed' = Passed
      /\ Reached = pf_i /\ Reached' = pf_i + 1 /\ pf_i \in Nat
  BY <1>1, SlotCount DEF Resetting, Returning, Reached, Passed, IInv, LoopType
<1>5. ASSUME NEW u \in VF PROVE LocalOK(u)'
  <2>1. StateOK(u) /\ AskedOK(u)
    BY DEF LocalOK
  <2>2. ~Turn(u) /\ ~Turn(u)'
    BY <1>1 DEF Turn
  <2>3. StateOK(u)'
    BY <1>1, <1>2, <1>4, <2>1, <2>2 DEF StateOK
  <2>4. AskedOK(u)'
    <3>1. 1 .. pf_i \subseteq 1 .. pf_i + 1
      BY <1>4
    <3>2. Aware(u)' <=> Aware(u)
      BY <1>2 DEF Aware
    <3> QED BY <1>1, <1>2, <1>4, <2>1, <3>1, <3>2 DEF AskedOK
  <2>5. TurnOK(u)'
    BY <2>2 DEF TurnOK
  <2> QED BY <1>3, <2>3, <2>4, <2>5 DEF LocalOK
<1>6. WaitOK' /\ OneTold' /\ HoleIsSilent'
  <2>1. OneTold' /\ (vf_info[pf_i + 1] = Invalid => \A u \in VF : ~Told(u)')
    <3> DEFINE i == pf_i + 1
    <3>1. \A u \in VF : Told(u)' => vf_info[i] = u
      BY <1>3
    <3> HIDE DEF i
    <3>2. OneTold' /\ (vf_info[i] = Invalid => \A u \in VF : ~Told(u)')
      BY <3>1, OneIsTold
    <3> QED BY <3>2 DEF i
  <2> QED BY <1>1, <1>2, <1>3, <2>1 DEF WaitOK, HoleIsSilent
<1>7. SlotsOK' /\ RoomOK'
  BY <1>1, <1>2, <1>4 DEF GlobalOK, SlotsOK, RoomOK
<1>8. CountOK'
  BY <1>1, <1>2, <1>4 DEF GlobalOK, CountOK
<1>9. PassedOK' /\ BackOK'
  BY <1>2, <1>4 DEF GlobalOK, PassedOK, BackOK
<1> QED BY <1>2, <1>5, <1>6, <1>7, <1>8, <1>9 DEF GlobalOK

LEMMA DoneSendLive ==
  ASSUME IInv, GlobalOK, \A u \in VF : LocalOK(u), DoneSend
  PROVE  (\A u \in VF : LocalOK(u)') /\ GlobalOK'
<1>1. /\ UNCHANGED <<pf, pf_state, pf_reply, vfs, toPf, loads>>
      /\ pf_pc = "done" /\ pf_pc' = "hello" /\ pf_i' = pf_i /\ pf_n' = vf_count_online
      /\ pf_i < NumVf /\ Tell(pf_i + 1, "RESET_DONE")
  BY DEF DoneSend, bounds
<1>2. /\ Fresh' = Fresh /\ Vacant' = Vacant
      /\ \A u : (InSlot(u)' <=> InSlot(u)) /\ (Awaiting(u)' <=> Awaiting(u)) /\ (Here(u)' <=> Here(u))
      /\ vf_info' = vf_info /\ vf_count_online' = vf_count_online /\ entries' = entries
      /\ vf_pc' = vf_pc /\ vf_state' = vf_state /\ LoadsOK'
  BY <1>1, SameSets DEF GlobalOK
<1>3. /\ pf_wait' = "RESET_DONE" /\ pf_wait' # NoOp
      /\ \A u \in VF : /\ CallOK(u)' /\ UnknownOK(u)' /\ TellOK(u)'
                       /\ Told(u)' => vf_info[pf_i + 1] = u
  <2> DEFINE op == "RESET_DONE"
  <2>1. pf_wait = NoOp
    BY <1>1 DEF GlobalOK, WaitOK
  <2>2. pf_i + 1 \in Slots
    BY <1>1, SlotCount DEF IInv, LoopType, Slots
  <2>3. op \in {"RESET_PREPARE", "RESET_DONE"} /\ Tell(pf_i + 1, op)
    BY <1>1
  <2> HIDE DEF op
  <2>4. /\ pf_wait' = op /\ op # NoOp
        /\ \A u \in VF : /\ CallOK(u)' /\ UnknownOK(u)' /\ TellOK(u)'
                         /\ Told(u)' => vf_info[pf_i + 1] = u
    BY <1>1, <2>1, <2>2, <2>3, TellLive
  <2> QED BY <2>4 DEF op
<1>4. ~Resetting /\ ~Resetting' /\ Returning /\ Returning'
  BY <1>1 DEF Resetting, Returning
<1>5. vf_count_online \in Nat /\ vf_count_online' <= pf_n' /\ vf_count_online' <= pf_n' + 1
  <2> DEFINE c == vf_count_online
  <2>1. c \in Nat /\ vf_count_online' = c /\ pf_n' = c
    BY <1>1, <1>2 DEF IInv, PfType
  <2> HIDE DEF c
  <2> QED BY <2>1 DEF c
<1>6. ASSUME NEW u \in VF PROVE LocalOK(u)'
  <2>1. StateOK(u) /\ ~Turn(u)
    BY <1>1 DEF LocalOK, Turn
  <2>2. StateOK(u)'
    BY <1>1, <1>2, <1>4, <2>1 DEF StateOK
  <2>3. AskedOK(u)'
    BY <1>1, <1>4 DEF AskedOK
  <2>4. TurnOK(u)'
    BY <1>5 DEF TurnOK
  <2> QED BY <1>3, <2>2, <2>3, <2>4 DEF LocalOK
<1>7. WaitOK' /\ OneTold' /\ HoleIsSilent'
  <2>1. OneTold'
    <3> DEFINE i == pf_i + 1
    <3>1. \A u \in VF : Told(u)' => vf_info[i] = u
      BY <1>3
    <3> HIDE DEF i
    <3> QED BY <3>1, OneIsTold
  <2> QED BY <1>1, <1>3, <2>1 DEF WaitOK, HoleIsSilent
<1>8. SlotsOK' /\ RoomOK'
  BY <1>1, <1>2, <1>4 DEF GlobalOK, SlotsOK, RoomOK
<1>9. CountOK'
  BY <1>1, <1>2, <1>4, <1>5 DEF GlobalOK, CountOK
<1>10. PassedOK'
  BY <1>1, <1>4 DEF PassedOK
<1>11. BackOK'
  <2>1. PICK n \in 0 .. NumVf : \E Z \in SUBSET (n + 1 .. NumVf) : Back(n, Z)
    BY <1>4 DEF GlobalOK, BackOK
  <2>2. PICK Z \in SUBSET (n + 1 .. NumVf) : Back(n, Z)
    BY <2>1
  <2>3. Back(n, Z)'
    BY <1>1, <1>2, <1>5, <2>2 DEF Back
  <2>4. \A j \in 1 .. pf_i' : vf_info'[j] \in entries' \cup {Invalid}
    BY <1>1, <1>2, <1>4 DEF GlobalOK, BackOK
  <2> QED BY <2>3, <2>4 DEF BackOK
<1> QED BY <1>2, <1>6, <1>7, <1>8, <1>9, <1>10, <1>11 DEF GlobalOK


\* The PF comes back; what its mailbox discards is the hello of a driver that
\* came in the meantime at most.
LEMMA ResetDoneLive ==
  ASSUME IInv, GlobalOK, \A u \in VF : LocalOK(u), ResetDone
  PROVE  (\A u \in VF : LocalOK(u)') /\ GlobalOK'
<1>1. /\ UNCHANGED <<pf, pf_state, pf_wait, pf_reply, vfs, toVf, loads>>
      /\ pf_pc = "down" /\ pf_pc' = "done" /\ pf_i' = 0 /\ pf_n' = pf_n
      /\ toPf' = [u \in VF |-> IF toPf[u] = <<>> THEN <<>> ELSE Tail(toPf[u])]
  BY DEF ResetDone, bounds
<1>2. /\ Fresh' = Fresh /\ Vacant' = Vacant
      /\ \A u : (InSlot(u)' <=> InSlot(u)) /\ (Awaiting(u)' <=> Awaiting(u)) /\ (Here(u)' <=> Here(u))
      /\ vf_info' = vf_info /\ vf_count_online' = vf_count_online /\ entries' = entries
      /\ vf_pc' = vf_pc /\ vf_state' = vf_state /\ LoadsOK'
  BY <1>1, SameSets DEF GlobalOK
<1>3. pf_wait = NoOp /\ pf_wait' = NoOp /\ \A u \in VF : ~Told(u)
  BY <1>1, NobodyTold DEF GlobalOK, WaitOK
<1>4. /\ ~Resetting /\ ~Resetting' /\ ~Returning /\ Returning' /\ entries = {}
      /\ Reached = pf_i /\ Passed = pf_i /\ pf_i \in 0 .. NumVf /\ NumVf \in Nat
  BY <1>1, SlotCount DEF Resetting, Returning, Reached, Passed, IInv, LoopType, GlobalOK, CountOK
<1>5. ASSUME NEW u \in VF PROVE LocalOK(u)' /\ ~Told(u)'
  <2>1. CallOK(u) /\ UnknownOK(u) /\ StateOK(u) /\ ~Turn(u)
    BY <1>1 DEF LocalOK, Turn
  <2>2. toPf'[u] = IF toPf[u] = <<>> THEN <<>> ELSE Tail(toPf[u])
    BY <1>1
  <2>3. /\ None(toPf[u], Response) => None(toPf'[u], Response)
        /\ Quiet(u) => Quiet(u)'
        /\ Asks(u, "HELLO") => Asks(u, "HELLO")' \/ Quiet(u)'
    <3>1. CASE toPf[u] = <<>>
      BY <2>2, <3>1, NoneEmpty DEF Quiet
    <3>2. CASE toPf[u] # <<>>
      <4>1. toPf[u] \in Seq(Request \cup Response) /\ toPf'[u] = Tail(toPf[u])
        BY <2>2, <3>2 DEF IInv, MsgType
      <4>2. Msg("HELLO") \in Request
        BY Kinds
      <4> QED BY <3>2, <4>1, <4>2, TakeFirst DEF Quiet, Asks
    <3> QED BY <3>1, <3>2
  <2>4. vf_pc[u] # "rehello"
    BY <1>4, <2>1 DEF StateOK, Awaiting, Here
  <2>5. CallOK(u)'
    <3>1. vf_wait'[u] = vf_wait[u] /\ toVf'[u] = toVf[u] /\ pf_reply' = pf_reply
      BY <1>1 DEF vfs
    <3> QED BY <1>2, <1>4, <2>1, <2>3, <2>4, <3>1, SameCalls DEF CallOK
  <2>6. UnknownOK(u)'
    BY <1>1, <1>2, <2>1, <2>2 DEF UnknownOK, Unknown
  <2>7. ~Told(u)'
    BY <1>1, <1>2, <1>3, <2>3 DEF Told
  <2>8. StateOK(u)'
    BY <1>1, <1>2, <1>4, <2>1 DEF StateOK
  <2>9. AskedOK(u)' /\ TurnOK(u)'
    BY <1>1, <1>4 DEF AskedOK, TurnOK, Turn
  <2> QED BY <2>5, <2>6, <2>7, <2>8, <2>9 DEF LocalOK, TellOK
<1>6. WaitOK' /\ OneTold' /\ HoleIsSilent'
  BY <1>1, <1>3, <1>5 DEF WaitOK, OneTold, HoleIsSilent
<1>7. SlotsOK' /\ RoomOK'
  BY <1>1, <1>2, <1>4 DEF GlobalOK, SlotsOK, RoomOK
<1>8. CountOK' /\ PassedOK'
  BY <1>1, <1>2, <1>4 DEF GlobalOK, CountOK, PassedOK
<1>9. BackOK'
  <2>1. PICK n, Z : n = pf_i /\ Z = Vacant
    OBVIOUS
  <2>2. \A j \in 1 .. n : vf_info[j] # Invalid
    BY <1>1, <1>4, <2>1 DEF GlobalOK, PassedOK
  <2>3. Z \subseteq n + 1 .. NumVf
    <3>1. ASSUME NEW j \in Slots, j \notin n + 1 .. NumVf PROVE j \in 1 .. n
      BY <1>4, <2>1, <3>1 DEF Slots
    <3> QED BY <2>1, <2>2, <3>1 DEF Vacant
  <2>4. Cardinality(Fresh') <= Cardinality(Z)
    BY <1>2, <1>4, <2>1 DEF GlobalOK, RoomOK
  <2>5. \A u \in VF : Awaiting(u)' => \E j \in pf_i' + 1 .. n : vf_info'[j] = u
    <3> SUFFICES ASSUME NEW u \in VF, Awaiting(u) PROVE \E j \in pf_i' + 1 .. n : vf_info'[j] = u
      BY <1>2
    <3>1. Aware(u)
      BY DEF Aware, Awaiting, Here
    <3>2. \E j \in 1 .. n : vf_info[j] = u
      BY <1>1, <1>4, <2>1, <3>1 DEF LocalOK, AskedOK
    <3>3. pf_i' + 1 = 1
      BY <1>1
    <3> QED BY <1>2, <3>2, <3>3
  <2>6. \A j \in Z : vf_info'[j] = Invalid
    BY <1>2, <2>1 DEF Vacant
  <2>7. Back(n, Z)'
    BY <1>1, <2>4, <2>5, <2>6 DEF Back
  <2>8. n \in 0 .. NumVf
    BY <1>4, <2>1
  <2>9. 1 .. pf_i' = {}
    BY <1>1
  <2> QED BY <2>3, <2>7, <2>8, <2>9 DEF BackOK
<1> QED BY <1>2, <1>5, <1>6, <1>7, <1>8, <1>9 DEF GlobalOK

\* The PF goes on to the next slot: the function in this one is online again,
\* or there is none.
LEMMA NextSlotLive ==
  ASSUME IInv, GlobalOK, \A u \in VF : LocalOK(u), Live', HelloReceived \/ HelloMissed
  PROVE  (\A u \in VF : LocalOK(u)') /\ GlobalOK'
<1>1. /\ UNCHANGED <<pf, pf_state, pf_reply, vfs, toVf, toPf, loads>>
      /\ pf_pc = "hello" /\ pf_pc' = "done" /\ pf_i' = pf_i + 1 /\ pf_n' = pf_n
      /\ pf_wait = NoOp \/ TimedOut
      /\ pf_wait' = NoOp
      /\ \/ pf_wait = NoOp /\ vf_count_online = pf_n + 1
         \/ vf_info[pf_i + 1] = Invalid
  <2>1. CASE HelloReceived
    BY <2>1 DEF HelloReceived, bounds
  <2>2. CASE HelloMissed
    <3>1. disturbed' = (disturbed \/ vf_info[pf_i + 1] # Invalid)
      BY <2>2 DEF HelloMissed
    <3>2. vf_info[pf_i + 1] = Invalid
      BY <3>1 DEF Live
    <3> QED BY <2>2, <3>2 DEF HelloMissed, bounds
  <2> QED BY <2>1, <2>2
<1>2. /\ Fresh' = Fresh /\ Vacant' = Vacant
      /\ \A u : (InSlot(u)' <=> InSlot(u)) /\ (Awaiting(u)' <=> Awaiting(u)) /\ (Here(u)' <=> Here(u))
      /\ vf_info' = vf_info /\ vf_count_online' = vf_count_online /\ entries' = entries
      /\ vf_pc' = vf_pc /\ vf_state' = vf_state /\ LoadsOK'
  BY <1>1, SameSets DEF GlobalOK
<1>3. /\ ~Resetting /\ ~Resetting' /\ Returning /\ Returning' /\ Invalid \notin VF
      /\ pf_i \in Nat /\ pf_i < NumVf /\ NumVf \in Nat
  BY <1>1, ConstAssumption, SlotCount DEF Resetting, Returning, IInv, LoopType
<1>4. ASSUME NEW u \in VF PROVE ~Told(u)
  <2>1. TellOK(u)
    BY DEF LocalOK
  <2>2. CASE pf_wait = NoOp
    BY <2>1, <2>2 DEF TellOK
  <2>3. CASE pf_wait # NoOp
    <3>1. vf_info[pf_i + 1] = Invalid /\ TimedOut
      BY <1>1, <2>3
    <3>2. Resp(pf_wait) \notin Range(toPf[u])
      BY <1>1, <3>1 DEF TimedOut, Lost, PfListens
    <3>3. Resp(pf_wait) \in Response
      <4>1. pf_wait \in Ops
        BY <2>3 DEF IInv, PfType, Ops
      <4> QED BY <4>1, Kinds
    <3>4. ~Only(toPf[u], Response, Resp(pf_wait))
      BY <3>2, <3>3, OnlyIsThere
    <3>5. ASSUME Told(u) PROVE FALSE
      <4>1. ~Here(u)
        BY <1>3, <2>1, <3>1, <3>5 DEF TellOK
      <4>2. ~None(toPf[u], Response)
        BY <3>5, <4>1 DEF Told
      <4> QED BY <2>1, <3>4, <3>5, <4>2 DEF TellOK
    <3> QED BY <3>5
  <2> QED BY <2>2, <2>3
<1>5. ~(vf_count_online = pf_n + 1 /\ vf_count_online <= pf_n)
  <2> DEFINE c == vf_count_online
             n == pf_n
  <2>1. c \in Int /\ n \in Int
    BY DEF IInv, PfType, LoopType
  <2> HIDE DEF c, n
  <2>2. ~(c = n + 1 /\ c <= n)
    BY <2>1
  <2> QED BY <2>2 DEF c, n
<1>6. /\ vf_info[pf_i + 1] \in entries \cup {Invalid}
      /\ \A u \in VF : ~(Turn(u) /\ (u \notin entries \/ (vf_pc[u] = "up" /\ vf_state[u] = DONE)))
  <2>1. vf_info[pf_i + 1] \in VF \cup {Invalid}
    BY <1>3 DEF IInv, PfType, Slots
  <2>2. ASSUME NEW u \in VF, Turn(u), u \notin entries \/ (vf_pc[u] = "up" /\ vf_state[u] = DONE)
        PROVE  FALSE
    <3>1. vf_count_online <= pf_n
      BY <2>2 DEF LocalOK, TurnOK
    <3>2. vf_info[pf_i + 1] = u
      BY <2>2 DEF Turn
    <3> QED BY <1>1, <1>3, <1>5, <3>1, <3>2
  <2>3. \A u \in VF : vf_info[pf_i + 1] = u => Turn(u)
    BY <1>1 DEF Turn
  <2> QED BY <2>1, <2>2, <2>3
<1>7. ASSUME NEW u \in VF PROVE LocalOK(u)' /\ ~Told(u)'
  <2>1. StateOK(u) /\ CallOK(u)
    BY DEF LocalOK
  <2>2. Awaiting(u) => u \notin entries
    BY <1>3, <2>1 DEF StateOK, CallOK, Awaiting, Here
  <2>3. StateOK(u)'
    BY <1>1, <1>2, <1>3, <1>6, <2>1, <2>2 DEF StateOK
  <2>4. AskedOK(u)' /\ TurnOK(u)'
    BY <1>1, <1>3 DEF AskedOK, TurnOK, Turn
  <2> QED BY <1>1, <1>4, <2>3, <2>4, SilentStep
<1>8. WaitOK' /\ OneTold' /\ HoleIsSilent'
  BY <1>1, <1>7 DEF WaitOK, OneTold, HoleIsSilent
<1>9. SlotsOK' /\ RoomOK'
  BY <1>1, <1>2, <1>3 DEF GlobalOK, SlotsOK, RoomOK
<1>10. CountOK' /\ PassedOK'
  BY <1>1, <1>2, <1>3 DEF GlobalOK, CountOK, PassedOK
<1>11. BackOK'
  <2>1. PICK n \in 0 .. NumVf : \E Z \in SUBSET (n + 1 .. NumVf) : Back(n, Z)
    BY <1>3 DEF GlobalOK, BackOK
  <2>2. PICK Z \in SUBSET (n + 1 .. NumVf) : Back(n, Z)
    BY <2>1
  <2>3. \A j \in 1 .. pf_i' : vf_info'[j] \in entries' \cup {Invalid}
    <3>1. \A j \in 1 .. pf_i + 1 : j \in 1 .. pf_i \/ j = pf_i + 1
      BY <1>3
    <3>2. \A j \in 1 .. pf_i : vf_info[j] \in entries \cup {Invalid}
      BY <1>3 DEF GlobalOK, BackOK
    <3> QED BY <1>1, <1>2, <1>6, <3>1, <3>2
  <2>4. \A u \in VF : Awaiting(u)' => \E j \in pf_i' + 1 .. n : vf_info'[j] = u
    <3> SUFFICES ASSUME NEW u \in VF, Awaiting(u)
                 PROVE  \E j \in pf_i + 1 + 1 .. n : vf_info[j] = u
      BY <1>1, <1>2
    <3>1. PICK j \in pf_i + 1 .. n : vf_info[j] = u
      BY <2>2 DEF Back
    <3>2. u \notin entries
      BY <1>3 DEF LocalOK, StateOK, CallOK, Awaiting, Here
    <3>3. j # pf_i + 1
      BY <1>3, <1>6, <3>1, <3>2
    <3>4. j \in pf_i + 1 + 1 .. n
      BY <1>3, <3>1, <3>3
    <3> QED BY <3>1, <3>4
  <2>5. \A j \in Z : /\ vf_info'[j] \in entries' \cup {Invalid}
                     /\ j <= pf_i' => vf_info'[j] = Invalid
    <3> SUFFICES ASSUME NEW j \in Z
                 PROVE  /\ vf_info[j] \in entries \cup {Invalid}
                        /\ j <= pf_i + 1 => vf_info[j] = Invalid
      BY <1>1, <1>2
    <3>1. vf_info[j] \in entries \cup {Invalid} /\ (j <= pf_i => vf_info[j] = Invalid)
      BY <2>2 DEF Back
    <3>2. j \in Int /\ n \in Int /\ j >= n + 1
      OBVIOUS
    <3>3. CASE j = pf_i + 1
      <4>1. pf_i >= n
        BY <1>3, <3>2, <3>3
      <4>2. vf_count_online <= pf_n
        BY <1>1, <2>2, <4>1 DEF Back
      <4> QED BY <1>1, <1>5, <3>1, <3>3, <4>2
    <3>4. CASE j # pf_i + 1
      <4>1. j <= pf_i + 1 => j <= pf_i
        BY <1>3, <3>2, <3>4
      <4> QED BY <3>1, <4>1
    <3> QED BY <3>3, <3>4
  <2>6. Back(n, Z)'
    BY <1>1, <1>2, <2>2, <2>4, <2>5 DEF Back
  <2> QED BY <2>3, <2>6 DEF BackOK
<1> QED BY <1>2, <1>7, <1>8, <1>9, <1>10, <1>11 DEF GlobalOK

\* All slots are done with: nobody is left.
LEMMA DoneEndLive ==
  ASSUME IInv, GlobalOK, \A u \in VF : LocalOK(u), DoneEnd
  PROVE  (\A u \in VF : LocalOK(u)') /\ GlobalOK'
<1>1. /\ UNCHANGED <<pf, pf_state, pf_wait, pf_reply, vfs, toVf, toPf, loads>>
      /\ pf_pc = "done" /\ pf_pc' = "up" /\ pf_i' = pf_i /\ pf_n' = pf_n /\ pf_i = NumVf
  BY DEF DoneEnd, bounds
<1>2. /\ Fresh' = Fresh /\ Vacant' = Vacant
      /\ \A u : (InSlot(u)' <=> InSlot(u)) /\ (Awaiting(u)' <=> Awaiting(u)) /\ (Here(u)' <=> Here(u))
      /\ vf_info' = vf_info /\ vf_count_online' = vf_count_online /\ entries' = entries
      /\ vf_pc' = vf_pc /\ vf_state' = vf_state /\ LoadsOK'
  BY <1>1, SameSets DEF GlobalOK
<1>3. pf_wait = NoOp /\ pf_wait' = NoOp /\ \A u \in VF : ~Told(u)
  BY <1>1, NobodyTold DEF GlobalOK, WaitOK
<1>4. ~Resetting /\ ~Resetting' /\ Returning /\ ~Returning' /\ NumVf \in Nat
  BY <1>1, SlotCount DEF Resetting, Returning
<1>5. PICK n \in 0 .. NumVf : \E Z \in SUBSET (n + 1 .. NumVf) : Back(n, Z)
  BY <1>4 DEF GlobalOK, BackOK
<1>6. PICK Z \in SUBSET (n + 1 .. NumVf) : Back(n, Z)
  BY <1>5
<1>7. \A u \in VF : ~Awaiting(u)
  <2>1. \A j \in NumVf + 1 .. n : FALSE
    BY <1>4
  <2> QED BY <1>1, <1>6, <2>1 DEF Back
<1>8. ASSUME NEW u \in VF PROVE LocalOK(u)' /\ ~Told(u)'
  <2>1. StateOK(u) /\ ~Turn(u) /\ ~Awaiting(u)
    BY <1>1, <1>7 DEF LocalOK, Turn
  <2>2. StateOK(u)'
    BY <1>1, <1>2, <1>4, <2>1 DEF StateOK
  <2>3. AskedOK(u)' /\ TurnOK(u)'
    BY <1>1, <1>4 DEF AskedOK, TurnOK, Turn
  <2> QED BY <1>1, <1>3, <2>2, <2>3, SilentStep
<1>9. WaitOK' /\ OneTold' /\ HoleIsSilent'
  BY <1>1, <1>3, <1>8 DEF WaitOK, OneTold, HoleIsSilent
<1>10. SlotsOK'
  <2>1. \A i \in Slots : vf_info[i] \in entries \cup {Invalid}
    BY <1>1, <1>4 DEF GlobalOK, BackOK, Slots
  <2> QED BY <1>1, <1>2, <1>4, <2>1 DEF GlobalOK, SlotsOK
<1>11. RoomOK'
  <2>1. Z \subseteq Vacant
    <3>1. \A j \in n + 1 .. NumVf : j \in Slots /\ j <= NumVf
      BY <1>4 DEF Slots
    <3> QED BY <1>1, <1>6, <3>1 DEF Back, Vacant
  <2>2. Vacant \subseteq Slots /\ Z \subseteq Slots /\ Fresh \subseteq VF
    BY <2>1 DEF Vacant, Fresh
  <2>3. /\ Cardinality(Z) <= Cardinality(Vacant) /\ Cardinality(Z) \in Nat
        /\ Cardinality(Vacant) \in Nat /\ Cardinality(Fresh) \in Nat
    BY <2>1, <2>2, FiniteVf, FS_Subset
  <2>4. Cardinality(Fresh) <= Cardinality(Z)
    BY <1>6 DEF Back
  <2> DEFINE a == Cardinality(Fresh)
             b == Cardinality(Z)
             c == Cardinality(Vacant)
  <2>5. a \in Nat /\ b \in Nat /\ c \in Nat /\ a <= b /\ b <= c
    BY <2>3, <2>4
  <2> HIDE DEF a, b, c
  <2>6. a <= c
    BY <2>5
  <2>7. Cardinality(Fresh) <= Cardinality(Vacant)
    BY <2>6 DEF a, c
  <2> QED BY <1>2, <2>7 DEF RoomOK
<1>12. CountOK' /\ PassedOK' /\ BackOK'
  BY <1>1, <1>2, <1>4 DEF GlobalOK, CountOK, PassedOK, BackOK
<1> QED BY <1>2, <1>8, <1>9, <1>10, <1>11, <1>12 DEF GlobalOK


LEMMA ControlLive ==
  ASSUME IInv, GlobalOK, \A u \in VF : LocalOK(u), Live, Live', ResetPrepare \/ PfUnload \/ PfStep
  PROVE  (\A u \in VF : LocalOK(u)') /\ GlobalOK'
<1>1. ~PfUnload /\ ~ByeMissed /\ ~OfflineSend /\ ~Parted /\ ~PfOff
  BY DEF Live, PfUnload, ByeMissed, OfflineSend, Parted, PfOff
<1>2. CASE ResetPrepare
  BY <1>2, ResetPrepareLive
<1>3. CASE PrepareSend
  BY <1>3, PrepareSendLive
<1>4. CASE PrepareAcked \/ ByeReceived
  BY <1>4, PrepareOnLive
<1>5. CASE PrepareEnd
  BY <1>5, PrepareEndLive
<1>6. CASE ResetDone
  BY <1>6, ResetDoneLive
<1>7. CASE DoneSend
  BY <1>7, DoneSendLive
<1>8. CASE HelloReceived \/ HelloMissed
  BY <1>8, NextSlotLive
<1>9. CASE DoneEnd
  BY <1>9, DoneEndLive
<1> QED BY <1>1, <1>2, <1>3, <1>4, <1>5, <1>6, <1>7, <1>8, <1>9 DEF PfStep

-----------------------------------------------------------------------------
(* The invariant.                                                           *)

LEMMA InitUInv == Init => UInv
<1> SUFFICES ASSUME Init PROVE UInv
  OBVIOUS
<1>1. /\ IInv /\ pf_pc = "up" /\ pf_wait = NoOp /\ pf_reply = NoOp /\ entries = {} /\ pf_state = "IDLE"
      /\ vf_count_online = 0
      /\ \A u \in VF : /\ vf_pc[u] = "gone" /\ vf_wait[u] = NoOp /\ loads[u] = 0
                       /\ toVf[u] = <<>> /\ toPf[u] = <<>>
  BY InitIInv DEF Init
<1>2. ~Resetting /\ ~Returning
  BY <1>1 DEF Resetting, Returning
<1>3. ASSUME NEW u \in VF PROVE LocalOK(u) /\ ~Told(u)
  <2>1. \A op \in Ops : NoOp # <<u, op>>
    BY NoOpAssumption
  <2>2. Settled(u) /\ Quiet(u) /\ ~Told(u) /\ ~Here(u)
    BY <1>1, <2>1, NoneEmpty DEF Settled, NoAnswer, NoReply, Quiet, Told, Here
  <2>3. CallOK(u) /\ UnknownOK(u)
    BY <1>1, <2>2 DEF CallOK, UnknownOK
  <2> QED BY <1>1, <1>2, <2>2, <2>3 DEF LocalOK, TellOK, StateOK, AskedOK, TurnOK, Turn
<1>4. Fresh = VF /\ Vacant = Slots
  <2>1. \A i \in Slots : vf_info[i] = Invalid
    BY DEF Init
  <2> QED BY <1>1, <2>1 DEF Fresh, Unknown, Vacant
<1>5. SlotsOK
  <2>1. \A i \in Slots : vf_info[i] = Invalid
    BY DEF Init
  <2> QED BY <1>1, <1>2, <2>1, ConstAssumption DEF SlotsOK, InSlot, Fresh
<1>6. RoomOK
  <2>1. Cardinality(Slots) = NumVf /\ NumVf \in Nat
    BY SlotCount, FS_Interval DEF Slots
  <2> QED BY <1>4, <2>1 DEF RoomOK, NumVf
<1>7. CountOK /\ PassedOK /\ BackOK
  BY <1>1, <1>2, FS_EmptySet DEF CountOK, PassedOK, BackOK
<1>8. LoadsOK /\ WaitOK /\ OneTold /\ HoleIsSilent
  BY <1>1, <1>3 DEF LoadsOK, WaitOK, OneTold, HoleIsSilent, Init
<1> QED BY <1>1, <1>3, <1>5, <1>6, <1>7, <1>8 DEF GlobalOK, UInv

LEMMA NextUInv ==
  ASSUME LoadedOnce, UInv, [Next]_vars
  PROVE  UInv'
<1>1. IInv /\ IInv'
  BY NextIInv DEF UInv
<1> SUFFICES ASSUME Live' PROVE (\A u \in VF : LocalOK(u)') /\ GlobalOK'
  BY <1>1 DEF UInv
<1>2. Live /\ (\A u \in VF : LocalOK(u)) /\ GlobalOK
  BY WasLive DEF UInv
<1>3. CASE UNCHANGED vars
  <2>1. /\ UNCHANGED <<pf, pf_state, ctl, pf_wait, pf_reply, vfs, toVf, toPf, loads>>
        /\ \A u \in VF : Apart(u)
    BY <1>3 DEF vars, bounds, vfs, Apart
  <2>2. /\ Fresh' = Fresh /\ LoadsOK' /\ vf_info' = vf_info /\ entries' = entries
        /\ vf_count_online' = vf_count_online /\ vf_pc' = vf_pc
        /\ \A u : (Awaiting(u)' <=> Awaiting(u)) /\ (Here(u)' <=> Here(u))
    BY <1>2, <2>1, SameSets DEF GlobalOK
  <2>3. ASSUME NEW u \in VF PROVE LocalOK(u)'
    <3>1. vf_count_online' <= vf_count_online /\ vf_count_online' \in 0 .. 255
      BY <1>1, <2>2 DEF IInv, PfType
    <3> QED BY <1>1, <1>2, <2>1, <2>2, <3>1, ApartLocal DEF GlobalOK
  <2>4. \A u \in VF : Told(u)' <=> Told(u)
    BY <2>1, <2>2 DEF Told
  <2>5. WaitOK' /\ HoleIsSilent'
    BY <1>2, <2>1, <2>2, <2>4 DEF GlobalOK, WaitOK, HoleIsSilent, ctl
  <2>6. GlobalOK'
    BY <1>2, <2>1, <2>2, <2>4, <2>5, BooksKept
  <2> QED BY <2>3, <2>6
<1>4. CASE ResetPrepare \/ PfUnload \/ PfStep
  BY <1>1, <1>2, <1>4, ControlLive
<1>5. CASE PfReply
  BY <1>1, <1>2, <1>5, ReplyLive
<1>6. ASSUME NEW v \in VF, PfRcv(v) PROVE (\A u \in VF : LocalOK(u)') /\ GlobalOK'
  BY <1>1, <1>2, <1>6, PfRcvLive
<1>7. ASSUME NEW v \in VF, VfRcv(v) PROVE (\A u \in VF : LocalOK(u)') /\ GlobalOK'
  BY <1>1, <1>2, <1>7, VfRcvLive
<1>8. ASSUME NEW v \in VF, Load(v) \/ Loaded(v) \/ Unload(v) \/ WorkStep(v)
      PROVE  (\A u \in VF : LocalOK(u)') /\ GlobalOK'
  BY <1>1, <1>2, <1>8, VfStepLive
<1> QED BY <1>3, <1>4, <1>5, <1>6, <1>7, <1>8 DEF Next

LEMMA UndisturbedIsClean ==
  ASSUME UInv
  PROVE  UndisturbedReset
<1>1. IInv
  BY DEF UInv
<1>2. ASSUME ~disturbed, pf_pc \in {"up", "down"} PROVE (\A v \in VF : LocalOK(v)) /\ GlobalOK
  BY <1>2 DEF UInv, Live
<1>3. BooksAgree
  <2> SUFFICES ASSUME Calm, ~disturbed
               PROVE  /\ vf_count_online = Cardinality(Online)
                      /\ entries = Online
                      /\ Range(vf_info) \ {Invalid} = Online
                      /\ \A v \in Online : vf_state[v] = "IDLE"
    BY DEF BooksAgree
  <2>1. pf_pc = "up" /\ (\A v \in VF : LocalOK(v)) /\ GlobalOK /\ ~Resetting
    BY <1>2 DEF Calm, Resetting
  <2>2. ASSUME NEW v \in VF PROVE v \in entries <=> v \in Online
    <3>1. CallOK(v) /\ toPf[v] = <<>> /\ vf_pc[v] \in {"gone", "up"}
      BY <2>1 DEF LocalOK, Calm
    <3>2. ~Asks(v, "VF_BYE")
      BY <3>1, OnlyIsThere, Kinds DEF Asks
    <3> QED BY <3>1, <3>2 DEF CallOK, Online
  <2>3. entries = Online
    BY <1>1, <2>2 DEF IInv, PfType, Online
  <2>4. Range(vf_info) \ {Invalid} = entries
    <3>1. /\ vf_info \in [Slots -> VF \cup {Invalid}] /\ entries \subseteq VF /\ Invalid \notin VF
          /\ \A i \in Slots : vf_info[i] \in entries \cup {Invalid}
          /\ \A v \in entries : \E i \in Slots : vf_info[i] = v
      BY <1>1, <2>1, ConstAssumption DEF IInv, PfType, GlobalOK, SlotsOK, InSlot
    <3> QED BY <3>1 DEF Range
  <2>5. ASSUME NEW v \in Online PROVE vf_state[v] = "IDLE"
    <3>1. v \in VF /\ vf_pc[v] = "up" /\ StateOK(v) /\ Here(v) /\ ~Turn(v) /\ v \in entries
      BY <2>1, <2>3 DEF Online, LocalOK, Here, Turn
    <3> QED BY <2>1, <3>1 DEF StateOK
  <2> QED BY <2>1, <2>3, <2>4, <2>5 DEF GlobalOK, CountOK
<1>4. GoneBeforeReset
  BY <1>2 DEF GoneBeforeReset, GlobalOK, CountOK
<1>5. NobodyLeftWaiting
  <2> SUFFICES ASSUME pf_pc = "up", pf_reply = NoOp, ~disturbed, NEW v \in VF,
                      toVf[v] = <<>>, toPf[v] = <<>>, vf_pc[v] # "hello"
               PROVE  vf_pc[v] # "done" /\ vf_wait[v] = NoOp
    BY DEF NobodyLeftWaiting
  <2>1. CallOK(v) /\ StateOK(v)
    BY <1>2 DEF LocalOK
  <2>2. ~Awaiting(v)
    BY <2>1 DEF StateOK, Here, Awaiting
  <2>3. Answering(v, "HELLO") => Settled(v)
    <3>1. NoOp # <<v, "HELLO">>
      BY NoOpAssumption DEF Ops
    <3>2. ~Only(toVf[v], Response, Resp("HELLO"))
      BY OnlyIsThere, Kinds DEF Ops
    <3> QED BY <3>1, <3>2 DEF Answering
  <2>4. Settled(v)
    BY <2>1, <2>2, <2>3 DEF CallOK, Awaiting
  <2> QED BY <2>2, <2>4 DEF Settled, Awaiting
<1> QED BY <1>3, <1>4, <1>5 DEF UndisturbedReset

\* A reset that no timeout and no driver in the middle of it disturbs leaves the
\* books of the PF true: each function found online has given its queues back
\* when the PF goes down, has said hello again and is counted once when the PF
\* is up, and nobody is left waiting (qdma_pf_trigger_vf_reset, xdev_reset_work,
\* xdev_sriov_vf_online and xdev_sriov_vf_offline), for functions whose drivers
\* are loaded once.
THEOREM ResetKeepsBooks ==
  ASSUME LoadedOnce
  PROVE  Spec => []UndisturbedReset
<1>1. Init => UInv
  BY InitUInv
<1>2. UInv /\ [Next]_vars => UInv'
  BY NextUInv
<1>3. UInv => UndisturbedReset
  BY UndisturbedIsClean
<1> QED BY <1>1, <1>2, <1>3, PTL DEF Spec
=============================================================================
