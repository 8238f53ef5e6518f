--------------------------- MODULE QdmaMboxProofs ---------------------------
(***************************************************************************)
(* Proofs about QdmaMbox for every number of requests of both sides, every *)
(* number of tries and every mode, senders that time out included: where a *)
(* message is between its sender and its handler, that it is there once,   *)
(* that something will send it, and that a bye is read.  The second half   *)
(* follows the requests whose sender may leave at any moment: which freed  *)
(* messages the worker may still touch, and that the mailbox is a          *)
(* MailboxService, because the answers come back in the order of the       *)
(* requests.                                                               *)
(***************************************************************************)
EXTENDS QdmaMbox, SequenceTheorems, WellFoundedInduction, FiniteSetTheorems, TLAPS

-----------------------------------------------------------------------------
(* Lists without their positions.                                          *)

\* x stands before y in the list.
Prec(s, x, y) == \E i, j \in 1..Len(s) : i < j /\ s[i] = x /\ s[j] = y
NoDup(s) == \A i, j \in 1..Len(s) : s[i] = s[j] => i = j
First(s, x) == Contains(s, x) /\ \A y : ~Prec(s, y, x)

-----------------------------------------------------------------------------
(* Where a message is.                                                     *)

Listed(m)  == Contains(tx_todo_list[Home(m)], m)
AtSend(m)  == pc[Home(m)] = "send" /\ cur[Home(m)] = m
Sent(m)    == pc[Home(m)] = "unlink" /\ cur[Home(m)] = m
InHand(m)  == pc[Home(m)] = "pend" /\ cur[Home(m)] = m
Pending(m) == Contains(rx_pend_list[Home(m)], m)

\* still to be sent; in the slot; read by the other side, not yet handled
Waits(m)  == AtSend(m) \/ (Listed(m) /\ ~Sent(m))
InSlot(m) == slot[Home(m)] = m
Reading   == {"match", "dispatch", "copy"}
InRx(m)   == pc[Peer(Home(m))] \in Reading /\ rx[Peer(Home(m))] = m

\* not yet given to the mailbox
Fresh(m) == IF m = Bye THEN leaving \in {"no", "stop"}
            ELSE IF m \in Req THEN stage[m] = "new"
            ELSE handled[m[1]] = 0

WorkQ == {<<>>, <<"tx">>, <<"rx">>, <<"tx", "rx">>, <<"rx", "tx">>}

ListType ==
  /\ tx_todo_list \in [End -> Seq(Msg)] /\ rx_pend_list \in [End -> Seq(Msg)]
  /\ \A e \in End : \A m : Contains(tx_todo_list[e], m) => m \in Msg /\ Home(m) = e
  /\ \A e \in End : \A m : Contains(rx_pend_list[e], m) => m \in Req /\ Home(m) = e

WorkType ==
  /\ slow_peer \in BOOLEAN /\ rx_poll \in [End -> BOOLEAN]
  /\ send_busy \in [End -> BOOLEAN] /\ timer \in [End -> BOOLEAN] /\ workq \in [End -> WorkQ]

WorkerType ==
  /\ pc \in [End -> {"idle", "pick", "send", "unlink", "pend", "read", "match", "dispatch", "copy"}]
  /\ cur \in [End -> Msg \cup {Nil}] /\ rx \in [End -> Msg \cup {Nil}]
  /\ slot \in [End -> Msg \cup {Nil}]

SenderType ==
  /\ retry_cnt \in [Answers \cup {Bye} -> 0 .. Retries]
  /\ stage \in [Req -> {"new", "queued", "asleep", "awake", "late", "ok", "failed"}]
  /\ resp_op_matched \in [Req -> BOOLEAN] /\ raw \in [Req -> Msg]
  /\ hurried \subseteq Req /\ freed \subseteq Msg /\ wild \subseteq Msg
  /\ handled \in [Req \cup {Bye} -> Nat] /\ leaving \in {"no", "stop", "bye", "off"}

Types == ListType /\ WorkType /\ WorkerType /\ SenderType

\* What the worker of a side holds is the first of its list, unless its
\* sender has timed out; what lies in its slot and what it reads is in order.
EndInv(e) ==
  /\ NoDup(tx_todo_list[e]) /\ NoDup(rx_pend_list[e])
  /\ pc[e] \in {"send", "unlink"} =>
       /\ cur[e] \in Msg /\ Home(cur[e]) = e
       /\ First(tx_todo_list[e], cur[e])
            \/ (cur[e] \in Req /\ ~Contains(tx_todo_list[e], cur[e]))
  /\ pc[e] = "pend" => cur[e] \in Req /\ Home(cur[e]) = e
  /\ pc[e] \in Reading => rx[e] \in Msg /\ Home(rx[e]) = Peer(e)
  /\ pc[e] \in {"dispatch", "copy"} =>
       e = "vf" /\ ((cur[e] = Nil /\ pc[e] = "dispatch") \/ (cur[e] \in Req /\ rx[e] \in Answers))
  /\ slot[e] # Nil => Home(slot[e]) = e

\* A message makes its way once.
MsgInv(m) ==
  /\ ~(Waits(m) /\ InSlot(m)) /\ ~(Waits(m) /\ InRx(m)) /\ ~(InSlot(m) /\ InRx(m))
  /\ Fresh(m) => ~Listed(m) /\ ~AtSend(m) /\ ~Sent(m) /\ ~InSlot(m) /\ ~InRx(m)
  /\ m \notin Answers =>
       /\ handled[m] \in {0, 1}
       /\ Fresh(m) => handled[m] = 0
       /\ handled[m] = 1 => ~Waits(m) /\ ~InSlot(m) /\ ~InRx(m)
  /\ (m \notin Req /\ (m \in freed \/ retry_cnt[m] = 0)) => ~Fresh(m) /\ ~Listed(m)

\* A request on its way to an answer: with the worker, or waiting for the
\* response, but not both and not to be sent any more.
ReqInv(r) ==
  /\ Pending(r) \/ InHand(r) => ~Fresh(r) /\ ~Listed(r) /\ ~AtSend(r) /\ ~Sent(r)
  /\ ~(Pending(r) /\ InHand(r))

\* What the worker of the virtual function answers was marked as answered.
MarkInv == pc["vf"] \in {"dispatch", "copy"} /\ cur["vf"] # Nil => resp_op_matched[cur["vf"]]

\* A request nobody has answered or given up is somewhere at its side.
LiveInv(r) ==
  stage[r] \in {"queued", "asleep", "late"} /\ ~resp_op_matched[r] =>
    Listed(r) \/ InHand(r) \/ Pending(r)

\* While a message is to be sent something will try, also while the worker
\* receives.
TryInv(e) ==
  tx_todo_list[e] # <<>> =>
    \/ pc[e] \in {"pick", "send", "unlink", "pend"} \/ Contains(workq[e], "tx")
    \/ timer[e] /\ send_busy[e]
    \/ GivenUp

\* The same of polling, side by side.
PollInv(e) ==
  (rx_poll[e] /\ ~(e = "vf" /\ leaving \in {"stop", "off"})) =>
    timer[e] \/ pc[e] \in {"read", "match", "dispatch", "copy"} \/ Contains(workq[e], "rx")

\* Once the virtual function has sent its bye, the bye is on its way or
\* handled; when the virtual function is gone, its parent has read it.
ByeRead == InRx(Bye) \/ handled[Bye] = 1
ByeInv ==
  ~slow_peer =>
    /\ leaving \in {"bye", "off"} => Waits(Bye) \/ InSlot(Bye) \/ ByeRead
    /\ leaving = "off" => ByeRead

-----------------------------------------------------------------------------
(* Lists.                                                                  *)

LEMMA AppendFacts ==
  ASSUME NEW S, NEW s \in Seq(S), NEW x \in S
  PROVE  /\ Append(s, x) \in Seq(S) /\ Append(s, x) # <<>>
         /\ \A y : Contains(Append(s, x), y) <=> Contains(s, y) \/ y = x
         /\ \A y, z : Prec(Append(s, x), y, z) <=> Prec(s, y, z) \/ (Contains(s, y) /\ z = x)
         /\ NoDup(s) /\ ~Contains(s, x) => NoDup(Append(s, x))
<1> DEFINE t == Append(s, x)
           n == Len(s)
<1>1. /\ n \in Nat /\ Len(t) = n + 1 /\ t \in Seq(S) /\ t # <<>>
      /\ \A i \in 1..n : t[i] = s[i]
      /\ t[n + 1] = x
  BY AppendProperties
<1> HIDE DEF t, n
<1>2. \A y : Contains(t, y) <=> Contains(s, y) \/ y = x
  BY <1>1 DEF Contains, n
<1>3. \A y, z : Prec(t, y, z) <=> Prec(s, y, z) \/ (Contains(s, y) /\ z = x)
  <2> TAKE y, z
  <2>1. ASSUME Prec(t, y, z) PROVE Prec(s, y, z) \/ (Contains(s, y) /\ z = x)
    <3>1. PICK i \in 1..(n + 1), j \in 1..(n + 1) : i < j /\ t[i] = y /\ t[j] = z
      BY <2>1, <1>1 DEF Prec
    <3>2. i \in 1..n /\ s[i] = y
      BY <3>1, <1>1
    <3>3. CASE j = n + 1
      BY <3>1, <3>2, <3>3, <1>1 DEF Contains, n
    <3>4. CASE j \in 1..n
      BY <3>1, <3>2, <3>4, <1>1 DEF Prec, n
    <3> QED BY <3>1, <3>3, <3>4, <1>1
  <2>2. ASSUME Prec(s, y, z) PROVE Prec(t, y, z)
    <3>1. PICK i \in 1..n, j \in 1..n : i < j /\ s[i] = y /\ s[j] = z
      BY <2>2 DEF Prec, n
    <3>2. i \in 1..Len(t) /\ j \in 1..Len(t) /\ t[i] = y /\ t[j] = z
      BY <3>1, <1>1
    <3> QED BY <3>1, <3>2 DEF Prec
  <2>3. ASSUME Contains(s, y), z = x PROVE Prec(t, y, z)
    <3>1. PICK i \in 1..n : s[i] = y
      BY <2>3 DEF Contains, n
    <3>2. i \in 1..Len(t) /\ n + 1 \in 1..Len(t) /\ i < n + 1 /\ t[i] = y /\ t[n + 1] = z
      BY <3>1, <2>3, <1>1
    <3> QED BY <3>2 DEF Prec
  <2> QED BY <2>1, <2>2, <2>3
<1>4. NoDup(s) /\ ~Contains(s, x) => NoDup(t)
  BY <1>1 DEF NoDup, Contains, n
<1> QED BY <1>1, <1>2, <1>3, <1>4 DEF t

LEMMA HeadFacts ==
  ASSUME NEW S, NEW s \in Seq(S), s # <<>>, NoDup(s)
  PROVE  Head(s) \in S /\ First(s, Head(s))
<1>1. Len(s) \in Nat /\ 1 \in 1..Len(s) /\ Head(s) = s[1] /\ s[1] \in S
  OBVIOUS
<1>2. Contains(s, s[1])
  BY <1>1 DEF Contains
<1>3. \A y : ~Prec(s, y, s[1])
  BY <1>1 DEF Prec, NoDup
<1> QED BY <1>1, <1>2, <1>3 DEF First

LEMMA OrderFacts ==
  ASSUME NEW S, NEW s \in Seq(S), NoDup(s), NEW x, NEW y
  PROVE  /\ Prec(s, x, y) => Contains(s, x) /\ Contains(s, y) /\ ~Prec(s, y, x) /\ x # y
         /\ Contains(s, x) /\ Contains(s, y) /\ x # y => Prec(s, x, y) \/ Prec(s, y, x)
<1>1. Len(s) \in Nat
  OBVIOUS
<1>2. Prec(s, x, y) => Contains(s, x) /\ Contains(s, y)
  BY <1>1 DEF Prec, Contains
<1>3. Prec(s, x, y) => ~Prec(s, y, x) /\ x # y
  BY <1>1 DEF Prec, NoDup
<1>4. Contains(s, x) /\ Contains(s, y) /\ x # y => Prec(s, x, y) \/ Prec(s, y, x)
  BY <1>1 DEF Prec, Contains
<1> QED BY <1>2, <1>3, <1>4

LEMMA EmptyFacts ==
  /\ NoDup(<<>>)
  /\ \A x : ~Contains(<<>>, x)
  /\ \A x, y : ~Prec(<<>>, x, y)
BY DEF NoDup, Contains, Prec

\* list_del of a list in which every message stands once.
LEMMA UnlinkFacts ==
  ASSUME NEW S, NEW s \in Seq(S), NEW x, NoDup(s)
  PROVE  /\ Unlink(s, x) \in Seq(S) /\ NoDup(Unlink(s, x))
         /\ \A y : Contains(Unlink(s, x), y) <=> Contains(s, y) /\ y # x
         /\ \A y, z : Prec(Unlink(s, x), y, z) <=> Prec(s, y, z) /\ y # x /\ z # x
<1> DEFINE n == Len(s)
<1>1. n \in Nat /\ (\A i \in 1..n : s[i] \in S)
  OBVIOUS
<1>2. CASE ~Contains(s, x)
  <2>1. Unlink(s, x) = s
    BY <1>2 DEF Unlink, RemoveFirst, Contains
  <2> QED BY <2>1, <1>2, OrderFacts
<1>3. CASE Contains(s, x)
  <2>1. PICK k \in 1..n : s[k] = x
    BY <1>3 DEF Contains
  <2>2. \A i \in 1..n : s[i] = x <=> i = k
    BY <2>1 DEF NoDup
  <2> DEFINE t == SubSeq(s, 1, k - 1) \o SubSeq(s, k + 1, n)
  <2>3. Unlink(s, x) = t
    <3>1. SelectInSeq(s, LAMBDA v : v = x) = k
      <4>1. {i \in 1..Len(s) : s[i] = x} = {k}
        BY <2>1, <2>2
      <4>2. Min({k}) = k
        BY <1>1, <2>1 DEF Min
      <4>3. SelectInSeq(s, LAMBDA v : v = x)
              = IF {i \in 1..Len(s) : s[i] = x} # {} THEN Min({i \in 1..Len(s) : s[i] = x}) ELSE 0
        BY DEF SelectInSeq
      <4> QED BY <4>1, <4>2, <4>3
    <3>2. Unlink(s, x) = RemoveAt(s, SelectInSeq(s, LAMBDA v : v = x))
      BY <1>3 DEF Unlink, RemoveFirst, Contains
    <3> QED BY <3>1, <3>2 DEF RemoveAt
  <2>4. /\ SubSeq(s, 1, k - 1) \in Seq(S) /\ Len(SubSeq(s, 1, k - 1)) = k - 1
        /\ \A i \in 1..(k - 1) : SubSeq(s, 1, k - 1)[i] = s[i]
    BY <1>1, <2>1, SubSeqProperties
  <2>5. /\ SubSeq(s, k + 1, n) \in Seq(S) /\ Len(SubSeq(s, k + 1, n)) = n - k
        /\ \A i \in 1..(n - k) : SubSeq(s, k + 1, n)[i] = s[k + i]
    BY <1>1, <2>1, SubSeqProperties
  <2> DEFINE from(i) == IF i < k THEN i ELSE i + 1
             to(i) == IF i < k THEN i ELSE i - 1
  <2>6. t \in Seq(S) /\ Len(t) = n - 1 /\ \A i \in 1..(n - 1) : t[i] = s[from(i)]
    <3> DEFINE a == SubSeq(s, 1, k - 1)
               b == SubSeq(s, k + 1, n)
    <3>1. /\ a \in Seq(S) /\ Len(a) = k - 1 /\ b \in Seq(S) /\ Len(b) = n - k
          /\ \A i \in 1..(k - 1) : a[i] = s[i]
          /\ \A i \in 1..(n - k) : b[i] = s[k + i]
      BY <2>4, <2>5
    <3>2. /\ t \in Seq(S) /\ Len(t) = Len(a) + Len(b)
          /\ \A i \in 1..(Len(a) + Len(b)) : t[i] = IF i <= Len(a) THEN a[i] ELSE b[i - Len(a)]
      <4> HIDE DEF a, b
      <4>1. t = a \o b
        BY DEF a, b
      <4> HIDE DEF t
      <4> QED BY <3>1, <4>1, ConcatProperties
    <3> HIDE DEF a, b, t, n
    <3>3. Len(a) + Len(b) = n - 1 /\ k - 1 \in Nat /\ n - k \in Nat
      BY <3>1, <1>1, <2>1
    <3>4. ASSUME NEW i \in 1..(n - 1) PROVE t[i] = s[from(i)]
      <4>1. CASE i < k
        BY <4>1, <3>1, <3>2, <3>3, <1>1, <2>1
      <4>2. CASE ~(i < k)
        <5>1. i - (k - 1) \in 1..(n - k) /\ k + (i - (k - 1)) = i + 1
          BY <4>2, <1>1, <2>1
        <5>2. b[i - (k - 1)] = s[i + 1]
          BY <5>1, <3>1
        <5>3. t[i] = b[i - (k - 1)]
          BY <4>2, <3>1, <3>2, <3>3, <1>1, <2>1
        <5> QED BY <5>2, <5>3, <4>2
      <4> QED BY <4>1, <4>2
    <3> QED BY <3>2, <3>3, <3>4
  <2> HIDE DEF t
  <2>7. \A i \in 1..(n - 1) : from(i) \in 1..n /\ from(i) # k
    BY <1>1, <2>1
  <2>8. \A i \in 1..n : i # k => to(i) \in 1..(n - 1) /\ from(to(i)) = i
    BY <1>1, <2>1
  <2>9. /\ \A i, j \in 1..(n - 1) : from(i) < from(j) <=> i < j
        /\ \A i, j \in 1..(n - 1) : from(i) = from(j) => i = j
    BY <1>1, <2>1
  <2>10. \A i, j \in 1..n : (i # k /\ j # k) => (to(i) < to(j) <=> i < j)
    BY <1>1, <2>1
  <2> HIDE DEF from, to
  <2>11. NoDup(t)
    BY <2>6, <2>7, <2>9 DEF NoDup
  <2>12. \A y : Contains(t, y) <=> Contains(s, y) /\ y # x
    <3> TAKE y
    <3>1. ASSUME Contains(t, y) PROVE Contains(s, y) /\ y # x
      BY <3>1, <2>2, <2>6, <2>7 DEF Contains
    <3>2. ASSUME Contains(s, y), y # x PROVE Contains(t, y)
      <4>1. PICK i \in 1..n : s[i] = y
        BY <3>2 DEF Contains
      <4>2. to(i) \in 1..Len(t) /\ t[to(i)] = y
        BY <4>1, <3>2, <2>2, <2>6, <2>8
      <4> QED BY <4>2 DEF Contains
    <3> QED BY <3>1, <3>2
  <2>13. \A y, z : Prec(t, y, z) <=> Prec(s, y, z) /\ y # x /\ z # x
    <3> TAKE y, z
    <3>1. ASSUME Prec(t, y, z) PROVE Prec(s, y, z) /\ y # x /\ z # x
      <4>1. PICK i \in 1..(n - 1), j \in 1..(n - 1) : i < j /\ t[i] = y /\ t[j] = z
        BY <3>1, <2>6 DEF Prec
      <4>2. from(i) < from(j) /\ s[from(i)] = y /\ s[from(j)] = z
        BY <4>1, <2>6, <2>9
      <4> QED BY <4>2, <2>2, <2>7 DEF Prec
    <3>2. ASSUME Prec(s, y, z), y # x, z # x PROVE Prec(t, y, z)
      <4>1. PICK i \in 1..n, j \in 1..n : i < j /\ s[i] = y /\ s[j] = z
        BY <3>2 DEF Prec
      <4>2. i # k /\ j # k
        BY <4>1, <3>2, <2>1
      <4>3. to(i) \in 1..Len(t) /\ to(j) \in 1..Len(t) /\ to(i) < to(j)
        BY <4>1, <4>2, <2>6, <2>8, <2>10
      <4>4. t[to(i)] = y /\ t[to(j)] = z
        BY <4>1, <4>2, <2>6, <2>8
      <4> QED BY <4>3, <4>4 DEF Prec
    <3> QED BY <3>1, <3>2
  <2> QED BY <2>3, <2>6, <2>11, <2>12, <2>13
<1> QED BY <1>2, <1>3

\* Every list has at most x more, at the end of that of e, or x less.
Gains(l, new, e, x) ==
  /\ new \in [End -> Seq(Msg)] /\ new[e] # <<>>
  /\ \A f \in End : f # e => new[f] = l[f]
  /\ \A f \in End : NoDup(new[f])
  /\ \A f \in End : \A y : Contains(new[f], y) <=> Contains(l[f], y) \/ (f = e /\ y = x)
  /\ \A f \in End : \A y, z :
       Prec(new[f], y, z) <=> Prec(l[f], y, z) \/ (f = e /\ Contains(l[f], y) /\ z = x)
Loses(l, new, e, x) ==
  /\ new \in [End -> Seq(Msg)]
  /\ \A f \in End : f # e => new[f] = l[f]
  /\ \A f \in End : NoDup(new[f])
  /\ \A f \in End : \A y : Contains(new[f], y) <=> Contains(l[f], y) /\ ~(f = e /\ y = x)
  /\ \A f \in End : \A y, z :
       Prec(new[f], y, z) <=> Prec(l[f], y, z) /\ ~(f = e /\ (y = x \/ z = x))

LEMMA GainsFacts ==
  ASSUME NEW l \in [End -> Seq(Msg)], NEW e \in End, NEW x \in Msg,
         \A f \in End : NoDup(l[f]), ~Contains(l[e], x)
  PROVE  Gains(l, [l EXCEPT ![e] = Append(@, x)], e, x)
<1> DEFINE s == l[e]
           t == Append(s, x)
           new == [l EXCEPT ![e] = t]
<1>1. s \in Seq(Msg)
  OBVIOUS
<1>2. /\ t \in Seq(Msg) /\ t # <<>> /\ NoDup(t)
      /\ \A y : Contains(t, y) <=> Contains(s, y) \/ y = x
      /\ \A y, z : Prec(t, y, z) <=> Prec(s, y, z) \/ (Contains(s, y) /\ z = x)
  BY <1>1, AppendFacts
<1> HIDE DEF t
<1>3. new \in [End -> Seq(Msg)] /\ \A f \in End : new[f] = IF f = e THEN t ELSE l[f]
  BY <1>2
<1> HIDE DEF new
<1>4. Gains(l, new, e, x)
  BY <1>2, <1>3 DEF Gains
<1> QED BY <1>4 DEF new, t

LEMMA LosesFacts ==
  ASSUME NEW l \in [End -> Seq(Msg)], NEW e \in End, NEW x, \A f \in End : NoDup(l[f])
  PROVE  Loses(l, [l EXCEPT ![e] = Unlink(@, x)], e, x)
<1> DEFINE s == l[e]
           t == Unlink(s, x)
           new == [l EXCEPT ![e] = t]
<1>1. s \in Seq(Msg)
  OBVIOUS
<1>2. /\ t \in Seq(Msg) /\ NoDup(t)
      /\ \A y : Contains(t, y) <=> Contains(s, y) /\ y # x
      /\ \A y, z : Prec(t, y, z) <=> Prec(s, y, z) /\ y # x /\ z # x
  BY <1>1, UnlinkFacts
<1> HIDE DEF t
<1>3. new \in [End -> Seq(Msg)] /\ \A f \in End : new[f] = IF f = e THEN t ELSE l[f]
  BY <1>2
<1> HIDE DEF new
<1>4. Loses(l, new, e, x)
  BY <1>2, <1>3 DEF Loses
<1> QED BY <1>4 DEF new, t

LEMMA WorkFacts ==
  ASSUME NEW q \in WorkQ, NEW w \in {"tx", "rx"}
  PROVE  /\ Queued(q, w) \in WorkQ
         /\ \A x : Contains(Queued(q, w), x) <=> Contains(q, x) \/ x = w
         /\ q # <<>> => /\ Tail(q) \in WorkQ /\ Head(q) \in {"tx", "rx"}
                        /\ \A x : Contains(q, x) <=> Contains(Tail(q), x) \/ x = Head(q)
<1>1. \A a, x : Contains(<<a>>, x) <=> x = a
  BY DEF Contains
<1>2. \A a, b, x : Contains(<<a, b>>, x) <=> x = a \/ x = b
  <2> TAKE a, b, x
  <2>1. Len(<<a, b>>) = 2 /\ <<a, b>>[1] = a /\ <<a, b>>[2] = b
    OBVIOUS
  <2>2. 1..2 = {1, 2}
    OBVIOUS
  <2> QED BY <2>1, <2>2 DEF Contains
<1>3. \A x : ~Contains(<<>>, x)
  BY EmptyFacts
<1>4. \A a, b : Append(<<>>, a) = <<a>> /\ Append(<<a>>, b) = <<a, b>>
  <2> TAKE a, b
  <2> DEFINE S == {a, b}
             none == <<>>
             one == <<a>>
             two == <<a, b>>
  <2>1. /\ a \in S /\ b \in S /\ none \in Seq(S) /\ one \in Seq(S) /\ two \in Seq(S)
        /\ Len(none) = 0 /\ Len(one) = 1 /\ Len(two) = 2
        /\ one[1] = a /\ two[1] = a /\ two[2] = b
    OBVIOUS
  <2> HIDE DEF S, none, one, two
  <2>2. Append(none, a) = one
    <3>1. Append(none, a) \in Seq(S) /\ Len(Append(none, a)) = 1 /\ Append(none, a)[1] = a
      BY <2>1, AppendProperties
    <3>2. \A i \in 1..1 : Append(none, a)[i] = one[i]
      BY <3>1, <2>1
    <3> QED BY <3>1, <3>2, <2>1, SeqEqual
  <2>3. Append(one, b) = two
    <3>1. /\ Append(one, b) \in Seq(S) /\ Len(Append(one, b)) = 2
          /\ Append(one, b)[1] = a /\ Append(one, b)[2] = b
      <4>1. /\ Append(one, b) \in Seq(S) /\ Len(Append(one, b)) = Len(one) + 1
            /\ \A i \in 1..Len(one) : Append(one, b)[i] = one[i]
            /\ Append(one, b)[Len(one) + 1] = b
        <5>1. one \in Seq(S) /\ b \in S
          BY <2>1
        <5> QED BY <5>1, AppendProperties
      <4>2. Len(one) + 1 = 2 /\ 1 \in 1..Len(one)
        BY <2>1
      <4> QED BY <4>1, <4>2, <2>1
    <3>2. \A i \in 1..2 : Append(one, b)[i] = two[i]
      BY <3>1, <2>1
    <3> QED BY <3>1, <3>2, <2>1, SeqEqual
  <2> QED BY <2>2, <2>3 DEF none, one, two
<1>5. \A a, b : /\ Head(<<a>>) = a /\ Tail(<<a>>) = <<>> /\ <<a>> # <<>>
                /\ Head(<<a, b>>) = a /\ Tail(<<a, b>>) = <<b>> /\ <<a, b>> # <<>>
  OBVIOUS
<1>6. PICK a \in {"tx", "rx"}, b \in {"tx", "rx"} : a # b /\ q \in {<<>>, <<a>>, <<a, b>>}
  BY DEF WorkQ
<1>7. <<>> \in WorkQ /\ <<a>> \in WorkQ /\ <<b>> \in WorkQ /\ <<a, b>> \in WorkQ
  BY <1>6 DEF WorkQ
<1>8. w = a \/ w = b
  BY <1>6
<1>9. CASE q = <<>>
  BY <1>9, <1>3, <1>1, <1>4, <1>7, <1>8 DEF Queued
<1>10. CASE q = <<a>>
  <2>1. CASE w = a
    <3>1. Queued(q, w) = q
      BY <1>10, <2>1, <1>1 DEF Queued
    <3> QED BY <3>1, <2>1, <1>10, <1>1, <1>3, <1>5, <1>6, <1>7
  <2>2. CASE w = b
    <3>1. Queued(q, w) = <<a, b>>
      BY <1>10, <2>2, <1>1, <1>4, <1>6 DEF Queued
    <3> QED BY <3>1, <2>2, <1>10, <1>1, <1>2, <1>3, <1>5, <1>6, <1>7
  <2> QED BY <2>1, <2>2, <1>8
<1>11. CASE q = <<a, b>>
  <2>1. Queued(q, w) = q
    BY <1>11, <1>2, <1>8 DEF Queued
  <2>2. /\ Tail(q) = <<b>> /\ Head(q) = a
        /\ \A x : Contains(q, x) <=> x = a \/ x = b
        /\ \A x : Contains(<<b>>, x) <=> x = b
    BY <1>11, <1>1, <1>2, <1>5
  <2> QED BY <2>1, <2>2, <1>11, <1>6, <1>7, <1>8
<1> QED BY <1>6, <1>9, <1>10, <1>11

-----------------------------------------------------------------------------
(* Sides and messages.                                                     *)

LEMMA EndFacts ==
  \A e \in End : Peer(e) \in End /\ Peer(e) # e /\ Peer(Peer(e)) = e
                 /\ \A f \in End : f = e \/ f = Peer(e)
BY DEF End, Peer

LEMMA EndNames == "vf" \in End /\ "pf" \in End /\ Peer("vf") = "pf" /\ Peer("pf") = "vf"
BY DEF End, Peer

LEMMA HomeFacts ==
  /\ \A m \in Msg : Home(m) \in End /\ (m \in Req \/ m \in Answers \/ m = Bye)
  /\ \A r \in Req : /\ r \in Msg /\ Home(r) = Side(r) /\ r \notin Answers /\ r # Bye
                    /\ Answer(r) \in Answers /\ Answer(r)[1] = r
                    /\ Home(Answer(r)) = Peer(Home(r))
  /\ \A m \in Answers : /\ m \in Msg /\ m \notin Req /\ m # Bye
                        /\ m[1] \in Req /\ m = Answer(m[1])
  /\ Bye \in Msg /\ Bye \notin Req /\ Bye \notin Answers /\ Home(Bye) = "vf"
  /\ Nil \notin Msg
  /\ \A r \in VfReq : r \in Req /\ Home(r) = "vf"
  /\ \A r \in PfReq : r \in Req /\ Home(r) = "pf" /\ r \notin VfReq
  /\ \A r \in Req : r \in VfReq \/ r \in PfReq
<1>1. \A r \in Req : /\ r \in Msg /\ r \notin Answers /\ r # Bye
                     /\ Answer(r) \in Answers /\ Answer(r)[1] = r
  BY ReqAssumption, AnswerAssumption DEF Msg, Answers, Answer
<1>2. \A m \in Answers : /\ m \in Msg /\ m \notin Req /\ m # Bye
                         /\ m[1] \in Req /\ m = Answer(m[1])
  BY ReqAssumption, AnswerAssumption DEF Msg, Answers, Answer
<1>3. Bye \in Msg /\ Bye \notin Req /\ Bye \notin Answers /\ Home(Bye) = "vf" /\ Nil \notin Msg
  BY ReqAssumption, AnswerAssumption DEF Msg, Home
<1>4. \A r \in Req : Side(r) \in End /\ Home(r) = Side(r)
  BY <1>1 DEF Side, End, Home
<1>5. \A r \in Req : Home(Answer(r)) = Peer(Home(r))
  BY <1>1, <1>2, <1>4 DEF Home
<1>6. \A m \in Msg : m \in Req \/ m \in Answers \/ m = Bye
  BY DEF Msg
<1>7. \A m \in Msg : Home(m) \in End
  BY <1>1, <1>2, <1>3, <1>4, <1>5, <1>6, EndFacts, EndNames
<1>8. \A r \in VfReq : r \in Req /\ Home(r) = "vf"
  BY <1>4 DEF Req, Side
<1>9. \A r \in PfReq : r \in Req /\ Home(r) = "pf" /\ r \notin VfReq
  BY <1>4, ReqAssumption DEF Req, Side
<1> QED BY <1>1, <1>2, <1>3, <1>4, <1>5, <1>6, <1>7, <1>8, <1>9 DEF Req

LEMMA QueueWorkFacts ==
  ASSUME workq \in [End -> WorkQ], NEW e \in End, NEW w \in {"tx", "rx"}, QueueWork(e, w)
  PROVE  /\ workq' \in [End -> WorkQ]
         /\ \A f \in End : \A x :
              Contains(workq'[f], x) <=> Contains(workq[f], x) \/ (f = e /\ x = w)
<1>1. /\ workq[e] \in WorkQ /\ Queued(workq[e], w) \in WorkQ
      /\ \A x : Contains(Queued(workq[e], w), x) <=> Contains(workq[e], x) \/ x = w
  BY WorkFacts
<1>2. workq' = [workq EXCEPT ![e] = Queued(workq[e], w)]
  BY DEF QueueWork
<1> QED BY <1>1, <1>2

-----------------------------------------------------------------------------
(* Every message makes its way once.                                       *)

PlaceInv ==
  /\ Types
  /\ \A e \in End : EndInv(e)
  /\ \A m \in Msg : MsgInv(m)
  /\ \A r \in Req : ReqInv(r)

USE DEF mode, lists, work, worker, senders, memory

\* A message that is sent goes to the end of the list of its side, alone.
LEMMA SendFacts ==
  ASSUME PlaceInv, NEW x \in Msg, Fresh(x), Send(Home(x), x)
  PROVE  /\ Gains(tx_todo_list, tx_todo_list', Home(x), x)
         /\ workq' \in [End -> WorkQ]
         /\ \A f \in End : pc[f] \in {"send", "unlink"} =>
              /\ First(tx_todo_list[f], cur[f]) => First(tx_todo_list'[f], cur[f])
              /\ ~Contains(tx_todo_list[f], cur[f]) => ~Contains(tx_todo_list'[f], cur[f])
<1> DEFINE e == Home(x)
<1>1. e \in End /\ MsgInv(x)
  BY HomeFacts DEF PlaceInv
<1>2. ~Listed(x) /\ ~AtSend(x) /\ ~Sent(x)
  BY <1>1 DEF MsgInv
<1>3. /\ tx_todo_list \in [End -> Seq(Msg)] /\ (\A f \in End : NoDup(tx_todo_list[f]))
      /\ ~Contains(tx_todo_list[e], x) /\ workq \in [End -> WorkQ]
  BY <1>2 DEF PlaceInv, Types, ListType, WorkType, EndInv, Listed
<1>4. tx_todo_list' = [tx_todo_list EXCEPT ![e] = Append(@, x)] /\ QueueWork(e, "tx")
  BY DEF Send
<1>5. \A f \in End : pc[f] \in {"send", "unlink"} /\ f = e => cur[f] # x
  BY <1>2 DEF AtSend, Sent
<1> HIDE DEF e
<1>6. Gains(tx_todo_list, tx_todo_list', e, x)
  BY <1>1, <1>3, <1>4, GainsFacts
<1>7. workq' \in [End -> WorkQ]
  BY <1>1, <1>3, <1>4, QueueWorkFacts
<1>8. ASSUME NEW f \in End, pc[f] \in {"send", "unlink"}
      PROVE  /\ First(tx_todo_list[f], cur[f]) => First(tx_todo_list'[f], cur[f])
             /\ ~Contains(tx_todo_list[f], cur[f]) => ~Contains(tx_todo_list'[f], cur[f])
  BY <1>5, <1>6, <1>8 DEF Gains, First
<1> QED BY <1>6, <1>7, <1>8 DEF e

\* What a step does to a message: nothing, or what the action names.
Keeps(m) ==
  /\ Listed(m)' <=> Listed(m)
  /\ AtSend(m)' <=> AtSend(m)
  /\ Sent(m)' <=> Sent(m)
  /\ InHand(m)' <=> InHand(m)
  /\ Pending(m)' <=> Pending(m)
  /\ InSlot(m)' <=> InSlot(m)
  /\ InRx(m)' <=> InRx(m)
  /\ Fresh(m)' <=> Fresh(m)

USE DEF Waits

LEMMA KeepsMsg ==
  ASSUME NEW m \in Msg, MsgInv(m), Keeps(m),
         m \notin Answers => handled'[m] = handled[m],
         m \notin Req => (m \in freed' => m \in freed) /\ retry_cnt'[m] = retry_cnt[m]
  PROVE  MsgInv(m)'
BY DEF MsgInv, Keeps

LEMMA KeepsReq ==
  ASSUME NEW r \in Req, ReqInv(r), Keeps(r)
  PROVE  ReqInv(r)'
BY DEF ReqInv, Keeps

\* Steps that move no message.
Quiet ==
  \/ \E r \in Req : Wait(r) \/ TimeOut(r) \/ Return(r)
  \/ \E e \in End : Start(e) \/ RxEnd(e) \/ TimerFire(e)
  \/ RxMatchVf \/ LeaveStop \/ LeaveOff

LEMMA QuietMoves ==
  ASSUME PlaceInv, Quiet, NEW m \in Msg
  PROVE  Keeps(m)
<1> USE DEF Keeps, Listed, AtSend, Sent, InHand, Pending, InSlot, InRx, Fresh, Reading
<1>1. Home(m) \in End /\ Peer(Home(m)) \in End /\ Home(m) # Peer(Home(m))
      /\ pc \in [End -> {"idle", "pick", "send", "unlink", "pend", "read", "match", "dispatch", "copy"}]
      /\ cur \in [End -> Msg \cup {Nil}]
      /\ stage \in [Req -> {"new", "queued", "asleep", "awake", "late", "ok", "failed"}]
  BY HomeFacts, EndFacts DEF PlaceInv, Types, WorkerType, SenderType
<1>2. ASSUME NEW r \in Req, Wait(r) PROVE Keeps(m)
  BY <1>1, <1>2 DEF Wait
<1>3. ASSUME NEW r \in Req, TimeOut(r) \/ Return(r) PROVE Keeps(m)
  BY <1>1, <1>3 DEF TimeOut, Return
<1>4. ASSUME NEW e \in End, Start(e) PROVE Keeps(m)
  BY <1>1, <1>4 DEF Start
<1>5. ASSUME NEW e \in End, RxEnd(e) PROVE Keeps(m)
  BY <1>1, <1>5 DEF RxEnd
<1>6. ASSUME NEW e \in End, TimerFire(e) PROVE Keeps(m)
  BY <1>1, <1>6 DEF TimerFire
<1>7. ASSUME RxMatchVf PROVE Keeps(m)
  BY <1>1, <1>7 DEF RxMatchVf
<1>8. ASSUME LeaveStop \/ LeaveOff PROVE Keeps(m)
  BY <1>1, <1>8 DEF LeaveStop, LeaveOff
<1> QED BY <1>2, <1>3, <1>4, <1>5, <1>6, <1>7, <1>8 DEF Quiet

\* Sending.
LEMMA MsgSendMoves ==
  ASSUME PlaceInv, NEW r \in Req, MsgSend(r)
  PROVE  /\ r \in Msg /\ Fresh(r) /\ Gains(tx_todo_list, tx_todo_list', Home(r), r)
         /\ \A m \in Msg \ {r} : Keeps(m)
         /\ Listed(r)' /\ ~Fresh(r)' /\ ~AtSend(r)' /\ ~Sent(r)' /\ ~InSlot(r)' /\ ~InRx(r)'
         /\ ~InHand(r)' /\ ~Pending(r)'
<1> USE DEF Keeps, Listed, AtSend, Sent, InHand, Pending, InSlot, InRx, Fresh
<1>1. r \in Msg /\ Side(r) = Home(r) /\ Home(r) \in End /\ r # Bye /\ MsgInv(r) /\ ReqInv(r)
      /\ stage[r] = "new" /\ stage'[r] # "new" /\ \A q \in Req : q # r => stage'[q] = stage[q]
  BY HomeFacts DEF MsgSend, PlaceInv, Types, SenderType
<1>2. Fresh(r) /\ Gains(tx_todo_list, tx_todo_list', Home(r), r)
  BY <1>1, SendFacts DEF MsgSend
<1>3. ASSUME NEW m \in Msg \ {r} PROVE Keeps(m)
  BY <1>1, <1>2, <1>3, HomeFacts DEF MsgSend, Gains
<1>4. Listed(r)' /\ ~Fresh(r)'
  BY <1>1, <1>2 DEF Gains
<1>5. ~AtSend(r)' /\ ~Sent(r)' /\ ~InSlot(r)' /\ ~InRx(r)' /\ ~InHand(r)' /\ ~Pending(r)'
  BY <1>1 DEF MsgSend, MsgInv, ReqInv
<1> QED BY <1>1, <1>2, <1>3, <1>4, <1>5

LEMMA LeaveByeMoves ==
  ASSUME PlaceInv, LeaveBye
  PROVE  /\ Fresh(Bye) /\ Gains(tx_todo_list, tx_todo_list', "vf", Bye)
         /\ \A m \in Msg \ {Bye} : Keeps(m)
         /\ Listed(Bye)' /\ ~Fresh(Bye)' /\ ~AtSend(Bye)' /\ ~Sent(Bye)' /\ ~InSlot(Bye)' /\ ~InRx(Bye)'
<1> USE DEF Keeps, Listed, AtSend, Sent, InHand, Pending, InSlot, InRx, Fresh
<1>1. Bye \in Msg /\ Home(Bye) = "vf" /\ MsgInv(Bye) /\ Fresh(Bye)
  BY HomeFacts DEF LeaveBye, PlaceInv
<1>2. Gains(tx_todo_list, tx_todo_list', "vf", Bye)
  BY <1>1, SendFacts DEF LeaveBye
<1>3. ASSUME NEW m \in Msg \ {Bye} PROVE Keeps(m)
  BY <1>1, <1>2, <1>3, HomeFacts DEF LeaveBye, Gains
<1>4. Listed(Bye)' /\ ~Fresh(Bye)'
  BY <1>1, <1>2, EndNames DEF Gains, LeaveBye
<1>5. ~AtSend(Bye)' /\ ~Sent(Bye)' /\ ~InSlot(Bye)' /\ ~InRx(Bye)'
  BY <1>1 DEF LeaveBye, MsgInv
<1> QED BY <1>1, <1>2, <1>3, <1>4, <1>5

LEMMA ExpireMoves ==
  ASSUME PlaceInv, NEW r \in Req, Expire(r)
  PROVE  /\ r \in Msg /\ Loses(tx_todo_list, tx_todo_list', Home(r), r)
         /\ Loses(rx_pend_list, rx_pend_list', Home(r), r)
         /\ \A m \in Msg \ {r} : Keeps(m)
         /\ ~Listed(r)' /\ ~Pending(r)' /\ ~Fresh(r)'
         /\ AtSend(r)' <=> AtSend(r)
         /\ Sent(r)' <=> Sent(r)
         /\ InHand(r)' <=> InHand(r)
         /\ InSlot(r)' <=> InSlot(r)
         /\ InRx(r)' <=> InRx(r)
<1> USE DEF Keeps, Listed, AtSend, Sent, InHand, Pending, InSlot, InRx, Fresh
<1>1. r \in Msg /\ Side(r) = Home(r) /\ Home(r) \in End /\ r # Bye
      /\ stage'[r] # "new" /\ \A q \in Req : q # r => stage'[q] = stage[q]
  BY HomeFacts DEF Expire, PlaceInv, Types, SenderType
<1>2. Loses(tx_todo_list, tx_todo_list', Home(r), r)
  BY <1>1, LosesFacts DEF Expire, PlaceInv, Types, ListType, EndInv
<1>3. Loses(rx_pend_list, rx_pend_list', Home(r), r)
  BY <1>1, LosesFacts DEF Expire, PlaceInv, Types, ListType, EndInv
<1>4. ASSUME NEW m \in Msg \ {r} PROVE Keeps(m)
  BY <1>1, <1>2, <1>3, <1>4, HomeFacts DEF Expire, Loses
<1>5. ~Listed(r)' /\ ~Pending(r)' /\ ~Fresh(r)'
  BY <1>1, <1>2, <1>3 DEF Loses
<1> QED BY <1>1, <1>2, <1>3, <1>4, <1>5 DEF Expire

\* Transmitting.
LEMMA WorkerCase ==
  ASSUME PlaceInv, NEW e \in End
  PROVE  /\ Peer(e) \in End /\ Peer(e) # e /\ Peer(Peer(e)) = e
         /\ \A f \in End : f = e \/ f = Peer(e)
         /\ \A m \in Msg : Home(m) = e \/ Home(m) = Peer(e)
         /\ EndInv(e) /\ EndInv(Peer(e))
         /\ pc[e] \in {"send", "unlink"} => cur[e] \in Msg /\ Home(cur[e]) = e
         /\ pc \in [End -> {"idle", "pick", "send", "unlink", "pend", "read", "match", "dispatch", "copy"}]
         /\ cur \in [End -> Msg \cup {Nil}] /\ rx \in [End -> Msg \cup {Nil}]
         /\ slot \in [End -> Msg \cup {Nil}]
         /\ tx_todo_list \in [End -> Seq(Msg)] /\ rx_pend_list \in [End -> Seq(Msg)]
         /\ \A f \in End : NoDup(tx_todo_list[f]) /\ NoDup(rx_pend_list[f])
<1>1. EndInv(e) /\ \A f \in End : EndInv(f)
  BY DEF PlaceInv
<1>2. \A f \in End : NoDup(tx_todo_list[f]) /\ NoDup(rx_pend_list[f])
  BY <1>1 DEF EndInv
<1>3. pc[e] \in {"send", "unlink"} => cur[e] \in Msg /\ Home(cur[e]) = e
  BY <1>1 DEF EndInv
<1> QED BY <1>1, <1>2, <1>3, EndFacts, HomeFacts DEF PlaceInv, Types, ListType, WorkerType

LEMMA TxPickMoves ==
  ASSUME PlaceInv, NEW e \in End, TxPick(e), NEW c, c = Head(tx_todo_list[e])
  PROVE  /\ tx_todo_list[e] = <<>> => \A m \in Msg : Keeps(m)
         /\ tx_todo_list[e] # <<>> =>
              /\ c \in Msg /\ Home(c) = e /\ First(tx_todo_list[e], c)
              /\ \A m \in Msg \ {c} : Keeps(m)
              /\ Listed(c) /\ Listed(c)' /\ AtSend(c)' /\ ~Sent(c) /\ ~Sent(c)'
              /\ InHand(c)' <=> InHand(c)
              /\ Pending(c)' <=> Pending(c)
              /\ InSlot(c)' <=> InSlot(c)
              /\ InRx(c)' <=> InRx(c)
              /\ Fresh(c)' <=> Fresh(c)
<1> USE DEF Keeps, Listed, AtSend, Sent, InHand, Pending, InSlot, InRx, Fresh, Reading
<1>1. ASSUME tx_todo_list[e] = <<>>, NEW m \in Msg PROVE Keeps(m)
  <2>1. pc[e] = "pick" /\ pc' = [pc EXCEPT ![e] = "idle"]
        /\ UNCHANGED <<cur, tx_todo_list, rx_pend_list, rx, slot, stage, handled, leaving>>
    BY <1>1 DEF TxPick
  <2>2. Home(m) \in End /\ Peer(Home(m)) \in End
    BY HomeFacts, EndFacts
  <2> QED BY <2>1, <2>2, WorkerCase
<1>2. ASSUME tx_todo_list[e] # <<>>
      PROVE  /\ c \in Msg /\ Home(c) = e /\ First(tx_todo_list[e], c)
             /\ cur' = [cur EXCEPT ![e] = c] /\ pc[e] = "pick" /\ pc' = [pc EXCEPT ![e] = "send"]
             /\ UNCHANGED <<tx_todo_list, rx_pend_list, rx, slot, stage, handled, leaving>>
  <2>1. /\ cur' = [cur EXCEPT ![e] = c] /\ pc[e] = "pick" /\ pc' = [pc EXCEPT ![e] = "send"]
        /\ UNCHANGED <<tx_todo_list, rx_pend_list, rx, slot, stage, handled, leaving>>
    BY <1>2 DEF TxPick
  <2>2. c \in Msg /\ First(tx_todo_list[e], c)
    BY <1>2, WorkerCase, HeadFacts
  <2>3. Home(c) = e
    BY <2>2 DEF First, PlaceInv, Types, ListType
  <2> QED BY <2>1, <2>2, <2>3
<1>3. ASSUME tx_todo_list[e] # <<>>, NEW m \in Msg \ {c} PROVE Keeps(m)
  <2>1. Home(m) \in End /\ Peer(Home(m)) \in End
    BY HomeFacts, EndFacts
  <2>2. AtSend(m)' <=> AtSend(m)
    BY <1>2, <1>3, <2>1, WorkerCase
  <2>3. (Sent(m)' <=> Sent(m)) /\ (InHand(m)' <=> InHand(m)) /\ (InRx(m)' <=> InRx(m))
    BY <1>2, <1>3, <2>1, WorkerCase
  <2> QED BY <1>2, <1>3, <2>2, <2>3
<1>4. ASSUME tx_todo_list[e] # <<>>
      PROVE  /\ Listed(c) /\ Listed(c)' /\ AtSend(c)' /\ ~Sent(c) /\ ~Sent(c)'
             /\ InHand(c)' <=> InHand(c)
             /\ Pending(c)' <=> Pending(c)
             /\ InSlot(c)' <=> InSlot(c)
             /\ InRx(c)' <=> InRx(c)
             /\ Fresh(c)' <=> Fresh(c)
  BY <1>2, <1>4, WorkerCase DEF First
<1> QED BY <1>1, <1>2, <1>3, <1>4

LEMMA TxSendMoves ==
  ASSUME PlaceInv, NEW e \in End, TxSend(e), NEW c, c = cur[e]
  PROVE  /\ c \in Msg /\ Home(c) = e /\ AtSend(c) /\ ~InSlot(c)
         /\ \A m \in Msg \ {c} : Keeps(m)
         /\ ~AtSend(c)' /\ ~Sent(c) /\ Sent(c)' /\ InSlot(c)'
         /\ Listed(c)' <=> Listed(c)
         /\ InHand(c)' <=> InHand(c)
         /\ Pending(c)' <=> Pending(c)
         /\ InRx(c)' <=> InRx(c)
         /\ Fresh(c)' <=> Fresh(c)
<1> USE DEF Keeps, Listed, AtSend, Sent, InHand, Pending, InSlot, InRx, Fresh, Reading
<1>1. c \in Msg /\ Home(c) = e /\ AtSend(c) /\ ~InSlot(c)
  BY WorkerCase, HomeFacts DEF TxSend
<1>2. ASSUME NEW m \in Msg \ {c} PROVE Keeps(m)
  BY <1>1, <1>2, WorkerCase, HomeFacts DEF TxSend
<1>3. ~AtSend(c)' /\ ~Sent(c) /\ Sent(c)' /\ InSlot(c)'
  BY <1>1, WorkerCase DEF TxSend
<1>4. /\ Listed(c)' <=> Listed(c)
      /\ InHand(c)' <=> InHand(c)
      /\ Pending(c)' <=> Pending(c)
      /\ InRx(c)' <=> InRx(c)
      /\ Fresh(c)' <=> Fresh(c)
  BY <1>1, WorkerCase DEF TxSend
<1> QED BY <1>1, <1>2, <1>3, <1>4

LEMMA TxBusyMoves ==
  ASSUME PlaceInv, NEW e \in End, TxBusy(e), NEW c, c = cur[e]
  PROVE  /\ c \in Msg /\ Home(c) = e /\ AtSend(c)
         /\ \A m \in Msg \ {c} : Keeps(m)
         /\ ~AtSend(c)'
         /\ Listed(c)' <=> Listed(c)
         /\ Sent(c)' <=> Sent(c)
         /\ InHand(c)' <=> InHand(c)
         /\ Pending(c)' <=> Pending(c)
         /\ InSlot(c)' <=> InSlot(c)
         /\ InRx(c)' <=> InRx(c)
         /\ Fresh(c)' <=> Fresh(c)
         /\ c \notin Req => First(tx_todo_list[e], c) /\ retry_cnt[c] \in 1..Retries
<1> USE DEF Keeps, Listed, AtSend, Sent, InHand, Pending, InSlot, InRx, Fresh, Reading
<1>1. c \in Msg /\ Home(c) = e /\ AtSend(c)
  BY WorkerCase DEF TxBusy
<1>2. ASSUME NEW m \in Msg \ {c} PROVE Keeps(m)
  BY <1>1, <1>2, WorkerCase DEF TxBusy
<1>3. ~AtSend(c)'
  BY <1>1, WorkerCase DEF TxBusy
<1>4. /\ Listed(c)' <=> Listed(c)
      /\ Sent(c)' <=> Sent(c)
      /\ InHand(c)' <=> InHand(c)
      /\ Pending(c)' <=> Pending(c)
      /\ InSlot(c)' <=> InSlot(c)
      /\ InRx(c)' <=> InRx(c)
      /\ Fresh(c)' <=> Fresh(c)
  BY <1>1, WorkerCase DEF TxBusy
<1>5. ASSUME c \notin Req PROVE First(tx_todo_list[e], c) /\ retry_cnt[c] \in 1..Retries
  <2>1. First(tx_todo_list[e], c)
    BY <1>5, WorkerCase DEF TxBusy, EndInv
  <2>2. retry_cnt[c] \in 0..Retries /\ MsgInv(c)
    BY <1>1, <1>5, HomeFacts DEF PlaceInv, Types, SenderType
  <2>3. retry_cnt[c] # 0
    BY <2>1, <2>2, <1>1, <1>5 DEF MsgInv, First
  <2> QED BY <2>1, <2>2, <2>3, RetryAssumption
<1> QED BY <1>1, <1>2, <1>3, <1>4, <1>5

LEMMA TxDropMoves ==
  ASSUME PlaceInv, NEW e \in End, TxDrop(e), NEW c, c = cur[e]
  PROVE  /\ c \in Msg /\ Home(c) = e /\ AtSend(c) /\ c \notin Req
         /\ Loses(tx_todo_list, tx_todo_list', e, c)
         /\ \A m \in Msg \ {c} : Keeps(m)
         /\ ~AtSend(c)' /\ ~Listed(c)'
         /\ Sent(c)' <=> Sent(c)
         /\ InSlot(c)' <=> InSlot(c)
         /\ InRx(c)' <=> InRx(c)
         /\ Fresh(c)' <=> Fresh(c)
<1> USE DEF Keeps, Listed, AtSend, Sent, InHand, Pending, InSlot, InRx, Fresh, Reading
<1>1. c \in Msg /\ Home(c) = e /\ AtSend(c) /\ c \notin Req
  BY WorkerCase DEF TxDrop, LastTry, WaitsResp
<1>2. Loses(tx_todo_list, tx_todo_list', e, c) /\ ~Contains(tx_todo_list'[e], c)
  <2>1. Loses(tx_todo_list, tx_todo_list', e, c)
    BY WorkerCase, LosesFacts DEF TxDrop
  <2> QED BY <2>1 DEF Loses
<1>3. ASSUME NEW m \in Msg \ {c} PROVE Keeps(m)
  BY <1>1, <1>2, <1>3, WorkerCase DEF TxDrop, Loses
<1>4. ~AtSend(c)' /\ ~Listed(c)'
  BY <1>1, <1>2, WorkerCase DEF TxDrop
<1>5. /\ Sent(c)' <=> Sent(c)
      /\ InSlot(c)' <=> InSlot(c)
      /\ InRx(c)' <=> InRx(c)
      /\ Fresh(c)' <=> Fresh(c)
  BY <1>1, WorkerCase DEF TxDrop
<1> QED BY <1>1, <1>2, <1>3, <1>4, <1>5

LEMMA TxUnlinkMoves ==
  ASSUME PlaceInv, NEW e \in End, TxUnlink(e), NEW c, c = cur[e]
  PROVE  /\ c \in Msg /\ Home(c) = e /\ Sent(c)
         /\ Loses(tx_todo_list, tx_todo_list', e, c)
         /\ \A m \in Msg \ {c} : Keeps(m)
         /\ ~Sent(c)' /\ ~AtSend(c) /\ ~AtSend(c)' /\ ~Listed(c)' /\ ~InHand(c)
         /\ InHand(c)' <=> c \in Req
         /\ Pending(c)' <=> Pending(c)
         /\ InSlot(c)' <=> InSlot(c)
         /\ InRx(c)' <=> InRx(c)
         /\ Fresh(c)' <=> Fresh(c)
<1> USE DEF Keeps, Listed, AtSend, Sent, InHand, Pending, InSlot, InRx, Fresh, Reading, WaitsResp
<1>1. c \in Msg /\ Home(c) = e /\ Sent(c)
  BY WorkerCase DEF TxUnlink
<1>2. Loses(tx_todo_list, tx_todo_list', e, c) /\ ~Contains(tx_todo_list'[e], c)
  <2>1. Loses(tx_todo_list, tx_todo_list', e, c)
    BY WorkerCase, LosesFacts DEF TxUnlink
  <2> QED BY <2>1 DEF Loses
<1>3. ASSUME NEW m \in Msg \ {c} PROVE Keeps(m)
  BY <1>1, <1>2, <1>3, WorkerCase DEF TxUnlink, Loses
<1>4. ~Sent(c)' /\ ~AtSend(c) /\ ~AtSend(c)' /\ ~Listed(c)' /\ ~InHand(c) /\ (InHand(c)' <=> c \in Req)
  BY <1>1, <1>2, WorkerCase DEF TxUnlink
<1>5. /\ Pending(c)' <=> Pending(c)
      /\ InSlot(c)' <=> InSlot(c)
      /\ InRx(c)' <=> InRx(c)
      /\ Fresh(c)' <=> Fresh(c)
  BY <1>1, WorkerCase DEF TxUnlink
<1> QED BY <1>1, <1>2, <1>3, <1>4, <1>5

LEMMA TxPendMoves ==
  ASSUME PlaceInv, NEW e \in End, TxPend(e), NEW c, c = cur[e]
  PROVE  /\ c \in Req /\ c \in Msg /\ Home(c) = e /\ InHand(c) /\ ~Pending(c)
         /\ Gains(rx_pend_list, rx_pend_list', e, c)
         /\ \A m \in Msg \ {c} : Keeps(m)
         /\ ~InHand(c)' /\ Pending(c)'
         /\ Listed(c)' <=> Listed(c)
         /\ AtSend(c)' <=> AtSend(c)
         /\ Sent(c)' <=> Sent(c)
         /\ InSlot(c)' <=> InSlot(c)
         /\ InRx(c)' <=> InRx(c)
         /\ Fresh(c)' <=> Fresh(c)
<1> USE DEF Keeps, Listed, AtSend, Sent, InHand, Pending, InSlot, InRx, Fresh, Reading
<1>1. c \in Req /\ c \in Msg /\ Home(c) = e /\ InHand(c) /\ ~Pending(c)
  <2>1. c \in Req /\ c \in Msg /\ Home(c) = e /\ InHand(c)
    BY WorkerCase, HomeFacts DEF TxPend, EndInv
  <2> QED BY <2>1 DEF PlaceInv, ReqInv
<1>2. Gains(rx_pend_list, rx_pend_list', e, c)
  BY <1>1, WorkerCase, GainsFacts DEF TxPend
<1>3. ASSUME NEW m \in Msg \ {c} PROVE Keeps(m)
  BY <1>1, <1>2, <1>3, WorkerCase DEF TxPend, Gains
<1>4. ~InHand(c)' /\ Pending(c)'
  BY <1>1, <1>2, WorkerCase DEF TxPend, Gains
<1>5. /\ Listed(c)' <=> Listed(c)
      /\ AtSend(c)' <=> AtSend(c)
      /\ Sent(c)' <=> Sent(c)
      /\ InSlot(c)' <=> InSlot(c)
      /\ InRx(c)' <=> InRx(c)
      /\ Fresh(c)' <=> Fresh(c)
  BY <1>1, WorkerCase DEF TxPend
<1> QED BY <1>1, <1>2, <1>3, <1>4, <1>5

\* Receiving.
LEMMA RxReadMoves ==
  ASSUME PlaceInv, NEW e \in End, RxRead(e), NEW c, c = slot[Peer(e)]
  PROVE  /\ c \in Msg /\ Home(c) = Peer(e) /\ InSlot(c)
         /\ \A m \in Msg \ {c} : Keeps(m)
         /\ ~InSlot(c)' /\ InRx(c)' /\ ~InRx(c)
         /\ Listed(c)' <=> Listed(c)
         /\ AtSend(c)' <=> AtSend(c)
         /\ Sent(c)' <=> Sent(c)
         /\ InHand(c)' <=> InHand(c)
         /\ Pending(c)' <=> Pending(c)
         /\ Fresh(c)' <=> Fresh(c)
<1> USE DEF Keeps, Listed, AtSend, Sent, InHand, Pending, InSlot, InRx, Fresh, Reading
<1>1. c \in Msg /\ Home(c) = Peer(e) /\ InSlot(c)
  BY WorkerCase DEF RxRead, EndInv
<1>2. ASSUME NEW m \in Msg \ {c} PROVE Keeps(m)
  BY <1>1, <1>2, WorkerCase, HomeFacts DEF RxRead
<1>3. ~InSlot(c)' /\ InRx(c)' /\ ~InRx(c)
  BY <1>1, WorkerCase, HomeFacts DEF RxRead
<1>4. /\ Listed(c)' <=> Listed(c)
      /\ AtSend(c)' <=> AtSend(c)
      /\ Sent(c)' <=> Sent(c)
      /\ InHand(c)' <=> InHand(c)
      /\ Pending(c)' <=> Pending(c)
      /\ Fresh(c)' <=> Fresh(c)
  BY <1>1, WorkerCase DEF RxRead
<1> QED BY <1>1, <1>2, <1>3, <1>4

LEMMA FirstMatchFacts ==
  ASSUME PlaceInv, NEW e \in End, NEW r, r = FirstMatch(e)
  PROVE  \/ r = Nil /\ \A q : Contains(rx_pend_list[e], q) => ~IsMsgResponse(q, rx[e])
         \/ /\ r \in Req /\ Home(r) = e /\ Contains(rx_pend_list[e], r) /\ IsMsgResponse(r, rx[e])
            /\ rx[e] \in Answers
            /\ \A q : Prec(rx_pend_list[e], q, r) => ~IsMsgResponse(q, rx[e])
<1> DEFINE s == rx_pend_list[e]
           hits == {i \in DOMAIN s : IsMsgResponse(s[i], rx[e])}
<1>1. s \in Seq(Msg) /\ NoDup(s) /\ Len(s) \in Nat /\ DOMAIN s = 1..Len(s)
  BY WorkerCase
<1>2. hits \subseteq Nat /\ \A i : i \in hits <=> i \in 1..Len(s) /\ IsMsgResponse(s[i], rx[e])
  BY <1>1
<1>3. r = IF hits = {} THEN Nil ELSE s[Min(hits)]
  BY DEF FirstMatch
<1> HIDE DEF hits
<1>4. CASE hits = {}
  BY <1>2, <1>3, <1>4 DEF Contains
<1>5. CASE hits # {}
  <2>1. PICK k \in hits : \A i \in hits : ~(<<i, k>> \in OpToRel(<, Nat))
    BY <1>2, <1>5, NatLessThanWellFounded, WFMin
  <2>2. \A i \in hits : k <= i
    <3>1. OpToRel(<, Nat) = {ss \in Nat \X Nat : ss[1] < ss[2]}
      BY DEF OpToRel
    <3>2. ASSUME NEW i \in hits PROVE k <= i
      <4>1. i \in Nat /\ k \in Nat /\ ~(<<i, k>> \in {ss \in Nat \X Nat : ss[1] < ss[2]})
        BY <2>1, <3>1, <1>2
      <4> QED BY <4>1
    <3> QED BY <3>2
  <2>3. Min(hits) \in hits /\ \A i \in hits : Min(hits) <= i
    BY <2>1, <2>2 DEF Min
  <2> DEFINE n == Min(hits)
  <2>4. n \in hits /\ (\A i \in hits : n <= i) /\ r = s[n]
    BY <2>3, <1>3, <1>5
  <2> HIDE DEF n, s
  <2>5. n \in 1..Len(s) /\ IsMsgResponse(r, rx[e])
    BY <2>4, <1>2
  <2>6. Contains(s, r)
    BY <2>4, <2>5 DEF Contains
  <2>7. ASSUME NEW q, Prec(s, q, r), IsMsgResponse(q, rx[e]) PROVE FALSE
    <3>1. PICK i \in 1..Len(s), j \in 1..Len(s) : i < j /\ s[i] = q /\ s[j] = r
      BY <2>7 DEF Prec
    <3>2. j = n
      BY <3>1, <2>4, <2>5, <1>1 DEF NoDup
    <3>3. i \in hits
      BY <3>1, <2>7, <1>2
    <3>4. n \in Nat /\ i \in Nat /\ n <= i
      BY <3>3, <2>4, <1>2
    <3> QED BY <3>1, <3>2, <3>4
  <2>8. r \in Req /\ Home(r) = e
    BY <2>6 DEF PlaceInv, Types, ListType, s
  <2> QED BY <2>5, <2>6, <2>7, <2>8 DEF IsMsgResponse, s
<1> QED BY <1>4, <1>5

\* A request that is handled leaves the hand of the receiver, its answer is
\* sent for the first time.
LEMMA HandleFacts ==
  ASSUME PlaceInv, NEW e \in End, NEW r \in Req, Home(r) = Peer(e), InRx(r), Handle(e, r),
         NEW a, a = Answer(r)
  PROVE  /\ a \in Msg /\ a \in Answers /\ a[1] = r /\ Home(a) = e /\ Fresh(a)
         /\ ~Listed(a) /\ ~AtSend(a) /\ ~Sent(a) /\ ~InSlot(a) /\ ~InRx(a)
         /\ Gains(tx_todo_list, tx_todo_list', e, a)
         /\ workq' \in [End -> WorkQ]
         /\ \A f \in End : pc[f] \in {"send", "unlink"} =>
              /\ First(tx_todo_list[f], cur[f]) => First(tx_todo_list'[f], cur[f])
              /\ ~Contains(tx_todo_list[f], cur[f]) => ~Contains(tx_todo_list'[f], cur[f])
         /\ handled[r] = 0 /\ handled' = [handled EXCEPT ![r] = 1]
<1>1. r \in Msg /\ r \notin Answers /\ a \in Msg /\ a \in Answers /\ a[1] = r /\ Home(a) = e
  BY HomeFacts, EndFacts
<1>2. handled[r] = 0
  BY <1>1 DEF PlaceInv, MsgInv
<1>3. Fresh(a)
  BY <1>1, <1>2, HomeFacts DEF Fresh
<1>4. ~Listed(a) /\ ~AtSend(a) /\ ~Sent(a) /\ ~InSlot(a) /\ ~InRx(a)
  BY <1>1, <1>3 DEF PlaceInv, MsgInv
<1>5. Send(Home(a), a)
  BY <1>1 DEF Handle
<1>6. handled' = [handled EXCEPT ![r] = 1]
  BY <1>2 DEF Handle
<1> QED BY <1>1, <1>2, <1>3, <1>4, <1>5, <1>6, SendFacts

LEMMA RxRequestPfMoves ==
  ASSUME PlaceInv, RxRequestPf, NEW c, c = rx["pf"], NEW a, a = Answer(c)
  PROVE  /\ c \in Msg /\ c \in VfReq \cup {Bye} /\ Home(c) = "vf" /\ InRx(c)
         /\ c \in VfReq => a \in Msg /\ a # c
         /\ \A m \in Msg : m # c /\ (c \in VfReq => m # a) => Keeps(m)
         /\ ~InRx(c)'
         /\ Listed(c)' <=> Listed(c)
         /\ AtSend(c)' <=> AtSend(c)
         /\ Sent(c)' <=> Sent(c)
         /\ InHand(c)' <=> InHand(c)
         /\ Pending(c)' <=> Pending(c)
         /\ InSlot(c)' <=> InSlot(c)
         /\ Fresh(c)' <=> Fresh(c)
         /\ c \in VfReq =>
              /\ Listed(a)' /\ ~Fresh(a)' /\ ~AtSend(a)' /\ ~Sent(a)' /\ ~InSlot(a)' /\ ~InRx(a)'
<1> USE DEF Keeps, Listed, AtSend, Sent, InHand, Pending, InSlot, InRx, Fresh, Reading
<1>1. /\ c \in Msg /\ c \in VfReq \cup {Bye} /\ Home(c) = "vf" /\ InRx(c)
      /\ c \in VfReq => c \in Req /\ Handle("pf", c)
  BY HomeFacts, EndNames DEF RxRequestPf
<1>2. c = Bye => UNCHANGED tx_todo_list /\ \A m \in Req : handled'[m] = handled[m]
  BY HomeFacts DEF RxRequestPf, PlaceInv, Types, SenderType
<1>3. c \in VfReq => /\ a \in Msg /\ a \in Answers /\ a[1] = c /\ Home(a) = "pf" /\ a # c
                     /\ ~AtSend(a) /\ ~Sent(a) /\ ~InSlot(a) /\ ~InRx(a)
                     /\ Gains(tx_todo_list, tx_todo_list', "pf", a)
                     /\ handled' = [handled EXCEPT ![c] = 1]
  BY <1>1, EndNames, HomeFacts, HandleFacts
<1>4. ASSUME NEW m \in Msg, m # c, c \in VfReq => m # a PROVE Keeps(m)
  <2>1. Home(m) \in End /\ Peer(Home(m)) \in End
    BY HomeFacts, EndFacts
  <2>2. Fresh(m)' <=> Fresh(m)
    <3>1. CASE c = Bye
      BY <3>1, <1>2, HomeFacts DEF RxRequestPf
    <3>2. CASE c \in VfReq
      <4>1. m \in Answers => m[1] \in Req /\ m[1] # c
        BY <1>4, <3>2, HomeFacts
      <4> QED BY <4>1, <3>2, <1>3, HomeFacts DEF RxRequestPf, PlaceInv, Types, SenderType
    <3> QED BY <3>1, <3>2, <1>1
  <2>3. Listed(m)' <=> Listed(m)
    BY <1>1, <1>2, <1>3, <1>4, <2>1 DEF Gains
  <2>4. /\ (AtSend(m)' <=> AtSend(m)) /\ (Sent(m)' <=> Sent(m)) /\ (InHand(m)' <=> InHand(m))
        /\ (Pending(m)' <=> Pending(m)) /\ (InSlot(m)' <=> InSlot(m))
    BY <2>1, EndNames, WorkerCase DEF RxRequestPf
  <2>5. InRx(m)' <=> InRx(m)
    BY <1>4, <2>1, EndNames, WorkerCase DEF RxRequestPf
  <2> QED BY <2>2, <2>3, <2>4, <2>5
<1>5. /\ ~InRx(c)'
      /\ AtSend(c)' <=> AtSend(c)
      /\ Sent(c)' <=> Sent(c)
      /\ InHand(c)' <=> InHand(c)
      /\ Pending(c)' <=> Pending(c)
      /\ InSlot(c)' <=> InSlot(c)
      /\ Fresh(c)' <=> Fresh(c)
  BY <1>1, EndNames, WorkerCase, HomeFacts DEF RxRequestPf
<1>6. Listed(c)' <=> Listed(c)
  BY <1>1, <1>2, <1>3, EndNames DEF Gains
<1>7. c \in VfReq =>
        Listed(a)' /\ ~Fresh(a)' /\ ~AtSend(a)' /\ ~Sent(a)' /\ ~InSlot(a)' /\ ~InRx(a)'
  <2> SUFFICES ASSUME c \in VfReq
               PROVE Listed(a)' /\ ~Fresh(a)' /\ ~AtSend(a)' /\ ~Sent(a)' /\ ~InSlot(a)' /\ ~InRx(a)'
    OBVIOUS
  <2>1. Listed(a)'
    BY <1>3, EndNames DEF Gains
  <2>2. ~Fresh(a)'
    BY <1>1, <1>3, HomeFacts DEF PlaceInv, Types, SenderType
  <2>3. ~AtSend(a)' /\ ~Sent(a)' /\ ~InSlot(a)' /\ ~InRx(a)'
    BY <1>3, EndNames, WorkerCase DEF RxRequestPf
  <2> QED BY <2>1, <2>2, <2>3
<1> QED BY <1>1, <1>3, <1>4, <1>5, <1>6, <1>7

LEMMA RxDispatchVfMoves ==
  ASSUME PlaceInv, RxDispatchVf, NEW c, c = rx["vf"], NEW a, a = Answer(c)
  PROVE  LET done == rx_pend_list["vf"] = <<>> /\ c \in PfReq IN
         /\ c \in Msg /\ Home(c) = "pf" /\ InRx(c)
         /\ done => a \in Msg /\ a # c /\ cur["vf"] = Nil
         /\ \A m \in Msg : m # c /\ (done => m # a) => Keeps(m)
         /\ InRx(c)' <=> cur["vf"] # Nil
         /\ Listed(c)' <=> Listed(c)
         /\ AtSend(c)' <=> AtSend(c)
         /\ Sent(c)' <=> Sent(c)
         /\ InHand(c)' <=> InHand(c)
         /\ Pending(c)' <=> Pending(c)
         /\ InSlot(c)' <=> InSlot(c)
         /\ Fresh(c)' <=> Fresh(c)
         /\ done => Listed(a)' /\ ~Fresh(a)' /\ ~AtSend(a)' /\ ~Sent(a)' /\ ~InSlot(a)' /\ ~InRx(a)'
<1> USE DEF Keeps, Listed, AtSend, Sent, InHand, Pending, InSlot, InRx, Fresh, Reading
<1> DEFINE done == rx_pend_list["vf"] = <<>> /\ c \in PfReq
<1>1. /\ c \in Msg /\ Home(c) = "pf" /\ InRx(c)
      /\ done => c \in Req /\ Handle("vf", c) /\ c \notin Answers
  BY HomeFacts, EndNames, WorkerCase DEF RxDispatchVf, EndInv
<1>2. ~done => UNCHANGED tx_todo_list /\ UNCHANGED handled
  BY DEF RxDispatchVf
<1>3. done => /\ a \in Msg /\ a \in Answers /\ a[1] = c /\ Home(a) = "vf" /\ a # c
              /\ ~AtSend(a) /\ ~Sent(a) /\ ~InSlot(a) /\ ~InRx(a)
              /\ Gains(tx_todo_list, tx_todo_list', "vf", a)
              /\ handled' = [handled EXCEPT ![c] = 1]
  BY <1>1, EndNames, HomeFacts, HandleFacts
<1>4. done => cur["vf"] = Nil
  BY <1>1, EndNames, WorkerCase DEF RxDispatchVf, EndInv
<1>5. pc["vf"] = "dispatch" /\ pc' = [pc EXCEPT !["vf"] = IF cur["vf"] = Nil THEN "read" ELSE "copy"]
      /\ UNCHANGED <<rx_pend_list, cur, rx, slot, stage, leaving>>
  BY DEF RxDispatchVf
<1> HIDE DEF done
<1>6. ASSUME NEW m \in Msg, m # c, done => m # a PROVE Keeps(m)
  <2>1. Home(m) \in End /\ Peer(Home(m)) \in End
    BY HomeFacts, EndFacts
  <2>2. Fresh(m)' <=> Fresh(m)
    <3>1. CASE ~done
      BY <3>1, <1>2, <1>5
    <3>2. CASE done
      <4>1. m \in Answers => m[1] \in Req /\ m[1] # c
        BY <1>6, <3>2, HomeFacts
      <4> QED BY <4>1, <3>2, <1>3, <1>5, HomeFacts DEF PlaceInv, Types, SenderType
    <3> QED BY <3>1, <3>2
  <2>3. Listed(m)' <=> Listed(m)
    BY <1>1, <1>2, <1>3, <1>6, <2>1 DEF Gains
  <2>4. /\ (AtSend(m)' <=> AtSend(m)) /\ (Sent(m)' <=> Sent(m)) /\ (InHand(m)' <=> InHand(m))
        /\ (Pending(m)' <=> Pending(m)) /\ (InSlot(m)' <=> InSlot(m))
    BY <2>1, <1>5, EndNames, WorkerCase
  <2>5. InRx(m)' <=> InRx(m)
    BY <1>5, <1>6, <2>1, EndNames, WorkerCase
  <2> QED BY <2>2, <2>3, <2>4, <2>5
<1>7. /\ InRx(c)' <=> cur["vf"] # Nil
      /\ AtSend(c)' <=> AtSend(c)
      /\ Sent(c)' <=> Sent(c)
      /\ InHand(c)' <=> InHand(c)
      /\ Pending(c)' <=> Pending(c)
      /\ InSlot(c)' <=> InSlot(c)
  BY <1>1, <1>5, EndNames, WorkerCase
<1>8. Fresh(c)' <=> Fresh(c)
  <2>1. CASE ~done
    BY <2>1, <1>2, <1>5
  <2>2. CASE done
    BY <2>2, <1>1, <1>5 DEF done
  <2> QED BY <2>1, <2>2
<1>9. Listed(c)' <=> Listed(c)
  BY <1>1, <1>2, <1>3, EndNames DEF Gains
<1>10. done => Listed(a)' /\ ~Fresh(a)' /\ ~AtSend(a)' /\ ~Sent(a)' /\ ~InSlot(a)' /\ ~InRx(a)'
  <2> SUFFICES ASSUME done
               PROVE Listed(a)' /\ ~Fresh(a)' /\ ~AtSend(a)' /\ ~Sent(a)' /\ ~InSlot(a)' /\ ~InRx(a)'
    OBVIOUS
  <2>1. Listed(a)'
    BY <1>3, EndNames DEF Gains
  <2>2. ~Fresh(a)'
    BY <1>1, <1>3, HomeFacts DEF PlaceInv, Types, SenderType
  <2>3. ~AtSend(a)' /\ ~Sent(a)' /\ ~InSlot(a)' /\ ~InRx(a)'
    BY <1>3, <1>5, EndNames, WorkerCase
  <2> QED BY <2>1, <2>2, <2>3
<1> QED BY <1>1, <1>3, <1>4, <1>6, <1>7, <1>8, <1>9, <1>10 DEF done

LEMMA RxCopyVfMoves ==
  ASSUME PlaceInv, RxCopyVf, NEW c, c = rx["vf"], NEW r, r = cur["vf"]
  PROVE  /\ c \in Msg /\ c \in Answers /\ Home(c) = "pf" /\ InRx(c)
         /\ r \in Req /\ r \in Msg
         /\ Loses(rx_pend_list, rx_pend_list', "vf", r)
         /\ \A m \in Msg \ {c} : /\ m # r \/ Home(r) # "vf" => Keeps(m)
                                 /\ InRx(m)' <=> InRx(m)
         /\ ~InRx(c)'
         /\ Home(r) = "vf" => ~Pending(r)'
         /\ \A m \in {c, r} : /\ Listed(m)' <=> Listed(m)
                              /\ AtSend(m)' <=> AtSend(m)
                              /\ Sent(m)' <=> Sent(m)
                              /\ InHand(m)' <=> InHand(m)
                              /\ InSlot(m)' <=> InSlot(m)
                              /\ Fresh(m)' <=> Fresh(m)
<1> USE DEF Keeps, Listed, AtSend, Sent, InHand, Pending, InSlot, InRx, Fresh, Reading
<1>1. /\ c \in Msg /\ c \in Answers /\ Home(c) = "pf" /\ InRx(c)
      /\ r \in Req /\ r \in Msg /\ c # r
  BY HomeFacts, EndNames, WorkerCase DEF RxCopyVf, EndInv
<1>2. Loses(rx_pend_list, rx_pend_list', "vf", r)
  BY EndNames, WorkerCase, LosesFacts DEF RxCopyVf
<1>3. /\ pc["vf"] = "copy" /\ pc' = [pc EXCEPT !["vf"] = "read"]
      /\ UNCHANGED <<tx_todo_list, cur, rx, slot, handled, leaving>>
      /\ \A q \in Req : stage'[q] = "new" <=> stage[q] = "new"
  BY DEF RxCopyVf, Wake, PlaceInv, Types, SenderType
<1>4. ASSUME NEW m \in Msg
      PROVE  /\ (AtSend(m)' <=> AtSend(m)) /\ (Sent(m)' <=> Sent(m)) /\ (InHand(m)' <=> InHand(m))
             /\ (InSlot(m)' <=> InSlot(m)) /\ (Listed(m)' <=> Listed(m)) /\ (Fresh(m)' <=> Fresh(m))
  BY <1>3, EndNames, HomeFacts, WorkerCase
<1>5. ASSUME NEW m \in Msg \ {c} PROVE InRx(m)' <=> InRx(m)
  BY <1>1, <1>3, <1>5, EndNames, HomeFacts, WorkerCase
<1>6. ASSUME NEW m \in Msg, m # r \/ Home(r) # "vf" PROVE Pending(m)' <=> Pending(m)
  BY <1>2, <1>6, HomeFacts DEF Loses
<1>7. ~InRx(c)' /\ (Home(r) = "vf" => ~Pending(r)')
  BY <1>1, <1>2, <1>3, EndNames, WorkerCase DEF Loses
<1> QED BY <1>1, <1>2, <1>4, <1>5, <1>6, <1>7

LEMMA RxResponsePfMoves ==
  ASSUME PlaceInv, RxResponsePf, NEW c, c = rx["pf"], NEW r, r = FirstMatch("pf")
  PROVE  /\ c \in Msg /\ c \in Answers /\ Home(c) = "vf" /\ InRx(c)
         /\ \/ r = Nil /\ UNCHANGED <<rx_pend_list, senders, memory>>
            \/ /\ r \in Req /\ r \in Msg /\ Home(r) = "pf" /\ Pending(r)
               /\ Loses(rx_pend_list, rx_pend_list', "pf", r) /\ ~Pending(r)'
               /\ resp_op_matched' = [resp_op_matched EXCEPT ![r] = TRUE]
               /\ freed' = freed \cup {r} /\ stage' = Wake(r) /\ raw' = [raw EXCEPT ![r] = c]
               /\ wild' = wild \cup ({r} \cap freed)
         /\ \A m \in Msg \ {c} : /\ m # r => Keeps(m)
                                 /\ InRx(m)' <=> InRx(m)
         /\ ~InRx(c)'
         /\ \A m \in Msg : /\ Listed(m)' <=> Listed(m)
                           /\ AtSend(m)' <=> AtSend(m)
                           /\ Sent(m)' <=> Sent(m)
                           /\ InHand(m)' <=> InHand(m)
                           /\ InSlot(m)' <=> InSlot(m)
                           /\ Fresh(m)' <=> Fresh(m)
<1> USE DEF Keeps, Listed, AtSend, Sent, InHand, Pending, InSlot, InRx, Fresh, Reading
<1>1. c \in Msg /\ c \in Answers /\ Home(c) = "vf" /\ InRx(c)
  BY HomeFacts, EndNames, WorkerCase DEF RxResponsePf, EndInv
<1>2. r = Nil \/ (r \in Req /\ r \in Msg /\ Home(r) = "pf" /\ Pending(r))
  BY EndNames, HomeFacts, FirstMatchFacts
<1>3. CASE r = Nil
  <2>1. /\ pc["pf"] = "match" /\ pc' = [pc EXCEPT !["pf"] = "read"]
        /\ UNCHANGED <<rx_pend_list, senders, memory, tx_todo_list, cur, rx, slot, handled, leaving>>
    BY <1>3 DEF RxResponsePf
  <2>2. ASSUME NEW m \in Msg
        PROVE  /\ (AtSend(m)' <=> AtSend(m)) /\ (Sent(m)' <=> Sent(m)) /\ (InHand(m)' <=> InHand(m))
               /\ (InSlot(m)' <=> InSlot(m)) /\ (Listed(m)' <=> Listed(m)) /\ (Fresh(m)' <=> Fresh(m))
               /\ (Pending(m)' <=> Pending(m)) /\ (m # c => (InRx(m)' <=> InRx(m)))
    BY <2>1, <1>1, EndNames, HomeFacts, WorkerCase
  <2>3. ~InRx(c)'
    BY <2>1, <1>1, EndNames, WorkerCase
  <2> QED BY <2>1, <2>2, <2>3, <1>1, <1>3
<1>4. CASE r # Nil
  <2>1. /\ pc["pf"] = "match" /\ pc' = [pc EXCEPT !["pf"] = "read"]
        /\ UNCHANGED <<tx_todo_list, cur, rx, slot, handled, leaving>>
        /\ resp_op_matched' = [resp_op_matched EXCEPT ![r] = TRUE]
        /\ rx_pend_list' = [rx_pend_list EXCEPT !["pf"] = Unlink(@, r)]
        /\ freed' = freed \cup {r} /\ stage' = Wake(r) /\ raw' = [raw EXCEPT ![r] = c]
        /\ wild' = wild \cup ({r} \cap freed)
    BY <1>4 DEF RxResponsePf, Touch
  <2>2. \A q \in Req : stage'[q] = "new" <=> stage[q] = "new"
    BY <2>1 DEF Wake, PlaceInv, Types, SenderType
  <2>3. Loses(rx_pend_list, rx_pend_list', "pf", r)
    BY <2>1, EndNames, WorkerCase, LosesFacts
  <2>4. ASSUME NEW m \in Msg
        PROVE  /\ (AtSend(m)' <=> AtSend(m)) /\ (Sent(m)' <=> Sent(m)) /\ (InHand(m)' <=> InHand(m))
               /\ (InSlot(m)' <=> InSlot(m)) /\ (Listed(m)' <=> Listed(m)) /\ (Fresh(m)' <=> Fresh(m))
               /\ (m # c => (InRx(m)' <=> InRx(m)))
    BY <2>1, <2>2, <1>1, EndNames, HomeFacts, WorkerCase
  <2>5. ASSUME NEW m \in Msg, m # r PROVE Pending(m)' <=> Pending(m)
    BY <2>3, <2>5, HomeFacts DEF Loses
  <2>6. ~InRx(c)' /\ ~Pending(r)'
    BY <2>1, <2>3, <1>1, <1>2, <1>4, EndNames, WorkerCase DEF Loses
  <2> QED BY <2>1, <2>3, <2>4, <2>5, <2>6, <1>1, <1>2, <1>4
<1> QED BY <1>3, <1>4

-----------------------------------------------------------------------------
(* The types.                                                              *)

LEMMA ListTypes ==
  ASSUME PlaceInv, [Next]_vars
  PROVE  ListType'
<1>1. ListType /\ tx_todo_list \in [End -> Seq(Msg)] /\ rx_pend_list \in [End -> Seq(Msg)]
  BY DEF PlaceInv, Types, ListType
<1>2. ASSUME UNCHANGED lists PROVE ListType'
  BY <1>1, <1>2 DEF ListType
<1>3. ASSUME NEW e \in End, NEW m \in Msg, Home(m) = e, UNCHANGED rx_pend_list,
             Gains(tx_todo_list, tx_todo_list', e, m)
      PROVE  ListType'
  BY <1>1, <1>3 DEF ListType, Gains
<1>4. ASSUME NEW e \in End, NEW m \in Msg, UNCHANGED rx_pend_list,
             Loses(tx_todo_list, tx_todo_list', e, m)
      PROVE  ListType'
  BY <1>1, <1>4 DEF ListType, Loses
<1>5. ASSUME NEW e \in End, NEW m \in Msg, UNCHANGED tx_todo_list,
             Loses(rx_pend_list, rx_pend_list', e, m)
      PROVE  ListType'
  BY <1>1, <1>5 DEF ListType, Loses
<1>6. ASSUME NEW e \in End, NEW m \in Req, Home(m) = e, UNCHANGED tx_todo_list,
             Gains(rx_pend_list, rx_pend_list', e, m)
      PROVE  ListType'
  BY <1>1, <1>6 DEF ListType, Gains
<1>7. ASSUME NEW r \in Req, MsgSend(r) PROVE ListType'
  BY <1>3, <1>7, MsgSendMoves, HomeFacts DEF MsgSend
<1>8. ASSUME NEW r \in Req, Wait(r) \/ TimeOut(r) \/ Return(r) PROVE ListType'
  BY <1>2, <1>8 DEF Wait, TimeOut, Return
<1>9. ASSUME NEW r \in Req, Expire(r) PROVE ListType'
  <2>1. /\ Loses(tx_todo_list, tx_todo_list', Home(r), r)
        /\ Loses(rx_pend_list, rx_pend_list', Home(r), r) /\ Home(r) \in End
    BY <1>9, ExpireMoves, HomeFacts
  <2> QED BY <1>1, <2>1 DEF ListType, Loses
<1>10. ASSUME NEW e \in End, Start(e) \/ TxPick(e) \/ TxSend(e) \/ TxBusy(e) \/ RxRead(e) \/ RxEnd(e) \/ TimerFire(e)
       PROVE  ListType'
  BY <1>2, <1>10 DEF Start, TxPick, TxSend, TxBusy, RxRead, RxEnd, TimerFire
<1>11. ASSUME NEW e \in End, TxDrop(e) PROVE ListType'
  BY <1>4, <1>11, TxDropMoves DEF TxDrop
<1>12. ASSUME NEW e \in End, TxUnlink(e) PROVE ListType'
  BY <1>4, <1>12, TxUnlinkMoves DEF TxUnlink
<1>13. ASSUME NEW e \in End, TxPend(e) PROVE ListType'
  BY <1>6, <1>13, TxPendMoves DEF TxPend
<1>14. ASSUME RxMatchVf PROVE ListType'
  BY <1>2, <1>14 DEF RxMatchVf
<1>15. ASSUME RxDispatchVf PROVE ListType'
  <2>1. CASE rx_pend_list["vf"] = <<>> /\ rx["vf"] \in PfReq
    <3> DEFINE c == rx["vf"]
               a == Answer(c)
    <3>1. c \in Req /\ Home(c) = Peer("vf") /\ InRx(c) /\ Handle("vf", c)
      BY <2>1, <1>15, RxDispatchVfMoves, HomeFacts, EndNames DEF RxDispatchVf
    <3>2. a \in Msg /\ Home(a) = "vf" /\ Gains(tx_todo_list, tx_todo_list', "vf", a)
      BY <3>1, HandleFacts, EndNames
    <3> QED BY <3>2, <1>3, <1>15, EndNames DEF RxDispatchVf
  <2>2. CASE ~(rx_pend_list["vf"] = <<>> /\ rx["vf"] \in PfReq)
    BY <2>2, <1>2, <1>15 DEF RxDispatchVf
  <2> QED BY <2>1, <2>2
<1>16. ASSUME RxCopyVf PROVE ListType'
  BY <1>5, <1>16, RxCopyVfMoves, EndNames DEF RxCopyVf
<1>17. ASSUME RxRequestPf PROVE ListType'
  <2>1. CASE rx["pf"] # Bye
    <3> DEFINE c == rx["pf"]
               a == Answer(c)
    <3>1. c \in Req /\ Home(c) = Peer("pf") /\ InRx(c) /\ Handle("pf", c)
      BY <2>1, <1>17, RxRequestPfMoves, HomeFacts, EndNames DEF RxRequestPf
    <3>2. a \in Msg /\ Home(a) = "pf" /\ Gains(tx_todo_list, tx_todo_list', "pf", a)
      BY <3>1, HandleFacts, EndNames
    <3> QED BY <3>2, <1>3, <1>17, EndNames DEF RxRequestPf
  <2>2. CASE rx["pf"] = Bye
    BY <2>2, <1>2, <1>17 DEF RxRequestPf
  <2> QED BY <2>1, <2>2
<1>18. ASSUME RxResponsePf PROVE ListType'
  <2> DEFINE r == FirstMatch("pf")
  <2>1. \/ UNCHANGED rx_pend_list
        \/ r \in Msg /\ Loses(rx_pend_list, rx_pend_list', "pf", r)
    BY <1>18, RxResponsePfMoves
  <2> QED BY <2>1, <1>2, <1>5, <1>18, EndNames DEF RxResponsePf
<1>19. ASSUME LeaveStop \/ LeaveOff PROVE ListType'
  BY <1>2, <1>19 DEF LeaveStop, LeaveOff
<1>20. ASSUME LeaveBye PROVE ListType'
  BY <1>3, <1>20, LeaveByeMoves, HomeFacts, EndNames DEF LeaveBye
<1>21. ASSUME UNCHANGED vars PROVE ListType'
  BY <1>2, <1>21 DEF vars
<1> QED BY <1>7, <1>8, <1>9, <1>10, <1>11, <1>12, <1>13, <1>14, <1>15, <1>16, <1>17, <1>18,
           <1>19, <1>20, <1>21 DEF Next, Sender, Worker, Tx, Rx, RxVf, RxPf

LEMMA WorkTypes ==
  ASSUME PlaceInv, [Next]_vars
  PROVE  WorkType'
<1>1. WorkType /\ workq \in [End -> WorkQ]
  BY DEF PlaceInv, Types, WorkType
<1>2. ASSUME NEW r \in Req, MsgSend(r) PROVE WorkType'
  BY <1>1, <1>2, QueueWorkFacts, HomeFacts DEF MsgSend, Send, WorkType
<1>3. ASSUME NEW r \in Req, Wait(r) \/ TimeOut(r) \/ Return(r) \/ Expire(r) PROVE WorkType'
  BY <1>1, <1>3 DEF Wait, TimeOut, Return, Expire, WorkType
<1>4. ASSUME NEW e \in End, Start(e) PROVE WorkType'
  BY <1>1, <1>4, WorkFacts DEF Start, WorkType
<1>5. ASSUME NEW e \in End, TxPick(e) \/ TxDrop(e) \/ TxUnlink(e) \/ TxPend(e) \/ RxRead(e) PROVE WorkType'
  BY <1>1, <1>5 DEF TxPick, TxDrop, TxUnlink, TxPend, RxRead, WorkType
<1>6. ASSUME NEW e \in End, TxSend(e) PROVE WorkType'
  BY <1>1, <1>6, QueueWorkFacts, EndFacts DEF TxSend, WorkType
<1>7. ASSUME NEW e \in End, TxBusy(e) \/ RxEnd(e) PROVE WorkType'
  BY <1>1, <1>7 DEF TxBusy, RxEnd, WorkType
<1>8. ASSUME RxMatchVf \/ RxCopyVf \/ RxResponsePf PROVE WorkType'
  BY <1>1, <1>8 DEF RxMatchVf, RxCopyVf, RxResponsePf, WorkType
<1>9. ASSUME RxDispatchVf PROVE WorkType'
  BY <1>1, <1>9, QueueWorkFacts, EndNames DEF RxDispatchVf, Handle, Send, WorkType
<1>10. ASSUME RxRequestPf PROVE WorkType'
  BY <1>1, <1>10, QueueWorkFacts, EndNames DEF RxRequestPf, Handle, Send, WorkType
<1>11. ASSUME NEW e \in End, TimerFire(e) PROVE WorkType'
  BY <1>1, <1>11, WorkFacts DEF TimerFire, WorkType
<1>12. ASSUME LeaveStop \/ LeaveOff PROVE WorkType'
  BY <1>1, <1>12, EndNames DEF LeaveStop, LeaveOff, WorkType
<1>13. ASSUME LeaveBye PROVE WorkType'
  BY <1>1, <1>13, QueueWorkFacts, EndNames DEF LeaveBye, Send, WorkType
<1>14. ASSUME UNCHANGED vars PROVE WorkType'
  BY <1>1, <1>14 DEF vars, WorkType
<1> QED BY <1>2, <1>3, <1>4, <1>5, <1>6, <1>7, <1>8, <1>9, <1>10, <1>11, <1>12, <1>13, <1>14
        DEF Next, Sender, Worker, Tx, Rx, RxVf, RxPf

LEMMA WorkerTypes ==
  ASSUME PlaceInv, [Next]_vars
  PROVE  WorkerType'
<1>1. WorkerType
  BY DEF PlaceInv, Types
<1>2. ASSUME NEW r \in Req, MsgSend(r) \/ Wait(r) \/ TimeOut(r) \/ Return(r) \/ Expire(r) PROVE WorkerType'
  BY <1>1, <1>2 DEF MsgSend, Wait, TimeOut, Return, Expire, WorkerType
<1>3. ASSUME NEW e \in End, Start(e) \/ TxBusy(e) \/ TxDrop(e) \/ TxUnlink(e) \/ TxPend(e) \/ RxEnd(e)
      PROVE  WorkerType'
  BY <1>1, <1>3 DEF Start, TxBusy, TxDrop, TxUnlink, TxPend, RxEnd, WorkerType
<1>4. ASSUME NEW e \in End, TxPick(e) PROVE WorkerType'
  <2>1. tx_todo_list[e] # <<>> => Head(tx_todo_list[e]) \in Msg
    BY <1>4, TxPickMoves
  <2> QED BY <1>1, <1>4, <2>1 DEF TxPick, WorkerType
<1>5. ASSUME NEW e \in End, TxSend(e) PROVE WorkerType'
  BY <1>1, <1>5 DEF TxSend, WorkerType
<1>6. ASSUME NEW e \in End, RxRead(e) PROVE WorkerType'
  BY <1>1, <1>6, EndFacts DEF RxRead, WorkerType
<1>7. ASSUME RxMatchVf PROVE WorkerType'
  <2>1. FirstMatch("vf") \in Msg \cup {Nil}
    BY EndNames, HomeFacts, FirstMatchFacts
  <2> QED BY <1>1, <1>7, <2>1 DEF RxMatchVf, WorkerType
<1>8. ASSUME RxDispatchVf \/ RxCopyVf \/ RxRequestPf \/ RxResponsePf PROVE WorkerType'
  BY <1>1, <1>8 DEF RxDispatchVf, RxCopyVf, RxRequestPf, RxResponsePf, WorkerType
<1>9. ASSUME NEW e \in End, TimerFire(e) PROVE WorkerType'
  BY <1>1, <1>9 DEF TimerFire, WorkerType
<1>10. ASSUME LeaveStop \/ LeaveBye \/ LeaveOff PROVE WorkerType'
  BY <1>1, <1>10 DEF LeaveStop, LeaveBye, LeaveOff, WorkerType
<1>11. ASSUME UNCHANGED vars PROVE WorkerType'
  BY <1>1, <1>11 DEF vars, WorkerType
<1> QED BY <1>2, <1>3, <1>4, <1>5, <1>6, <1>7, <1>8, <1>9, <1>10, <1>11
        DEF Next, Sender, Worker, Tx, Rx, RxVf, RxPf

LEMMA SenderTypes ==
  ASSUME PlaceInv, [Next]_vars
  PROVE  SenderType'
<1>1. SenderType /\ \A r \in Req : r \in Msg
  BY HomeFacts DEF PlaceInv, Types
<1>2. ASSUME NEW r \in Req, MsgSend(r) \/ Wait(r) \/ TimeOut(r) \/ Return(r) PROVE SenderType'
  <2>1. ASSUME MsgSend(r) PROVE SenderType'
    BY <1>1, <2>1 DEF MsgSend, SenderType
  <2>2. ASSUME Wait(r) PROVE SenderType'
    BY <1>1, <2>2 DEF Wait, Touch, SenderType
  <2>3. ASSUME TimeOut(r) PROVE SenderType'
    BY <1>1, <2>3 DEF TimeOut, SenderType
  <2>4. ASSUME Return(r) PROVE SenderType'
    <3>1. hurried' \subseteq Req /\ freed' \subseteq Msg /\ wild' \subseteq Msg
      BY <1>1, <2>4 DEF Return, Hurry, Release, Touch, SenderType
    <3>2. stage' \in [Req -> {"new", "queued", "asleep", "awake", "late", "ok", "failed"}]
      BY <1>1, <2>4 DEF Return, SenderType
    <3> QED BY <1>1, <2>4, <3>1, <3>2 DEF Return, SenderType
  <2> QED BY <1>2, <2>1, <2>2, <2>3, <2>4
<1>3. ASSUME NEW r \in Req, Expire(r) PROVE SenderType'
  <2>1. hurried' \subseteq Req /\ freed' \subseteq Msg /\ wild' \subseteq Msg
    BY <1>1, <1>3 DEF Expire, Hurry, Release, TouchLinked, SenderType
  <2> QED BY <1>1, <1>3, <2>1 DEF Expire, SenderType
<1>4. ASSUME NEW e \in End, Start(e) \/ TxPick(e) \/ RxRead(e) \/ RxEnd(e) \/ TimerFire(e) PROVE SenderType'
  BY <1>1, <1>4 DEF Start, TxPick, RxRead, RxEnd, TimerFire, SenderType
<1>5. ASSUME NEW e \in End, TxSend(e) PROVE SenderType'
  BY <1>1, <1>5 DEF TxSend, Touch, SenderType
<1>6. ASSUME NEW e \in End, TxBusy(e) PROVE SenderType'
  <2>1. cur[e] \in Msg /\ (cur[e] \notin Req => cur[e] \in Answers \cup {Bye} /\ retry_cnt[cur[e]] \in 1..Retries)
    BY <1>6, TxBusyMoves, HomeFacts
  <2>2. retry_cnt' \in [Answers \cup {Bye} -> 0 .. Retries]
    BY <1>1, <1>6, <2>1, RetryAssumption DEF TxBusy, WaitsResp, SenderType
  <2> QED BY <1>1, <1>6, <2>1, <2>2 DEF TxBusy, Touch, SenderType
<1>7. ASSUME NEW e \in End, TxDrop(e) PROVE SenderType'
  <2>1. cur[e] \in Msg
    BY <1>7, TxDropMoves
  <2>2. retry_cnt' \in [Answers \cup {Bye} -> 0 .. Retries]
    <3>1. 0 \in 0..Retries /\ retry_cnt \in [Answers \cup {Bye} -> 0 .. Retries]
      BY <1>1, RetryAssumption DEF SenderType
    <3>2. retry_cnt' = [retry_cnt EXCEPT ![cur[e]] = 0]
      BY <1>7 DEF TxDrop
    <3> QED BY <3>1, <3>2
  <2> QED BY <1>1, <1>7, <2>1, <2>2 DEF TxDrop, SenderType
<1>8. ASSUME NEW e \in End, TxUnlink(e) PROVE SenderType'
  <2>1. cur[e] \in Msg
    BY <1>8, TxUnlinkMoves
  <2> QED BY <1>1, <1>8, <2>1 DEF TxUnlink, TouchLinked, SenderType
<1>9. ASSUME NEW e \in End, TxPend(e) PROVE SenderType'
  BY <1>1, <1>9 DEF TxPend, Touch, SenderType
<1>10. ASSUME RxMatchVf PROVE SenderType'
  BY <1>1, <1>10 DEF RxMatchVf, SenderType
<1>11. ASSUME RxDispatchVf PROVE SenderType'
  <2>1. \/ handled' = [handled EXCEPT ![rx["vf"]] = @ + 1] /\ rx["vf"] \in PfReq
        \/ handled' = handled
    BY <1>11 DEF RxDispatchVf, Handle
  <2>2. handled' \in [Req \cup {Bye} -> Nat]
    BY <2>1, <1>1, HomeFacts DEF SenderType
  <2> QED BY <1>1, <1>11, <2>2 DEF RxDispatchVf, SenderType
<1>12. ASSUME RxCopyVf PROVE SenderType'
  <2>1. cur["vf"] \in Req /\ cur["vf"] \in Msg /\ rx["vf"] \in Msg
    BY <1>12, RxCopyVfMoves
  <2> QED BY <1>1, <1>12, <2>1 DEF RxCopyVf, Wake, TouchLinked, SenderType
<1>13. ASSUME RxRequestPf PROVE SenderType'
  BY <1>1, <1>13, HomeFacts DEF RxRequestPf, Handle, SenderType
<1>14. ASSUME RxResponsePf PROVE SenderType'
  <2> DEFINE r == FirstMatch("pf")
  <2>1. rx["pf"] \in Msg /\ (r = Nil \/ (r \in Req /\ r \in Msg))
    BY <1>14, RxResponsePfMoves
  <2>2. CASE r = Nil
    BY <1>1, <1>14, <2>2 DEF RxResponsePf, SenderType
  <2>3. CASE r # Nil
    BY <1>1, <1>14, <2>1, <2>3 DEF RxResponsePf, Wake, Touch, SenderType
  <2> QED BY <2>2, <2>3
<1>15. ASSUME LeaveStop \/ LeaveBye \/ LeaveOff PROVE SenderType'
  BY <1>1, <1>15 DEF LeaveStop, LeaveBye, LeaveOff, SenderType
<1>16. ASSUME UNCHANGED vars PROVE SenderType'
  BY <1>1, <1>16 DEF vars, SenderType
<1> QED BY <1>2, <1>3, <1>4, <1>5, <1>6, <1>7, <1>8, <1>9, <1>10, <1>11, <1>12, <1>13, <1>14,
           <1>15, <1>16 DEF Next, Sender, Worker, Tx, Rx, RxVf, RxPf

-----------------------------------------------------------------------------
(* The way of a message.                                                   *)

LEMMA MsgsStep ==
  ASSUME PlaceInv, [Next]_vars, NEW m \in Msg
  PROVE  MsgInv(m)'
<1>1. MsgInv(m)
  BY DEF PlaceInv
<1>2. /\ m \notin Answers => m \in Req \cup {Bye}
      /\ m \notin Req => m \in Answers \cup {Bye}
      /\ retry_cnt \in [Answers \cup {Bye} -> 0 .. Retries]
      /\ handled \in [Req \cup {Bye} -> Nat]
  BY HomeFacts DEF PlaceInv, Types, SenderType
<1>3. ASSUME NEW r \in Req, MsgSend(r) PROVE MsgInv(m)'
  <2>1. UNCHANGED <<handled, freed, retry_cnt>>
    BY <1>3 DEF MsgSend
  <2>2. CASE m # r
    BY <2>1, <2>2, <1>1, <1>3, MsgSendMoves, KeepsMsg
  <2>3. CASE m = r
    <3>1. Fresh(m) /\ ~Sent(m)' /\ ~AtSend(m)' /\ ~InSlot(m)' /\ ~InRx(m)' /\ ~Fresh(m)' /\ m \notin Answers
      BY <2>3, <1>3, MsgSendMoves, HomeFacts
    <3> QED BY <3>1, <2>1, <2>3, <1>1 DEF MsgInv
  <2> QED BY <2>2, <2>3
<1>4. ASSUME Quiet PROVE MsgInv(m)'
  <2>1. Keeps(m)
    BY <1>4, QuietMoves
  <2>2. UNCHANGED <<handled, retry_cnt>> /\ (m \notin Req => (m \in freed' => m \in freed))
    BY <1>4 DEF Quiet, Wait, TimeOut, Return, Release, Start, RxEnd, TimerFire, RxMatchVf, LeaveStop, LeaveOff, Req
  <2> QED BY <2>1, <2>2, <1>1, KeepsMsg
<1>5. ASSUME NEW r \in Req, Expire(r) PROVE MsgInv(m)'
  <2>1. UNCHANGED <<handled, retry_cnt>> /\ (m \notin Req => (m \in freed' => m \in freed))
    BY <1>5 DEF Expire, Release, Req
  <2>2. CASE m # r
    BY <2>1, <2>2, <1>1, <1>5, ExpireMoves, KeepsMsg
  <2>3. CASE m = r
    BY <2>1, <2>3, <1>1, <1>5, ExpireMoves DEF MsgInv
  <2> QED BY <2>2, <2>3
<1>6. ASSUME NEW e \in End, TxPick(e) PROVE MsgInv(m)'
  <2>1. UNCHANGED <<handled, freed, retry_cnt>>
    BY <1>6 DEF TxPick
  <2> DEFINE c == Head(tx_todo_list[e])
  <2>2. CASE tx_todo_list[e] = <<>> \/ m # c
    BY <2>1, <2>2, <1>1, <1>6, TxPickMoves, KeepsMsg
  <2>3. CASE tx_todo_list[e] # <<>> /\ m = c
    <3>1. /\ Listed(m) /\ Listed(m)' /\ AtSend(m)' /\ ~Sent(m) /\ ~Sent(m)'
          /\ InSlot(m)' <=> InSlot(m)
          /\ InRx(m)' <=> InRx(m)
          /\ Fresh(m)' <=> Fresh(m)
      BY <2>3, <1>6, TxPickMoves
    <3> QED BY <3>1, <2>1, <1>1 DEF MsgInv
  <2> QED BY <2>2, <2>3
<1>7. ASSUME NEW e \in End, TxSend(e) PROVE MsgInv(m)'
  <2>1. UNCHANGED <<handled, freed, retry_cnt>>
    BY <1>7 DEF TxSend
  <2>2. CASE m # cur[e]
    BY <2>1, <2>2, <1>1, <1>7, TxSendMoves, KeepsMsg
  <2>3. CASE m = cur[e]
    BY <2>1, <2>3, <1>1, <1>7, TxSendMoves DEF MsgInv
  <2> QED BY <2>2, <2>3
<1>8. ASSUME NEW e \in End, TxBusy(e) PROVE MsgInv(m)'
  <2>1. UNCHANGED <<handled, freed>>
    BY <1>8 DEF TxBusy
  <2>2. CASE m # cur[e]
    <3>1. m \notin Req => retry_cnt'[m] = retry_cnt[m]
      BY <1>2, <1>8, <2>2 DEF TxBusy
    <3> QED BY <2>1, <2>2, <3>1, <1>1, <1>8, TxBusyMoves, KeepsMsg
  <2>3. CASE m = cur[e]
    <3>1. m \notin Req => retry_cnt'[m] # 0
      <4>1. m \notin Req => retry_cnt[m] \in 1..Retries
        BY <1>8, <2>3, TxBusyMoves
      <4> QED BY <4>1, <1>2, <1>8, <2>3, RetryAssumption DEF TxBusy, LastTry, WaitsResp
    <3>2. m \notin Req => retry_cnt[m] # 0
      BY <1>8, <2>3, TxBusyMoves, RetryAssumption
    <3> QED BY <2>1, <2>3, <3>1, <3>2, <1>1, <1>8, TxBusyMoves DEF MsgInv
  <2> QED BY <2>2, <2>3
<1>9. ASSUME NEW e \in End, TxDrop(e) PROVE MsgInv(m)'
  <2>1. UNCHANGED handled /\ freed' = freed \cup {cur[e]} /\ retry_cnt' = [retry_cnt EXCEPT ![cur[e]] = 0]
    BY <1>9 DEF TxDrop
  <2>2. CASE m # cur[e]
    <3>1. (m \in freed' => m \in freed) /\ (m \notin Req => retry_cnt'[m] = retry_cnt[m])
      BY <1>2, <2>1, <2>2
    <3> QED BY <2>1, <2>2, <3>1, <1>1, <1>9, TxDropMoves, KeepsMsg
  <2>3. CASE m = cur[e]
    BY <2>1, <2>3, <1>1, <1>9, TxDropMoves DEF MsgInv
  <2> QED BY <2>2, <2>3
<1>10. ASSUME NEW e \in End, TxUnlink(e) PROVE MsgInv(m)'
  <2>1. UNCHANGED <<handled, retry_cnt>> /\ (m \in freed' => m \in freed \/ m = cur[e])
    BY <1>10 DEF TxUnlink
  <2>2. CASE m # cur[e]
    BY <2>1, <2>2, <1>1, <1>10, TxUnlinkMoves, KeepsMsg
  <2>3. CASE m = cur[e]
    BY <2>1, <2>3, <1>1, <1>10, TxUnlinkMoves DEF MsgInv
  <2> QED BY <2>2, <2>3
<1>11. ASSUME NEW e \in End, TxPend(e) PROVE MsgInv(m)'
  <2>1. UNCHANGED <<handled, freed, retry_cnt>>
    BY <1>11 DEF TxPend
  <2>2. CASE m # cur[e]
    BY <2>1, <2>2, <1>1, <1>11, TxPendMoves, KeepsMsg
  <2>3. CASE m = cur[e]
    BY <2>1, <2>3, <1>1, <1>11, TxPendMoves DEF MsgInv
  <2> QED BY <2>2, <2>3
<1>12. ASSUME NEW e \in End, RxRead(e) PROVE MsgInv(m)'
  <2>1. UNCHANGED <<handled, freed, retry_cnt>>
    BY <1>12 DEF RxRead
  <2>2. CASE m # slot[Peer(e)]
    BY <2>1, <2>2, <1>1, <1>12, RxReadMoves, KeepsMsg
  <2>3. CASE m = slot[Peer(e)]
    BY <2>1, <2>3, <1>1, <1>12, RxReadMoves DEF MsgInv
  <2> QED BY <2>2, <2>3
<1>13. ASSUME NEW e \in End, NEW r \in Req, Home(r) = Peer(e), InRx(r), Handle(e, r),
              Keeps(m) \/ m \in {r, Answer(r)},
              m = r => /\ ~InRx(m)' /\ (Listed(m)' <=> Listed(m)) /\ (AtSend(m)' <=> AtSend(m))
                       /\ (Sent(m)' <=> Sent(m)) /\ (InSlot(m)' <=> InSlot(m))
                       /\ (Fresh(m)' <=> Fresh(m)),
              m = Answer(r) => /\ ~Fresh(m)' /\ ~AtSend(m)' /\ ~Sent(m)' /\ ~InSlot(m)' /\ ~InRx(m)',
              UNCHANGED <<freed, retry_cnt>>
       PROVE  MsgInv(m)'
  <2>1. handled[r] = 0 /\ handled' = [handled EXCEPT ![r] = 1] /\ Fresh(Answer(r)) /\ Answer(r) \in Answers
    BY <1>13, HandleFacts
  <2>2. CASE m = r
    BY <2>1, <2>2, <1>1, <1>2, <1>13, HomeFacts DEF MsgInv
  <2>3. CASE m = Answer(r)
    BY <2>1, <2>3, <1>1, <1>13, HomeFacts DEF MsgInv
  <2>4. CASE m # r /\ Keeps(m)
    <3>1. m \notin Answers => handled'[m] = handled[m]
      BY <2>1, <2>4, <1>2
    <3> QED BY <3>1, <2>4, <1>1, <1>13, KeepsMsg
  <2> QED BY <2>2, <2>3, <2>4, <1>13
<1>14. ASSUME RxDispatchVf PROVE MsgInv(m)'
  <2>0. PICK c, a : c = rx["vf"] /\ a = Answer(c)
    OBVIOUS
  <2> DEFINE done == rx_pend_list["vf"] = <<>> /\ c \in PfReq
  <2>1. /\ c \in Msg /\ Home(c) = "pf" /\ InRx(c)
        /\ done => a \in Msg /\ a # c /\ cur["vf"] = Nil
        /\ m # c /\ (done => m # a) => Keeps(m)
        /\ InRx(c)' => InRx(c)
        /\ done => ~InRx(c)'
        /\ (Listed(c)' <=> Listed(c)) /\ (AtSend(c)' <=> AtSend(c)) /\ (Sent(c)' <=> Sent(c))
        /\ (InSlot(c)' <=> InSlot(c)) /\ (Fresh(c)' <=> Fresh(c))
        /\ done => ~Fresh(a)' /\ ~AtSend(a)' /\ ~Sent(a)' /\ ~InSlot(a)' /\ ~InRx(a)'
    BY <1>14, <2>0, RxDispatchVfMoves
  <2>2. UNCHANGED <<freed, retry_cnt>>
    BY <1>14 DEF RxDispatchVf
  <2>3. CASE done
    <3>1. Handle("vf", c) /\ c \in Req /\ Home(c) = Peer("vf")
      BY <1>14, <2>0, <2>1, <2>3, HomeFacts, EndNames DEF RxDispatchVf
    <3> QED BY <3>1, <2>0, <2>1, <2>2, <2>3, <1>13, EndNames
  <2>4. CASE ~done
    <3>1. UNCHANGED handled
      BY <1>14, <2>0, <2>4 DEF RxDispatchVf
    <3>2. CASE m # c
      BY <3>1, <3>2, <2>1, <2>2, <2>4, <1>1, KeepsMsg
    <3>3. CASE m = c
      BY <3>1, <3>3, <2>1, <2>2, <1>1 DEF MsgInv
    <3> QED BY <3>2, <3>3
  <2> QED BY <2>3, <2>4
<1>15. ASSUME RxCopyVf PROVE MsgInv(m)'
  <2>1. UNCHANGED <<handled, freed, retry_cnt>>
    BY <1>15 DEF RxCopyVf
  <2>2. CASE m \in {rx["vf"], cur["vf"]}
    BY <2>1, <2>2, <1>1, <1>15, RxCopyVfMoves DEF MsgInv
  <2>3. CASE m \notin {rx["vf"], cur["vf"]}
    BY <2>1, <2>3, <1>1, <1>15, RxCopyVfMoves, KeepsMsg
  <2> QED BY <2>2, <2>3
<1>16. ASSUME RxRequestPf PROVE MsgInv(m)'
  <2>0. PICK c, a : c = rx["pf"] /\ a = Answer(c)
    OBVIOUS
  <2>1. /\ c \in Msg /\ c \in VfReq \cup {Bye} /\ Home(c) = "vf" /\ InRx(c)
        /\ c \in VfReq => a \in Msg /\ a # c
        /\ m # c /\ (c \in VfReq => m # a) => Keeps(m)
        /\ ~InRx(c)'
        /\ (Listed(c)' <=> Listed(c)) /\ (AtSend(c)' <=> AtSend(c)) /\ (Sent(c)' <=> Sent(c))
        /\ (InSlot(c)' <=> InSlot(c)) /\ (Fresh(c)' <=> Fresh(c))
        /\ c \in VfReq => ~Fresh(a)' /\ ~AtSend(a)' /\ ~Sent(a)' /\ ~InSlot(a)' /\ ~InRx(a)'
    BY <1>16, <2>0, RxRequestPfMoves
  <2>2. UNCHANGED <<freed, retry_cnt>>
    BY <1>16 DEF RxRequestPf
  <2>3. CASE c \in VfReq
    <3>1. Handle("pf", c) /\ c \in Req /\ Home(c) = Peer("pf")
      BY <1>16, <2>0, <2>1, <2>3, HomeFacts, EndNames DEF RxRequestPf
    <3> QED BY <3>1, <2>0, <2>1, <2>2, <2>3, <1>13, EndNames
  <2>4. CASE c = Bye
    <3>1. handled' = [handled EXCEPT ![Bye] = @ + 1] /\ Bye \notin VfReq
      BY <1>16, <2>0, <2>4, HomeFacts DEF RxRequestPf
    <3>2. CASE m # c
      <4>1. m \notin Answers => handled'[m] = handled[m]
        BY <3>1, <3>2, <2>4, <1>2
      <4> QED BY <4>1, <3>1, <3>2, <2>1, <2>2, <2>4, <1>1, KeepsMsg
    <3>3. CASE m = c
      <4>1. handled[m] = 0 /\ handled'[m] = 1 /\ m \notin Answers /\ ~Fresh(m)
        BY <3>1, <3>3, <2>1, <2>4, <1>1, <1>2, HomeFacts DEF MsgInv
      <4>2. ~Waits(m) /\ ~InSlot(m)
        BY <3>3, <2>1, <1>1 DEF MsgInv
      <4> QED BY <4>1, <4>2, <3>3, <2>1, <2>2, <1>1 DEF MsgInv
    <3> QED BY <3>2, <3>3
  <2> QED BY <2>1, <2>3, <2>4
<1>17. ASSUME RxResponsePf PROVE MsgInv(m)'
  <2> DEFINE r == FirstMatch("pf")
  <2>1. UNCHANGED <<handled, retry_cnt>> /\ (m \notin Req => (m \in freed' => m \in freed))
    BY <1>17, RxResponsePfMoves DEF RxResponsePf
  <2>2. (Listed(m)' <=> Listed(m)) /\ (AtSend(m)' <=> AtSend(m)) /\ (Sent(m)' <=> Sent(m))
        /\ (InSlot(m)' <=> InSlot(m)) /\ (Fresh(m)' <=> Fresh(m)) /\ (InRx(m)' => InRx(m))
    BY <1>17, RxResponsePfMoves
  <2> QED BY <2>1, <2>2, <1>1 DEF MsgInv
<1>18. ASSUME LeaveBye PROVE MsgInv(m)'
  <2>1. UNCHANGED <<handled, freed, retry_cnt>>
    BY <1>18 DEF LeaveBye
  <2>2. CASE m # Bye
    BY <2>1, <2>2, <1>1, <1>18, LeaveByeMoves, KeepsMsg
  <2>3. CASE m = Bye
    BY <2>1, <2>3, <1>1, <1>18, LeaveByeMoves DEF MsgInv
  <2> QED BY <2>2, <2>3
<1>19. ASSUME UNCHANGED vars PROVE MsgInv(m)'
  BY <1>1, <1>19 DEF vars, MsgInv, Listed, AtSend, Sent, InSlot, InRx, Fresh
<1> QED BY <1>3, <1>4, <1>5, <1>6, <1>7, <1>8, <1>9, <1>10, <1>11, <1>12, <1>14, <1>15, <1>16,
           <1>17, <1>18, <1>19 DEF Next, Sender, Worker, Tx, Rx, RxVf, RxPf, Quiet

LEMMA ReqsStep ==
  ASSUME PlaceInv, [Next]_vars, NEW q \in Req
  PROVE  ReqInv(q)'
<1>1. ReqInv(q) /\ MsgInv(q) /\ q \in Msg /\ q \notin Answers
  BY HomeFacts DEF PlaceInv
<1>2. ASSUME NEW r \in Req, MsgSend(r) PROVE ReqInv(q)'
  BY <1>1, <1>2, MsgSendMoves, KeepsReq DEF ReqInv
<1>3. ASSUME Quiet PROVE ReqInv(q)'
  BY <1>1, <1>3, QuietMoves, KeepsReq
<1>4. ASSUME NEW r \in Req, Expire(r) PROVE ReqInv(q)'
  <2>1. CASE q # r
    BY <1>1, <1>4, <2>1, ExpireMoves, KeepsReq
  <2>2. CASE q = r
    BY <1>1, <1>4, <2>2, ExpireMoves DEF ReqInv
  <2> QED BY <2>1, <2>2
<1>5. ASSUME NEW e \in End, TxPick(e) PROVE ReqInv(q)'
  <2> DEFINE c == Head(tx_todo_list[e])
  <2>1. CASE tx_todo_list[e] = <<>> \/ q # c
    BY <1>1, <1>5, <2>1, TxPickMoves, KeepsReq
  <2>2. CASE tx_todo_list[e] # <<>> /\ q = c
    BY <1>1, <1>5, <2>2, TxPickMoves DEF ReqInv
  <2> QED BY <2>1, <2>2
<1>6. ASSUME NEW e \in End, TxSend(e) PROVE ReqInv(q)'
  <2>1. CASE q # cur[e]
    BY <1>1, <1>6, <2>1, TxSendMoves, KeepsReq
  <2>2. CASE q = cur[e]
    BY <1>1, <1>6, <2>2, TxSendMoves DEF ReqInv
  <2> QED BY <2>1, <2>2
<1>7. ASSUME NEW e \in End, TxBusy(e) PROVE ReqInv(q)'
  <2>1. CASE q # cur[e]
    BY <1>1, <1>7, <2>1, TxBusyMoves, KeepsReq
  <2>2. CASE q = cur[e]
    BY <1>1, <1>7, <2>2, TxBusyMoves DEF ReqInv
  <2> QED BY <2>1, <2>2
<1>8. ASSUME NEW e \in End, TxDrop(e) PROVE ReqInv(q)'
  BY <1>1, <1>8, TxDropMoves, KeepsReq
<1>9. ASSUME NEW e \in End, TxUnlink(e) PROVE ReqInv(q)'
  <2>1. CASE q # cur[e]
    BY <1>1, <1>9, <2>1, TxUnlinkMoves, KeepsReq
  <2>2. CASE q = cur[e]
    <3>1. ~Fresh(q)
      BY <1>1, <1>9, <2>2, TxUnlinkMoves DEF MsgInv
    <3> QED BY <3>1, <1>1, <1>9, <2>2, TxUnlinkMoves DEF ReqInv
  <2> QED BY <2>1, <2>2
<1>10. ASSUME NEW e \in End, TxPend(e) PROVE ReqInv(q)'
  <2>1. CASE q # cur[e]
    BY <1>1, <1>10, <2>1, TxPendMoves, KeepsReq
  <2>2. CASE q = cur[e]
    BY <1>1, <1>10, <2>2, TxPendMoves DEF ReqInv
  <2> QED BY <2>1, <2>2
<1>11. ASSUME NEW e \in End, RxRead(e) PROVE ReqInv(q)'
  <2>1. CASE q # slot[Peer(e)]
    BY <1>1, <1>11, <2>1, RxReadMoves, KeepsReq
  <2>2. CASE q = slot[Peer(e)]
    BY <1>1, <1>11, <2>2, RxReadMoves DEF ReqInv
  <2> QED BY <2>1, <2>2
<1>12. ASSUME RxDispatchVf PROVE ReqInv(q)'
  <2> DEFINE c == rx["vf"]
             a == Answer(c)
  <2>1. q = a => c \notin Req
    BY <1>1, HomeFacts
  <2>2. CASE q # c
    BY <1>1, <1>12, <2>1, <2>2, RxDispatchVfMoves, HomeFacts, KeepsReq
  <2>3. CASE q = c
    BY <1>1, <1>12, <2>3, RxDispatchVfMoves DEF ReqInv
  <2> QED BY <2>2, <2>3
<1>13. ASSUME RxCopyVf PROVE ReqInv(q)'
  <2>1. q # rx["vf"]
    BY <1>1, <1>13, RxCopyVfMoves
  <2>2. CASE q # cur["vf"] \/ Home(q) # "vf"
    BY <1>1, <1>13, <2>1, <2>2, RxCopyVfMoves, KeepsReq
  <2>3. CASE q = cur["vf"] /\ Home(q) = "vf"
    BY <1>1, <1>13, <2>3, RxCopyVfMoves DEF ReqInv
  <2> QED BY <2>2, <2>3
<1>14. ASSUME RxRequestPf PROVE ReqInv(q)'
  <2> DEFINE c == rx["pf"]
             a == Answer(c)
  <2>1. q = a => c \notin Req
    BY <1>1, HomeFacts
  <2>2. CASE q # c
    BY <1>1, <1>14, <2>1, <2>2, RxRequestPfMoves, HomeFacts, KeepsReq
  <2>3. CASE q = c
    BY <1>1, <1>14, <2>3, RxRequestPfMoves DEF ReqInv
  <2> QED BY <2>2, <2>3
<1>15. ASSUME RxResponsePf PROVE ReqInv(q)'
  <2> DEFINE r == FirstMatch("pf")
  <2>1. q # rx["pf"]
    BY <1>1, <1>15, RxResponsePfMoves
  <2>2. CASE q # r
    BY <1>1, <1>15, <2>1, <2>2, RxResponsePfMoves, KeepsReq
  <2>3. CASE q = r
    <3>1. r # Nil
      BY <1>1, <2>3, HomeFacts
    <3> QED BY <3>1, <1>1, <1>15, <2>3, RxResponsePfMoves DEF ReqInv
  <2> QED BY <2>2, <2>3
<1>16. ASSUME LeaveBye PROVE ReqInv(q)'
  BY <1>1, <1>16, LeaveByeMoves, HomeFacts, KeepsReq
<1>17. ASSUME UNCHANGED vars PROVE ReqInv(q)'
  BY <1>1, <1>17 DEF vars, ReqInv, Listed, AtSend, Sent, InHand, Pending, Fresh
<1> QED BY <1>2, <1>3, <1>4, <1>5, <1>6, <1>7, <1>8, <1>9, <1>10, <1>11, <1>12, <1>13, <1>14, <1>15,
           <1>16, <1>17 DEF Next, Sender, Worker, Tx, Rx, RxVf, RxPf, Quiet

-----------------------------------------------------------------------------
(* What the workers hold.                                                  *)

LEMMA EndKeeps ==
  ASSUME NEW f \in End, EndInv(f), UNCHANGED <<pc[f], cur[f], rx[f]>>, slot'[f] \in {slot[f], Nil},
         NoDup(tx_todo_list'[f]), NoDup(rx_pend_list'[f]),
         pc[f] \in {"send", "unlink"} =>
           /\ First(tx_todo_list[f], cur[f]) =>
                First(tx_todo_list'[f], cur[f])
                  \/ (cur[f] \in Req /\ ~Contains(tx_todo_list'[f], cur[f]))
           /\ ~Contains(tx_todo_list[f], cur[f]) => ~Contains(tx_todo_list'[f], cur[f])
  PROVE  EndInv(f)'
BY DEF EndInv

LEMMA EndsStep ==
  ASSUME PlaceInv, [Next]_vars, NEW f \in End
  PROVE  EndInv(f)'
<1>1. EndInv(f) /\ NoDup(tx_todo_list[f]) /\ NoDup(rx_pend_list[f])
      /\ pc \in [End -> {"idle", "pick", "send", "unlink", "pend", "read", "match", "dispatch", "copy"}]
      /\ cur \in [End -> Msg \cup {Nil}] /\ rx \in [End -> Msg \cup {Nil}] /\ slot \in [End -> Msg \cup {Nil}]
  BY WorkerCase
<1>2. ASSUME UNCHANGED <<lists, pc[f], cur[f], rx[f]>>, slot'[f] \in {slot[f], Nil}
      PROVE  EndInv(f)'
  BY <1>1, <1>2, EndKeeps
<1>3. ASSUME NEW m \in Msg, Gains(tx_todo_list, tx_todo_list', Home(m), m), Fresh(m),
             UNCHANGED <<rx_pend_list, pc[f], cur[f], rx[f], slot>>
      PROVE  EndInv(f)'
  <2>1. ~AtSend(m) /\ ~Sent(m)
    BY <1>3 DEF PlaceInv, MsgInv
  <2>2. pc[f] \in {"send", "unlink"} /\ f = Home(m) => cur[f] # m
    BY <2>1 DEF AtSend, Sent
  <2>3. /\ NoDup(tx_todo_list'[f])
        /\ pc[f] \in {"send", "unlink"} =>
             /\ First(tx_todo_list[f], cur[f]) => First(tx_todo_list'[f], cur[f])
             /\ ~Contains(tx_todo_list[f], cur[f]) => ~Contains(tx_todo_list'[f], cur[f])
    BY <1>3, <2>2 DEF Gains, First
  <2> QED BY <1>1, <1>3, <2>3, EndKeeps
<1>4. ASSUME NEW e \in End, NEW m \in Msg, Loses(tx_todo_list, tx_todo_list', e, m),
             NoDup(rx_pend_list'[f]), UNCHANGED <<pc[f], cur[f], rx[f], slot>>,
             f = e => m \in Req
      PROVE  EndInv(f)'
  <2>1. NoDup(tx_todo_list'[f])
    BY <1>4 DEF Loses
  <2>2. ~Contains(tx_todo_list[f], cur[f]) => ~Contains(tx_todo_list'[f], cur[f])
    BY <1>4 DEF Loses
  <2>3. First(tx_todo_list[f], cur[f]) =>
          First(tx_todo_list'[f], cur[f]) \/ (cur[f] \in Req /\ ~Contains(tx_todo_list'[f], cur[f]))
    BY <1>4 DEF Loses, First
  <2> QED BY <1>1, <1>4, <2>1, <2>2, <2>3, EndKeeps
<1>5. ASSUME NEW e \in End, NEW m \in Msg, Loses(rx_pend_list, rx_pend_list', e, m),
             UNCHANGED <<tx_todo_list, pc[f], cur[f], rx[f], slot>>
      PROVE  EndInv(f)'
  <2>1. NoDup(rx_pend_list'[f])
    BY <1>5 DEF Loses
  <2> QED BY <1>1, <1>5, <2>1, EndKeeps
<1>6. ASSUME NEW r \in Req, MsgSend(r) PROVE EndInv(f)'
  BY <1>3, <1>6, MsgSendMoves DEF MsgSend
<1>7. ASSUME NEW r \in Req, Wait(r) \/ TimeOut(r) \/ Return(r) PROVE EndInv(f)'
  BY <1>2, <1>7 DEF Wait, TimeOut, Return
<1>8. ASSUME NEW r \in Req, Expire(r) PROVE EndInv(f)'
  <2>1. /\ r \in Msg /\ Home(r) \in End /\ Loses(tx_todo_list, tx_todo_list', Home(r), r)
        /\ Loses(rx_pend_list, rx_pend_list', Home(r), r)
    BY <1>8, ExpireMoves, HomeFacts
  <2>2. NoDup(rx_pend_list'[f])
    BY <2>1 DEF Loses
  <2>3. UNCHANGED <<pc[f], cur[f], rx[f], slot>>
    BY <1>8 DEF Expire
  <2> QED BY <1>4, <2>1, <2>2, <2>3
<1>9. ASSUME NEW e \in End, Start(e) PROVE EndInv(f)'
  <2>1. CASE f # e
    BY <1>1, <1>2, <1>9, <2>1 DEF Start
  <2>2. CASE f = e
    BY <1>1, <1>9, <2>2 DEF Start, EndInv, Reading
  <2> QED BY <2>1, <2>2
<1>10. ASSUME NEW e \in End, TxPick(e) PROVE EndInv(f)'
  <2>1. CASE f # e
    BY <1>1, <1>2, <1>10, <2>1 DEF TxPick
  <2>2. CASE f = e /\ tx_todo_list[e] = <<>>
    <3>1. pc'[f] = "idle" /\ UNCHANGED <<lists, slot>>
      BY <1>1, <1>10, <2>2 DEF TxPick
    <3> QED BY <1>1, <3>1 DEF EndInv, Reading
  <2>3. CASE f = e /\ tx_todo_list[e] # <<>>
    <3> DEFINE c == Head(tx_todo_list[e])
    <3>1. c \in Msg /\ Home(c) = e /\ First(tx_todo_list[e], c)
      BY <1>10, <2>3, TxPickMoves
    <3>2. pc'[f] = "send" /\ cur'[f] = c /\ UNCHANGED <<lists, slot>>
      BY <1>1, <1>10, <2>3 DEF TxPick
    <3> QED BY <1>1, <2>3, <3>1, <3>2 DEF EndInv, Reading
  <2> QED BY <2>1, <2>2, <2>3
<1>11. ASSUME NEW e \in End, TxSend(e) PROVE EndInv(f)'
  <2>1. CASE f # e
    <3>1. UNCHANGED <<lists, pc[f], cur[f], rx[f]>> /\ slot'[f] = slot[f]
      BY <1>1, <1>11, <2>1 DEF TxSend
    <3> QED BY <1>2, <3>1
  <2>2. CASE f = e
    <3>1. pc[f] = "send" /\ pc'[f] = "unlink" /\ slot'[f] = cur[f] /\ UNCHANGED <<lists, cur>>
      BY <1>1, <1>11, <2>2 DEF TxSend
    <3> QED BY <1>1, <2>2, <3>1 DEF EndInv, Reading
  <2> QED BY <2>1, <2>2
<1>12. ASSUME NEW e \in End, TxBusy(e) PROVE EndInv(f)'
  <2>1. CASE f # e
    BY <1>1, <1>2, <1>12, <2>1 DEF TxBusy
  <2>2. CASE f = e
    BY <1>1, <1>12, <2>2 DEF TxBusy, EndInv, Reading
  <2> QED BY <2>1, <2>2
<1>13. ASSUME NEW e \in End, TxDrop(e) PROVE EndInv(f)'
  <2>1. cur[e] \in Msg /\ Loses(tx_todo_list, tx_todo_list', e, cur[e])
    BY <1>13, TxDropMoves
  <2>2. CASE f # e
    <3>1. UNCHANGED <<rx_pend_list, pc[f], cur[f], rx[f], slot>>
      BY <1>1, <1>13, <2>2 DEF TxDrop
    <3> QED BY <1>1, <1>4, <2>1, <2>2, <3>1
  <2>3. CASE f = e
    <3>1. pc'[f] = "idle" /\ UNCHANGED <<rx_pend_list, slot>> /\ NoDup(tx_todo_list'[f])
      BY <1>1, <1>13, <2>1, <2>3 DEF TxDrop, Loses
    <3> QED BY <1>1, <3>1 DEF EndInv, Reading
  <2> QED BY <2>2, <2>3
<1>14. ASSUME NEW e \in End, TxUnlink(e) PROVE EndInv(f)'
  <2>1. cur[e] \in Msg /\ Home(cur[e]) = e /\ Loses(tx_todo_list, tx_todo_list', e, cur[e])
    BY <1>14, TxUnlinkMoves
  <2>2. CASE f # e
    <3>1. UNCHANGED <<rx_pend_list, pc[f], cur[f], rx[f], slot>>
      BY <1>1, <1>14, <2>2 DEF TxUnlink
    <3> QED BY <1>1, <1>4, <2>1, <2>2, <3>1
  <2>3. CASE f = e
    <3>1. /\ pc'[f] \in {"pend", "pick"} /\ (pc'[f] = "pend" => cur[e] \in Req)
          /\ UNCHANGED <<rx_pend_list, slot, cur>> /\ NoDup(tx_todo_list'[f])
      BY <1>1, <1>14, <2>1, <2>3 DEF TxUnlink, Loses, WaitsResp
    <3> QED BY <1>1, <2>1, <2>3, <3>1 DEF EndInv, Reading
  <2> QED BY <2>2, <2>3
<1>15. ASSUME NEW e \in End, TxPend(e) PROVE EndInv(f)'
  <2>1. NoDup(rx_pend_list'[f])
    BY <1>15, TxPendMoves DEF Gains
  <2>2. CASE f # e
    <3>1. UNCHANGED <<tx_todo_list, pc[f], cur[f], rx[f], slot>>
      BY <1>1, <1>15, <2>2 DEF TxPend
    <3> QED BY <1>1, <2>1, <3>1, EndKeeps
  <2>3. CASE f = e
    <3>1. pc'[f] = "pick" /\ UNCHANGED <<tx_todo_list, slot>>
      BY <1>1, <1>15, <2>3 DEF TxPend
    <3> QED BY <1>1, <2>1, <3>1 DEF EndInv, Reading
  <2> QED BY <2>2, <2>3
<1>16. ASSUME NEW e \in End, RxRead(e) PROVE EndInv(f)'
  <2>1. CASE f # e
    BY <1>1, <1>2, <1>16, <2>1 DEF RxRead
  <2>2. CASE f = e
    <3>1. slot[Peer(e)] \in Msg /\ Home(slot[Peer(e)]) = Peer(e)
      BY <1>16, RxReadMoves
    <3>2. /\ pc'[f] = "match" /\ rx'[f] = slot[Peer(e)] /\ UNCHANGED lists
          /\ slot'[f] = slot[f]
      BY <1>1, <1>16, <2>2, EndFacts DEF RxRead
    <3> QED BY <1>1, <2>2, <3>1, <3>2 DEF EndInv
  <2> QED BY <2>1, <2>2
<1>17. ASSUME NEW e \in End, RxEnd(e) PROVE EndInv(f)'
  <2>1. CASE f # e
    BY <1>1, <1>2, <1>17, <2>1 DEF RxEnd
  <2>2. CASE f = e
    BY <1>1, <1>17, <2>2 DEF RxEnd, EndInv, Reading
  <2> QED BY <2>1, <2>2
<1>18. ASSUME RxMatchVf PROVE EndInv(f)'
  <2>1. CASE f # "vf"
    BY <1>1, <1>2, <1>18, <2>1 DEF RxMatchVf
  <2>2. CASE f = "vf"
    <3>1. \/ cur'[f] = Nil
          \/ cur'[f] \in Req /\ rx[f] \in Answers
      BY <1>1, <1>18, <2>2, FirstMatchFacts DEF RxMatchVf
    <3>2. pc[f] = "match" /\ pc'[f] = "dispatch" /\ UNCHANGED <<lists, slot, rx>>
      BY <1>1, <1>18, <2>2 DEF RxMatchVf
    <3> QED BY <1>1, <2>2, <3>1, <3>2 DEF EndInv, Reading
  <2> QED BY <2>1, <2>2
<1>19. ASSUME RxDispatchVf PROVE EndInv(f)'
  <2>1. /\ pc["vf"] = "dispatch" /\ pc' = [pc EXCEPT !["vf"] = IF cur["vf"] = Nil THEN "read" ELSE "copy"]
        /\ UNCHANGED <<rx_pend_list, cur, rx, slot>>
    BY <1>19 DEF RxDispatchVf
  <2>2. /\ NoDup(tx_todo_list'[f])
        /\ pc[f] \in {"send", "unlink"} =>
             /\ First(tx_todo_list[f], cur[f]) => First(tx_todo_list'[f], cur[f])
             /\ ~Contains(tx_todo_list[f], cur[f]) => ~Contains(tx_todo_list'[f], cur[f])
    <3>1. CASE rx_pend_list["vf"] = <<>> /\ rx["vf"] \in PfReq
      <4>1. rx["vf"] \in Req /\ Home(rx["vf"]) = Peer("vf") /\ InRx(rx["vf"]) /\ Handle("vf", rx["vf"])
        BY <3>1, <1>19, RxDispatchVfMoves, HomeFacts, EndNames DEF RxDispatchVf
      <4> QED BY <4>1, HandleFacts, EndNames DEF Gains
    <3>2. CASE ~(rx_pend_list["vf"] = <<>> /\ rx["vf"] \in PfReq)
      BY <3>2, <1>1, <1>19 DEF RxDispatchVf
    <3> QED BY <3>1, <3>2
  <2>3. CASE f # "vf"
    BY <1>1, <2>1, <2>2, <2>3, EndKeeps
  <2>4. CASE f = "vf"
    BY <1>1, <2>1, <2>2, <2>4 DEF EndInv, Reading
  <2> QED BY <2>3, <2>4
<1>20. ASSUME RxCopyVf PROVE EndInv(f)'
  <2>1. NoDup(rx_pend_list'[f])
    BY <1>20, RxCopyVfMoves DEF Loses
  <2>2. /\ pc' = [pc EXCEPT !["vf"] = "read"] /\ UNCHANGED <<tx_todo_list, cur, rx, slot>>
    BY <1>20 DEF RxCopyVf
  <2>3. CASE f # "vf"
    BY <1>1, <2>1, <2>2, <2>3, EndKeeps
  <2>4. CASE f = "vf"
    BY <1>1, <2>1, <2>2, <2>4 DEF EndInv, Reading
  <2> QED BY <2>3, <2>4
<1>21. ASSUME RxRequestPf PROVE EndInv(f)'
  <2>1. /\ pc' = [pc EXCEPT !["pf"] = "read"] /\ UNCHANGED <<rx_pend_list, cur, rx, slot>>
    BY <1>21 DEF RxRequestPf
  <2>2. /\ NoDup(tx_todo_list'[f])
        /\ pc[f] \in {"send", "unlink"} =>
             /\ First(tx_todo_list[f], cur[f]) => First(tx_todo_list'[f], cur[f])
             /\ ~Contains(tx_todo_list[f], cur[f]) => ~Contains(tx_todo_list'[f], cur[f])
    <3>1. CASE rx["pf"] # Bye
      <4>1. rx["pf"] \in Req /\ Home(rx["pf"]) = Peer("pf") /\ InRx(rx["pf"]) /\ Handle("pf", rx["pf"])
        BY <3>1, <1>21, RxRequestPfMoves, HomeFacts, EndNames DEF RxRequestPf
      <4> QED BY <4>1, HandleFacts, EndNames DEF Gains
    <3>2. CASE rx["pf"] = Bye
      BY <3>2, <1>1, <1>21 DEF RxRequestPf
    <3> QED BY <3>1, <3>2
  <2>3. CASE f # "pf"
    BY <1>1, <2>1, <2>2, <2>3, EndKeeps
  <2>4. CASE f = "pf"
    BY <1>1, <2>1, <2>2, <2>4 DEF EndInv, Reading
  <2> QED BY <2>3, <2>4
<1>22. ASSUME RxResponsePf PROVE EndInv(f)'
  <2> DEFINE r == FirstMatch("pf")
  <2>1. UNCHANGED rx_pend_list \/ Loses(rx_pend_list, rx_pend_list', "pf", r)
    BY <1>22, RxResponsePfMoves
  <2>2. NoDup(rx_pend_list'[f])
    BY <1>1, <2>1 DEF Loses
  <2>3. /\ pc' = [pc EXCEPT !["pf"] = "read"] /\ UNCHANGED <<tx_todo_list, cur, rx, slot>>
    BY <1>22 DEF RxResponsePf
  <2>4. CASE f # "pf"
    BY <1>1, <2>2, <2>3, <2>4, EndKeeps
  <2>5. CASE f = "pf"
    BY <1>1, <2>2, <2>3, <2>5 DEF EndInv, Reading
  <2> QED BY <2>4, <2>5
<1>23. ASSUME NEW e \in End, TimerFire(e) PROVE EndInv(f)'
  BY <1>2, <1>23 DEF TimerFire
<1>24. ASSUME LeaveStop \/ LeaveOff PROVE EndInv(f)'
  BY <1>2, <1>24 DEF LeaveStop, LeaveOff
<1>25. ASSUME LeaveBye PROVE EndInv(f)'
  BY <1>3, <1>25, LeaveByeMoves, HomeFacts DEF LeaveBye
<1>26. ASSUME UNCHANGED vars PROVE EndInv(f)'
  BY <1>2, <1>26 DEF vars
<1> QED BY <1>6, <1>7, <1>8, <1>9, <1>10, <1>11, <1>12, <1>13, <1>14, <1>15, <1>16, <1>17, <1>18,
           <1>19, <1>20, <1>21, <1>22, <1>23, <1>24, <1>25, <1>26
        DEF Next, Sender, Worker, Tx, Rx, RxVf, RxPf

-----------------------------------------------------------------------------
(* The places of the messages, for every behaviour.                        *)

LEMMA InitFacts ==
  ASSUME Init
  PROVE  /\ \A e \in End : /\ tx_todo_list[e] = <<>> /\ rx_pend_list[e] = <<>> /\ workq[e] = <<>>
                           /\ pc[e] = "idle" /\ cur[e] = Nil /\ rx[e] = Nil /\ slot[e] = Nil
                           /\ timer[e] = rx_poll[e] /\ send_busy[e] = FALSE
         /\ \A r \in Req : stage[r] = "new" /\ resp_op_matched[r] = FALSE /\ raw[r] = r /\ handled[r] = 0
         /\ handled[Bye] = 0 /\ leaving = "no" /\ freed = {} /\ wild = {}
         /\ \A m \in Answers \cup {Bye} : retry_cnt[m] = Retries
BY DEF Init

LEMMA InitTypes == Init => Types
<1> SUFFICES ASSUME Init PROVE Types
  OBVIOUS
<1>1. ListType
  <2>1. tx_todo_list \in [End -> Seq(Msg)] /\ rx_pend_list \in [End -> Seq(Msg)]
    BY DEF Init
  <2> QED BY <2>1, InitFacts, EmptyFacts DEF ListType
<1>2. WorkType
  BY ModeAssumption DEF Init, WorkType, WorkQ, End
<1>3. WorkerType
  BY DEF Init, WorkerType
<1>4. SenderType
  <2>1. Retries \in 0..Retries
    BY RetryAssumption
  <2> QED BY <2>1, HomeFacts DEF Init, SenderType
<1> QED BY <1>1, <1>2, <1>3, <1>4 DEF Types

LEMMA InitPlaces == Init => PlaceInv
<1> SUFFICES ASSUME Init PROVE PlaceInv
  OBVIOUS
<1>1. Types
  BY InitTypes
<1>2. ASSUME NEW e \in End PROVE EndInv(e)
  BY InitFacts, EmptyFacts DEF EndInv, Reading
<1>3. ASSUME NEW m \in Msg PROVE ~Listed(m) /\ ~AtSend(m) /\ ~Sent(m) /\ ~InHand(m) /\ ~Pending(m)
                                 /\ ~InSlot(m) /\ ~InRx(m) /\ Fresh(m)
  <2>1. Home(m) \in End /\ Peer(Home(m)) \in End /\ m # Nil
    BY HomeFacts, EndFacts
  <2>2. /\ pc[Home(m)] = "idle" /\ pc[Peer(Home(m))] = "idle" /\ slot[Home(m)] = Nil
        /\ tx_todo_list[Home(m)] = <<>> /\ rx_pend_list[Home(m)] = <<>>
    BY <2>1, InitFacts
  <2>3. ~Listed(m) /\ ~AtSend(m) /\ ~Sent(m) /\ ~InHand(m) /\ ~Pending(m) /\ ~InSlot(m) /\ ~InRx(m)
    BY <2>1, <2>2, EmptyFacts DEF Listed, AtSend, Sent, InHand, Pending, InSlot, InRx, Reading
  <2>4. Fresh(m)
    BY InitFacts, HomeFacts DEF Fresh
  <2> QED BY <2>3, <2>4
<1>4. ASSUME NEW m \in Msg PROVE MsgInv(m)
  <2>1. m \notin Answers => handled[m] = 0
    BY InitFacts, HomeFacts
  <2>2. m \notin Req => m \notin freed /\ retry_cnt[m] # 0
    BY InitFacts, HomeFacts, RetryAssumption
  <2> QED BY <1>3, <2>1, <2>2 DEF MsgInv
<1>5. ASSUME NEW r \in Req PROVE ReqInv(r)
  BY <1>3, HomeFacts DEF ReqInv
<1> QED BY <1>1, <1>2, <1>4, <1>5 DEF PlaceInv

LEMMA StepPlaces == PlaceInv /\ [Next]_vars => PlaceInv'
<1> SUFFICES ASSUME PlaceInv, [Next]_vars PROVE PlaceInv'
  OBVIOUS
<1>1. Types'
  BY ListTypes, WorkTypes, WorkerTypes, SenderTypes DEF Types
<1> QED BY <1>1, EndsStep, MsgsStep, ReqsStep DEF PlaceInv

\* Every message of the mailbox makes its way once, in one place at a time.
THEOREM Places == Spec => []PlaceInv
<1> QED BY InitPlaces, StepPlaces, PTL DEF Spec

-----------------------------------------------------------------------------
(* No request is lost, nothing to send is left lying, polling goes on.     *)

LEMMA GivenUpStays ==
  ASSUME PlaceInv, [Next]_vars, GivenUp
  PROVE  GivenUp'
<1>1. PICK m \in Answers \cup {Bye} : retry_cnt[m] = 0
  BY DEF GivenUp, PlaceInv, Types, SenderType
<1>2. m \notin Req /\ retry_cnt \in [Answers \cup {Bye} -> 0 .. Retries]
  BY HomeFacts DEF PlaceInv, Types, SenderType
<1>3. retry_cnt' \in [Answers \cup {Bye} -> 0 .. Retries]
  BY SenderTypes DEF SenderType
<1>4. retry_cnt'[m] = 0
  <2>1. ASSUME NEW e \in End, TxBusy(e) PROVE retry_cnt'[m] = 0
    <3>1. m # cur[e]
      BY <1>1, <1>2, <2>1, TxBusyMoves
    <3> QED BY <1>1, <1>2, <2>1, <3>1 DEF TxBusy
  <2>2. ASSUME NEW e \in End, TxDrop(e) PROVE retry_cnt'[m] = 0
    BY <1>1, <1>2, <2>2 DEF TxDrop
  <2>3. ASSUME UNCHANGED retry_cnt PROVE retry_cnt'[m] = 0
    BY <1>1, <2>3
  <2>4. ASSUME NEW r \in Req, MsgSend(r) \/ Wait(r) \/ TimeOut(r) \/ Return(r) \/ Expire(r) PROVE UNCHANGED retry_cnt
    BY <2>4 DEF MsgSend, Wait, TimeOut, Return, Expire
  <2>5. ASSUME NEW e \in End, Start(e) \/ TxPick(e) \/ TxSend(e) \/ TxUnlink(e) \/ TxPend(e)
                              \/ RxRead(e) \/ RxEnd(e) \/ TimerFire(e)
        PROVE  UNCHANGED retry_cnt
    BY <2>5 DEF Start, TxPick, TxSend, TxUnlink, TxPend, RxRead, RxEnd, TimerFire
  <2>6. ASSUME RxVf \/ RxPf PROVE UNCHANGED retry_cnt
    BY <2>6 DEF RxVf, RxPf, RxMatchVf, RxDispatchVf, RxCopyVf, RxRequestPf, RxResponsePf
  <2>7. ASSUME LeaveStop \/ LeaveBye \/ LeaveOff \/ UNCHANGED vars PROVE UNCHANGED retry_cnt
    BY <2>7 DEF LeaveStop, LeaveBye, LeaveOff, vars
  <2> QED BY <2>1, <2>2, <2>3, <2>4, <2>5, <2>6, <2>7 DEF Next, Sender, Worker, Tx, Rx
<1> QED BY <1>3, <1>4 DEF GivenUp

LEMMA MarkStep ==
  ASSUME PlaceInv, MarkInv, [Next]_vars
  PROVE  MarkInv'
<1>1. /\ pc \in [End -> {"idle", "pick", "send", "unlink", "pend", "read", "match", "dispatch", "copy"}]
      /\ resp_op_matched \in [Req -> BOOLEAN] /\ "vf" \in End /\ "pf" \in End /\ EndInv("vf")
      /\ cur \in [End -> Msg \cup {Nil}]
  BY EndNames DEF PlaceInv, Types, WorkerType, SenderType
<1>2. ASSUME UNCHANGED <<pc["vf"], cur["vf"], resp_op_matched>> PROVE MarkInv'
  BY <1>2 DEF MarkInv
<1>3. ASSUME pc'["vf"] \notin {"dispatch", "copy"} PROVE MarkInv'
  BY <1>3 DEF MarkInv
<1>4. ASSUME NEW r \in Req, MsgSend(r) \/ Wait(r) \/ TimeOut(r) \/ Return(r) \/ Expire(r) PROVE MarkInv'
  BY <1>2, <1>4 DEF MsgSend, Wait, TimeOut, Return, Expire
<1>5. ASSUME NEW e \in End, Start(e) PROVE MarkInv'
  BY <1>1, <1>2, <1>3, <1>5 DEF Start
<1>6. ASSUME NEW e \in End, TxPick(e) PROVE MarkInv'
  BY <1>1, <1>2, <1>3, <1>6 DEF TxPick
<1>7. ASSUME NEW e \in End, TxSend(e) \/ TxBusy(e) \/ TxDrop(e) PROVE MarkInv'
  BY <1>1, <1>2, <1>3, <1>7 DEF TxSend, TxBusy, TxDrop
<1>8. ASSUME NEW e \in End, TxUnlink(e) \/ TxPend(e) PROVE MarkInv'
  BY <1>1, <1>2, <1>3, <1>8 DEF TxUnlink, TxPend
<1>9. ASSUME NEW e \in End, RxRead(e) \/ RxEnd(e) PROVE MarkInv'
  BY <1>1, <1>2, <1>3, <1>9 DEF RxRead, RxEnd
<1>10. ASSUME RxMatchVf PROVE MarkInv'
  <2>1. cur'["vf"] = FirstMatch("vf") /\ resp_op_matched' = [r \in Req |-> resp_op_matched[r] \/ r = FirstMatch("vf")]
    BY <1>1, <1>10 DEF RxMatchVf
  <2>2. FirstMatch("vf") # Nil => FirstMatch("vf") \in Req
    BY FirstMatchFacts, EndNames
  <2> QED BY <2>1, <2>2 DEF MarkInv
<1>11. ASSUME RxDispatchVf PROVE MarkInv'
  BY <1>1, <1>11 DEF RxDispatchVf, MarkInv
<1>12. ASSUME RxCopyVf PROVE MarkInv'
  BY <1>1, <1>3, <1>12 DEF RxCopyVf
<1>13. ASSUME RxRequestPf PROVE MarkInv'
  BY <1>1, <1>2, <1>13 DEF RxRequestPf
<1>14. ASSUME RxResponsePf PROVE MarkInv'
  <2>1. pc'["vf"] = pc["vf"] /\ cur' = cur
    BY <1>1, <1>14 DEF RxResponsePf
  <2>2. cur["vf"] \in Req => (resp_op_matched[cur["vf"]] => resp_op_matched'[cur["vf"]])
    BY <1>1, <1>14, RxResponsePfMoves
  <2>3. pc["vf"] \in {"dispatch", "copy"} /\ cur["vf"] # Nil => cur["vf"] \in Req
    BY <1>1 DEF EndInv
  <2> QED BY <2>1, <2>2, <2>3 DEF MarkInv
<1>15. ASSUME NEW e \in End, TimerFire(e) PROVE MarkInv'
  BY <1>2, <1>15 DEF TimerFire
<1>16. ASSUME LeaveStop \/ LeaveBye \/ LeaveOff \/ UNCHANGED vars PROVE MarkInv'
  BY <1>2, <1>16 DEF LeaveStop, LeaveBye, LeaveOff, vars
<1> QED BY <1>4, <1>5, <1>6, <1>7, <1>8, <1>9, <1>10, <1>11, <1>12, <1>13, <1>14, <1>15, <1>16
        DEF Next, Sender, Worker, Tx, Rx, RxVf, RxPf

LEMMA LiveStep ==
  ASSUME PlaceInv, MarkInv, [Next]_vars, NEW q \in Req, LiveInv(q)
  PROVE  LiveInv(q)'
<1>1. /\ stage \in [Req -> {"new", "queued", "asleep", "awake", "late", "ok", "failed"}]
      /\ resp_op_matched \in [Req -> BOOLEAN] /\ q \in Msg /\ q \notin Answers
  BY HomeFacts DEF PlaceInv, Types, SenderType
<1>2. ASSUME Keeps(q), UNCHANGED <<stage[q], resp_op_matched[q]>> PROVE LiveInv(q)'
  BY <1>2 DEF Keeps, LiveInv
<1>3. ASSUME NEW r \in Req, MsgSend(r) PROVE LiveInv(q)'
  <2>1. UNCHANGED resp_op_matched /\ (q # r => stage'[q] = stage[q])
    BY <1>1, <1>3 DEF MsgSend
  <2>2. CASE q # r
    BY <1>1, <1>2, <1>3, <2>1, <2>2, MsgSendMoves
  <2>3. CASE q = r
    BY <1>3, <2>3, MsgSendMoves DEF LiveInv
  <2> QED BY <2>2, <2>3
<1>4. ASSUME NEW r \in Req, Wait(r) PROVE LiveInv(q)'
  <2>1. Keeps(q)
    BY <1>1, <1>4, QuietMoves DEF Quiet
  <2>2. /\ UNCHANGED resp_op_matched
        /\ stage'[q] \in {"queued", "asleep", "late"} => stage[q] \in {"queued", "asleep", "late"}
    BY <1>1, <1>4 DEF Wait
  <2> QED BY <2>1, <2>2 DEF LiveInv, Keeps
<1>5. ASSUME NEW r \in Req, TimeOut(r) \/ Return(r) PROVE LiveInv(q)'
  <2>1. Keeps(q)
    BY <1>1, <1>5, QuietMoves DEF Quiet
  <2>2. /\ UNCHANGED resp_op_matched
        /\ stage'[q] \in {"queued", "asleep", "late"} => stage[q] \in {"queued", "asleep", "late"}
    BY <1>1, <1>5 DEF TimeOut, Return
  <2> QED BY <2>1, <2>2 DEF LiveInv, Keeps
<1>6. ASSUME NEW r \in Req, Expire(r) PROVE LiveInv(q)'
  <2>1. UNCHANGED resp_op_matched /\ stage' = [stage EXCEPT ![r] = "failed"]
    BY <1>6 DEF Expire
  <2>2. CASE q # r
    BY <1>1, <1>2, <1>6, <2>1, <2>2, ExpireMoves
  <2>3. CASE q = r
    BY <1>1, <2>1, <2>3 DEF LiveInv
  <2> QED BY <2>2, <2>3
<1>7. ASSUME NEW e \in End, Start(e) \/ RxEnd(e) \/ TimerFire(e) PROVE LiveInv(q)'
  <2>1. Keeps(q)
    BY <1>1, <1>7, QuietMoves DEF Quiet
  <2>2. UNCHANGED <<stage, resp_op_matched>>
    BY <1>7 DEF Start, RxEnd, TimerFire
  <2> QED BY <1>2, <2>1, <2>2
<1>8. ASSUME NEW e \in End, TxPick(e) PROVE LiveInv(q)'
  <2>1. UNCHANGED <<stage, resp_op_matched>>
    BY <1>8 DEF TxPick
  <2>2. CASE tx_todo_list[e] = <<>> \/ q # Head(tx_todo_list[e])
    BY <1>1, <1>2, <1>8, <2>1, <2>2, TxPickMoves
  <2>3. CASE tx_todo_list[e] # <<>> /\ q = Head(tx_todo_list[e])
    BY <1>8, <2>3, TxPickMoves DEF LiveInv
  <2> QED BY <2>2, <2>3
<1>9. ASSUME NEW e \in End, TxSend(e) \/ TxBusy(e) PROVE LiveInv(q)'
  <2>1. UNCHANGED <<stage, resp_op_matched>>
    BY <1>9 DEF TxSend, TxBusy
  <2>2. (Listed(q)' <=> Listed(q)) /\ (InHand(q)' <=> InHand(q)) /\ (Pending(q)' <=> Pending(q))
    <3>1. CASE q # cur[e]
      BY <1>1, <1>9, <3>1, TxSendMoves, TxBusyMoves DEF Keeps
    <3>2. CASE q = cur[e]
      BY <1>9, <3>2, TxSendMoves, TxBusyMoves
    <3> QED BY <3>1, <3>2
  <2> QED BY <2>1, <2>2 DEF LiveInv
<1>10. ASSUME NEW e \in End, TxDrop(e) PROVE LiveInv(q)'
  <2>1. UNCHANGED <<stage, resp_op_matched>>
    BY <1>10 DEF TxDrop
  <2> QED BY <1>1, <1>2, <1>10, <2>1, TxDropMoves
<1>11. ASSUME NEW e \in End, TxUnlink(e) PROVE LiveInv(q)'
  <2>1. UNCHANGED <<stage, resp_op_matched>>
    BY <1>11 DEF TxUnlink
  <2>2. CASE q # cur[e]
    BY <1>1, <1>2, <1>11, <2>1, <2>2, TxUnlinkMoves
  <2>3. CASE q = cur[e]
    BY <1>11, <2>3, TxUnlinkMoves DEF LiveInv
  <2> QED BY <2>2, <2>3
<1>12. ASSUME NEW e \in End, TxPend(e) PROVE LiveInv(q)'
  <2>1. UNCHANGED <<stage, resp_op_matched>>
    BY <1>12 DEF TxPend
  <2>2. CASE q # cur[e]
    BY <1>1, <1>2, <1>12, <2>1, <2>2, TxPendMoves
  <2>3. CASE q = cur[e]
    BY <1>12, <2>3, TxPendMoves DEF LiveInv
  <2> QED BY <2>2, <2>3
<1>13. ASSUME NEW e \in End, RxRead(e) PROVE LiveInv(q)'
  <2>1. UNCHANGED <<stage, resp_op_matched>>
    BY <1>13 DEF RxRead
  <2>2. CASE q # slot[Peer(e)]
    BY <1>1, <1>2, <1>13, <2>1, <2>2, RxReadMoves
  <2>3. CASE q = slot[Peer(e)]
    BY <1>13, <2>1, <2>3, RxReadMoves DEF LiveInv
  <2> QED BY <2>2, <2>3
<1>14. ASSUME RxMatchVf PROVE LiveInv(q)'
  <2>1. Keeps(q)
    BY <1>1, <1>14, QuietMoves DEF Quiet
  <2>2. UNCHANGED stage /\ (resp_op_matched[q] => resp_op_matched'[q])
    BY <1>14 DEF RxMatchVf
  <2> QED BY <2>1, <2>2 DEF LiveInv, Keeps
<1>15. ASSUME RxDispatchVf PROVE LiveInv(q)'
  <2>1. UNCHANGED <<stage, resp_op_matched>>
    BY <1>15 DEF RxDispatchVf
  <2>2. (Listed(q)' <=> Listed(q)) /\ (InHand(q)' <=> InHand(q)) /\ (Pending(q)' <=> Pending(q))
    <3>1. CASE q = rx["vf"]
      BY <1>15, <3>1, RxDispatchVfMoves
    <3>2. CASE q # rx["vf"]
      <4>1. rx["vf"] \in PfReq => q # Answer(rx["vf"])
        BY <1>1, HomeFacts
      <4> QED BY <1>1, <1>15, <3>2, <4>1, RxDispatchVfMoves DEF Keeps
    <3> QED BY <3>1, <3>2
  <2> QED BY <2>1, <2>2 DEF LiveInv
<1>16. ASSUME RxCopyVf PROVE LiveInv(q)'
  <2>1. q # rx["vf"] /\ cur["vf"] \in Req
    BY <1>1, <1>16, RxCopyVfMoves
  <2>2. UNCHANGED resp_op_matched /\ stage' = Wake(cur["vf"]) /\ resp_op_matched[cur["vf"]]
    BY <1>16, <2>1, HomeFacts DEF RxCopyVf, MarkInv
  <2>3. CASE q # cur["vf"]
    BY <1>1, <1>2, <1>16, <2>1, <2>2, <2>3, RxCopyVfMoves DEF Wake
  <2>4. CASE q = cur["vf"]
    BY <2>2, <2>4 DEF LiveInv
  <2> QED BY <2>3, <2>4
<1>17. ASSUME RxRequestPf PROVE LiveInv(q)'
  <2>1. UNCHANGED <<stage, resp_op_matched>>
    BY <1>17 DEF RxRequestPf
  <2>2. (Listed(q)' <=> Listed(q)) /\ (InHand(q)' <=> InHand(q)) /\ (Pending(q)' <=> Pending(q))
    <3>1. CASE q = rx["pf"]
      BY <1>17, <3>1, RxRequestPfMoves
    <3>2. CASE q # rx["pf"]
      <4>1. rx["pf"] \in VfReq => q # Answer(rx["pf"])
        BY <1>1, HomeFacts
      <4> QED BY <1>1, <1>17, <3>2, <4>1, RxRequestPfMoves DEF Keeps
    <3> QED BY <3>1, <3>2
  <2> QED BY <2>1, <2>2 DEF LiveInv
<1>18. ASSUME RxResponsePf PROVE LiveInv(q)'
  <2>1. PICK c, r : c = rx["pf"] /\ r = FirstMatch("pf")
    OBVIOUS
  <2>2. q # c /\ (q # r => Keeps(q))
    BY <1>1, <1>18, <2>1, RxResponsePfMoves
  <2>3. CASE q # r
    BY <1>1, <1>2, <1>18, <2>1, <2>2, <2>3, RxResponsePfMoves DEF Wake
  <2>4. CASE q = r
    <3>1. resp_op_matched'[q]
      BY <1>1, <1>18, <2>1, <2>4, HomeFacts, RxResponsePfMoves
    <3> QED BY <3>1 DEF LiveInv
  <2> QED BY <2>3, <2>4
<1>19. ASSUME LeaveStop \/ LeaveOff PROVE LiveInv(q)'
  <2>1. Keeps(q)
    BY <1>1, <1>19, QuietMoves DEF Quiet
  <2>2. UNCHANGED <<stage, resp_op_matched>>
    BY <1>19 DEF LeaveStop, LeaveOff
  <2> QED BY <1>2, <2>1, <2>2
<1>20. ASSUME LeaveBye PROVE LiveInv(q)'
  <2>1. UNCHANGED <<stage, resp_op_matched>>
    BY <1>20 DEF LeaveBye
  <2> QED BY <1>1, <1>2, <1>20, <2>1, LeaveByeMoves, HomeFacts
<1>21. ASSUME UNCHANGED vars PROVE LiveInv(q)'
  BY <1>21 DEF vars, LiveInv, Listed, InHand, Pending
<1> QED BY <1>3, <1>4, <1>5, <1>6, <1>7, <1>8, <1>9, <1>10, <1>11, <1>12, <1>13, <1>14, <1>15,
           <1>16, <1>17, <1>18, <1>19, <1>20, <1>21 DEF Next, Sender, Worker, Tx, Rx, RxVf, RxPf

LEMMA TryStep ==
  ASSUME PlaceInv, [Next]_vars, NEW f \in End, TryInv(f)
  PROVE  TryInv(f)'
<1> DEFINE Trying == \/ pc[f] \in {"pick", "send", "unlink", "pend"} \/ Contains(workq[f], "tx")
                     \/ timer[f] /\ send_busy[f]
<1>1. /\ pc \in [End -> {"idle", "pick", "send", "unlink", "pend", "read", "match", "dispatch", "copy"}]
      /\ workq \in [End -> WorkQ] /\ timer \in [End -> BOOLEAN] /\ send_busy \in [End -> BOOLEAN]
      /\ rx_poll \in [End -> BOOLEAN]
  BY DEF PlaceInv, Types, WorkType, WorkerType
<1>2. GivenUp => GivenUp'
  BY GivenUpStays
<1>3. ASSUME tx_todo_list'[f] # <<>> => tx_todo_list[f] # <<>>, Trying => Trying' PROVE TryInv(f)'
  BY <1>2, <1>3 DEF TryInv
<1>4. ASSUME Trying' PROVE TryInv(f)'
  BY <1>4 DEF TryInv
<1>5. ASSUME UNCHANGED <<tx_todo_list, pc[f], workq[f], timer[f], send_busy[f]>> PROVE TryInv(f)'
  BY <1>3, <1>5
<1>6. ASSUME NEW e \in End, NEW m, Send(e, m), UNCHANGED <<pc[f], send_busy>>, timer'[f] = timer[f] \/ timer'[f]
      PROVE  TryInv(f)'
  <2>1. \A x : Contains(workq'[f], x) <=> Contains(workq[f], x) \/ (f = e /\ x = "tx")
    BY <1>1, <1>6, QueueWorkFacts DEF Send
  <2>2. f # e => tx_todo_list'[f] = tx_todo_list[f]
    BY <1>6 DEF Send, PlaceInv, Types, ListType
  <2>3. CASE f = e
    BY <2>1, <2>3, <1>4
  <2>4. CASE f # e
    BY <2>1, <2>2, <2>4, <1>1, <1>3, <1>6
  <2> QED BY <2>3, <2>4
<1> HIDE DEF Trying
<1>7. ASSUME NEW r \in Req, MsgSend(r) PROVE TryInv(f)'
  BY <1>6, <1>7, HomeFacts DEF MsgSend
<1>8. ASSUME NEW r \in Req, Wait(r) \/ TimeOut(r) \/ Return(r) PROVE TryInv(f)'
  BY <1>5, <1>8 DEF Wait, TimeOut, Return
<1>9. ASSUME NEW r \in Req, Expire(r) PROVE TryInv(f)'
  <2>1. tx_todo_list'[f] # <<>> => tx_todo_list[f] # <<>>
    <3>1. tx_todo_list'[f] = IF f = Side(r) THEN Unlink(tx_todo_list[f], r) ELSE tx_todo_list[f]
      BY <1>9 DEF Expire, PlaceInv, Types, ListType
    <3>2. tx_todo_list[f] = <<>> => Unlink(tx_todo_list[f], r) = <<>>
      BY EmptyFacts DEF Unlink, RemoveFirst, Contains
    <3> QED BY <3>1, <3>2
  <2>2. Trying => Trying'
    BY <1>9 DEF Expire, Trying
  <2> QED BY <1>3, <2>1, <2>2
<1>10. ASSUME NEW e \in End, Start(e) PROVE TryInv(f)'
  <2>1. UNCHANGED <<tx_todo_list, timer, send_busy>>
    BY <1>10 DEF Start
  <2>2. CASE f # e
    BY <1>1, <1>5, <1>10, <2>1, <2>2 DEF Start
  <2>3. CASE f = e
    <3>1. /\ Head(workq[f]) \in {"tx", "rx"} /\ workq'[f] = Tail(workq[f])
          /\ \A x : Contains(workq[f], x) <=> Contains(workq'[f], x) \/ x = Head(workq[f])
          /\ pc[f] = "idle" /\ pc'[f] = IF Head(workq[f]) = "tx" THEN "pick" ELSE "read"
      BY <1>1, <1>10, <2>3, WorkFacts DEF Start
    <3>2. Trying => Trying'
      BY <3>1, <2>1 DEF Trying
    <3> QED BY <1>3, <2>1, <3>2
  <2> QED BY <2>2, <2>3
<1>11. ASSUME NEW e \in End, TxPick(e) PROVE TryInv(f)'
  <2>1. UNCHANGED <<tx_todo_list, timer, send_busy, workq>>
    BY <1>11 DEF TxPick
  <2>2. CASE f # e
    BY <1>1, <1>5, <1>11, <2>1, <2>2 DEF TxPick
  <2>3. CASE f = e /\ tx_todo_list[e] = <<>>
    BY <2>1, <2>3 DEF TryInv
  <2>4. CASE f = e /\ tx_todo_list[e] # <<>>
    BY <1>1, <1>4, <1>11, <2>4 DEF TxPick, Trying
  <2> QED BY <2>2, <2>3, <2>4
<1>12. ASSUME NEW e \in End, TxSend(e) PROVE TryInv(f)'
  <2>1. UNCHANGED <<tx_todo_list, timer>>
    BY <1>12 DEF TxSend
  <2>2. CASE f = e
    BY <1>1, <1>4, <1>12, <2>2 DEF TxSend, Trying
  <2>3. CASE f # e
    <3>1. pc'[f] = pc[f] /\ send_busy'[f] = send_busy[f]
      BY <1>1, <1>12, <2>3 DEF TxSend
    <3>2. Contains(workq[f], "tx") => Contains(workq'[f], "tx")
      BY <1>1, <1>12, QueueWorkFacts, EndFacts DEF TxSend
    <3>3. Trying => Trying'
      BY <2>1, <3>1, <3>2 DEF Trying
    <3> QED BY <1>3, <2>1, <3>3
  <2> QED BY <2>2, <2>3
<1>13. ASSUME NEW e \in End, TxBusy(e) PROVE TryInv(f)'
  <2>1. CASE f = e
    BY <1>1, <1>4, <1>13, <2>1 DEF TxBusy, Trying
  <2>2. CASE f # e
    BY <1>1, <1>5, <1>13, <2>2 DEF TxBusy
  <2> QED BY <2>1, <2>2
<1>14. ASSUME NEW e \in End, TxDrop(e) PROVE TryInv(f)'
  <2>1. GivenUp'
    <3>1. retry_cnt \in [Answers \cup {Bye} -> 0 .. Retries]
      BY DEF PlaceInv, Types, SenderType
    <3>2. cur[e] \in Answers \cup {Bye}
      BY <1>14, TxDropMoves, HomeFacts
    <3>3. retry_cnt' = [retry_cnt EXCEPT ![cur[e]] = 0]
      BY <1>14 DEF TxDrop
    <3>4. cur[e] \in DOMAIN retry_cnt' /\ retry_cnt'[cur[e]] = 0
      BY <3>1, <3>2, <3>3
    <3> QED BY <3>4 DEF GivenUp
  <2> QED BY <2>1 DEF TryInv
<1>15. ASSUME NEW e \in End, TxUnlink(e) \/ TxPend(e) PROVE TryInv(f)'
  <2>1. CASE f = e
    BY <1>1, <1>4, <1>15, <2>1 DEF TxUnlink, TxPend, Trying
  <2>2. CASE f # e
    <3>1. tx_todo_list'[f] = tx_todo_list[f]
      BY <1>15, <2>2 DEF TxUnlink, TxPend, PlaceInv, Types, ListType
    <3>2. Trying => Trying'
      BY <1>1, <1>15, <2>2 DEF TxUnlink, TxPend, Trying
    <3> QED BY <1>3, <3>1, <3>2
  <2> QED BY <2>1, <2>2
<1>16. ASSUME NEW e \in End, RxRead(e) \/ RxEnd(e) PROVE TryInv(f)'
  <2>1. UNCHANGED <<tx_todo_list, send_busy, workq>> /\ (timer[f] => timer'[f])
    BY <1>1, <1>16 DEF RxRead, RxEnd
  <2>2. pc[f] \in {"pick", "send", "unlink", "pend"} => pc'[f] = pc[f]
    BY <1>1, <1>16 DEF RxRead, RxEnd
  <2>3. Trying => Trying'
    BY <2>1, <2>2 DEF Trying
  <2> QED BY <1>3, <2>1, <2>3
<1>17. ASSUME RxMatchVf \/ RxCopyVf \/ RxResponsePf PROVE TryInv(f)'
  <2>1. UNCHANGED <<tx_todo_list, send_busy, workq, timer>>
    BY <1>17 DEF RxMatchVf, RxCopyVf, RxResponsePf
  <2>2. pc[f] \in {"pick", "send", "unlink", "pend"} => pc'[f] = pc[f]
    BY <1>1, <1>17 DEF RxMatchVf, RxCopyVf, RxResponsePf
  <2>3. Trying => Trying'
    BY <2>1, <2>2 DEF Trying
  <2> QED BY <1>3, <2>1, <2>3
<1>18. ASSUME RxDispatchVf \/ RxRequestPf PROVE TryInv(f)'
  <2>1. /\ UNCHANGED <<send_busy, timer>>
        /\ pc[f] \in {"pick", "send", "unlink", "pend"} => pc'[f] = pc[f]
    BY <1>1, <1>18 DEF RxDispatchVf, RxRequestPf
  <2>2. CASE UNCHANGED <<tx_todo_list, workq>>
    <3>1. Trying => Trying'
      BY <2>1, <2>2 DEF Trying
    <3> QED BY <1>3, <2>2, <3>1
  <2>3. ASSUME NEW e \in End, NEW r, Handle(e, r) PROVE TryInv(f)'
    <3>1. \A x : Contains(workq'[f], x) <=> Contains(workq[f], x) \/ (f = e /\ x = "tx")
      BY <1>1, <2>3, QueueWorkFacts DEF Handle, Send
    <3>2. f # e => tx_todo_list'[f] = tx_todo_list[f]
      BY <2>3 DEF Handle, Send, PlaceInv, Types, ListType
    <3>3. CASE f = e
      BY <3>1, <3>3, <1>4 DEF Trying
    <3>4. CASE f # e
      <4>1. Trying => Trying'
        BY <2>1, <3>1 DEF Trying
      <4> QED BY <3>2, <3>4, <4>1, <1>3
    <3> QED BY <3>3, <3>4
  <2> QED BY <2>2, <2>3, <1>18, EndNames DEF RxDispatchVf, RxRequestPf
<1>19. ASSUME NEW e \in End, TimerFire(e) PROVE TryInv(f)'
  <2>1. UNCHANGED <<tx_todo_list, send_busy, pc>>
    BY <1>19 DEF TimerFire
  <2>2. CASE f # e
    <3>1. timer'[f] = timer[f] /\ workq'[f] = workq[f]
      BY <1>1, <1>19, <2>2 DEF TimerFire
    <3> QED BY <2>1, <3>1, <1>5
  <2>3. CASE f = e
    <3> DEFINE polled == IF rx_poll[f] THEN Queued(workq[f], "rx") ELSE workq[f]
    <3>1. workq'[f] = IF send_busy[f] THEN Queued(polled, "tx") ELSE polled
      BY <1>1, <1>19, <2>3 DEF TimerFire
    <3>2. polled \in WorkQ /\ (Contains(workq[f], "tx") => Contains(polled, "tx"))
      BY <1>1, WorkFacts
    <3> HIDE DEF polled
    <3>3. Contains(Queued(polled, "tx"), "tx")
      BY <3>2, WorkFacts
    <3>4. Trying => Trying'
      BY <2>1, <3>1, <3>2, <3>3 DEF Trying
    <3> QED BY <1>3, <2>1, <3>4
  <2> QED BY <2>2, <2>3
<1>20. ASSUME LeaveStop \/ LeaveOff PROVE TryInv(f)'
  <2>1. /\ UNCHANGED <<tx_todo_list, send_busy, pc, workq>> /\ tx_todo_list["vf"] = <<>>
        /\ f # "vf" => timer'[f] = timer[f]
    BY <1>1, <1>20 DEF LeaveStop, LeaveOff, StopDone, TodoEmpty
  <2>2. CASE f = "vf"
    BY <2>1, <2>2 DEF TryInv
  <2>3. CASE f # "vf"
    BY <2>1, <2>3, <1>5
  <2> QED BY <2>2, <2>3
<1>21. ASSUME LeaveBye PROVE TryInv(f)'
  <2>1. UNCHANGED <<pc, send_busy>> /\ (timer'[f] = timer[f] \/ timer'[f])
    BY <1>1, <1>21 DEF LeaveBye
  <2> QED BY <1>6, <1>21, <2>1, EndNames DEF LeaveBye
<1>22. ASSUME UNCHANGED vars PROVE TryInv(f)'
  BY <1>5, <1>22 DEF vars
<1> QED BY <1>7, <1>8, <1>9, <1>10, <1>11, <1>12, <1>13, <1>14, <1>15, <1>16, <1>17, <1>18, <1>19,
           <1>20, <1>21, <1>22 DEF Next, Sender, Worker, Tx, Rx, RxVf, RxPf

LEMMA PollStep ==
  ASSUME PlaceInv, [Next]_vars, NEW f \in End, PollInv(f)
  PROVE  PollInv(f)'
<1>1. /\ pc \in [End -> {"idle", "pick", "send", "unlink", "pend", "read", "match", "dispatch", "copy"}]
      /\ workq \in [End -> WorkQ] /\ timer \in [End -> BOOLEAN] /\ rx_poll \in [End -> BOOLEAN]
  BY DEF PlaceInv, Types, WorkType, WorkerType
<1>2. ASSUME UNCHANGED <<rx_poll, leaving>>, timer[f] => timer'[f],
             pc[f] \in {"read", "match", "dispatch", "copy"} => pc'[f] \in {"read", "match", "dispatch", "copy"},
             Contains(workq[f], "rx") => Contains(workq'[f], "rx")
      PROVE  PollInv(f)'
  BY <1>2 DEF PollInv
<1>3. ASSUME NEW e \in End, NEW w \in {"tx", "rx"}, QueueWork(e, w)
      PROVE  Contains(workq[f], "rx") => Contains(workq'[f], "rx")
  BY <1>1, <1>3, QueueWorkFacts
<1>4. ASSUME NEW r \in Req, MsgSend(r) PROVE PollInv(f)'
  BY <1>2, <1>3, <1>4, HomeFacts DEF MsgSend, Send
<1>5. ASSUME NEW r \in Req, Wait(r) \/ TimeOut(r) \/ Return(r) \/ Expire(r) PROVE PollInv(f)'
  BY <1>2, <1>5 DEF Wait, TimeOut, Return, Expire
<1>6. ASSUME NEW e \in End, Start(e) PROVE PollInv(f)'
  <2>1. UNCHANGED <<rx_poll, leaving, timer>>
    BY <1>6 DEF Start
  <2>2. CASE f # e
    BY <1>1, <1>2, <1>6, <2>1, <2>2 DEF Start
  <2>3. CASE f = e
    <3>1. /\ Head(workq[f]) \in {"tx", "rx"} /\ workq'[f] = Tail(workq[f])
          /\ \A x : Contains(workq[f], x) <=> Contains(workq'[f], x) \/ x = Head(workq[f])
          /\ pc[f] = "idle" /\ pc'[f] = IF Head(workq[f]) = "tx" THEN "pick" ELSE "read"
      BY <1>1, <1>6, <2>3, WorkFacts DEF Start
    <3> QED BY <2>1, <3>1 DEF PollInv
  <2> QED BY <2>2, <2>3
<1>7. ASSUME NEW e \in End, TxPick(e) \/ TxDrop(e) \/ TxUnlink(e) \/ TxPend(e) \/ RxRead(e) PROVE PollInv(f)'
  BY <1>1, <1>2, <1>7 DEF TxPick, TxDrop, TxUnlink, TxPend, RxRead
<1>8. ASSUME NEW e \in End, TxSend(e) PROVE PollInv(f)'
  <2>1. UNCHANGED <<rx_poll, leaving, timer>> /\ pc[e] = "send" /\ pc' = [pc EXCEPT ![e] = "unlink"]
    BY <1>8 DEF TxSend
  <2>2. Contains(workq[f], "rx") => Contains(workq'[f], "rx")
    BY <1>1, <1>3, <1>8, EndFacts DEF TxSend
  <2> QED BY <1>1, <1>2, <2>1, <2>2
<1>9. ASSUME NEW e \in End, TxBusy(e) PROVE PollInv(f)'
  BY <1>1, <1>2, <1>9 DEF TxBusy
<1>10. ASSUME NEW e \in End, RxEnd(e) PROVE PollInv(f)'
  <2>1. CASE f # e
    BY <1>1, <1>2, <1>10, <2>1 DEF RxEnd
  <2>2. CASE f = e
    BY <1>1, <1>10, <2>2 DEF RxEnd, PollInv
  <2> QED BY <2>1, <2>2
<1>11. ASSUME RxMatchVf \/ RxCopyVf \/ RxResponsePf PROVE PollInv(f)'
  BY <1>1, <1>2, <1>11 DEF RxMatchVf, RxCopyVf, RxResponsePf
<1>12. ASSUME RxDispatchVf \/ RxRequestPf PROVE PollInv(f)'
  <2>1. UNCHANGED <<rx_poll, leaving, timer>>
        /\ (pc[f] \in {"read", "match", "dispatch", "copy"} => pc'[f] \in {"read", "match", "dispatch", "copy"})
    BY <1>1, <1>12 DEF RxDispatchVf, RxRequestPf
  <2>2. Contains(workq[f], "rx") => Contains(workq'[f], "rx")
    BY <1>3, <1>12, EndNames DEF RxDispatchVf, RxRequestPf, Handle, Send
  <2> QED BY <1>2, <2>1, <2>2
<1>13. ASSUME NEW e \in End, TimerFire(e) PROVE PollInv(f)'
  <2>1. UNCHANGED <<rx_poll, leaving, pc>>
    BY <1>13 DEF TimerFire
  <2>2. CASE f # e
    BY <1>1, <1>2, <1>13, <2>1, <2>2 DEF TimerFire
  <2>3. CASE f = e
    <3> DEFINE polled == IF rx_poll[f] THEN Queued(workq[f], "rx") ELSE workq[f]
    <3>1. workq'[f] = IF send_busy[f] THEN Queued(polled, "tx") ELSE polled
      BY <1>1, <1>13, <2>3 DEF TimerFire
    <3>2. polled \in WorkQ /\ (rx_poll[f] => Contains(polled, "rx"))
      BY <1>1, WorkFacts
    <3> HIDE DEF polled
    <3>3. rx_poll[f] => Contains(workq'[f], "rx")
      BY <3>1, <3>2, WorkFacts
    <3> QED BY <2>1, <3>3 DEF PollInv
  <2> QED BY <2>2, <2>3
<1>14. ASSUME LeaveStop \/ LeaveOff PROVE PollInv(f)'
  <2>1. UNCHANGED <<rx_poll, pc, workq>> /\ leaving' \in {"stop", "off"}
    BY <1>14 DEF LeaveStop, LeaveOff
  <2>2. CASE f = "vf"
    BY <2>1, <2>2 DEF PollInv
  <2>3. CASE f # "vf"
    <3>1. timer'[f] = timer[f]
      BY <1>1, <1>14, <2>3 DEF LeaveStop, LeaveOff
    <3> QED BY <2>1, <2>3, <3>1 DEF PollInv
  <2> QED BY <2>2, <2>3
<1>15. ASSUME LeaveBye PROVE PollInv(f)'
  <2>1. CASE f = "vf"
    BY <1>1, <1>15, <2>1 DEF LeaveBye, PollInv
  <2>2. CASE f # "vf"
    <3>1. rx_poll'[f] = rx_poll[f] /\ timer'[f] = timer[f] /\ pc' = pc
      BY <1>1, <1>15, <2>2 DEF LeaveBye
    <3>2. Contains(workq[f], "rx") => Contains(workq'[f], "rx")
      BY <1>3, <1>15, EndNames DEF LeaveBye, Send
    <3> QED BY <2>2, <3>1, <3>2 DEF PollInv
  <2> QED BY <2>1, <2>2
<1>16. ASSUME UNCHANGED vars PROVE PollInv(f)'
  BY <1>16 DEF vars, PollInv
<1> QED BY <1>4, <1>5, <1>6, <1>7, <1>8, <1>9, <1>10, <1>11, <1>12, <1>13, <1>14, <1>15, <1>16
        DEF Next, Sender, Worker, Tx, Rx, RxVf, RxPf

-----------------------------------------------------------------------------
(* What keeps the link going, for every behaviour.                         *)

LinkInv ==
  /\ PlaceInv /\ MarkInv
  /\ \A r \in Req : LiveInv(r)
  /\ \A e \in End : TryInv(e) /\ PollInv(e)

LEMMA InitLink == Init => LinkInv
<1> SUFFICES ASSUME Init PROVE LinkInv
  OBVIOUS
<1>1. MarkInv
  BY InitFacts, EndNames DEF MarkInv
<1>2. ASSUME NEW r \in Req PROVE LiveInv(r)
  BY InitFacts DEF LiveInv
<1>3. ASSUME NEW e \in End PROVE TryInv(e) /\ PollInv(e)
  BY InitFacts DEF TryInv, PollInv
<1> QED BY <1>1, <1>2, <1>3, InitPlaces DEF LinkInv

LEMMA StepLink == LinkInv /\ [Next]_vars => LinkInv'
BY StepPlaces, MarkStep, LiveStep, TryStep, PollStep DEF LinkInv

LEMMA TypesOK == Types => TypeOK
<1> SUFFICES ASSUME Types PROVE TypeOK
  OBVIOUS
<1>1. ASSUME NEW e \in End
      PROVE  /\ Range(tx_todo_list[e]) \subseteq {m \in Msg : Home(m) = e}
             /\ Range(rx_pend_list[e]) \subseteq {r \in Req : Side(r) = e}
             /\ workq[e] \in {<<>>, <<"tx">>, <<"rx">>, <<"tx", "rx">>, <<"rx", "tx">>}
  <2>1. /\ tx_todo_list[e] \in Seq(Msg) /\ rx_pend_list[e] \in Seq(Msg)
        /\ \A m : Contains(tx_todo_list[e], m) => m \in Msg /\ Home(m) = e
        /\ \A m : Contains(rx_pend_list[e], m) => m \in Req /\ Home(m) = e
    BY DEF Types, ListType
  <2>2. \A s \in Seq(Msg) : \A m : m \in Range(s) <=> Contains(s, m)
    BY DEF Range, Contains
  <2>3. workq[e] \in {<<>>, <<"tx">>, <<"rx">>, <<"tx", "rx">>, <<"rx", "tx">>}
    BY DEF Types, WorkType, WorkQ
  <2> QED BY <2>1, <2>2, <2>3, HomeFacts
<1> QED BY <1>1 DEF Types, WorkType, WorkerType, SenderType, TypeOK

\* How often a message stands on a list in which nothing stands twice.
LEMMA OccurrencesFacts ==
  ASSUME NEW s \in Seq(Msg), NoDup(s), NEW m
  PROVE  Occurrences(m, s) = IF Contains(s, m) THEN 1 ELSE 0
<1> DEFINE at == {i \in DOMAIN s : s[i] = m}
<1>1. DOMAIN s = 1..Len(s)
  OBVIOUS
<1>2. CASE Contains(s, m)
  <2>1. PICK k \in 1..Len(s) : s[k] = m
    BY <1>2 DEF Contains
  <2>2. at = {k}
    BY <1>1, <2>1 DEF NoDup
  <2> HIDE DEF at
  <2>3. Cardinality(at) = 1
    BY <2>2, FS_Singleton
  <2> QED BY <2>3, <1>2 DEF Occurrences, at
<1>3. CASE ~Contains(s, m)
  <2>1. at = {}
    BY <1>1, <1>3 DEF Contains
  <2> HIDE DEF at
  <2>2. Cardinality(at) = 0
    BY <2>1, FS_EmptySet
  <2> QED BY <2>2, <1>3 DEF Occurrences, at
<1> QED BY <1>2, <1>3

LEMMA LinkImplies == LinkInv => LinkOK
<1> SUFFICES ASSUME LinkInv PROVE LinkOK
  OBVIOUS
<1>1. TypeOK
  BY TypesOK DEF LinkInv, PlaceInv
<1>2. OnePlace
  <2> SUFFICES ASSUME NEW e \in End, NEW r \in Req, Side(r) = e, stage[r] \in {"asleep", "late"}, ~resp_op_matched[r]
               PROVE  Occurrences(r, tx_todo_list[e]) + Occurrences(r, rx_pend_list[e])
                        + (IF pc[e] = "pend" /\ cur[e] = r THEN 1 ELSE 0) = 1
    BY DEF OnePlace
  <2>1. Home(r) = e
    BY HomeFacts
  <2>2. /\ Occurrences(r, tx_todo_list[e]) = IF Listed(r) THEN 1 ELSE 0
        /\ Occurrences(r, rx_pend_list[e]) = IF Pending(r) THEN 1 ELSE 0
    BY <2>1, OccurrencesFacts DEF LinkInv, PlaceInv, Types, ListType, EndInv, Listed, Pending
  <2>3. Listed(r) \/ InHand(r) \/ Pending(r)
    BY DEF LinkInv, LiveInv
  <2>4. ReqInv(r)
    BY DEF LinkInv, PlaceInv
  <2> QED BY <2>1, <2>2, <2>3, <2>4 DEF ReqInv, InHand
<1>3. NoStrandedMessage
  BY DEF LinkInv, TryInv, NoStrandedMessage
<1>4. PollGoesOn
  BY DEF LinkInv, PollInv, PollGoesOn
<1> QED BY <1>1, <1>2, <1>3, <1>4 DEF LinkOK

\* The two ends of the mailbox keep what they hold moving: every variable has
\* its type, a request whose sender waits is in one place, a message to be sent has
\* something that will send it, and polling goes on.
THEOREM LinkStays == Spec => []LinkOK
<1>1. Init => LinkInv
  BY InitLink
<1>2. LinkInv /\ [Next]_vars => LinkInv'
  BY StepLink
<1>3. LinkInv => LinkOK
  BY LinkImplies
<1> QED BY <1>1, <1>2, <1>3, PTL DEF Spec

-----------------------------------------------------------------------------
(* The bye.                                                                *)

LEMMA ByeStep ==
  ASSUME PlaceInv, ByeInv, [Next]_vars
  PROVE  ByeInv'
<1> USE DEF ByeRead
<1> DEFINE Going == Waits(Bye) \/ InSlot(Bye) \/ ByeRead
<1>1. /\ Bye \in Msg /\ Bye \notin Req /\ Bye \notin Answers /\ Home(Bye) = "vf" /\ MsgInv(Bye)
      /\ handled[Bye] \in {0, 1} /\ handled \in [Req \cup {Bye} -> Nat]
  BY HomeFacts DEF PlaceInv, MsgInv, Types, SenderType
<1>2. ASSUME UNCHANGED <<slow_peer, leaving>>, Going => Going', ByeRead => ByeRead' PROVE ByeInv'
  BY <1>2 DEF ByeInv
<1>3. ASSUME UNCHANGED <<slow_peer, leaving>>, Keeps(Bye), handled'[Bye] = handled[Bye]
      PROVE  ByeInv'
  BY <1>3 DEF ByeInv, Keeps
<1>4. ASSUME NEW r \in Req, MsgSend(r) PROVE ByeInv'
  BY <1>1, <1>3, <1>4, MsgSendMoves DEF MsgSend
<1>5. ASSUME NEW r \in Req, Wait(r) \/ TimeOut(r) \/ Return(r) PROVE ByeInv'
  <2>1. Keeps(Bye)
    BY <1>1, <1>5, QuietMoves DEF Quiet
  <2> QED BY <2>1, <1>3, <1>5 DEF Wait, TimeOut, Return
<1>6. ASSUME NEW r \in Req, Expire(r) PROVE ByeInv'
  BY <1>1, <1>3, <1>6, ExpireMoves DEF Expire
<1>7. ASSUME NEW e \in End, Start(e) \/ RxEnd(e) \/ TimerFire(e) PROVE ByeInv'
  <2>1. Keeps(Bye)
    BY <1>1, <1>7, QuietMoves DEF Quiet
  <2> QED BY <2>1, <1>3, <1>7 DEF Start, RxEnd, TimerFire
<1>8. ASSUME NEW e \in End, TxPick(e) PROVE ByeInv'
  <2>1. UNCHANGED <<slow_peer, leaving, handled>>
    BY <1>8 DEF TxPick
  <2>2. PICK c : c = Head(tx_todo_list[e])
    OBVIOUS
  <2>3. CASE tx_todo_list[e] = <<>> \/ c # Bye
    BY <1>1, <1>3, <1>8, <2>1, <2>2, <2>3, TxPickMoves
  <2>4. CASE tx_todo_list[e] # <<>> /\ c = Bye
    BY <1>2, <1>8, <2>1, <2>2, <2>4, TxPickMoves
  <2> QED BY <2>3, <2>4
<1>9. ASSUME NEW e \in End, TxSend(e) PROVE ByeInv'
  <2>1. UNCHANGED <<slow_peer, leaving, handled>>
    BY <1>9 DEF TxSend
  <2>2. PICK c : c = cur[e]
    OBVIOUS
  <2>3. CASE c # Bye
    BY <1>1, <1>3, <1>9, <2>1, <2>2, <2>3, TxSendMoves
  <2>4. CASE c = Bye
    BY <1>2, <1>9, <2>1, <2>2, <2>4, TxSendMoves
  <2> QED BY <2>3, <2>4
<1>10. ASSUME NEW e \in End, TxBusy(e) PROVE ByeInv'
  <2>1. UNCHANGED <<slow_peer, leaving, handled>>
    BY <1>10 DEF TxBusy
  <2>2. PICK c : c = cur[e]
    OBVIOUS
  <2>3. CASE c # Bye
    BY <1>1, <1>3, <1>10, <2>1, <2>2, <2>3, TxBusyMoves
  <2>4. CASE c = Bye
    <3>1. Listed(Bye)' /\ ~Sent(Bye)'
      BY <1>1, <1>10, <2>2, <2>4, TxBusyMoves DEF First, Listed, AtSend, Sent
    <3>2. ByeRead => ByeRead'
      BY <1>1, <1>10, <2>1, <2>2, <2>4, TxBusyMoves
    <3> QED BY <1>2, <2>1, <3>1, <3>2
  <2> QED BY <2>3, <2>4
<1>11. ASSUME NEW e \in End, TxDrop(e) PROVE ByeInv'
  <2>1. slow_peer' = slow_peer /\ slow_peer
    BY <1>11 DEF TxDrop, LastTry
  <2> QED BY <2>1 DEF ByeInv
<1>12. ASSUME NEW e \in End, TxUnlink(e) PROVE ByeInv'
  <2>1. UNCHANGED <<slow_peer, leaving, handled>>
    BY <1>12 DEF TxUnlink
  <2>2. PICK c : c = cur[e]
    OBVIOUS
  <2>3. CASE c # Bye
    BY <1>1, <1>3, <1>12, <2>1, <2>2, <2>3, TxUnlinkMoves
  <2>4. CASE c = Bye
    BY <1>2, <1>12, <2>1, <2>2, <2>4, TxUnlinkMoves
  <2> QED BY <2>3, <2>4
<1>13. ASSUME NEW e \in End, TxPend(e) PROVE ByeInv'
  <2>1. UNCHANGED <<slow_peer, leaving, handled>>
    BY <1>13 DEF TxPend
  <2>2. cur[e] # Bye
    BY <1>1, <1>13, TxPendMoves
  <2> QED BY <1>1, <1>3, <1>13, <2>1, <2>2, TxPendMoves
<1>14. ASSUME NEW e \in End, RxRead(e) PROVE ByeInv'
  <2>1. UNCHANGED <<slow_peer, leaving, handled>>
    BY <1>14 DEF RxRead
  <2>2. PICK c : c = slot[Peer(e)]
    OBVIOUS
  <2>3. CASE c # Bye
    BY <1>1, <1>3, <1>14, <2>1, <2>2, <2>3, RxReadMoves
  <2>4. CASE c = Bye
    BY <1>2, <1>14, <2>1, <2>2, <2>4, RxReadMoves
  <2> QED BY <2>3, <2>4
<1>15. ASSUME RxMatchVf PROVE ByeInv'
  <2>1. Keeps(Bye)
    BY <1>1, <1>15, QuietMoves DEF Quiet
  <2> QED BY <2>1, <1>3, <1>15 DEF RxMatchVf
<1>16. ASSUME RxDispatchVf PROVE ByeInv'
  <2>1. UNCHANGED <<slow_peer, leaving>>
    BY <1>16 DEF RxDispatchVf
  <2>2. PICK c, a : c = rx["vf"] /\ a = Answer(c)
    OBVIOUS
  <2>3. c # Bye /\ (c \in PfReq => a # Bye)
    BY <1>1, <1>16, <2>2, RxDispatchVfMoves, HomeFacts, EndNames
  <2>4. handled'[Bye] = handled[Bye]
    BY <1>1, <1>16, <2>2, HomeFacts DEF RxDispatchVf, Handle
  <2> QED BY <1>1, <1>3, <1>16, <2>1, <2>2, <2>3, <2>4, RxDispatchVfMoves
<1>17. ASSUME RxCopyVf PROVE ByeInv'
  <2>1. UNCHANGED <<slow_peer, leaving, handled>>
    BY <1>17 DEF RxCopyVf
  <2>2. rx["vf"] # Bye /\ cur["vf"] # Bye
    BY <1>1, <1>17, RxCopyVfMoves
  <2> QED BY <1>1, <1>3, <1>17, <2>1, <2>2, RxCopyVfMoves
<1>18. ASSUME RxRequestPf PROVE ByeInv'
  <2>1. UNCHANGED <<slow_peer, leaving>>
    BY <1>18 DEF RxRequestPf
  <2>2. PICK c, a : c = rx["pf"] /\ a = Answer(c)
    OBVIOUS
  <2>3. CASE c = Bye
    <3>1. InRx(Bye)
      BY <1>18, <2>2, <2>3, RxRequestPfMoves
    <3>2. handled[Bye] = 0
      BY <1>1, <3>1 DEF MsgInv
    <3>3. handled'[Bye] = 1
      BY <1>1, <1>18, <2>2, <2>3, <3>2 DEF RxRequestPf
    <3> QED BY <1>2, <2>1, <3>3
  <2>4. CASE c # Bye
    <3>1. c \in VfReq /\ a # Bye
      BY <1>18, <2>2, <2>4, RxRequestPfMoves, HomeFacts
    <3>2. handled'[Bye] = handled[Bye]
      BY <1>1, <1>18, <2>2, <2>4, <3>1, HomeFacts DEF RxRequestPf, Handle
    <3> QED BY <1>1, <1>3, <1>18, <2>1, <2>2, <2>4, <3>1, <3>2, RxRequestPfMoves
  <2> QED BY <2>3, <2>4
<1>19. ASSUME RxResponsePf PROVE ByeInv'
  <2>1. UNCHANGED <<slow_peer, leaving, handled>>
    BY <1>19 DEF RxResponsePf
  <2>2. PICK c, r : c = rx["pf"] /\ r = FirstMatch("pf")
    OBVIOUS
  <2>3. c # Bye /\ r # Bye
    BY <1>1, <1>19, <2>2, RxResponsePfMoves, HomeFacts
  <2> QED BY <1>1, <1>3, <1>19, <2>1, <2>2, <2>3, RxResponsePfMoves
<1>20. ASSUME LeaveStop PROVE ByeInv'
  BY <1>20 DEF LeaveStop, ByeInv
<1>21. ASSUME LeaveBye PROVE ByeInv'
  BY <1>21, LeaveByeMoves DEF ByeInv, LeaveBye
<1>22. ASSUME LeaveOff PROVE ByeInv'
  <2>1. Keeps(Bye)
    BY <1>1, <1>22, QuietMoves DEF Quiet
  <2>2. leaving = "bye" /\ UNCHANGED <<slow_peer, handled>> /\ tx_todo_list["vf"] = <<>>
        /\ (~slow_peer => slot["vf"] = Nil)
    BY <1>22 DEF LeaveOff, StopDone, TodoEmpty, Acknowledged
  <2>3. ~Waits(Bye) /\ (~slow_peer => ~InSlot(Bye))
    <3>1. ~Listed(Bye)
      BY <1>1, <2>2, EmptyFacts DEF Listed
    <3>2. EndInv("vf")
      BY EndNames DEF PlaceInv
    <3>3. ~AtSend(Bye)
      BY <1>1, <3>1, <3>2 DEF AtSend, Listed, EndInv, First
    <3> QED BY <1>1, <2>2, <3>1, <3>3, HomeFacts DEF InSlot
  <2> QED BY <2>1, <2>2, <2>3 DEF ByeInv, Keeps
<1>23. ASSUME UNCHANGED vars PROVE ByeInv'
  BY <1>23 DEF vars, ByeInv, Listed, AtSend, Sent, InSlot, InRx
<1> QED BY <1>4, <1>5, <1>6, <1>7, <1>8, <1>9, <1>10, <1>11, <1>12, <1>13, <1>14, <1>15, <1>16,
           <1>17, <1>18, <1>19, <1>20, <1>21, <1>22, <1>23 DEF Next, Sender, Worker, Tx, Rx, RxVf, RxPf

\* A virtual function is gone only after its parent read its bye: stopping
\* twice, the second time after the bye, is enough when no message is given up.
THEOREM ByeStays == Spec => []ByeNotLost
<1>1. Init => PlaceInv /\ ByeInv
  BY InitPlaces, InitFacts DEF ByeInv
<1>2. (PlaceInv /\ ByeInv) /\ [Next]_vars => (PlaceInv /\ ByeInv)'
  BY StepPlaces, ByeStep
<1>3. PlaceInv /\ ByeInv => ByeNotLost
  <2> SUFFICES ASSUME PlaceInv, ByeInv, leaving = "off", ~slow_peer
               PROVE  rx["pf"] = Bye \/ handled[Bye] = 1
    BY DEF ByeNotLost
  <2> QED BY HomeFacts, EndNames DEF ByeInv, ByeRead, InRx
<1> QED BY <1>1, <1>2, <1>3, PTL DEF Spec

-----------------------------------------------------------------------------
(* Requests whose sender may leave at any time.                            *)

Over == {"ok", "failed"}

\* matched by the worker of the virtual function, not yet off the list
Matched(r) == pc["vf"] \in {"dispatch", "copy"} /\ cur["vf"] = r

\* The worker of the virtual function matches a response with a request of its own.
HeldInv == pc["vf"] \in {"dispatch", "copy"} /\ cur["vf"] # Nil => cur["vf"] \in VfReq

\* no list and no worker has the request
Gone(r) == ~Listed(r) /\ ~AtSend(r) /\ ~Sent(r) /\ ~InHand(r) /\ ~Pending(r) /\ ~Matched(r)

\* A sender is told of a response that the worker has matched; the worker then
\* has the request in its hand or has copied the response.  A request that is
\* over is gone, unless its sender was in a hurry.
AliveInv(r) ==
  /\ r \in hurried => stage[r] \in Over
  /\ stage[r] \in {"awake", "ok"} => resp_op_matched[r]
  /\ resp_op_matched[r] => /\ ~Fresh(r) /\ ~Listed(r) /\ ~AtSend(r) /\ ~Sent(r) /\ ~InHand(r)
                           /\ Pending(r) => Matched(r)
                           /\ raw[r] # r \/ Matched(r) \/ stage[r] \in Over
  /\ Matched(r) => resp_op_matched[r] /\ (Pending(r) \/ r \in hurried)
  /\ stage[r] \in Over => r \in hurried \/ Gone(r)
  /\ r \in freed => (r \in VfReq /\ stage[r] \in Over) \/ (r \in PfReq /\ raw[r] # r)

-----------------------------------------------------------------------------
(* What the worker of the virtual function holds.                          *)

USE DEF mode, lists, work, worker, senders, memory, Waits

LEMMA HeldIs ==
  ASSUME PlaceInv, NEW r \in Req
  PROVE  Held(r) <=> AtSend(r) \/ Sent(r) \/ InHand(r) \/ (Matched(r) /\ Home(r) = "vf")
<1>1. Side(r) = Home(r) /\ Home(r) \in End
  BY HomeFacts
<1>2. pc["pf"] \notin {"dispatch", "copy"}
  BY EndNames DEF PlaceInv, EndInv
<1>3. Home(r) = "vf" \/ Home(r) = "pf"
  BY <1>1 DEF End
<1> QED BY <1>1, <1>2, <1>3 DEF Held, AtSend, Sent, InHand, Matched

LEMMA HeldStep ==
  ASSUME PlaceInv, HeldInv, [Next]_vars
  PROVE  HeldInv'
<1>1. /\ pc \in [End -> {"idle", "pick", "send", "unlink", "pend", "read", "match", "dispatch", "copy"}]
      /\ cur \in [End -> Msg \cup {Nil}] /\ "vf" \in End /\ "pf" \in End
  BY EndNames DEF PlaceInv, Types, WorkerType
<1>2. ASSUME UNCHANGED <<pc["vf"], cur["vf"]>> PROVE HeldInv'
  BY <1>2 DEF HeldInv
<1>3. ASSUME pc'["vf"] \notin {"dispatch", "copy"} PROVE HeldInv'
  BY <1>3 DEF HeldInv
<1>4. ASSUME NEW r \in Req, Sender(r) PROVE HeldInv'
  BY <1>2, <1>4 DEF Sender, MsgSend, Wait, TimeOut, Return, Expire
<1>6. ASSUME NEW e \in End, Start(e) \/ TxPick(e) PROVE HeldInv'
  BY <1>1, <1>2, <1>3, <1>6 DEF Start, TxPick
<1>7. ASSUME NEW e \in End, TxSend(e) \/ TxBusy(e) \/ TxDrop(e) \/ TxUnlink(e) PROVE HeldInv'
  BY <1>1, <1>2, <1>3, <1>7 DEF TxSend, TxBusy, TxDrop, TxUnlink
<1>8. ASSUME NEW e \in End, TxPend(e) PROVE HeldInv'
  BY <1>1, <1>2, <1>3, <1>8 DEF TxPend
<1>9. ASSUME NEW e \in End, RxRead(e) \/ RxEnd(e) PROVE HeldInv'
  BY <1>1, <1>2, <1>3, <1>9 DEF RxRead, RxEnd
<1>10. ASSUME RxMatchVf PROVE HeldInv'
  <2>1. cur'["vf"] = FirstMatch("vf")
    BY <1>1, <1>10 DEF RxMatchVf
  <2>2. FirstMatch("vf") # Nil => FirstMatch("vf") \in VfReq
    BY FirstMatchFacts, HomeFacts, EndNames
  <2> QED BY <2>1, <2>2 DEF HeldInv
<1>11. ASSUME RxDispatchVf PROVE HeldInv'
  BY <1>1, <1>11 DEF RxDispatchVf, HeldInv
<1>12. ASSUME RxCopyVf PROVE HeldInv'
  BY <1>1, <1>3, <1>12 DEF RxCopyVf
<1>13. ASSUME RxRequestPf \/ RxResponsePf PROVE HeldInv'
  BY <1>1, <1>2, <1>13 DEF RxRequestPf, RxResponsePf
<1>15. ASSUME NEW e \in End, TimerFire(e) PROVE HeldInv'
  BY <1>2, <1>15 DEF TimerFire
<1>16. ASSUME LeaveStop \/ LeaveBye \/ LeaveOff \/ UNCHANGED vars PROVE HeldInv'
  BY <1>2, <1>16 DEF LeaveStop, LeaveBye, LeaveOff, vars
<1> QED BY <1>4, <1>6, <1>7, <1>8, <1>9, <1>10, <1>11, <1>12, <1>13, <1>15, <1>16
        DEF Next, Worker, Tx, Rx, RxVf, RxPf


-----------------------------------------------------------------------------
(* Memory.                                                                 *)

LEMMA AliveStep ==
  ASSUME PlaceInv, HeldInv, [Next]_vars, NEW q \in Req, AliveInv(q)
  PROVE  AliveInv(q)'
<1>1. /\ pc \in [End -> {"idle", "pick", "send", "unlink", "pend", "read", "match", "dispatch", "copy"}]
      /\ stage \in [Req -> {"new", "queued", "asleep", "awake", "late", "ok", "failed"}]
      /\ resp_op_matched \in [Req -> BOOLEAN] /\ raw \in [Req -> Msg] /\ cur \in [End -> Msg \cup {Nil}]
      /\ q \in Req /\ q \in Msg /\ q \notin Answers /\ q # Bye /\ Home(q) \in End
      /\ "vf" \in End /\ "pf" \in End /\ ReqInv(q) /\ q # Nil
  BY HomeFacts, EndNames DEF PlaceInv, Types, WorkerType, SenderType
<1> DEFINE Same == /\ UNCHANGED <<stage[q], resp_op_matched[q], raw[q]>>
                   /\ q \in freed' => q \in freed
                   /\ q \in hurried' <=> q \in hurried
                   /\ Matched(q)' <=> Matched(q)
           Calm == /\ Listed(q)' <=> Listed(q)
                   /\ AtSend(q)' <=> AtSend(q)
                   /\ Sent(q)' <=> Sent(q)
                   /\ InHand(q)' <=> InHand(q)
                   /\ Pending(q)' <=> Pending(q)
                   /\ Fresh(q)' <=> Fresh(q)
<1>2. ASSUME Calm, Same PROVE AliveInv(q)'
  BY <1>2 DEF AliveInv, Gone
<1>3. ASSUME Same, Listed(q) \/ AtSend(q) \/ Sent(q) \/ InHand(q) PROVE AliveInv(q)'
  BY <1>3 DEF AliveInv, Gone
<1>4. ASSUME Keeps(q) PROVE Calm
  BY <1>4 DEF Keeps
<1>5. ASSUME UNCHANGED <<stage, resp_op_matched, raw, freed, hurried, pc["vf"], cur["vf"]>> PROVE Same
  BY <1>5 DEF Matched
<1>6. ASSUME UNCHANGED <<stage, resp_op_matched, raw, freed, hurried>>,
             pc["vf"] \notin {"dispatch", "copy"}, pc'["vf"] \notin {"dispatch", "copy"} PROVE Same
  BY <1>6 DEF Matched
<1> HIDE DEF Same, Calm
<1>7. ASSUME NEW r \in Req, MsgSend(r) PROVE AliveInv(q)'
  <2>1. /\ stage[r] = "new" /\ stage' = [stage EXCEPT ![r] = "queued"]
        /\ UNCHANGED <<resp_op_matched, raw, freed, hurried, pc, cur>>
    BY <1>7 DEF MsgSend
  <2>2. CASE q # r
    <3>1. Keeps(q)
      BY <1>1, <1>7, <2>2, MsgSendMoves
    <3>2. Same
      BY <1>1, <2>1, <2>2 DEF Same, Matched
    <3> QED BY <1>2, <1>4, <3>1, <3>2
  <2>3. CASE q = r
    <3>1. stage[q] = "new" /\ stage'[q] = "queued"
      BY <1>1, <2>1, <2>3
    <3>2. UNCHANGED Matched(q)
      BY <2>1 DEF Matched
    <3>3. Fresh(q)
      BY <1>1, <3>1 DEF Fresh
    <3> QED BY <1>1, <2>1, <3>1, <3>2, <3>3 DEF AliveInv, Over
  <2> QED BY <2>2, <2>3
<1>8. ASSUME NEW r \in Req, Wait(r) \/ TimeOut(r) PROVE AliveInv(q)'
  <2>1. Keeps(q)
    BY <1>1, <1>8, QuietMoves DEF Quiet
  <2>2. UNCHANGED <<resp_op_matched, raw, freed, hurried, pc, cur>>
    BY <1>8 DEF Wait, TimeOut
  <2>3. CASE q # r
    <3>1. stage'[q] = stage[q]
      BY <1>1, <1>8, <2>3 DEF Wait, TimeOut
    <3>2. Same
      BY <2>2, <3>1 DEF Same, Matched
    <3> QED BY <1>2, <1>4, <2>1, <3>2
  <2>4. CASE q = r
    <3>1. /\ stage[q] \notin Over /\ stage'[q] \notin Over
          /\ stage'[q] = "awake" => resp_op_matched[q]
          /\ stage'[q] # "ok"
      BY <1>1, <1>8, <2>4 DEF Wait, TimeOut, Reads, Over
    <3>2. UNCHANGED Matched(q)
      BY <2>2 DEF Matched
    <3> QED BY <2>1, <2>2, <3>1, <3>2 DEF AliveInv, Keeps
  <2> QED BY <2>3, <2>4
<1>9. ASSUME NEW r \in Req, Return(r) PROVE AliveInv(q)'
  <2>1. Keeps(q)
    BY <1>1, <1>9, QuietMoves DEF Quiet
  <2>2. /\ stage[r] = "awake" /\ UNCHANGED <<resp_op_matched, raw, pc, cur>>
        /\ freed' = freed \cup (IF r \in VfReq THEN {r} ELSE {})
        /\ hurried' = hurried \cup (IF Held(r) THEN {r} ELSE {})
        /\ \E x \in Over : stage' = [stage EXCEPT ![r] = x]
    BY <1>9 DEF Return, Release, Hurry, Over
  <2>3. CASE q # r
    <3>1. Same
      BY <1>1, <2>2, <2>3 DEF Same, Matched
    <3> QED BY <1>2, <1>4, <2>1, <3>1
  <2>4. CASE q = r
    <3>1. stage[q] = "awake" /\ stage'[q] \in Over /\ resp_op_matched[q] /\ resp_op_matched'[q]
      BY <1>1, <2>2, <2>4 DEF AliveInv
    <3>2. (Matched(q)' <=> Matched(q)) /\ (Matched(q) => Home(q) = "vf")
      BY <1>1, <2>2, HomeFacts DEF Matched, HeldInv
    <3>3. q \in hurried' <=> (q \in hurried \/ Held(q))
      BY <2>2, <2>4
    <3>4. q \in freed' => q \in freed \/ q \in VfReq
      BY <2>2, <2>4
    <3>5. /\ ~Fresh(q)' /\ ~Listed(q)' /\ ~AtSend(q)' /\ ~Sent(q)' /\ ~InHand(q)'
          /\ Pending(q)' => Matched(q)
      BY <2>1, <3>1 DEF AliveInv, Keeps
    <3>6. Matched(q) => Held(q)
      BY <3>2, HeldIs
    <3> QED BY <2>2, <3>1, <3>2, <3>3, <3>4, <3>5, <3>6 DEF AliveInv, Gone
  <2> QED BY <2>3, <2>4
<1>10. ASSUME NEW r \in Req, Expire(r) PROVE AliveInv(q)'
  <2>1. /\ stage[r] = "late" /\ stage' = [stage EXCEPT ![r] = "failed"]
        /\ UNCHANGED <<resp_op_matched, raw, pc, cur>>
        /\ freed' = freed \cup (IF r \in VfReq THEN {r} ELSE {})
        /\ hurried' = hurried \cup (IF Held(r) \/ resp_op_matched[r] THEN {r} ELSE {})
    BY <1>10 DEF Expire, Release, Hurry
  <2>2. CASE q # r
    <3>1. Keeps(q)
      BY <1>1, <1>10, <2>2, ExpireMoves
    <3>2. Same
      BY <1>1, <2>1, <2>2 DEF Same, Matched
    <3> QED BY <1>2, <1>4, <3>1, <3>2
  <2>3. CASE q = r
    <3>1. stage[q] = "late" /\ stage'[q] = "failed" /\ UNCHANGED resp_op_matched[q]
      BY <1>1, <2>1, <2>3
    <3>2. Matched(q)' <=> Matched(q)
      BY <2>1 DEF Matched
    <3>3. q \in hurried' <=> (q \in hurried \/ Held(q) \/ resp_op_matched[q])
      BY <2>1, <2>3
    <3>4. q \in freed' => q \in freed \/ q \in VfReq
      BY <2>1, <2>3
    <3>5. /\ ~Listed(q)' /\ ~Pending(q)' /\ ~Fresh(q)'
          /\ AtSend(q)' <=> AtSend(q)
          /\ Sent(q)' <=> Sent(q)
          /\ InHand(q)' <=> InHand(q)
      BY <1>10, <2>3, ExpireMoves
    <3>6. ~Held(q) => ~AtSend(q) /\ ~Sent(q) /\ ~InHand(q)
      BY HeldIs
    <3> QED BY <2>1, <3>1, <3>2, <3>3, <3>4, <3>5, <3>6 DEF AliveInv, Gone, Over
  <2> QED BY <2>2, <2>3

<1>11. ASSUME NEW e \in End, Start(e) \/ RxEnd(e) \/ TimerFire(e) PROVE AliveInv(q)'
  <2>1. Keeps(q)
    BY <1>1, <1>11, QuietMoves DEF Quiet
  <2>2. Same
    BY <1>1, <1>5, <1>6, <1>11 DEF Start, RxEnd, TimerFire
  <2> QED BY <1>2, <1>4, <2>1, <2>2
<1>12. ASSUME NEW e \in End, TxPick(e) PROVE AliveInv(q)'
  <2>1. PICK c : c = Head(tx_todo_list[e])
    OBVIOUS
  <2>2. Same
    BY <1>1, <1>5, <1>6, <1>12 DEF TxPick
  <2>3. CASE tx_todo_list[e] = <<>> \/ c # q
    BY <1>1, <1>2, <1>4, <1>12, <2>1, <2>2, <2>3, TxPickMoves
  <2>4. CASE tx_todo_list[e] # <<>> /\ c = q
    BY <1>3, <1>12, <2>1, <2>2, <2>4, TxPickMoves
  <2> QED BY <2>3, <2>4
<1>13. ASSUME NEW e \in End, TxSend(e) PROVE AliveInv(q)'
  <2>1. PICK c : c = cur[e]
    OBVIOUS
  <2>2. Same
    BY <1>1, <1>5, <1>6, <1>13 DEF TxSend
  <2>3. CASE c # q
    BY <1>1, <1>2, <1>4, <1>13, <2>1, <2>2, <2>3, TxSendMoves
  <2>4. CASE c = q
    BY <1>3, <1>13, <2>1, <2>2, <2>4, TxSendMoves
  <2> QED BY <2>3, <2>4
<1>14. ASSUME NEW e \in End, TxBusy(e) PROVE AliveInv(q)'
  <2>1. PICK c : c = cur[e]
    OBVIOUS
  <2>2. Same
    BY <1>1, <1>5, <1>6, <1>14 DEF TxBusy
  <2>3. CASE c # q
    BY <1>1, <1>2, <1>4, <1>14, <2>1, <2>2, <2>3, TxBusyMoves
  <2>4. CASE c = q
    BY <1>3, <1>14, <2>1, <2>2, <2>4, TxBusyMoves
  <2> QED BY <2>3, <2>4
<1>15. ASSUME NEW e \in End, TxDrop(e) PROVE AliveInv(q)'
  <2>1. cur[e] # q
    BY <1>1, <1>15, TxDropMoves
  <2>2. freed' = freed \cup {cur[e]} /\ UNCHANGED <<stage, resp_op_matched, raw, hurried, cur>>
    BY <1>15 DEF TxDrop
  <2>3. Matched(q)' <=> Matched(q)
    BY <1>1, <1>15 DEF TxDrop, Matched
  <2>4. Same
    BY <2>1, <2>2, <2>3 DEF Same
  <2> QED BY <1>1, <1>2, <1>4, <1>15, <2>1, <2>4, TxDropMoves
<1>16. ASSUME NEW e \in End, TxUnlink(e) PROVE AliveInv(q)'
  <2>1. PICK c : c = cur[e]
    OBVIOUS
  <2>2. /\ UNCHANGED <<stage, resp_op_matched, raw, hurried, cur>>
        /\ freed' = freed \/ (freed' = freed \cup {c} /\ c \notin Req)
    BY <1>16, <2>1 DEF TxUnlink, WaitsResp
  <2>3. Matched(q)' <=> Matched(q)
    BY <1>1, <1>16 DEF TxUnlink, Matched
  <2>4. Same
    BY <1>1, <2>2, <2>3 DEF Same
  <2>5. CASE c # q
    BY <1>1, <1>2, <1>4, <1>16, <2>1, <2>4, <2>5, TxUnlinkMoves
  <2>6. CASE c = q
    BY <1>3, <1>16, <2>1, <2>4, <2>6, TxUnlinkMoves
  <2> QED BY <2>5, <2>6
<1>17. ASSUME NEW e \in End, TxPend(e) PROVE AliveInv(q)'
  <2>1. PICK c : c = cur[e]
    OBVIOUS
  <2>2. Same
    BY <1>1, <1>5, <1>6, <1>17 DEF TxPend
  <2>3. CASE c # q
    BY <1>1, <1>2, <1>4, <1>17, <2>1, <2>2, <2>3, TxPendMoves
  <2>4. CASE c = q
    BY <1>3, <1>17, <2>1, <2>2, <2>4, TxPendMoves
  <2> QED BY <2>3, <2>4
<1>18. ASSUME NEW e \in End, RxRead(e) PROVE AliveInv(q)'
  <2>1. PICK c : c = slot[Peer(e)]
    OBVIOUS
  <2>2. Same
    BY <1>1, <1>5, <1>6, <1>18 DEF RxRead
  <2>3. CASE c # q
    BY <1>1, <1>2, <1>4, <1>18, <2>1, <2>2, <2>3, RxReadMoves
  <2>4. CASE c = q
    <3>1. Calm
      BY <1>18, <2>1, <2>4, RxReadMoves DEF Calm
    <3> QED BY <1>2, <2>2, <3>1
  <2> QED BY <2>3, <2>4
<1>19. ASSUME RxMatchVf PROVE AliveInv(q)'
  <2>1. Keeps(q)
    BY <1>1, <1>19, QuietMoves DEF Quiet
  <2>2. /\ pc["vf"] = "match" /\ pc'["vf"] = "dispatch" /\ cur'["vf"] = FirstMatch("vf")
        /\ resp_op_matched'[q] = (resp_op_matched[q] \/ q = FirstMatch("vf"))
        /\ UNCHANGED <<stage, raw, hurried, freed>>
    BY <1>1, <1>19 DEF RxMatchVf
  <2>3. CASE q # FirstMatch("vf")
    <3>1. resp_op_matched'[q] = resp_op_matched[q]
      BY <1>1, <1>19, <2>3 DEF RxMatchVf
    <3>2. Same
      BY <2>2, <2>3, <3>1 DEF Same, Matched
    <3> QED BY <1>2, <1>4, <2>1, <3>2
  <2>4. CASE q = FirstMatch("vf")
    <3>1. Pending(q)
      <4>1. PICK r : r = FirstMatch("vf")
        OBVIOUS
      <4>2. Home(r) = "vf" /\ Contains(rx_pend_list["vf"], r)
        BY <1>1, <2>4, <4>1, FirstMatchFacts
      <4> QED BY <2>4, <4>1, <4>2 DEF Pending
    <3>2. ~Fresh(q) /\ ~Listed(q) /\ ~AtSend(q) /\ ~Sent(q) /\ ~InHand(q)
      BY <1>1, <3>1 DEF ReqInv
    <3>3. Matched(q)' /\ resp_op_matched'[q]
      BY <1>1, <2>2, <2>4 DEF Matched
    <3> QED BY <2>1, <2>2, <3>1, <3>2, <3>3 DEF AliveInv, Gone, Keeps
  <2> QED BY <2>3, <2>4
<1>20. ASSUME RxDispatchVf PROVE AliveInv(q)'
  <2>1. UNCHANGED <<stage, resp_op_matched, raw, hurried, freed>> /\ (Matched(q)' <=> Matched(q))
    BY <1>1, <1>20 DEF RxDispatchVf, Matched
  <2>2. Same
    BY <2>1 DEF Same
  <2>3. PICK c, a : c = rx["vf"] /\ a = Answer(c)
    OBVIOUS
  <2>4. CASE q = c
    <3>1. Calm
      BY <1>20, <2>3, <2>4, RxDispatchVfMoves DEF Calm
    <3> QED BY <1>2, <2>2, <3>1
  <2>5. CASE q # c
    <3>1. c \in PfReq => q # a
      BY <1>1, <2>3, HomeFacts
    <3> QED BY <1>1, <1>2, <1>4, <1>20, <2>2, <2>3, <2>5, <3>1, RxDispatchVfMoves
  <2> QED BY <2>4, <2>5
<1>21. ASSUME RxCopyVf PROVE AliveInv(q)'
  <2>1. PICK c, r : c = rx["vf"] /\ r = cur["vf"]
    OBVIOUS
  <2>2. /\ c \in Answers /\ r \in Req /\ r \in VfReq /\ Home(r) = "vf" /\ pc["vf"] = "copy"
        /\ pc'["vf"] = "read" /\ stage' = Wake(r) /\ UNCHANGED <<resp_op_matched, hurried, freed>>
        /\ raw' = [raw EXCEPT ![r] = IF r \in freed THEN @ ELSE c]
    <3>1. /\ pc["vf"] = "copy" /\ pc'["vf"] = "read" /\ stage' = Wake(r)
          /\ UNCHANGED <<resp_op_matched, hurried, freed>>
          /\ raw' = [raw EXCEPT ![r] = IF r \in freed THEN @ ELSE c]
      BY <1>1, <1>21, <2>1 DEF RxCopyVf
    <3>2. c \in Answers /\ r \in Req
      BY <1>21, <2>1, RxCopyVfMoves
    <3>3. r \in VfReq
      BY <1>1, <2>1, <3>1, <3>2, HomeFacts DEF HeldInv
    <3> QED BY <3>1, <3>2, <3>3, HomeFacts
  <2>3. CASE q # r
    <3>1. Keeps(q)
      BY <1>1, <1>21, <2>1, <2>2, <2>3, RxCopyVfMoves
    <3>2. stage'[q] = stage[q] /\ raw'[q] = raw[q]
      BY <1>1, <2>2, <2>3 DEF Wake
    <3>3. ~Matched(q) /\ ~Matched(q)'
      BY <2>1, <2>2, <2>3 DEF Matched
    <3>4. Same
      BY <2>2, <3>2, <3>3 DEF Same
    <3> QED BY <1>2, <1>4, <3>1, <3>4
  <2>4. CASE q = r
    <3>1. Matched(q) /\ ~Matched(q)' /\ resp_op_matched[q] /\ ~Gone(q)
      BY <2>1, <2>2, <2>4 DEF Matched, AliveInv, Gone
    <3>2. /\ stage'[q] \in Over <=> stage[q] \in Over
          /\ stage[q] \in Over => stage'[q] = stage[q]
      BY <1>1, <2>2, <2>4 DEF Wake, Over
    <3>3. /\ ~Listed(q)' /\ ~AtSend(q)' /\ ~Sent(q)' /\ ~InHand(q)' /\ ~Pending(q)' /\ ~Fresh(q)'
      BY <1>1, <1>21, <2>1, <2>2, <2>4, <3>1, RxCopyVfMoves DEF AliveInv
    <3>4. raw'[q] # q \/ stage'[q] \in Over
      <4>1. CASE q \in freed
        BY <1>1, <2>2, <2>4, <3>2, <4>1, HomeFacts DEF AliveInv
      <4>2. CASE q \notin freed
        BY <1>1, <2>2, <2>4, <4>2
      <4> QED BY <4>1, <4>2
    <3>5. q \in freed' => q \in VfReq /\ stage'[q] \in Over
      BY <1>1, <2>2, <2>4, <3>2, HomeFacts DEF AliveInv
    <3> QED BY <2>2, <3>1, <3>2, <3>3, <3>4, <3>5 DEF AliveInv
  <2> QED BY <2>3, <2>4
<1>22. ASSUME RxRequestPf PROVE AliveInv(q)'
  <2>1. UNCHANGED <<stage, resp_op_matched, raw, freed, hurried, pc["vf"], cur["vf"]>>
    BY <1>1, <1>22 DEF RxRequestPf
  <2>2. Same
    BY <1>5, <2>1
  <2>3. PICK c, a : c = rx["pf"] /\ a = Answer(c)
    OBVIOUS
  <2>4. CASE q # c
    <3>1. c \in VfReq => q # a
      BY <1>1, <2>3, HomeFacts
    <3> QED BY <1>1, <1>2, <1>4, <1>22, <2>2, <2>3, <2>4, <3>1, RxRequestPfMoves
  <2>5. CASE q = c
    <3>1. Calm
      BY <1>22, <2>3, <2>5, RxRequestPfMoves DEF Calm
    <3> QED BY <1>2, <2>2, <3>1
  <2> QED BY <2>4, <2>5
<1>23. ASSUME RxResponsePf PROVE AliveInv(q)'
  <2>1. PICK c, r : c = rx["pf"] /\ r = FirstMatch("pf")
    OBVIOUS
  <2>2. UNCHANGED <<pc["vf"], cur["vf"]>> /\ c \in Answers /\ q # c
    BY <1>1, <1>23, <2>1, RxResponsePfMoves DEF RxResponsePf
  <2>3. UNCHANGED hurried
    BY <1>23 DEF RxResponsePf
  <2>4. CASE q # r
    <3>1. UNCHANGED <<stage[q], resp_op_matched[q], raw[q]>> /\ (q \in freed' => q \in freed)
      BY <1>1, <1>23, <2>1, <2>4, RxResponsePfMoves DEF Wake
    <3>2. Same
      BY <2>2, <2>3, <3>1 DEF Same, Matched
    <3>3. Keeps(q)
      BY <1>1, <1>23, <2>1, <2>2, <2>4, RxResponsePfMoves
    <3> QED BY <1>2, <1>4, <3>2, <3>3
  <2>5. CASE q = r
    <3>1. /\ q \in PfReq /\ Home(q) = "pf" /\ Pending(q) /\ ~Pending(q)' /\ stage' = Wake(q)
          /\ resp_op_matched' = [resp_op_matched EXCEPT ![q] = TRUE]
          /\ raw' = [raw EXCEPT ![q] = c]
          /\ Listed(q)' <=> Listed(q)
          /\ AtSend(q)' <=> AtSend(q)
          /\ Sent(q)' <=> Sent(q)
          /\ InHand(q)' <=> InHand(q)
          /\ Fresh(q)' <=> Fresh(q)
      BY <1>1, <1>23, <2>1, <2>5, RxResponsePfMoves, HomeFacts, EndNames
    <3>2. ~Fresh(q) /\ ~Listed(q) /\ ~AtSend(q) /\ ~Sent(q) /\ ~InHand(q)
      BY <1>1, <3>1 DEF ReqInv
    <3>3. /\ stage'[q] \in Over <=> stage[q] \in Over
          /\ resp_op_matched'[q] /\ raw'[q] = c /\ raw'[q] # q
      BY <1>1, <2>2, <3>1 DEF Wake, Over
    <3>4. ~Matched(q) /\ ~Matched(q)'
      BY <1>1, <2>2, <3>1, HomeFacts DEF Matched, HeldInv
    <3>5. stage[q] \in Over => q \in hurried
      BY <3>1 DEF AliveInv, Gone
    <3> QED BY <2>3, <3>1, <3>2, <3>3, <3>4, <3>5 DEF AliveInv
  <2> QED BY <2>4, <2>5
<1>24. ASSUME LeaveStop \/ LeaveOff PROVE AliveInv(q)'
  <2>1. Keeps(q)
    BY <1>1, <1>24, QuietMoves DEF Quiet
  <2>2. Same
    BY <1>5, <1>24 DEF LeaveStop, LeaveOff
  <2> QED BY <1>2, <1>4, <2>1, <2>2
<1>25. ASSUME LeaveBye PROVE AliveInv(q)'
  <2>1. Same
    BY <1>5, <1>25 DEF LeaveBye
  <2> QED BY <1>1, <1>2, <1>4, <1>25, <2>1, LeaveByeMoves
<1>26. ASSUME UNCHANGED vars PROVE AliveInv(q)'
  <2>1. UNCHANGED <<stage, resp_op_matched, raw, freed, hurried, pc, cur, tx_todo_list, rx_pend_list>>
    BY <1>26 DEF vars
  <2>2. Same
    BY <1>5, <2>1
  <2>3. Calm
    BY <1>1, <2>1 DEF Calm, Listed, AtSend, Sent, InHand, Pending, Fresh
  <2> QED BY <1>2, <2>2, <2>3
<1> QED BY <1>7, <1>8, <1>9, <1>10, <1>11, <1>12, <1>13, <1>14, <1>15, <1>16, <1>17,
           <1>18, <1>19, <1>20, <1>21, <1>22, <1>23, <1>24, <1>25, <1>26
        DEF Next, Sender, Worker, Tx, Rx, RxVf, RxPf


AllAlive ==
  /\ PlaceInv /\ MarkInv /\ HeldInv
  /\ \A q \in Req : LiveInv(q) /\ AliveInv(q)

\* A message that may be touched although it was freed or is on no list.
Excused(m) == m \in hurried \/ (m \in PfReq /\ raw[m] # m)

\* What the worker of a side sends is on its list and was not freed, or excused.
LEMMA HandAlive ==
  ASSUME AllAlive, NEW e \in End, pc[e] \in {"send", "unlink", "pend"}, ~Excused(cur[e])
  PROVE  cur[e] \in Msg /\ cur[e] \notin freed /\ (pc[e] = "unlink" => Linked(cur[e]))
<1>1. PICK c : c = cur[e]
  OBVIOUS
<1>2. /\ c \in Msg /\ Home(c) = e
      /\ pc[e] \in {"send", "unlink"} =>
           Contains(tx_todo_list[e], c) \/ (c \in Req /\ ~Contains(tx_todo_list[e], c))
      /\ pc[e] = "pend" => c \in Req
  <2>1. EndInv(e)
    BY DEF AllAlive, PlaceInv
  <2>2. CASE pc[e] = "pend"
    BY <1>1, <2>1, <2>2, HomeFacts DEF EndInv
  <2>3. CASE pc[e] \in {"send", "unlink"}
    BY <1>1, <2>1, <2>3 DEF EndInv, First
  <2> QED BY <2>2, <2>3
<1>3. CASE c \in Req
  <2>1. AtSend(c) \/ Sent(c) \/ InHand(c)
    BY <1>1, <1>2 DEF AtSend, Sent, InHand
  <2>2. AliveInv(c) /\ LiveInv(c) /\ MsgInv(c) /\ ReqInv(c)
    BY <1>2, <1>3 DEF AllAlive, PlaceInv
  <2>3. stage[c] \notin Over /\ ~resp_op_matched[c]
    BY <1>1, <2>1, <2>2 DEF AliveInv, Gone, Excused
  <2>4. c \notin freed
    BY <1>1, <2>2, <2>3 DEF AliveInv, Excused
  <2>5. ASSUME Sent(c) PROVE Listed(c)
    <3>1. ~Pending(c) /\ ~InHand(c)
      BY <2>2, <2>5 DEF ReqInv, Sent, InHand
    <3>2. stage[c] # "new"
      BY <1>3, <2>2, <2>5, HomeFacts DEF MsgInv, Fresh
    <3>3. stage[c] \in {"new", "queued", "asleep", "awake", "late", "ok", "failed"}
      BY <1>3 DEF AllAlive, PlaceInv, Types, SenderType
    <3>4. stage[c] \in {"queued", "asleep", "late"}
      BY <2>2, <2>3, <3>2, <3>3 DEF AliveInv, Over
    <3> QED BY <2>2, <2>3, <3>1, <3>4 DEF LiveInv
  <2> QED BY <1>1, <1>2, <2>4, <2>5 DEF Sent, Listed, Linked
<1>4. CASE c \notin Req
  <2>1. Contains(tx_todo_list[e], c) /\ pc[e] # "pend"
    BY <1>2, <1>4
  <2>2. c \notin freed
    BY <1>2, <1>4, <2>1 DEF AllAlive, PlaceInv, MsgInv, Listed
  <2> QED BY <1>1, <1>2, <2>1, <2>2 DEF Linked
<1> QED BY <1>3, <1>4

\* An excuse lasts.
LEMMA ExcusedStays ==
  ASSUME AllAlive, [Next]_vars, NEW m, Excused(m)
  PROVE  Excused(m)'
<1>1. raw \in [Req -> Msg] /\ cur \in [End -> Msg \cup {Nil}]
  BY DEF AllAlive, PlaceInv, Types, SenderType, WorkerType
<1>2. ASSUME hurried \subseteq hurried', raw' = raw PROVE Excused(m)'
  BY <1>2 DEF Excused
<1>3. ASSUME NEW r \in Req, Sender(r) PROVE Excused(m)'
  BY <1>2, <1>3 DEF Sender, MsgSend, Wait, TimeOut, Return, Expire, Hurry
<1>4. ASSUME NEW e \in End, Start(e) \/ Tx(e) \/ RxRead(e) \/ RxEnd(e) \/ TimerFire(e) PROVE Excused(m)'
  BY <1>2, <1>4 DEF Start, Tx, TxPick, TxSend, TxBusy, TxDrop, TxUnlink, TxPend, RxRead, RxEnd, TimerFire
<1>5. ASSUME RxMatchVf \/ RxDispatchVf \/ RxRequestPf \/ LeaveStop \/ LeaveBye \/ LeaveOff \/ UNCHANGED vars
      PROVE  Excused(m)'
  BY <1>2, <1>5 DEF RxMatchVf, RxDispatchVf, RxRequestPf, LeaveStop, LeaveBye, LeaveOff, vars
<1>6. ASSUME RxCopyVf PROVE Excused(m)'
  <2>1. PICK c, r : c = rx["vf"] /\ r = cur["vf"]
    OBVIOUS
  <2>2. pc["vf"] = "copy" /\ hurried' = hurried /\ raw' = [raw EXCEPT ![r] = IF r \in freed THEN @ ELSE c]
    BY <1>6, <2>1 DEF RxCopyVf
  <2>3. r \in VfReq
    BY <1>6, <2>1, <2>2, RxCopyVfMoves, HomeFacts DEF AllAlive, HeldInv
  <2>4. m # r => raw'[m] = raw[m]
    BY <1>1, <2>2
  <2>5. m \in PfReq => m # r
    BY <2>3, HomeFacts
  <2> QED BY <2>2, <2>4, <2>5 DEF Excused
<1>7. ASSUME RxResponsePf PROVE Excused(m)'
  <2>1. PICK c, r : c = rx["pf"] /\ r = FirstMatch("pf")
    OBVIOUS
  <2>2. c \in Answers /\ hurried' = hurried /\ (raw' = raw \/ (r \in Req /\ raw' = [raw EXCEPT ![r] = c]))
    BY <1>7, <2>1, RxResponsePfMoves DEF RxResponsePf, AllAlive
  <2>3. m \in PfReq => m \notin Answers /\ m \in Req
    BY HomeFacts
  <2>4. ASSUME m \in PfReq PROVE raw'[m] \in {raw[m], c}
    BY <1>1, <2>2, <2>3, <2>4
  <2> QED BY <2>2, <2>3, <2>4 DEF Excused
<1> QED BY <1>3, <1>4, <1>5, <1>6, <1>7 DEF Next, Worker, Rx, RxVf, RxPf

LEMMA WildStep ==
  ASSUME AllAlive, MessagesAlive, [Next]_vars
  PROVE  MessagesAlive'
<1> DEFINE Fine == \A m \in wild' : m \in wild \/ Excused(m)'
<1>1. PlaceInv /\ HeldInv
  BY DEF AllAlive
<1>2. ASSUME NEW c, Touch({c}), Excused(c)' \/ c \notin freed PROVE Fine
  BY <1>2 DEF Touch
<1>3. ASSUME NEW c, TouchLinked(c), Excused(c)' \/ (c \notin freed /\ Linked(c)) PROVE Fine
  BY <1>3 DEF TouchLinked
<1>4. ASSUME wild' = wild PROVE Fine
  BY <1>4
<1>5. ASSUME Fine PROVE MessagesAlive'
  BY <1>5, ExcusedStays DEF MessagesAlive, Excused
<1> HIDE DEF Fine
<1>6. ASSUME NEW r \in Req, MsgSend(r) \/ TimeOut(r) PROVE Fine
  BY <1>4, <1>6 DEF MsgSend, TimeOut
<1>7. ASSUME NEW r \in Req, Wait(r) \/ Return(r) PROVE Fine
  <2>1. Touch({r}) /\ stage[r] \notin Over
    BY <1>7 DEF Wait, Return, Over
  <2>2. Excused(r) \/ r \notin freed
    BY <2>1 DEF AllAlive, AliveInv, Excused
  <2> QED BY <1>2, <2>1, <2>2, ExcusedStays
<1>8. ASSUME NEW r \in Req, Expire(r) PROVE Fine
  <2>1. TouchLinked(r) /\ stage[r] = "late" /\ hurried' = hurried \cup (IF Held(r) \/ resp_op_matched[r] THEN {r} ELSE {})
    BY <1>8 DEF Expire, Hurry
  <2>2. Excused(r) \/ r \notin freed
    BY <2>1 DEF AllAlive, AliveInv, Excused, Over
  <2>3. CASE Held(r) \/ resp_op_matched[r]
    BY <1>3, <2>1, <2>3 DEF Excused
  <2>4. CASE ~Held(r) /\ ~resp_op_matched[r]
    <3>1. Listed(r) \/ Pending(r)
      BY <1>1, <2>1, <2>4, HeldIs DEF AllAlive, LiveInv
    <3>2. Linked(r)
      BY <3>1, HomeFacts DEF Listed, Pending, Linked
    <3> QED BY <1>3, <2>1, <2>2, <3>2, ExcusedStays
  <2> QED BY <2>3, <2>4
<1>9. ASSUME NEW e \in End, TxSend(e) \/ TxBusy(e) \/ TxPend(e) PROVE Fine
  <2>1. Touch({cur[e]}) /\ pc[e] \in {"send", "pend"}
    BY <1>9 DEF TxSend, TxBusy, TxPend
  <2> QED BY <1>2, <2>1, HandAlive, ExcusedStays
<1>10. ASSUME NEW e \in End, TxUnlink(e) PROVE Fine
  <2>1. TouchLinked(cur[e]) /\ pc[e] = "unlink"
    BY <1>10 DEF TxUnlink
  <2> QED BY <1>3, <2>1, HandAlive, ExcusedStays
<1>11. ASSUME NEW e \in End, Start(e) \/ TxPick(e) \/ TxDrop(e) \/ RxRead(e) \/ RxEnd(e) \/ TimerFire(e)
       PROVE  Fine
  BY <1>4, <1>11 DEF Start, TxPick, TxDrop, RxRead, RxEnd, TimerFire
<1>12. ASSUME RxMatchVf \/ RxDispatchVf \/ RxRequestPf PROVE Fine
  BY <1>4, <1>12 DEF RxMatchVf, RxDispatchVf, RxRequestPf
<1>13. ASSUME RxCopyVf PROVE Fine
  <2>1. PICK c, r : c = rx["vf"] /\ r = cur["vf"]
    OBVIOUS
  <2>2. TouchLinked(r) /\ pc["vf"] = "copy" /\ r \in Req
    BY <1>1, <1>13, <2>1, RxCopyVfMoves DEF RxCopyVf
  <2>3. Matched(r) /\ AliveInv(r)
    BY <2>1, <2>2 DEF Matched, AllAlive
  <2>4. CASE r \in hurried
    BY <1>3, <2>2, <2>4, ExcusedStays DEF Excused
  <2>5. CASE r \notin hurried
    <3>1. Pending(r) /\ stage[r] \notin Over
      BY <2>3, <2>5 DEF AliveInv, Gone
    <3>2. Linked(r) /\ (r \notin freed \/ Excused(r))
      BY <2>2, <2>3, <3>1, HomeFacts DEF AliveInv, Pending, Linked, Excused
    <3> QED BY <1>3, <2>2, <3>2, ExcusedStays
  <2> QED BY <2>4, <2>5
<1>14. ASSUME RxResponsePf PROVE Fine
  <2>1. PICK c, r : c = rx["pf"] /\ r = FirstMatch("pf")
    OBVIOUS
  <2>2. CASE UNCHANGED wild
    BY <1>4, <2>2
  <2>3. CASE ~UNCHANGED wild
    <3>1. r \in Req /\ Home(r) = "pf" /\ wild' = wild \cup ({r} \cap freed)
          /\ raw' = [raw EXCEPT ![r] = c] /\ c \in Answers
      BY <1>1, <1>14, <2>1, <2>3, RxResponsePfMoves
    <3>2. r \in PfReq /\ r \notin Answers /\ raw'[r] = c
      BY <1>1, <3>1, HomeFacts, EndNames DEF PlaceInv, Types, SenderType
    <3>3. Excused(r)'
      BY <3>1, <3>2 DEF Excused
    <3> QED BY <1>2, <3>1, <3>3 DEF Touch
  <2> QED BY <2>2, <2>3
<1>15. ASSUME LeaveStop \/ LeaveBye \/ LeaveOff \/ UNCHANGED vars PROVE Fine
  BY <1>4, <1>15 DEF LeaveStop, LeaveBye, LeaveOff, vars
<1> QED BY <1>5, <1>6, <1>7, <1>8, <1>9, <1>10, <1>11, <1>12, <1>13, <1>14, <1>15
        DEF Next, Sender, Worker, Tx, Rx, RxVf, RxPf

LEMMA InitAlive == Init => AllAlive /\ MessagesAlive
<1> SUFFICES ASSUME Init PROVE AllAlive /\ MessagesAlive
  OBVIOUS
<1>1. LinkInv
  BY InitLink
<1>2. HeldInv
  BY InitFacts, EndNames DEF HeldInv
<1>3. ASSUME NEW q \in Req PROVE LiveInv(q) /\ AliveInv(q)
  BY <1>1, HomeFacts, EndNames, InitFacts DEF LinkInv, AliveInv, Over, Matched, Init
<1>4. MessagesAlive
  BY InitFacts DEF MessagesAlive, Init
<1> QED BY <1>1, <1>2, <1>3, <1>4 DEF LinkInv, AllAlive

LEMMA StepAlive == AllAlive /\ [Next]_vars => AllAlive'
<1> SUFFICES ASSUME AllAlive, [Next]_vars PROVE AllAlive'
  OBVIOUS
<1>1. PlaceInv' /\ MarkInv'
  BY StepPlaces, MarkStep DEF AllAlive
<1>2. HeldInv'
  BY HeldStep DEF AllAlive
<1>3. ASSUME NEW q \in Req PROVE LiveInv(q)' /\ AliveInv(q)'
  BY LiveStep, AliveStep DEF AllAlive
<1> QED BY <1>1, <1>2, <1>3 DEF AllAlive

\* Whatever the limits of the waits and the signals do: a message that is
\* touched after it was freed, or unlinked from no list, is a request whose
\* sender left while the worker held or matched it, or a request of the parent
\* that was answered.  No answer and no bye is ever touched so.
THEOREM MemoryStays == Spec => []MessagesAlive
<1>1. Init => AllAlive /\ MessagesAlive
  BY InitAlive
<1>2. (AllAlive /\ MessagesAlive) /\ [Next]_vars => (AllAlive /\ MessagesAlive)'
  BY StepAlive, WildStep
<1> QED BY <1>1, <1>2, PTL DEF Spec


-----------------------------------------------------------------------------
(* The order of answers.                                                   *)

\* r was put into the slot and waits, or will wait, for the response
Out(r) == Sent(r) \/ InHand(r) \/ Pending(r)
Before(a, b) == Prec(rx_pend_list["vf"], a, b) \/ (Pending(a) /\ (Sent(b) \/ InHand(b)))

\* how far a request and its answer have come: 1 in the slot, 2 read by the
\* parent, 3 answer to be sent, 4 in the slot, 5 read and not yet matched
ToMatch(m) == InRx(m) /\ pc["vf"] = "match"
Level(r) == IF InSlot(r) THEN 1 ELSE IF InRx(r) THEN 2 ELSE IF Waits(Answer(r)) THEN 3
            ELSE IF InSlot(Answer(r)) THEN 4 ELSE IF ToMatch(Answer(r)) THEN 5 ELSE 0
Flying(r) == Level(r) # 0
Ahead(a, b) == \/ Level(a) > Level(b)
               \/ /\ Level(a) = 3 /\ Level(b) = 3
                  /\ Prec(tx_todo_list["pf"], Answer(a), Answer(b))

\* The response in hand is the one to the request it was matched with, as long
\* as no answer was given up; that request is not answered twice.
CopyInv ==
  (pc["vf"] \in {"dispatch", "copy"} /\ cur["vf"] # Nil) =>
    /\ ~Flying(cur["vf"])
    /\ ~GivenUp => rx["vf"] = Answer(cur["vf"])

\* A request waits for its response while it or its answer is under way; one
\* that waits for nothing any more was handled, and is being matched or its
\* answer was given up.
FlowInv(r) ==
  /\ Flying(r) => Out(r)
  /\ Out(r) /\ ~Flying(r) => handled[r] = 1
  /\ Out(r) /\ ~Flying(r) /\ ~GivenUp => Matched(r)

\* Of two requests that wait, the one sent first is ahead all the way.
OrderInv == \A a, b \in VfReq : Before(a, b) /\ Flying(a) /\ Flying(b) => Ahead(a, b)

\* What the sender is told.
TellInv(r) ==
  /\ resp_op_matched[r] => handled[r] = 1
  /\ ~GivenUp => raw[r] \in {r, Answer(r)}

LEMMA AnswerFacts ==
  \A r \in VfReq : /\ r \in Req /\ r \in Msg /\ Home(r) = "vf" /\ r \notin Answers /\ r # Bye /\ r \notin PfReq
                   /\ Answer(r) \in Msg /\ Answer(r) \in Answers /\ Answer(r) \notin Req /\ Answer(r) # Bye
                   /\ Home(Answer(r)) = "pf" /\ Answer(r)[1] = r /\ Answer(r) # r
                   /\ \A q \in Req : Answer(q) = Answer(r) => q = r
BY HomeFacts, EndNames

LEMMA LevelFacts ==
  ASSUME PlaceInv, NEW r \in VfReq
  PROVE  /\ Level(r) \in 0..5
         /\ Level(r) = 1 <=> InSlot(r)
         /\ Level(r) = 2 <=> InRx(r)
         /\ Level(r) = 3 <=> Waits(Answer(r))
         /\ Level(r) = 4 <=> InSlot(Answer(r))
         /\ Level(r) = 5 <=> ToMatch(Answer(r))
         /\ Level(r) \in {3, 4, 5} => handled[r] = 1
         /\ Waits(Answer(r)) => Listed(Answer(r))
<1> DEFINE a == Answer(r)
<1>1. r \in Req /\ r \in Msg /\ r \notin Answers /\ a \in Msg /\ a \in Answers /\ a \notin Req /\ a # Bye
      /\ a[1] = r /\ Home(a) = "pf" /\ MsgInv(r) /\ MsgInv(a)
  BY AnswerFacts DEF PlaceInv
<1> HIDE DEF a
<1>2. Fresh(a) <=> handled[r] = 0
  BY <1>1 DEF Fresh
<1>3. handled[r] \in {0, 1} /\ (InSlot(r) \/ InRx(r) => handled[r] = 0)
  BY <1>1 DEF MsgInv
<1>4. ~(InSlot(r) /\ InRx(r)) /\ ~(Waits(a) /\ InSlot(a)) /\ ~(Waits(a) /\ InRx(a)) /\ ~(InSlot(a) /\ InRx(a))
  BY <1>1 DEF MsgInv
<1>5. Waits(a) \/ InSlot(a) \/ InRx(a) => handled[r] = 1
  BY <1>1, <1>2, <1>3 DEF MsgInv
<1>6. Waits(a) => Listed(a)
  <2>1. EndInv("pf")
    BY EndNames DEF PlaceInv
  <2> QED BY <1>1, <2>1 DEF EndInv, First, AtSend, Listed
<1> QED BY <1>3, <1>4, <1>5, <1>6 DEF Level, ToMatch, a

\* What a step does to the requests on their way: nothing, or what the lemma
\* about the action says.
Same(r) == Level(r)' = Level(r) /\ (Out(r)' <=> Out(r))
NoNewOrder == \A a, b \in VfReq : Before(a, b)' => Before(a, b)
KeepsOrder ==
  \A a, b \in VfReq :
    Prec(tx_todo_list["pf"], Answer(a), Answer(b)) /\ Waits(Answer(a))' /\ Waits(Answer(b))' =>
      Prec(tx_todo_list'["pf"], Answer(a), Answer(b))
HoldsOn ==
  /\ pc'["vf"] \in {"dispatch", "copy"} /\ cur'["vf"] # Nil =>
       pc["vf"] \in {"dispatch", "copy"} /\ cur'["vf"] = cur["vf"] /\ rx'["vf"] = rx["vf"]
  /\ \A r \in VfReq : Matched(r) => Matched(r)'

LEMMA SameFacts ==
  ASSUME NEW r \in VfReq, InSlot(r)' <=> InSlot(r), InRx(r)' <=> InRx(r),
         Sent(r)' \/ InHand(r)' <=> Sent(r) \/ InHand(r), Pending(r)' <=> Pending(r),
         Waits(Answer(r))' <=> Waits(Answer(r)), InSlot(Answer(r))' <=> InSlot(Answer(r)),
         InRx(Answer(r))' <=> InRx(Answer(r)), pc'["vf"] = "match" <=> pc["vf"] = "match"
  PROVE  Same(r)
BY DEF Same, Level, Out, ToMatch

LEMMA KeepsSame ==
  ASSUME NEW r \in VfReq, Keeps(r), Keeps(Answer(r)), pc'["vf"] = "match" <=> pc["vf"] = "match"
  PROVE  Same(r)
BY SameFacts DEF Keeps

LEMMA NoNewOrderFacts ==
  ASSUME rx_pend_list'["vf"] = rx_pend_list["vf"],
         \A b \in VfReq : Sent(b)' \/ InHand(b)' => Sent(b) \/ InHand(b)
  PROVE  NoNewOrder
BY AnswerFacts DEF NoNewOrder, Before, Pending

LEMMA KeepsOrderFacts ==
  ASSUME \/ UNCHANGED tx_todo_list
         \/ \E e \in End, x \in Msg : Gains(tx_todo_list, tx_todo_list', e, x)
         \/ \E e \in End, x \in Msg : Loses(tx_todo_list, tx_todo_list', e, x) /\ (x \in Answers => ~Waits(x)')
  PROVE  KeepsOrder
<1>1. CASE UNCHANGED tx_todo_list
  BY <1>1 DEF KeepsOrder
<1>2. ASSUME NEW e \in End, NEW x \in Msg, Gains(tx_todo_list, tx_todo_list', e, x) PROVE KeepsOrder
  BY <1>2, EndNames DEF KeepsOrder, Gains
<1>3. ASSUME NEW e \in End, NEW x \in Msg, Loses(tx_todo_list, tx_todo_list', e, x), x \in Answers => ~Waits(x)'
      PROVE  KeepsOrder
  <2> SUFFICES ASSUME NEW a \in VfReq, NEW b \in VfReq, Prec(tx_todo_list["pf"], Answer(a), Answer(b)),
                      Waits(Answer(a))', Waits(Answer(b))'
               PROVE  Prec(tx_todo_list'["pf"], Answer(a), Answer(b))
    BY DEF KeepsOrder
  <2>1. Answer(a) # x /\ Answer(b) # x
    <3>1. Answer(a) \in Answers /\ Answer(b) \in Answers
      BY AnswerFacts
    <3>2. CASE x \in Answers
      <4>1. ~Waits(x)'
        BY <1>3, <3>2
      <4> QED BY <4>1
    <3>3. CASE x \notin Answers
      BY <3>1, <3>3
    <3> QED BY <3>2, <3>3
  <2> QED BY <1>3, <2>1, EndNames DEF Loses
<1> QED BY <1>1, <1>2, <1>3

Calm == (\A r \in VfReq : Same(r)) /\ NoNewOrder /\ KeepsOrder /\ HoldsOn

LEMMA QuietCalm ==
  ASSUME PlaceInv, Quiet, ~RxMatchVf
  PROVE  Calm
<1>1. \A m \in Msg : Keeps(m)
  BY QuietMoves
<1>2. /\ pc \in [End -> {"idle", "pick", "send", "unlink", "pend", "read", "match", "dispatch", "copy"}]
      /\ "vf" \in End
  BY EndNames DEF PlaceInv, Types, WorkerType
<1>3. UNCHANGED <<lists, cur, rx>>
  BY DEF Quiet, Wait, TimeOut, Return, Start, RxEnd, TimerFire, LeaveStop, LeaveOff
<1>4. pc'["vf"] = pc["vf"] \/ (pc["vf"] \in {"idle", "read"} /\ pc'["vf"] \in {"idle", "pick", "read"})
  <2>1. ASSUME NEW e \in End, Start(e) \/ RxEnd(e)
        PROVE  pc'["vf"] = pc["vf"] \/ (pc["vf"] \in {"idle", "read"} /\ pc'["vf"] \in {"idle", "pick", "read"})
    BY <1>2, <2>1 DEF Start, RxEnd
  <2>2. ASSUME NEW r \in Req, Wait(r) \/ TimeOut(r) \/ Return(r) PROVE UNCHANGED pc
    BY <2>2 DEF Wait, TimeOut, Return
  <2>3. ASSUME NEW e \in End, TimerFire(e) PROVE UNCHANGED pc
    BY <2>3 DEF TimerFire
  <2>4. ASSUME LeaveStop \/ LeaveOff PROVE UNCHANGED pc
    BY <2>4 DEF LeaveStop, LeaveOff
  <2> QED BY <2>1, <2>2, <2>3, <2>4 DEF Quiet
<1>5. \A r \in VfReq : Same(r)
  BY <1>1, <1>4, AnswerFacts, KeepsSame
<1>6. NoNewOrder
  BY <1>1, <1>3, AnswerFacts, NoNewOrderFacts DEF Keeps
<1>7. KeepsOrder
  BY <1>3, KeepsOrderFacts
<1>8. HoldsOn
  BY <1>3, <1>4 DEF HoldsOn, Matched
<1> QED BY <1>5, <1>6, <1>7, <1>8 DEF Calm

\* While no request of the virtual function has failed, only senders of the
\* parent have taken their messages back.
NoneFailed == \A r \in VfReq : stage[r] # "failed"

LEMMA NoExpire ==
  ASSUME PlaceInv, NoneFailed', NEW q \in Req, Expire(q)
  PROVE  q \in PfReq
<1>1. stage'[q] = "failed"
  BY DEF Expire, PlaceInv, Types, SenderType
<1> QED BY <1>1, HomeFacts DEF NoneFailed

LEMMA SenderCalm ==
  ASSUME NoneFailed', PlaceInv, NEW q \in Req, MsgSend(q) \/ Expire(q)
  PROVE  Calm
<1>1. CASE MsgSend(q)
  <2>1. UNCHANGED <<pc, cur, rx, rx_pend_list>>
    BY <1>1 DEF MsgSend
  <2>2. Gains(tx_todo_list, tx_todo_list', Home(q), q) /\ q \in Msg /\ Home(q) \in End /\ q \notin Answers
    BY <1>1, MsgSendMoves, HomeFacts
  <2>3. ASSUME NEW r \in VfReq PROVE Same(r) /\ (Sent(r)' \/ InHand(r)' => Sent(r) \/ InHand(r))
    <3>1. Keeps(Answer(r))
      BY <1>1, <2>2, AnswerFacts, MsgSendMoves
    <3>2. CASE r # q
      BY <1>1, <2>1, <3>1, <3>2, AnswerFacts, MsgSendMoves, KeepsSame DEF Keeps
    <3>3. CASE r = q
      <4>1. ~Sent(r) /\ ~InHand(r) /\ ~Pending(r) /\ ~InSlot(r) /\ ~InRx(r)
        BY <1>1, <3>3, AnswerFacts, MsgSendMoves DEF PlaceInv, MsgInv, ReqInv
      <4>2. ~Sent(r)' /\ ~InHand(r)' /\ ~Pending(r)' /\ ~InSlot(r)' /\ ~InRx(r)'
        BY <1>1, <3>3, MsgSendMoves
      <4> QED BY <2>1, <3>1, <4>1, <4>2, SameFacts DEF Keeps
    <3> QED BY <3>2, <3>3
  <2> QED BY <2>1, <2>2, <2>3, NoNewOrderFacts, KeepsOrderFacts DEF Calm, HoldsOn, Matched
<1>2. CASE Expire(q)
  <2>1. q \in PfReq /\ q \in Msg /\ Home(q) = "pf" /\ q \notin Answers
    BY <1>2, HomeFacts, NoExpire
  <2>2. UNCHANGED <<pc, cur, rx>> /\ rx_pend_list'["vf"] = rx_pend_list["vf"]
        /\ Loses(tx_todo_list, tx_todo_list', "pf", q)
    <3>1. UNCHANGED <<pc, cur, rx>>
      BY <1>2 DEF Expire
    <3>2. Loses(tx_todo_list, tx_todo_list', "pf", q) /\ Loses(rx_pend_list, rx_pend_list', "pf", q)
      BY <1>2, <2>1, ExpireMoves
    <3>3. rx_pend_list'["vf"] = rx_pend_list["vf"]
      BY <3>2, EndNames DEF Loses
    <3> QED BY <3>1, <3>2, <3>3
  <2>3. ASSUME NEW r \in VfReq PROVE Keeps(r) /\ Keeps(Answer(r))
    BY <1>2, <2>1, AnswerFacts, ExpireMoves
  <2>4. \A r \in VfReq : Same(r)
    BY <2>2, <2>3, KeepsSame
  <2>5. NoNewOrder
    BY <2>2, <2>3, NoNewOrderFacts DEF Keeps
  <2>6. KeepsOrder
    BY <2>1, <2>2, EndNames, KeepsOrderFacts
  <2> QED BY <2>2, <2>4, <2>5, <2>6 DEF Calm, HoldsOn, Matched
<1> QED BY <1>1, <1>2

LEMMA PickCalm ==
  ASSUME PlaceInv, NEW e \in End, TxPick(e) \/ TxBusy(e)
  PROVE  Calm
<1>1. /\ pc \in [End -> {"idle", "pick", "send", "unlink", "pend", "read", "match", "dispatch", "copy"}]
      /\ "vf" \in End /\ cur \in [End -> Msg \cup {Nil}]
  BY EndNames DEF PlaceInv, Types, WorkerType
<1>2. UNCHANGED <<lists, rx>>
  BY DEF TxPick, TxBusy
<1>3. \/ pc'["vf"] = pc["vf"] /\ cur'["vf"] = cur["vf"]
      \/ pc["vf"] \in {"pick", "send"} /\ pc'["vf"] \in {"idle", "send"}
  BY <1>1 DEF TxPick, TxBusy
<1>4. ASSUME NEW m \in Msg
      PROVE  /\ Sent(m)' <=> Sent(m)
             /\ InHand(m)' <=> InHand(m)
             /\ Pending(m)' <=> Pending(m)
             /\ InSlot(m)' <=> InSlot(m)
             /\ InRx(m)' <=> InRx(m)
             /\ m \notin Req => (Waits(m)' <=> Waits(m))
  <2>1. CASE TxPick(e)
    <3>1. PICK c : c = Head(tx_todo_list[e])
      OBVIOUS
    <3>2. CASE tx_todo_list[e] = <<>> \/ m # c
      BY <2>1, <3>1, <3>2, TxPickMoves DEF Keeps
    <3>3. CASE tx_todo_list[e] # <<>> /\ m = c
      BY <2>1, <3>1, <3>3, TxPickMoves
    <3> QED BY <3>2, <3>3
  <2>2. CASE TxBusy(e)
    <3>1. PICK c : c = cur[e]
      OBVIOUS
    <3>2. CASE m # c
      BY <2>2, <3>1, <3>2, TxBusyMoves DEF Keeps
    <3>3. CASE m = c
      <4>1. m \notin Req => Listed(m) /\ ~Sent(m)
        BY <2>2, <3>1, <3>3, TxBusyMoves DEF First, Listed, AtSend, Sent
      <4> QED BY <2>2, <3>1, <3>3, <4>1, TxBusyMoves
    <3> QED BY <3>2, <3>3
  <2> QED BY <2>1, <2>2
<1>5. \A r \in VfReq : Same(r)
  BY <1>3, <1>4, AnswerFacts, SameFacts
<1>6. NoNewOrder
  BY <1>2, <1>4, AnswerFacts, NoNewOrderFacts
<1>7. KeepsOrder
  BY <1>2, KeepsOrderFacts
<1>8. HoldsOn
  BY <1>2, <1>3 DEF HoldsOn, Matched
<1> QED BY <1>5, <1>6, <1>7, <1>8 DEF Calm

LEMMA UnlinkCalm ==
  ASSUME PlaceInv, NEW e \in End, TxUnlink(e)
  PROVE  Calm
<1>1. PICK c : c = cur[e]
  OBVIOUS
<1>2. /\ pc \in [End -> {"idle", "pick", "send", "unlink", "pend", "read", "match", "dispatch", "copy"}]
      /\ "vf" \in End
  BY EndNames DEF PlaceInv, Types, WorkerType
<1>3. UNCHANGED <<rx_pend_list, cur, rx>>
      /\ (pc'["vf"] = pc["vf"] \/ (pc["vf"] = "unlink" /\ pc'["vf"] \in {"pend", "pick"}))
  BY <1>2 DEF TxUnlink
<1>4. ASSUME NEW m \in Msg
      PROVE  /\ Sent(m)' \/ InHand(m)' => Sent(m) \/ InHand(m)
             /\ m \in Req => (Sent(m)' \/ InHand(m)' <=> Sent(m) \/ InHand(m))
             /\ Pending(m)' <=> Pending(m)
             /\ InSlot(m)' <=> InSlot(m)
             /\ InRx(m)' <=> InRx(m)
             /\ Waits(m)' <=> Waits(m)
  <2>1. CASE m # c
    BY <1>1, <2>1, TxUnlinkMoves DEF Keeps
  <2>2. CASE m = c
    BY <1>1, <2>2, TxUnlinkMoves
  <2> QED BY <2>1, <2>2
<1>5. \A r \in VfReq : Same(r)
  BY <1>3, <1>4, AnswerFacts, SameFacts
<1>6. NoNewOrder
  BY <1>3, <1>4, AnswerFacts, NoNewOrderFacts
<1>7. KeepsOrder
  BY <1>1, TxUnlinkMoves, KeepsOrderFacts
<1>8. HoldsOn
  BY <1>3 DEF HoldsOn, Matched
<1> QED BY <1>5, <1>6, <1>7, <1>8 DEF Calm

LEMMA PendCalm ==
  ASSUME PlaceInv, NEW e \in End, TxPend(e)
  PROVE  Calm
<1>1. PICK c : c = cur[e]
  OBVIOUS
<1>2. /\ pc \in [End -> {"idle", "pick", "send", "unlink", "pend", "read", "match", "dispatch", "copy"}]
      /\ "vf" \in End /\ "pf" \in End /\ e \in End
  BY EndNames DEF PlaceInv, Types, WorkerType
<1>3. UNCHANGED <<tx_todo_list, cur, rx>> /\ pc[e] = "pend" /\ pc' = [pc EXCEPT ![e] = "pick"]
  BY DEF TxPend
<1>4. /\ c \in Req /\ c \in Msg /\ Home(c) = e /\ InHand(c) /\ ~Pending(c) /\ ~InHand(c)' /\ Pending(c)'
      /\ Gains(rx_pend_list, rx_pend_list', e, c)
  BY <1>1, TxPendMoves
<1>5. \A m \in Msg \ {c} : Keeps(m)
  BY <1>1, TxPendMoves
<1>6. ASSUME NEW r \in VfReq PROVE Same(r)
  <2>1. Keeps(Answer(r))
    BY <1>4, <1>5, AnswerFacts
  <2>2. pc'["vf"] = "match" <=> pc["vf"] = "match"
    BY <1>2, <1>3
  <2>3. CASE r # c
    BY <1>5, <2>1, <2>2, <2>3, AnswerFacts, KeepsSame
  <2>4. CASE r = c
    <3>1. (InSlot(r)' <=> InSlot(r)) /\ (InRx(r)' <=> InRx(r))
      BY <1>1, <2>4, TxPendMoves
    <3> QED BY <1>4, <2>1, <2>2, <2>4, <3>1 DEF Same, Level, Out, ToMatch, Keeps
  <2> QED BY <2>3, <2>4
<1>7. NoNewOrder
  <2>1. CASE e = "pf"
    <3>1. rx_pend_list'["vf"] = rx_pend_list["vf"]
      BY <1>2, <1>4, <2>1 DEF Gains
    <3>2. \A r \in VfReq : r # c
      BY <1>4, <2>1, AnswerFacts
    <3> QED BY <1>5, <3>1, <3>2, AnswerFacts, NoNewOrderFacts DEF Keeps
  <2>2. CASE e = "vf"
    <3> SUFFICES ASSUME NEW a \in VfReq, NEW b \in VfReq, Before(a, b)' PROVE Before(a, b)
      BY DEF NoNewOrder
    <3>1. Home(a) = "vf" /\ Home(b) = "vf"
      BY AnswerFacts
    <3>2. pc'["vf"] = "pick"
      BY <1>2, <1>3, <2>2
    <3>3. Prec(rx_pend_list'["vf"], a, b)
      BY <3>1, <3>2 DEF Before, Sent, InHand
    <3>4. Prec(rx_pend_list["vf"], a, b) \/ (Contains(rx_pend_list["vf"], a) /\ b = c)
      BY <1>2, <1>4, <2>2, <3>3 DEF Gains
    <3> QED BY <1>4, <3>1, <3>4 DEF Before, Pending
  <2> QED BY <2>1, <2>2, EndFacts DEF End
<1>8. KeepsOrder
  BY <1>3, KeepsOrderFacts
<1>9. HoldsOn
  BY <1>2, <1>3 DEF HoldsOn, Matched
<1> QED BY <1>6, <1>7, <1>8, <1>9 DEF Calm

LEMMA DispatchCalm ==
  ASSUME PlaceInv, RxDispatchVf
  PROVE  Calm
<1>1. PICK c, a : c = rx["vf"] /\ a = Answer(c)
  OBVIOUS
<1>2. /\ pc \in [End -> {"idle", "pick", "send", "unlink", "pend", "read", "match", "dispatch", "copy"}]
      /\ "vf" \in End
  BY EndNames DEF PlaceInv, Types, WorkerType
<1>3. /\ pc["vf"] = "dispatch" /\ pc' = [pc EXCEPT !["vf"] = IF cur["vf"] = Nil THEN "read" ELSE "copy"]
      /\ UNCHANGED <<rx_pend_list, cur, rx>>
  BY DEF RxDispatchVf
<1>4. Home(c) = "pf" /\ (c \in PfReq => Home(a) = "vf")
  BY <1>1, RxDispatchVfMoves, HomeFacts, EndNames
<1>5. ASSUME NEW r \in VfReq PROVE Keeps(r)
  <2>1. r # c /\ (c \in PfReq => r # a)
    BY <1>1, <1>4, AnswerFacts, HomeFacts
  <2> QED BY <1>1, <2>1, AnswerFacts, RxDispatchVfMoves
<1>6. ASSUME NEW r \in VfReq
      PROVE  /\ Waits(Answer(r))' <=> Waits(Answer(r))
             /\ InSlot(Answer(r))' <=> InSlot(Answer(r))
  <2>1. CASE Answer(r) = c
    BY <1>1, <2>1, RxDispatchVfMoves
  <2>2. CASE Answer(r) # c
    <3>1. c \in PfReq => Answer(r) # a
      BY <1>4, AnswerFacts
    <3> QED BY <1>1, <2>2, <3>1, AnswerFacts, RxDispatchVfMoves DEF Keeps
  <2> QED BY <2>1, <2>2
<1>7. pc["vf"] # "match" /\ pc'["vf"] # "match"
  BY <1>2, <1>3
<1>8. \A r \in VfReq : Same(r)
  BY <1>5, <1>6, <1>7 DEF Same, Level, Out, ToMatch, Keeps
<1>9. NoNewOrder
  BY <1>3, <1>5, NoNewOrderFacts DEF Keeps
<1>10. KeepsOrder
  <2>1. CASE rx_pend_list["vf"] = <<>> /\ rx["vf"] \in PfReq
    <3>1. c \in Req /\ Home(c) = Peer("vf") /\ InRx(c) /\ Handle("vf", c)
      BY <1>1, <2>1, RxDispatchVfMoves, HomeFacts, EndNames DEF RxDispatchVf
    <3>2. a \in Msg /\ Gains(tx_todo_list, tx_todo_list', "vf", a)
      BY <1>1, <3>1, HandleFacts, EndNames
    <3> QED BY <3>2, EndNames, KeepsOrderFacts
  <2>2. CASE ~(rx_pend_list["vf"] = <<>> /\ rx["vf"] \in PfReq)
    BY <2>2, KeepsOrderFacts DEF RxDispatchVf
  <2> QED BY <2>1, <2>2
<1>11. HoldsOn
  BY <1>2, <1>3, AnswerFacts, HomeFacts DEF HoldsOn, Matched
<1> QED BY <1>8, <1>9, <1>10, <1>11 DEF Calm

LEMMA ResponseCalm ==
  ASSUME PlaceInv, RxResponsePf
  PROVE  Calm
<1>1. PICK c, r : c = rx["pf"] /\ r = FirstMatch("pf")
  OBVIOUS
<1>2. /\ pc \in [End -> {"idle", "pick", "send", "unlink", "pend", "read", "match", "dispatch", "copy"}]
      /\ "vf" \in End /\ "pf" \in End
  BY EndNames DEF PlaceInv, Types, WorkerType
<1>3. pc'["vf"] = pc["vf"] /\ UNCHANGED <<cur, rx, tx_todo_list>>
  BY <1>2 DEF RxResponsePf
<1>4. c \in Msg /\ Home(c) = "vf" /\ c \in Answers /\ (r = Nil \/ (r \in Req /\ Home(r) = "pf"))
  BY <1>1, RxResponsePfMoves
<1>5. rx_pend_list'["vf"] = rx_pend_list["vf"]
  BY <1>1, <1>2, RxResponsePfMoves DEF Loses
<1>6. ASSUME NEW q \in VfReq PROVE Keeps(q) /\ Keeps(Answer(q))
  <2>1. q # c /\ q # r /\ Answer(q) # c /\ Answer(q) # r
    BY <1>4, AnswerFacts, HomeFacts, EndNames
  <2> QED BY <1>1, <2>1, AnswerFacts, RxResponsePfMoves
<1>7. \A q \in VfReq : Same(q)
  BY <1>3, <1>6, KeepsSame
<1>8. NoNewOrder
  BY <1>5, <1>6, NoNewOrderFacts DEF Keeps
<1>9. KeepsOrder
  BY <1>3, KeepsOrderFacts
<1>10. HoldsOn
  BY <1>3 DEF HoldsOn, Matched
<1> QED BY <1>7, <1>8, <1>9, <1>10 DEF Calm

LEMMA ByeCalm ==
  ASSUME PlaceInv, LeaveBye \/ (RxRequestPf /\ rx["pf"] = Bye)
  PROVE  Calm
<1>1. /\ pc \in [End -> {"idle", "pick", "send", "unlink", "pend", "read", "match", "dispatch", "copy"}]
      /\ "vf" \in End /\ "pf" \in End
  BY EndNames DEF PlaceInv, Types, WorkerType
<1>2. pc'["vf"] = pc["vf"] /\ UNCHANGED <<cur, rx, rx_pend_list>>
  BY <1>1 DEF LeaveBye, RxRequestPf
<1>3. ASSUME NEW r \in VfReq PROVE Keeps(r) /\ Keeps(Answer(r))
  <2>1. Bye \notin VfReq
    BY AnswerFacts
  <2> QED BY <2>1, AnswerFacts, LeaveByeMoves, RxRequestPfMoves
<1>4. \A r \in VfReq : Same(r)
  BY <1>2, <1>3, KeepsSame
<1>5. NoNewOrder
  BY <1>2, <1>3, NoNewOrderFacts DEF Keeps
<1>6. KeepsOrder
  <2>1. UNCHANGED tx_todo_list \/ Gains(tx_todo_list, tx_todo_list', "vf", Bye)
    BY LeaveByeMoves DEF RxRequestPf
  <2> QED BY <2>1, HomeFacts, EndNames, KeepsOrderFacts
<1>7. HoldsOn
  BY <1>2 DEF HoldsOn, Matched
<1> QED BY <1>4, <1>5, <1>6, <1>7 DEF Calm

LEMMA StutterCalm == UNCHANGED vars => Calm
<1> SUFFICES ASSUME UNCHANGED vars PROVE Calm
  OBVIOUS
<1>1. UNCHANGED <<tx_todo_list, rx_pend_list, pc, cur, rx, slot>>
  BY DEF vars
<1>2. \A m : /\ Listed(m)' <=> Listed(m)
             /\ AtSend(m)' <=> AtSend(m)
             /\ Sent(m)' <=> Sent(m)
             /\ InHand(m)' <=> InHand(m)
             /\ Pending(m)' <=> Pending(m)
             /\ InSlot(m)' <=> InSlot(m)
             /\ InRx(m)' <=> InRx(m)
  BY <1>1 DEF Listed, AtSend, Sent, InHand, Pending, InSlot, InRx
<1>3. \A r \in VfReq : Same(r)
  BY <1>1, <1>2, SameFacts
<1>4. NoNewOrder /\ KeepsOrder
  BY <1>1, <1>2, NoNewOrderFacts, KeepsOrderFacts
<1>5. HoldsOn
  BY <1>1 DEF HoldsOn, Matched
<1> QED BY <1>3, <1>4, <1>5 DEF Calm

LEMMA SendFlight ==
  ASSUME PlaceInv, NEW e \in End, TxSend(e), NEW c, c = cur[e]
  PROVE  /\ KeepsOrder /\ HoldsOn
         /\ \A r \in VfReq : r # c /\ Answer(r) # c => Same(r)
         /\ c \notin VfReq => NoNewOrder
         /\ c \in VfReq =>
              /\ pc["vf"] = "send" /\ slot'["vf"] = c /\ Level(c)' = 1 /\ Out(c)'
              /\ \A b \in VfReq : ~Before(c, b)'
              /\ \A a, b \in VfReq : Before(a, b)' => Before(a, b) \/ b = c
         /\ \A r \in VfReq : c = Answer(r) =>
              /\ Level(r) = 3 /\ Level(r)' = 4 /\ (Out(r)' <=> Out(r))
              /\ First(tx_todo_list["pf"], c) /\ slot["pf"] = Nil
<1>1. /\ pc \in [End -> {"idle", "pick", "send", "unlink", "pend", "read", "match", "dispatch", "copy"}]
      /\ "vf" \in End /\ "pf" \in End /\ slot \in [End -> Msg \cup {Nil}]
  BY EndNames DEF PlaceInv, Types, WorkerType
<1>2. /\ pc[e] = "send" /\ pc' = [pc EXCEPT ![e] = "unlink"] /\ slot[e] = Nil
      /\ slot' = [slot EXCEPT ![e] = c] /\ UNCHANGED <<lists, cur, rx>>
  BY DEF TxSend
<1>3. pc'["vf"] = pc["vf"] \/ (e = "vf" /\ pc["vf"] = "send" /\ pc'["vf"] = "unlink")
  BY <1>1, <1>2
<1>4. c \in Msg /\ Home(c) = e /\ AtSend(c) /\ ~InSlot(c) /\ \A m \in Msg \ {c} : Keeps(m)
  BY TxSendMoves
<1>5. KeepsOrder /\ HoldsOn
  BY <1>2, <1>3, KeepsOrderFacts DEF HoldsOn, Matched
<1>6. ASSUME NEW r \in VfReq, r # c, Answer(r) # c PROVE Same(r)
  BY <1>3, <1>4, <1>6, AnswerFacts, KeepsSame
<1>7. ASSUME c \notin VfReq PROVE NoNewOrder
  BY <1>2, <1>4, <1>7, AnswerFacts, NoNewOrderFacts DEF Keeps
<1>8. ASSUME c \in VfReq
      PROVE  /\ pc["vf"] = "send" /\ slot'["vf"] = c /\ Level(c)' = 1 /\ Out(c)'
             /\ \A b \in VfReq : ~Before(c, b)'
             /\ \A a, b \in VfReq : Before(a, b)' => Before(a, b) \/ b = c
  <2>1. e = "vf" /\ c \in Req /\ Home(c) = "vf"
    BY <1>4, <1>8, AnswerFacts
  <2>2. slot'["vf"] = c /\ pc'["vf"] = "unlink" /\ cur'["vf"] = c /\ rx_pend_list'["vf"] = rx_pend_list["vf"]
    BY <1>1, <1>2, <2>1
  <2>3. Level(c)' = 1 /\ Out(c)'
    BY <2>1, <2>2 DEF Level, Out, InSlot, Sent
  <2>4. ~Contains(rx_pend_list["vf"], c)
    BY <1>4, <2>1 DEF PlaceInv, ReqInv, Pending
  <2>5. \A b : ~Prec(rx_pend_list["vf"], c, b)
    BY <2>1, <2>4, WorkerCase, OrderFacts
  <2>6. \A b \in VfReq : ~Before(c, b)'
    BY <2>1, <2>2, <2>4, <2>5 DEF Before, Pending
  <2>7. \A a, b \in VfReq : Before(a, b)' => Before(a, b) \/ b = c
    BY <2>2, AnswerFacts DEF Before, Pending, Sent, InHand
  <2> QED BY <1>2, <2>1, <2>2, <2>3, <2>6, <2>7
<1>9. ASSUME NEW r \in VfReq, c = Answer(r)
      PROVE  /\ Level(r) = 3 /\ Level(r)' = 4 /\ (Out(r)' <=> Out(r))
             /\ First(tx_todo_list["pf"], c) /\ slot["pf"] = Nil
  <2>1. e = "pf" /\ c \notin Req /\ r # c /\ r \in Msg
    BY <1>4, <1>9, AnswerFacts
  <2>2. Keeps(r)
    BY <1>4, <2>1
  <2>3. Level(r) = 3 /\ ~InSlot(r) /\ ~InRx(r)
    BY <1>4, <1>9, LevelFacts
  <2>4. InSlot(c)' /\ ~AtSend(c)' /\ Sent(c)'
    BY TxSendMoves
  <2>5. Level(r)' = 4
    BY <1>9, <2>2, <2>3, <2>4 DEF Level, Keeps
  <2>6. First(tx_todo_list["pf"], c)
    BY <1>2, <2>1, WorkerCase DEF EndInv
  <2> QED BY <1>2, <2>1, <2>2, <2>3, <2>5, <2>6 DEF Out, Keeps
<1> QED BY <1>5, <1>6, <1>7, <1>8, <1>9

LEMMA ReadFlight ==
  ASSUME PlaceInv, NEW e \in End, RxRead(e), NEW c, c = slot[Peer(e)]
  PROVE  /\ NoNewOrder /\ KeepsOrder /\ HoldsOn
         /\ \A r \in VfReq : r # c /\ Answer(r) # c => Same(r)
         /\ c \in VfReq => /\ Level(c) = 1 /\ Level(c)' = 2 /\ (Out(c)' <=> Out(c))
                           /\ pc["pf"] = "read"
         /\ \A r \in VfReq : c = Answer(r) =>
              /\ Level(r) = 4 /\ Level(r)' = 5 /\ (Out(r)' <=> Out(r))
              /\ pc["vf"] = "read"
<1>1. /\ pc \in [End -> {"idle", "pick", "send", "unlink", "pend", "read", "match", "dispatch", "copy"}]
      /\ "vf" \in End /\ "pf" \in End /\ Peer("vf") = "pf" /\ Peer("pf") = "vf"
  BY EndNames DEF PlaceInv, Types, WorkerType
<1>2. pc[e] = "read" /\ pc' = [pc EXCEPT ![e] = "match"] /\ UNCHANGED <<lists, cur>> /\ rx' = [rx EXCEPT ![e] = c]
  BY DEF RxRead
<1>3. /\ c \in Msg /\ Home(c) = Peer(e) /\ InSlot(c)
      /\ \A m \in Msg \ {c} : Keeps(m)
      /\ ~InSlot(c)' /\ InRx(c)' /\ ~InRx(c)
      /\ Sent(c)' <=> Sent(c)
      /\ InHand(c)' <=> InHand(c)
      /\ Pending(c)' <=> Pending(c)
      /\ Listed(c)' <=> Listed(c)
      /\ AtSend(c)' <=> AtSend(c)
  BY RxReadMoves
<1>4. NoNewOrder
  BY <1>2, <1>3, AnswerFacts, NoNewOrderFacts DEF Keeps
<1>5. KeepsOrder
  BY <1>2, KeepsOrderFacts
<1>6. HoldsOn
  <2>1. CASE e = "vf"
    BY <1>1, <1>2, <2>1 DEF HoldsOn, Matched
  <2>2. CASE e # "vf"
    <3>1. UNCHANGED <<pc["vf"], cur["vf"], rx["vf"]>>
      BY <1>1, <1>2, <2>2
    <3> QED BY <3>1 DEF HoldsOn, Matched
  <2> QED BY <2>1, <2>2
<1>7. ASSUME NEW r \in VfReq, r # c, Answer(r) # c PROVE Same(r)
  <2>1. Keeps(r) /\ Keeps(Answer(r))
    BY <1>3, <1>7, AnswerFacts
  <2>2. ToMatch(Answer(r))' <=> ToMatch(Answer(r))
    <3>1. CASE e = "vf"
      <4>1. ~InRx(Answer(r))
        BY <1>1, <1>2, <3>1, AnswerFacts DEF InRx, Reading
      <4> QED BY <2>1, <4>1 DEF Keeps, ToMatch
    <3>2. CASE e # "vf"
      <4>1. pc'["vf"] = pc["vf"]
        BY <1>1, <1>2, <3>2
      <4> QED BY <2>1, <4>1 DEF Keeps, ToMatch
    <3> QED BY <3>1, <3>2
  <2> QED BY <2>1, <2>2 DEF Same, Level, Out, Keeps
<1>8. ASSUME c \in VfReq
      PROVE  Level(c) = 1 /\ Level(c)' = 2 /\ (Out(c)' <=> Out(c)) /\ pc["pf"] = "read"
  <2>1. e = "pf"
    BY <1>1, <1>3, <1>8, AnswerFacts, EndFacts
  <2> QED BY <1>2, <1>3, <1>8, <2>1 DEF Level, Out
<1>9. ASSUME NEW r \in VfReq, c = Answer(r)
      PROVE  Level(r) = 4 /\ Level(r)' = 5 /\ (Out(r)' <=> Out(r)) /\ pc["vf"] = "read"
  <2>1. e = "vf" /\ r # c /\ r \in Msg
    BY <1>1, <1>3, <1>9, AnswerFacts, EndFacts
  <2>2. Keeps(r)
    BY <1>3, <2>1
  <2>3. Level(r) = 4 /\ ~InSlot(r) /\ ~InRx(r) /\ ~Waits(c)
    BY <1>3, <1>9, LevelFacts
  <2>4. ToMatch(c)' /\ ~InSlot(c)' /\ ~Waits(c)'
    BY <1>1, <1>2, <1>3, <2>1, <2>3 DEF ToMatch
  <2>5. Level(r)' = 5
    BY <1>9, <2>2, <2>3, <2>4 DEF Level, Keeps
  <2> QED BY <1>2, <2>1, <2>2, <2>3, <2>5 DEF Out, Keeps
<1> QED BY <1>4, <1>5, <1>6, <1>7, <1>8, <1>9

LEMMA RequestFlight ==
  ASSUME PlaceInv, RxRequestPf, NEW c \in VfReq, c = rx["pf"]
  PROVE  /\ NoNewOrder /\ KeepsOrder /\ HoldsOn
         /\ \A r \in VfReq : r # c => Same(r)
         /\ Level(c) = 2 /\ Level(c)' = 3 /\ (Out(c)' <=> Out(c))
         /\ Gains(tx_todo_list, tx_todo_list', "pf", Answer(c))
<1>1. /\ pc \in [End -> {"idle", "pick", "send", "unlink", "pend", "read", "match", "dispatch", "copy"}]
      /\ "vf" \in End /\ "pf" \in End /\ Peer("vf") = "pf" /\ Peer("pf") = "vf"
  BY EndNames DEF PlaceInv, Types, WorkerType
<1>2. PICK a : a = Answer(c)
  OBVIOUS
<1>3. pc'["vf"] = pc["vf"] /\ UNCHANGED <<rx_pend_list, cur, rx>>
  BY <1>1 DEF RxRequestPf
<1>4. /\ InRx(c) /\ ~InRx(c)' /\ a \in Msg /\ a # c
      /\ \A m \in Msg : m # c /\ m # a => Keeps(m)
      /\ Sent(c)' <=> Sent(c)
      /\ InHand(c)' <=> InHand(c)
      /\ Pending(c)' <=> Pending(c)
      /\ InSlot(c)' <=> InSlot(c)
      /\ Listed(a)' /\ ~Sent(a)' /\ ~InSlot(a)' /\ ~InRx(a)'
  BY <1>2, RxRequestPfMoves
<1>5. ASSUME NEW r \in VfReq, r # c PROVE Same(r)
  <2>1. Keeps(r) /\ Keeps(Answer(r))
    BY <1>2, <1>4, <1>5, AnswerFacts
  <2> QED BY <1>3, <2>1, KeepsSame
<1>6. Level(c) = 2 /\ ~InSlot(c)
  BY <1>4, LevelFacts
<1>7. Level(c)' = 3 /\ (Out(c)' <=> Out(c))
  BY <1>2, <1>4, <1>6 DEF Level, Out
<1>8. Gains(tx_todo_list, tx_todo_list', "pf", a)
  <2>1. c \in Req /\ Home(c) = Peer("pf") /\ Handle("pf", c)
    BY <1>1, AnswerFacts DEF RxRequestPf
  <2> QED BY <1>1, <1>2, <1>4, <2>1, HandleFacts
<1>9. NoNewOrder
  <2>1. ASSUME NEW b \in VfReq, b # c PROVE Keeps(b)
    BY <1>2, <1>4, <2>1, AnswerFacts
  <2>2. \A b \in VfReq : Sent(b)' \/ InHand(b)' => Sent(b) \/ InHand(b)
    BY <1>4, <2>1 DEF Keeps
  <2> QED BY <1>3, <2>2, NoNewOrderFacts
<1>10. KeepsOrder
  BY <1>1, <1>4, <1>8, KeepsOrderFacts
<1>11. HoldsOn
  BY <1>3 DEF HoldsOn, Matched
<1> QED BY <1>2, <1>5, <1>6, <1>7, <1>8, <1>9, <1>10, <1>11

LEMMA DropFlight ==
  ASSUME PlaceInv, NEW e \in End, TxDrop(e)
  PROVE  /\ NoNewOrder /\ KeepsOrder /\ HoldsOn /\ GivenUp'
         /\ \A r \in VfReq : /\ Out(r)' <=> Out(r)
                             /\ Level(r)' = Level(r) \/ (Level(r) = 3 /\ Level(r)' = 0)
<1>1. /\ pc \in [End -> {"idle", "pick", "send", "unlink", "pend", "read", "match", "dispatch", "copy"}]
      /\ "vf" \in End /\ "pf" \in End
  BY EndNames DEF PlaceInv, Types, WorkerType
<1>2. PICK c : c = cur[e]
  OBVIOUS
<1>3. /\ pc[e] = "send" /\ pc' = [pc EXCEPT ![e] = "idle"] /\ UNCHANGED <<rx_pend_list, cur, rx>>
      /\ retry_cnt' = [retry_cnt EXCEPT ![c] = 0]
  BY <1>2 DEF TxDrop
<1>4. pc'["vf"] = pc["vf"] \/ (pc["vf"] = "send" /\ pc'["vf"] = "idle")
  BY <1>1, <1>3
<1>5. /\ c \in Msg /\ Home(c) = e /\ AtSend(c) /\ c \notin Req
      /\ Loses(tx_todo_list, tx_todo_list', e, c)
      /\ \A m \in Msg \ {c} : Keeps(m)
      /\ ~AtSend(c)' /\ ~Listed(c)'
      /\ InSlot(c)' <=> InSlot(c)
      /\ InRx(c)' <=> InRx(c)
  BY <1>2, TxDropMoves
<1>6. ASSUME NEW r \in VfReq
      PROVE  /\ Keeps(r) /\ (Out(r)' <=> Out(r))
             /\ Level(r)' = Level(r) \/ (Level(r) = 3 /\ Level(r)' = 0)
  <2>1. Keeps(r)
    BY <1>5, AnswerFacts
  <2>2. CASE Answer(r) # c
    BY <1>4, <1>5, <2>1, <2>2, AnswerFacts, KeepsSame DEF Same
  <2>3. CASE Answer(r) = c
    <3>1. Level(r) = 3 /\ ~InSlot(r) /\ ~InRx(r) /\ ~InSlot(c) /\ ~ToMatch(c)
      BY <1>5, <2>3, LevelFacts
    <3>2. ~ToMatch(c)'
      BY <1>4, <1>5, <3>1 DEF ToMatch
    <3>3. Level(r)' = 0
      BY <1>5, <2>1, <2>3, <3>1, <3>2 DEF Level, Keeps
    <3> QED BY <2>1, <3>1, <3>3 DEF Out, Keeps
  <2> QED BY <2>1, <2>2, <2>3
<1>7. NoNewOrder
  BY <1>3, <1>6, NoNewOrderFacts DEF Keeps
<1>8. KeepsOrder
  BY <1>5, KeepsOrderFacts
<1>9. HoldsOn
  BY <1>3, <1>4 DEF HoldsOn, Matched
<1>10. GivenUp'
  <2>1. retry_cnt \in [Answers \cup {Bye} -> 0 .. Retries]
    BY DEF PlaceInv, Types, SenderType
  <2>2. c \in Answers \cup {Bye}
    BY <1>5, HomeFacts
  <2>3. c \in DOMAIN retry_cnt' /\ retry_cnt'[c] = 0
    BY <1>3, <2>1, <2>2
  <2> QED BY <2>3 DEF GivenUp
<1> QED BY <1>6, <1>7, <1>8, <1>9, <1>10

LEMMA MatchFlight ==
  ASSUME PlaceInv, RxMatchVf
  PROVE  /\ NoNewOrder /\ KeepsOrder
         /\ pc["vf"] = "match" /\ pc'["vf"] = "dispatch" /\ cur'["vf"] = FirstMatch("vf") /\ rx' = rx
         /\ \A r \in VfReq : /\ Out(r)' <=> Out(r)
                             /\ rx["vf"] # Answer(r) => Level(r)' = Level(r)
                             /\ rx["vf"] = Answer(r) => Level(r) = 5 /\ Level(r)' = 0
<1>1. /\ pc \in [End -> {"idle", "pick", "send", "unlink", "pend", "read", "match", "dispatch", "copy"}]
      /\ "vf" \in End /\ "pf" \in End /\ cur \in [End -> Msg \cup {Nil}]
      /\ Peer("pf") = "vf"
  BY EndNames DEF PlaceInv, Types, WorkerType
<1>2. /\ pc["vf"] = "match" /\ pc'["vf"] = "dispatch" /\ cur'["vf"] = FirstMatch("vf") /\ rx' = rx
      /\ UNCHANGED <<lists, slot>>
  BY <1>1 DEF RxMatchVf
<1>3. \A m \in Msg : Keeps(m)
  BY QuietMoves DEF Quiet
<1>4. ASSUME NEW r \in VfReq
      PROVE  /\ Out(r)' <=> Out(r)
             /\ rx["vf"] # Answer(r) => Level(r)' = Level(r)
             /\ rx["vf"] = Answer(r) => Level(r) = 5 /\ Level(r)' = 0
  <2>1. Keeps(r) /\ Keeps(Answer(r)) /\ ~ToMatch(Answer(r))'
    BY <1>2, <1>3, AnswerFacts DEF ToMatch
  <2>2. ToMatch(Answer(r)) <=> rx["vf"] = Answer(r)
    BY <1>1, <1>2, AnswerFacts DEF ToMatch, InRx, Reading
  <2>3. rx["vf"] # Answer(r) => Level(r)' = Level(r)
    BY <2>1, <2>2 DEF Level, Keeps
  <2>4. rx["vf"] = Answer(r) => Level(r) = 5 /\ ~InSlot(r) /\ ~InRx(r) /\ ~Waits(Answer(r)) /\ ~InSlot(Answer(r))
    BY <2>2, LevelFacts
  <2>5. rx["vf"] = Answer(r) => Level(r)' = 0
    BY <2>1, <2>4 DEF Level, Keeps
  <2> QED BY <2>1, <2>3, <2>4, <2>5 DEF Out, Keeps
<1>5. NoNewOrder
  BY <1>2, <1>3, AnswerFacts, NoNewOrderFacts DEF Keeps
<1>6. KeepsOrder
  BY <1>2, KeepsOrderFacts
<1> QED BY <1>2, <1>4, <1>5, <1>6

LEMMA CopyFlight ==
  ASSUME AllAlive, RxCopyVf, NEW c, c = cur["vf"]
  PROVE  /\ NoNewOrder /\ KeepsOrder /\ pc'["vf"] = "read"
         /\ c \in VfReq /\ ~Out(c)' /\ pc["vf"] = "copy"
         /\ \A r \in VfReq : Level(r)' = Level(r) /\ (r # c => (Out(r)' <=> Out(r)))
<1>1. /\ pc \in [End -> {"idle", "pick", "send", "unlink", "pend", "read", "match", "dispatch", "copy"}]
      /\ "vf" \in End /\ "pf" \in End
  BY EndNames DEF AllAlive, PlaceInv, Types, WorkerType
<1>2. PICK m0 : m0 = rx["vf"]
  OBVIOUS
<1>3. pc["vf"] = "copy" /\ pc'["vf"] = "read" /\ UNCHANGED <<tx_todo_list, cur>>
  BY <1>1 DEF RxCopyVf
<1>4. /\ m0 \in Msg /\ m0 \in Answers /\ c \in Req /\ c \in Msg
      /\ Loses(rx_pend_list, rx_pend_list', "vf", c)
      /\ \A m \in Msg \ {m0} : m # c => Keeps(m)
      /\ \A m \in {m0, c} : /\ Listed(m)' <=> Listed(m)
                            /\ AtSend(m)' <=> AtSend(m)
                            /\ Sent(m)' <=> Sent(m)
                            /\ InHand(m)' <=> InHand(m)
                            /\ InSlot(m)' <=> InSlot(m)
      /\ Home(c) = "vf" => ~Pending(c)'
      /\ c # m0 /\ (InRx(c)' <=> InRx(c))
  BY <1>2, HomeFacts, RxCopyVfMoves DEF AllAlive
<1>5. c \in VfReq /\ Home(c) = "vf" /\ ~Sent(c) /\ ~InHand(c)
  <2>1. c \in VfReq
    BY <1>3, <1>4, HomeFacts DEF AllAlive, HeldInv
  <2>2. Matched(c) /\ AliveInv(c)
    BY <1>3, <1>4 DEF Matched, AllAlive
  <2> QED BY <2>1, <2>2, AnswerFacts DEF AliveInv
<1>6. ~Out(c)'
  BY <1>4, <1>5 DEF Out
<1>7. ASSUME NEW r \in VfReq PROVE Level(r)' = Level(r) /\ (r # c => (Out(r)' <=> Out(r)))
  <2>1. /\ InSlot(r)' <=> InSlot(r)
        /\ InRx(r)' <=> InRx(r)
    BY <1>4, AnswerFacts DEF Keeps
  <2>2. /\ Waits(Answer(r))' <=> Waits(Answer(r))
        /\ InSlot(Answer(r))' <=> InSlot(Answer(r))
    BY <1>4, AnswerFacts DEF Keeps
  <2>3. ~ToMatch(Answer(r))' /\ ~ToMatch(Answer(r))
    BY <1>3 DEF ToMatch
  <2>4. r # c => Keeps(r)
    BY <1>4, AnswerFacts
  <2> QED BY <2>1, <2>2, <2>3, <2>4 DEF Level, Out, Keeps
<1>8. NoNewOrder
  <2> SUFFICES ASSUME NEW a \in VfReq, NEW b \in VfReq, Before(a, b)' PROVE Before(a, b)
    BY DEF NoNewOrder
  <2>1. Home(a) = "vf" /\ Home(b) = "vf"
    BY AnswerFacts
  <2>2. Prec(rx_pend_list'["vf"], a, b)
    BY <1>3, <2>1 DEF Before, Sent, InHand
  <2> QED BY <1>1, <1>4, <2>2 DEF Loses, Before
<1>9. KeepsOrder
  BY <1>3, KeepsOrderFacts
<1> QED BY <1>3, <1>5, <1>6, <1>7, <1>8, <1>9

\* The steps that move a request of the virtual function or its answer.
LEMMA StepCases ==
  ASSUME NoneFailed', PlaceInv, [Next]_vars
  PROVE  \/ Calm
         \/ \E e \in End : TxSend(e) \/ RxRead(e) \/ TxDrop(e)
         \/ RxRequestPf /\ rx["pf"] \in VfReq
         \/ RxMatchVf \/ RxCopyVf
<1>1. ASSUME RxRequestPf, rx["pf"] \notin VfReq PROVE Calm
  BY <1>1, ByeCalm DEF RxRequestPf
<1>2. ASSUME Quiet PROVE Calm \/ RxMatchVf
  BY <1>2, QuietCalm
<1>3. ASSUME NEW q \in Req, MsgSend(q) \/ Expire(q) PROVE Calm
  BY <1>3, SenderCalm
<1>4. ASSUME NEW e \in End, TxPick(e) \/ TxBusy(e) \/ TxUnlink(e) \/ TxPend(e) PROVE Calm
  BY <1>4, PickCalm, UnlinkCalm, PendCalm
<1>5. ASSUME RxDispatchVf \/ RxResponsePf \/ LeaveBye \/ UNCHANGED vars PROVE Calm
  BY <1>5, DispatchCalm, ResponseCalm, ByeCalm, StutterCalm
<1> QED BY <1>1, <1>2, <1>3, <1>4, <1>5 DEF Next, Sender, Worker, Tx, Rx, RxVf, RxPf, Quiet

LEMMA BeforeFacts ==
  ASSUME PlaceInv, NEW a \in VfReq, NEW b \in VfReq, Before(a, b)
  PROVE  a # b /\ Pending(a)
<1>1. Home(a) = "vf" /\ a \in Req /\ ReqInv(a)
  BY AnswerFacts DEF PlaceInv
<1>2. Prec(rx_pend_list["vf"], a, b) => a # b /\ Contains(rx_pend_list["vf"], a)
  BY EndNames, WorkerCase, OrderFacts
<1>3. Pending(a) => ~Sent(a) /\ ~InHand(a)
  BY <1>1 DEF ReqInv
<1> QED BY <1>1, <1>2, <1>3 DEF Before, Pending

LEMMA AheadStays ==
  ASSUME KeepsOrder, NEW a \in VfReq, NEW b \in VfReq, Ahead(a, b),
         Level(a)' = Level(a), Level(b)' = Level(b)
  PROVE  Ahead(a, b)'
<1>1. Level(a) = 3 => Waits(Answer(a))'
  BY DEF Level
<1>2. Level(b) = 3 => Waits(Answer(b))'
  BY DEF Level
<1> QED BY <1>1, <1>2 DEF Ahead, KeepsOrder

LEMMA OrderCalm ==
  ASSUME PlaceInv, OrderInv, NoNewOrder, KeepsOrder,
         \A r \in VfReq : Level(r)' = Level(r) \/ Level(r)' = 0
  PROVE  OrderInv'
<1> SUFFICES ASSUME NEW a \in VfReq, NEW b \in VfReq, Before(a, b)', Flying(a)', Flying(b)'
             PROVE  Ahead(a, b)'
  BY DEF OrderInv
<1>1. Level(a)' = Level(a) /\ Level(b)' = Level(b) /\ Flying(a) /\ Flying(b)
  BY DEF Flying
<1>2. Ahead(a, b)
  BY <1>1 DEF OrderInv, NoNewOrder
<1> QED BY <1>1, <1>2, AheadStays

LEMMA OrderLift ==
  ASSUME PlaceInv, OrderInv, NoNewOrder, KeepsOrder,
         NEW r \in VfReq, Level(r) \in 1..4, Level(r)' = Level(r) + 1,
         \A a \in VfReq : a # r => Level(a)' = Level(a),
         \A a \in VfReq : a # r /\ Flying(a) /\ Ahead(a, r) => Ahead(a, r)'
  PROVE  OrderInv'
<1> SUFFICES ASSUME NEW a \in VfReq, NEW b \in VfReq, Before(a, b)', Flying(a)', Flying(b)'
             PROVE  Ahead(a, b)'
  BY DEF OrderInv
<1>1. Flying(a) /\ Flying(b)
  BY DEF Flying
<1>2. Ahead(a, b) /\ a # b
  BY <1>1, BeforeFacts DEF OrderInv, NoNewOrder
<1>3. CASE a = r
  <2>1. Level(b)' = Level(b) /\ Level(b) \in 0..5
    BY <1>2, <1>3, LevelFacts
  <2> QED BY <1>2, <1>3, <2>1 DEF Ahead
<1>4. CASE b = r
  BY <1>1, <1>2, <1>4
<1>5. CASE a # r /\ b # r
  BY <1>2, <1>5, AheadStays
<1> QED BY <1>3, <1>4, <1>5

LEMMA OrderSend ==
  ASSUME PlaceInv, OrderInv, NEW e \in End, TxSend(e)
  PROVE  OrderInv'
<1>1. PICK c : c = cur[e]
  OBVIOUS
<1>2. KeepsOrder /\ (\A r \in VfReq : r # c /\ Answer(r) # c => Same(r)) /\ (c \notin VfReq => NoNewOrder)
  BY <1>1, SendFlight
<1>3. CASE c \in VfReq
  <2>1. /\ slot'["vf"] = c /\ Level(c)' = 1
        /\ \A b \in VfReq : ~Before(c, b)'
        /\ \A a, b \in VfReq : Before(a, b)' => Before(a, b) \/ b = c
    BY <1>1, <1>3, SendFlight
  <2> SUFFICES ASSUME NEW a \in VfReq, NEW b \in VfReq, Before(a, b)', Flying(a)', Flying(b)'
               PROVE  Ahead(a, b)'
    BY DEF OrderInv
  <2>2. a # c /\ Level(a)' = Level(a) /\ Level(a) \in 0..5
    BY <1>2, <1>3, <2>1, AnswerFacts, LevelFacts DEF Same
  <2>3. Level(a)' # 1
    BY <2>1, <2>2, AnswerFacts DEF Level, InSlot
  <2>4. CASE b = c
    BY <2>1, <2>2, <2>3, <2>4 DEF Ahead, Flying
  <2>5. CASE b # c
    <3>1. Level(b)' = Level(b)
      BY <1>2, <1>3, <2>5, AnswerFacts DEF Same
    <3>2. Ahead(a, b)
      BY <2>1, <2>2, <2>5, <3>1 DEF OrderInv, Flying
    <3> QED BY <1>2, <2>2, <3>1, <3>2, AheadStays
  <2> QED BY <2>4, <2>5
<1>4. CASE \E r \in VfReq : c = Answer(r)
  <2>1. PICK r \in VfReq : c = Answer(r)
    BY <1>4
  <2>2. Level(r) = 3 /\ Level(r)' = 4 /\ First(tx_todo_list["pf"], c) /\ slot["pf"] = Nil
    BY <1>1, <2>1, SendFlight
  <2>3. NoNewOrder
    BY <1>2, <2>1, AnswerFacts
  <2>4. ASSUME NEW a \in VfReq, a # r PROVE Level(a)' = Level(a)
    BY <1>2, <2>1, <2>4, AnswerFacts DEF Same
  <2>5. ASSUME NEW a \in VfReq, a # r, Flying(a), Ahead(a, r) PROVE Ahead(a, r)'
    <3>1. ~Prec(tx_todo_list["pf"], Answer(a), Answer(r))
      BY <2>1, <2>2 DEF First
    <3>2. Level(a) # 4
      BY <2>2, <2>5, LevelFacts, AnswerFacts, HomeFacts DEF InSlot
    <3>3. Level(a) \in 0..5 /\ Level(a) > 3
      BY <2>2, <2>5, <3>1, LevelFacts DEF Ahead
    <3> QED BY <2>2, <2>4, <2>5, <3>2, <3>3 DEF Ahead
  <2> QED BY <1>2, <2>2, <2>3, <2>4, <2>5, OrderLift
<1>5. CASE c \notin VfReq /\ ~\E r \in VfReq : c = Answer(r)
  <2>1. \A r \in VfReq : Level(r)' = Level(r)
    BY <1>2, <1>5 DEF Same
  <2> QED BY <1>2, <1>5, <2>1, OrderCalm
<1> QED BY <1>3, <1>4, <1>5

LEMMA OrderRead ==
  ASSUME PlaceInv, OrderInv, NEW e \in End, RxRead(e)
  PROVE  OrderInv'
<1>1. PICK c : c = slot[Peer(e)]
  OBVIOUS
<1>2. NoNewOrder /\ KeepsOrder /\ \A r \in VfReq : r # c /\ Answer(r) # c => Same(r)
  BY <1>1, ReadFlight
<1>3. CASE c \in VfReq
  <2>1. Level(c) = 1 /\ Level(c)' = 2 /\ pc["pf"] = "read"
    BY <1>1, <1>3, ReadFlight
  <2>2. ASSUME NEW a \in VfReq, a # c PROVE Level(a)' = Level(a)
    BY <1>2, <1>3, <2>2, AnswerFacts DEF Same
  <2>3. ASSUME NEW a \in VfReq, a # c, Flying(a), Ahead(a, c) PROVE Ahead(a, c)'
    <3>1. Level(a) # 2
      BY <2>1, LevelFacts, AnswerFacts, EndNames DEF InRx, Reading
    <3>2. Level(a) \in 0..5 /\ Level(a) > 1
      BY <2>1, <2>3, LevelFacts DEF Ahead
    <3> QED BY <2>1, <2>2, <2>3, <3>1, <3>2 DEF Ahead
  <2> QED BY <1>2, <1>3, <2>1, <2>2, <2>3, OrderLift
<1>4. CASE \E r \in VfReq : c = Answer(r)
  <2>1. PICK r \in VfReq : c = Answer(r)
    BY <1>4
  <2>2. Level(r) = 4 /\ Level(r)' = 5 /\ pc["vf"] = "read"
    BY <1>1, <2>1, ReadFlight
  <2>3. ASSUME NEW a \in VfReq, a # r PROVE Level(a)' = Level(a)
    BY <1>2, <2>1, <2>3, AnswerFacts DEF Same
  <2>4. ASSUME NEW a \in VfReq, a # r, Flying(a), Ahead(a, r) PROVE Ahead(a, r)'
    <3>1. Level(a) \in 0..5 /\ Level(a) > 4
      BY <2>2, <2>4, LevelFacts DEF Ahead
    <3>2. ToMatch(Answer(a))
      BY <3>1, LevelFacts
    <3> QED BY <2>2, <3>2 DEF ToMatch
  <2> QED BY <1>2, <2>2, <2>3, <2>4, OrderLift
<1>5. CASE c \notin VfReq /\ ~\E r \in VfReq : c = Answer(r)
  <2>1. \A r \in VfReq : Level(r)' = Level(r)
    BY <1>2, <1>5 DEF Same
  <2> QED BY <1>2, <2>1, OrderCalm
<1> QED BY <1>3, <1>4, <1>5

LEMMA OrderRequest ==
  ASSUME PlaceInv, OrderInv, RxRequestPf, NEW c \in VfReq, c = rx["pf"]
  PROVE  OrderInv'
<1>1. /\ NoNewOrder /\ KeepsOrder /\ \A r \in VfReq : r # c => Same(r)
      /\ Level(c) = 2 /\ Level(c)' = 3
      /\ Gains(tx_todo_list, tx_todo_list', "pf", Answer(c))
  BY RequestFlight
<1>2. ASSUME NEW a \in VfReq, a # c PROVE Level(a)' = Level(a)
  BY <1>1, <1>2 DEF Same
<1>3. ASSUME NEW a \in VfReq, a # c, Flying(a), Ahead(a, c) PROVE Ahead(a, c)'
  <2>1. Level(a) \in 0..5 /\ Level(a) > 2
    BY <1>1, <1>3, LevelFacts DEF Ahead
  <2>2. CASE Level(a) = 3
    <3>1. Contains(tx_todo_list["pf"], Answer(a))
      BY <2>2, LevelFacts, AnswerFacts DEF Listed
    <3>2. Prec(tx_todo_list'["pf"], Answer(a), Answer(c))
      BY <1>1, <3>1, EndNames DEF Gains
    <3> QED BY <1>1, <1>2, <1>3, <2>2, <3>2 DEF Ahead
  <2>3. CASE Level(a) # 3
    BY <1>1, <1>2, <1>3, <2>1, <2>3 DEF Ahead
  <2> QED BY <2>2, <2>3
<1> QED BY <1>1, <1>2, <1>3, OrderLift

LEMMA OrderStep ==
  ASSUME NoneFailed', AllAlive, OrderInv, [Next]_vars
  PROVE  OrderInv'
<1> USE DEF AllAlive
<1>1. CASE Calm
  BY <1>1, OrderCalm DEF Calm, Same
<1>2. ASSUME NEW e \in End, TxSend(e) \/ RxRead(e) PROVE OrderInv'
  BY <1>2, OrderSend, OrderRead
<1>3. ASSUME NEW e \in End, TxDrop(e) PROVE OrderInv'
  BY <1>3, DropFlight, OrderCalm
<1>4. CASE RxRequestPf /\ rx["pf"] \in VfReq
  BY <1>4, OrderRequest
<1>5. CASE RxMatchVf
  BY <1>5, MatchFlight, OrderCalm
<1>6. CASE RxCopyVf
  BY <1>6, CopyFlight, OrderCalm
<1> QED BY <1>1, <1>2, <1>3, <1>4, <1>5, <1>6, StepCases

\* The response in hand is matched with the request it answers, or with an
\* earlier one whose answer was given up.
LEMMA MatchFacts ==
  ASSUME PlaceInv, \A q \in VfReq : FlowInv(q), OrderInv, pc["vf"] = "match", NEW r, r = FirstMatch("vf")
  PROVE  /\ \A b \in VfReq : rx["vf"] = Answer(b) /\ ~GivenUp => r = b
         /\ r # Nil => /\ r \in VfReq /\ handled[r] = 1
                       /\ Flying(r) => rx["vf"] = Answer(r)
                       /\ ~GivenUp => rx["vf"] = Answer(r)
<1>1. /\ \/ r = Nil /\ \A q : Contains(rx_pend_list["vf"], q) => ~IsMsgResponse(q, rx["vf"])
         \/ /\ r \in Req /\ Home(r) = "vf" /\ Contains(rx_pend_list["vf"], r) /\ rx["vf"] \in Answers
            /\ \A q : Prec(rx_pend_list["vf"], q, r) => ~IsMsgResponse(q, rx["vf"])
  BY EndNames, FirstMatchFacts
<1>2. ASSUME NEW b \in VfReq, rx["vf"] = Answer(b)
      PROVE  /\ Level(b) = 5 /\ handled[b] = 1
             /\ Contains(rx_pend_list["vf"], b) /\ IsMsgResponse(b, rx["vf"])
  <2>1. ToMatch(Answer(b))
    BY <1>2, AnswerFacts, EndNames DEF ToMatch, InRx, Reading
  <2>2. Level(b) = 5 /\ handled[b] = 1
    BY <2>1, LevelFacts
  <2>3. Out(b)
    BY <2>2 DEF FlowInv, Flying
  <2>4. Contains(rx_pend_list["vf"], b)
    BY <2>3, AnswerFacts DEF Out, Sent, InHand, Pending
  <2> QED BY <1>2, <2>2, <2>4, AnswerFacts DEF IsMsgResponse
<1>3. ASSUME r # Nil PROVE r \in VfReq /\ \E b \in VfReq : rx["vf"] = Answer(b)
  <2>1. r \in VfReq
    BY <1>1, <1>3, HomeFacts
  <2>2. Home(rx["vf"]) = "pf"
    BY <1>1, <1>3, EndNames, WorkerCase DEF EndInv, Reading
  <2>3. rx["vf"][1] \in Req /\ rx["vf"] = Answer(rx["vf"][1])
    BY <1>1, <1>3, HomeFacts
  <2>4. rx["vf"][1] \in VfReq
    BY <2>2, <2>3, HomeFacts, EndNames
  <2> QED BY <2>1, <2>3, <2>4
<1>4. ASSUME r # Nil, NEW b \in VfReq, rx["vf"] = Answer(b), r # b
      PROVE  handled[r] = 1 /\ ~Flying(r) /\ GivenUp
  <2>1. r \in VfReq /\ Home(r) = "vf" /\ Contains(rx_pend_list["vf"], r)
    BY <1>1, <1>4, <1>3
  <2>2. ~Prec(rx_pend_list["vf"], b, r)
    BY <1>1, <1>2, <1>4
  <2>3. Prec(rx_pend_list["vf"], r, b)
    BY <1>2, <1>4, <2>1, <2>2, EndNames, WorkerCase, OrderFacts
  <2>4. ~Flying(r)
    <3>1. Level(r) \in 0..5 /\ Level(b) = 5
      BY <1>2, <1>4, <2>1, LevelFacts
    <3>2. ~Ahead(r, b)
      BY <3>1 DEF Ahead
    <3> QED BY <2>1, <2>3, <3>1, <3>2 DEF OrderInv, Before, Flying
  <2>5. Out(r) /\ ~Matched(r)
    BY <2>1 DEF Out, Pending, Matched
  <2> QED BY <2>1, <2>4, <2>5 DEF FlowInv
<1>5. ASSUME NEW b \in VfReq, rx["vf"] = Answer(b) PROVE r # Nil
  <2>1. Contains(rx_pend_list["vf"], b) /\ IsMsgResponse(b, rx["vf"])
    BY <1>2, <1>5
  <2>2. r \in Req => r # Nil
    BY HomeFacts
  <2> QED BY <1>1, <2>1, <2>2
<1>6. \A b \in VfReq : rx["vf"] = Answer(b) /\ ~GivenUp => r = b
  BY <1>4, <1>5
<1>7. ASSUME r # Nil
      PROVE  /\ r \in VfReq /\ handled[r] = 1
             /\ Flying(r) => rx["vf"] = Answer(r)
             /\ ~GivenUp => rx["vf"] = Answer(r)
  <2>1. PICK b \in VfReq : rx["vf"] = Answer(b)
    BY <1>3, <1>7
  <2>2. CASE r = b
    BY <1>2, <2>1, <2>2
  <2>3. CASE r # b
    BY <1>3, <1>4, <1>7, <2>1, <2>3
  <2> QED BY <2>2, <2>3
<1> QED BY <1>6, <1>7

LEMMA HandledStays ==
  ASSUME PlaceInv, [Next]_vars, NEW r \in VfReq, handled[r] = 1
  PROVE  handled'[r] = 1
<1>1. r \in Req /\ r \in Msg /\ r \notin Answers /\ r # Bye /\ r \notin PfReq
      /\ handled \in [Req \cup {Bye} -> Nat]
  BY AnswerFacts DEF PlaceInv, Types, SenderType
<1>2. ASSUME RxRequestPf PROVE handled'[r] = 1
  <2>1. r # rx["pf"]
    BY <1>1, <1>2, EndNames, AnswerFacts DEF PlaceInv, MsgInv, InRx, Reading, RxRequestPf
  <2> QED BY <1>1, <1>2, <2>1 DEF RxRequestPf, Handle
<1>3. ASSUME RxDispatchVf PROVE handled'[r] = 1
  BY <1>1, <1>3 DEF RxDispatchVf, Handle
<1>4. ASSUME NEW q \in Req, Sender(q) PROVE UNCHANGED handled
  BY <1>4 DEF Sender, MsgSend, Wait, TimeOut, Return, Expire
<1>5. ASSUME NEW e \in End, Start(e) \/ Tx(e) \/ RxRead(e) \/ RxEnd(e) \/ TimerFire(e) PROVE UNCHANGED handled
  BY <1>5 DEF Start, Tx, TxPick, TxSend, TxBusy, TxDrop, TxUnlink, TxPend, RxRead, RxEnd, TimerFire
<1>6. ASSUME RxMatchVf \/ RxCopyVf \/ RxResponsePf PROVE UNCHANGED handled
  BY <1>6 DEF RxMatchVf, RxCopyVf, RxResponsePf
<1>7. ASSUME LeaveStop \/ LeaveBye \/ LeaveOff \/ UNCHANGED vars PROVE UNCHANGED handled
  BY <1>7 DEF LeaveStop, LeaveBye, LeaveOff, vars
<1> QED BY <1>2, <1>3, <1>4, <1>5, <1>6, <1>7 DEF Next, Worker, Rx, RxVf, RxPf

\* How far a request comes in a step: it goes on, or it falls off the way
\* when it is matched or given up.
LEMMA FlowStep ==
  ASSUME NoneFailed', AllAlive, CopyInv, OrderInv, \A q \in VfReq : FlowInv(q), [Next]_vars,
         NEW r \in VfReq
  PROVE  FlowInv(r)'
<1>0. PlaceInv /\ HeldInv
  BY DEF AllAlive
<1>1. (~GivenUp' => ~GivenUp) /\ (handled[r] = 1 => handled'[r] = 1) /\ FlowInv(r)
  BY <1>0, GivenUpStays, HandledStays
<1>2. ASSUME Same(r), Matched(r) => Matched(r)' PROVE FlowInv(r)'
  BY <1>1, <1>2 DEF Same, FlowInv, Flying
<1>3. ASSUME Level(r)' # 0, Level(r) # 0, Out(r)' <=> Out(r) PROVE FlowInv(r)'
  BY <1>1, <1>3 DEF FlowInv, Flying
<1>4. ASSUME Calm PROVE FlowInv(r)'
  BY <1>2, <1>4 DEF Calm, HoldsOn
<1>5. ASSUME NEW e \in End, TxSend(e) PROVE FlowInv(r)'
  <2>1. PICK c : c = cur[e]
    OBVIOUS
  <2>2. CASE r = c
    <3>1. Level(r)' = 1 /\ Out(r)'
      BY <1>0, <1>5, <2>1, <2>2, SendFlight
    <3> QED BY <3>1 DEF FlowInv, Flying
  <2>3. CASE Answer(r) = c
    BY <1>0, <1>3, <1>5, <2>1, <2>3, SendFlight
  <2>4. CASE r # c /\ Answer(r) # c
    BY <1>0, <1>2, <1>5, <2>1, <2>4, SendFlight DEF HoldsOn
  <2> QED BY <2>2, <2>3, <2>4
<1>6. ASSUME NEW e \in End, RxRead(e) PROVE FlowInv(r)'
  <2>1. PICK c : c = slot[Peer(e)]
    OBVIOUS
  <2>2. CASE r = c
    BY <1>0, <1>3, <1>6, <2>1, <2>2, ReadFlight
  <2>3. CASE Answer(r) = c
    BY <1>0, <1>3, <1>6, <2>1, <2>3, ReadFlight
  <2>4. CASE r # c /\ Answer(r) # c
    BY <1>0, <1>2, <1>6, <2>1, <2>4, ReadFlight DEF HoldsOn
  <2> QED BY <2>2, <2>3, <2>4
<1>7. ASSUME NEW e \in End, TxDrop(e) PROVE FlowInv(r)'
  <2>1. /\ GivenUp' /\ (Out(r)' <=> Out(r))
        /\ Level(r)' = Level(r) \/ (Level(r) = 3 /\ Level(r)' = 0)
    BY <1>0, <1>7, DropFlight
  <2>2. Level(r) = 3 => handled[r] = 1
    BY <1>0, LevelFacts
  <2> QED BY <1>1, <2>1, <2>2 DEF FlowInv, Flying
<1>8. ASSUME RxRequestPf, rx["pf"] \in VfReq PROVE FlowInv(r)'
  <2>1. CASE r = rx["pf"]
    BY <1>0, <1>3, <1>8, <2>1, RequestFlight
  <2>2. CASE r # rx["pf"]
    BY <1>0, <1>2, <1>8, <2>2, RequestFlight DEF HoldsOn
  <2> QED BY <2>1, <2>2
<1>9. ASSUME RxMatchVf PROVE FlowInv(r)'
  <2>1. /\ pc["vf"] = "match" /\ pc'["vf"] = "dispatch" /\ cur'["vf"] = FirstMatch("vf")
        /\ Out(r)' <=> Out(r)
        /\ rx["vf"] # Answer(r) => Level(r)' = Level(r)
        /\ rx["vf"] = Answer(r) => Level(r) = 5 /\ Level(r)' = 0
    BY <1>0, <1>9, MatchFlight
  <2>2. CASE rx["vf"] # Answer(r)
    <3>1. ~Matched(r)
      BY <2>1 DEF Matched
    <3> QED BY <1>1, <2>1, <2>2, <3>1 DEF FlowInv, Flying
  <2>3. CASE rx["vf"] = Answer(r)
    <3>1. handled[r] = 1
      BY <1>0, <2>1, <2>3, LevelFacts
    <3>2. ~GivenUp => Matched(r)'
      BY <1>0, <2>1, <2>3, MatchFacts DEF Matched
    <3> QED BY <1>1, <2>1, <2>3, <3>1, <3>2 DEF FlowInv, Flying
  <2> QED BY <2>2, <2>3
<1>10. ASSUME RxCopyVf PROVE FlowInv(r)'
  <2>1. PICK c : c = cur["vf"]
    OBVIOUS
  <2>2. /\ c \in VfReq /\ ~Out(c)' /\ pc["vf"] = "copy"
        /\ Level(r)' = Level(r) /\ (r # c => (Out(r)' <=> Out(r)))
    BY <1>0, <1>10, <2>1, CopyFlight
  <2>3. CASE r = c
    <3>1. ~Flying(c)
      BY <2>1, <2>2, AnswerFacts, HomeFacts DEF CopyInv
    <3> QED BY <2>2, <2>3, <3>1 DEF FlowInv, Flying
  <2>4. CASE r # c
    <3>1. ~Matched(r)
      BY <2>1, <2>4 DEF Matched
    <3> QED BY <1>1, <2>2, <2>4, <3>1 DEF FlowInv, Flying
  <2> QED BY <2>3, <2>4
<1> QED BY <1>0, <1>4, <1>5, <1>6, <1>7, <1>8, <1>9, <1>10, StepCases

LEMMA CopyStep ==
  ASSUME NoneFailed', AllAlive, CopyInv, OrderInv, \A q \in VfReq : FlowInv(q), [Next]_vars
  PROVE  CopyInv'
<1> SUFFICES ASSUME pc'["vf"] \in {"dispatch", "copy"}, cur'["vf"] # Nil
             PROVE  ~Flying(cur["vf"])' /\ (~GivenUp' => rx'["vf"] = Answer(cur'["vf"]))
  BY DEF CopyInv
<1>0. PlaceInv /\ HeldInv
  BY DEF AllAlive
<1>1. PICK r : r = cur'["vf"]
  OBVIOUS
<1>2. ~GivenUp' => ~GivenUp
  BY <1>0, GivenUpStays
<1>3. ASSUME HoldsOn
      PROVE  /\ r \in VfReq /\ r = cur["vf"] /\ Level(r) = 0 /\ pc["vf"] \in {"dispatch", "copy"}
             /\ ~GivenUp' => rx'["vf"] = Answer(r)
  BY <1>0, <1>1, <1>2, <1>3 DEF HeldInv, HoldsOn, CopyInv, Flying
<1>4. ASSUME HoldsOn, Level(r)' = 0 PROVE ~Flying(cur["vf"])' /\ (~GivenUp' => rx'["vf"] = Answer(cur'["vf"]))
  BY <1>1, <1>3, <1>4 DEF Flying
<1>5. ASSUME HoldsOn, Same(r) PROVE ~Flying(cur["vf"])' /\ (~GivenUp' => rx'["vf"] = Answer(cur'["vf"]))
  BY <1>3, <1>4, <1>5 DEF Same
<1>6. CASE Calm
  BY <1>3, <1>5, <1>6 DEF Calm
<1>7. ASSUME NEW e \in End, TxSend(e) PROVE HoldsOn /\ Same(r)
  <2>1. PICK c : c = cur[e]
    OBVIOUS
  <2>2. HoldsOn
    BY <1>0, <1>7, SendFlight
  <2>3. r # c
    BY <1>0, <1>3, <1>7, <2>1, <2>2, SendFlight
  <2>4. Answer(r) # c
    BY <1>0, <1>3, <1>7, <2>1, <2>2, SendFlight
  <2> QED BY <1>0, <1>3, <1>7, <2>1, <2>2, <2>3, <2>4, SendFlight
<1>8. ASSUME NEW e \in End, RxRead(e) PROVE HoldsOn /\ Same(r)
  <2>1. PICK c : c = slot[Peer(e)]
    OBVIOUS
  <2>2. HoldsOn
    BY <1>0, <1>8, ReadFlight
  <2>3. r # c
    BY <1>0, <1>3, <1>8, <2>1, <2>2, ReadFlight
  <2>4. Answer(r) # c
    BY <1>0, <1>3, <1>8, <2>1, <2>2, ReadFlight
  <2> QED BY <1>0, <1>3, <1>8, <2>1, <2>2, <2>3, <2>4, ReadFlight
<1>9. ASSUME NEW e \in End, TxDrop(e) PROVE HoldsOn /\ Level(r)' = 0
  <2>1. HoldsOn /\ \A q \in VfReq : Level(q)' = Level(q) \/ Level(q)' = 0
    BY <1>0, <1>9, DropFlight
  <2> QED BY <1>3, <2>1
<1>10. ASSUME RxRequestPf, rx["pf"] \in VfReq PROVE HoldsOn /\ Same(r)
  <2>1. HoldsOn /\ Level(rx["pf"]) = 2 /\ \A q \in VfReq : q # rx["pf"] => Same(q)
    BY <1>0, <1>10, RequestFlight
  <2> QED BY <1>3, <2>1
<1>11. CASE RxMatchVf
  <2>1. /\ pc["vf"] = "match" /\ r = FirstMatch("vf") /\ rx' = rx
        /\ \A q \in VfReq : /\ rx["vf"] # Answer(q) => Level(q)' = Level(q)
                            /\ rx["vf"] = Answer(q) => Level(q)' = 0
    BY <1>0, <1>1, <1>11, MatchFlight
  <2>2. /\ r \in VfReq
        /\ Flying(r) => rx["vf"] = Answer(r)
        /\ ~GivenUp => rx["vf"] = Answer(r)
    BY <1>0, <1>1, <2>1, MatchFacts
  <2>3. Level(r)' = 0
    BY <2>1, <2>2 DEF Flying
  <2> QED BY <1>1, <1>2, <2>1, <2>2, <2>3 DEF Flying
<1>12. CASE RxCopyVf
  BY <1>0, <1>12, CopyFlight
<1> QED BY <1>0, <1>4, <1>5, <1>6, <1>7, <1>8, <1>9, <1>10, <1>11, <1>12, StepCases


LEMMA TellStep ==
  ASSUME NoneFailed', AllAlive, CopyInv, OrderInv, \A q \in VfReq : FlowInv(q), [Next]_vars,
         NEW r \in VfReq, TellInv(r)
  PROVE  TellInv(r)'
<1>0. PlaceInv /\ HeldInv
  BY DEF AllAlive
<1>1. /\ (~GivenUp' => ~GivenUp) /\ (handled[r] = 1 => handled'[r] = 1)
      /\ r \in Req /\ r \notin PfReq /\ Home(r) = "vf" /\ r # Nil
      /\ stage \in [Req -> {"new", "queued", "asleep", "awake", "late", "ok", "failed"}]
      /\ resp_op_matched \in [Req -> BOOLEAN] /\ raw \in [Req -> Msg]
  BY <1>0, GivenUpStays, HandledStays, AnswerFacts, HomeFacts DEF PlaceInv, Types, SenderType
<1>2. ASSUME UNCHANGED <<resp_op_matched[r], raw[r]>> PROVE TellInv(r)'
  BY <1>1, <1>2 DEF TellInv
<1>3. ASSUME NEW q \in Req, Sender(q) PROVE UNCHANGED <<resp_op_matched, raw>>
  BY <1>3 DEF Sender, MsgSend, Wait, TimeOut, Return, Expire
<1>4. ASSUME RxMatchVf PROVE TellInv(r)'
  <2>1. /\ pc["vf"] = "match" /\ UNCHANGED raw
        /\ resp_op_matched'[r] <=> resp_op_matched[r] \/ r = FirstMatch("vf")
    BY <1>1, <1>4 DEF RxMatchVf
  <2>2. r = FirstMatch("vf") => handled[r] = 1
    BY <1>0, <1>1, <2>1, MatchFacts
  <2> QED BY <1>1, <2>1, <2>2 DEF TellInv
<1>5. ASSUME RxCopyVf PROVE TellInv(r)'
  <2>1. PICK c : c = cur["vf"]
    OBVIOUS
  <2>2. /\ pc["vf"] = "copy" /\ UNCHANGED resp_op_matched /\ c \in VfReq /\ c \in Req
        /\ raw' = [raw EXCEPT ![c] = IF c \in freed THEN @ ELSE rx["vf"]]
    BY <1>5, <2>1, CopyFlight, AnswerFacts DEF RxCopyVf
  <2>3. CASE r # c
    BY <1>1, <1>2, <2>2, <2>3
  <2>4. CASE r = c
    <3>1. ~GivenUp => rx["vf"] = Answer(r)
      BY <1>1, <2>1, <2>2, <2>4 DEF CopyInv
    <3>2. raw'[r] = raw[r] \/ raw'[r] = rx["vf"]
      BY <1>1, <2>2, <2>4
    <3> QED BY <1>1, <2>2, <3>1, <3>2 DEF TellInv
  <2> QED BY <2>3, <2>4
<1>6. ASSUME RxResponsePf PROVE TellInv(r)'
  <2>1. PICK c, q : c = rx["pf"] /\ q = FirstMatch("pf")
    OBVIOUS
  <2>2. \/ UNCHANGED senders
        \/ /\ q \in Req /\ Home(q) = "pf" /\ raw' = [raw EXCEPT ![q] = c]
           /\ resp_op_matched' = [resp_op_matched EXCEPT ![q] = TRUE]
    BY <1>0, <1>6, <2>1, RxResponsePfMoves
  <2>3. CASE UNCHANGED senders
    BY <1>2, <2>3
  <2>4. CASE ~UNCHANGED senders
    <3>1. q # r
      BY <1>1, <2>2, <2>4, EndNames
    <3> QED BY <1>1, <1>2, <2>2, <2>4, <3>1
  <2> QED BY <2>3, <2>4
<1>7. ASSUME NEW e \in End, Start(e) \/ Tx(e) \/ RxRead(e) \/ RxEnd(e) \/ TimerFire(e) PROVE UNCHANGED senders
  BY <1>7 DEF Start, Tx, TxPick, TxSend, TxBusy, TxDrop, TxUnlink, TxPend, RxRead, RxEnd, TimerFire
<1>8. ASSUME RxDispatchVf \/ RxRequestPf PROVE UNCHANGED senders
  BY <1>8 DEF RxDispatchVf, RxRequestPf
<1>9. ASSUME LeaveStop \/ LeaveBye \/ LeaveOff \/ UNCHANGED vars PROVE UNCHANGED senders
  BY <1>9 DEF LeaveStop, LeaveBye, LeaveOff, vars
<1> QED BY <1>2, <1>3, <1>4, <1>5, <1>6, <1>7, <1>8, <1>9 DEF Next, Worker, Rx, RxVf, RxPf

-----------------------------------------------------------------------------
(* No answer is used twice.                                                *)

\* sent, read and done with
Passed(m) == ~Fresh(m) /\ ~Waits(m) /\ ~InSlot(m) /\ ~InRx(m)

LEMMA PassedStays ==
  ASSUME PlaceInv, [Next]_vars, NEW m \in Msg, Passed(m)
  PROVE  Passed(m)'
<1>1. ASSUME Keeps(m) PROVE Passed(m)'
  BY <1>1 DEF Passed, Keeps
<1>2. ASSUME NEW r \in Req, MsgSend(r) PROVE Passed(m)'
  BY <1>1, <1>2, MsgSendMoves DEF Passed
<1>3. ASSUME NEW r \in Req, Expire(r) PROVE Passed(m)'
  <2>1. CASE m = r
    BY <1>3, <2>1, ExpireMoves DEF Passed
  <2> QED BY <1>1, <1>3, <2>1, ExpireMoves
<1>4. ASSUME LeaveBye PROVE Passed(m)'
  BY <1>1, <1>4, LeaveByeMoves DEF Passed
<1>5. ASSUME Quiet PROVE Passed(m)'
  BY <1>1, <1>5, QuietMoves
<1>6. ASSUME NEW e \in End, TxPick(e) PROVE Passed(m)'
  <2>1. PICK c : c = Head(tx_todo_list[e])
    OBVIOUS
  <2> QED BY <1>1, <1>6, <2>1, TxPickMoves DEF Passed
<1>7. ASSUME NEW e \in End, TxSend(e) \/ TxBusy(e) \/ TxDrop(e) PROVE Passed(m)'
  <2>1. PICK c : c = cur[e]
    OBVIOUS
  <2>2. AtSend(c) /\ \A n \in Msg \ {c} : Keeps(n)
    BY <1>7, <2>1, TxSendMoves, TxBusyMoves, TxDropMoves
  <2> QED BY <1>1, <2>2 DEF Passed
<1>8. ASSUME NEW e \in End, TxUnlink(e) PROVE Passed(m)'
  <2>1. PICK c : c = cur[e]
    OBVIOUS
  <2> QED BY <1>1, <1>8, <2>1, TxUnlinkMoves DEF Passed
<1>9. ASSUME NEW e \in End, TxPend(e) PROVE Passed(m)'
  <2>1. PICK c : c = cur[e]
    OBVIOUS
  <2> QED BY <1>1, <1>9, <2>1, TxPendMoves DEF Passed
<1>10. ASSUME NEW e \in End, RxRead(e) PROVE Passed(m)'
  <2>1. PICK c : c = slot[Peer(e)]
    OBVIOUS
  <2> QED BY <1>1, <1>10, <2>1, RxReadMoves DEF Passed
<1>11. ASSUME NEW c \in Req, NEW a, a = Answer(c), InRx(c), Passed(a) PROVE FALSE
  <2>1. handled[c] = 0
    BY <1>11, HomeFacts DEF PlaceInv, MsgInv
  <2>2. a \in Answers /\ a \notin Req /\ a # Bye /\ a[1] = c
    BY <1>11, HomeFacts
  <2> QED BY <1>11, <2>1, <2>2 DEF Passed, Fresh
<1>12. ASSUME RxRequestPf PROVE Passed(m)'
  <2>1. PICK c, a : c = rx["pf"] /\ a = Answer(c)
    OBVIOUS
  <2>2. m # c /\ (c \in VfReq => m # a)
    BY <1>11, <1>12, <2>1, RxRequestPfMoves, HomeFacts DEF Passed
  <2> QED BY <1>1, <1>12, <2>1, <2>2, RxRequestPfMoves
<1>13. ASSUME RxDispatchVf PROVE Passed(m)'
  <2>1. PICK c, a : c = rx["vf"] /\ a = Answer(c)
    OBVIOUS
  <2>2. InRx(c)
    BY <1>13, <2>1, RxDispatchVfMoves
  <2>3. m # c /\ (c \in PfReq => m # a)
    BY <1>11, <2>1, <2>2, HomeFacts DEF Passed
  <2> QED BY <1>1, <1>13, <2>1, <2>3, RxDispatchVfMoves
<1>14. ASSUME RxCopyVf PROVE Passed(m)'
  <2>1. PICK c, r : c = rx["vf"] /\ r = cur["vf"]
    OBVIOUS
  <2>2. m # c
    BY <1>14, <2>1, RxCopyVfMoves DEF Passed
  <2>3. CASE m = r
    BY <1>14, <2>1, <2>2, <2>3, RxCopyVfMoves DEF Passed
  <2>4. CASE m # r
    BY <1>1, <1>14, <2>1, <2>2, <2>4, RxCopyVfMoves
  <2> QED BY <2>3, <2>4
<1>15. ASSUME RxResponsePf PROVE Passed(m)'
  <2>1. PICK c, r : c = rx["pf"] /\ r = FirstMatch("pf")
    OBVIOUS
  <2>2. m # c
    BY <1>15, <2>1, RxResponsePfMoves DEF Passed
  <2> QED BY <1>15, <2>1, <2>2, RxResponsePfMoves DEF Passed
<1>16. ASSUME UNCHANGED vars PROVE Passed(m)'
  BY <1>16 DEF vars, Passed, Fresh, AtSend, Listed, Sent, InSlot, InRx
<1> QED BY <1>2, <1>3, <1>4, <1>5, <1>6, <1>7, <1>8, <1>9, <1>10, <1>12, <1>13, <1>14, <1>15, <1>16
        DEF Next, Sender, Worker, Tx, Rx, RxVf, RxPf, Quiet

\* What was copied over a request is an answer that has come all the way, and
\* no other request has it.  Nothing is copied after the sender has returned.
UsedInv(r) ==
  /\ raw[r] # r => \E q \in VfReq : raw[r] = Answer(q) /\ Passed(Answer(q))
  /\ \A s \in VfReq : s # r => raw[s] # raw[r]
  /\ raw[r] # r /\ stage[r] \notin Over => resp_op_matched[r] /\ ~Pending(r)
  /\ stage[r] \in Over => r \in freed


LEMMA PendingMoves ==
  ASSUME PlaceInv, [Next]_vars, NEW m \in Msg, Pending(m)'
  PROVE  Pending(m) \/ InHand(m)
<1>1. ASSUME Keeps(m) PROVE Pending(m)
  BY <1>1 DEF Keeps
<1>2. ASSUME NEW r \in Req, MsgSend(r) PROVE Pending(m)
  BY <1>1, <1>2, MsgSendMoves
<1>3. ASSUME NEW r \in Req, Expire(r) PROVE Pending(m)
  BY <1>1, <1>3, ExpireMoves
<1>4. ASSUME Quiet PROVE Pending(m)
  BY <1>1, <1>4, QuietMoves
<1>5. ASSUME LeaveBye \/ UNCHANGED vars PROVE Pending(m)
  BY <1>5 DEF LeaveBye, vars, Pending
<1>6. ASSUME NEW e \in End, TxPick(e) \/ TxSend(e) \/ TxBusy(e) \/ TxDrop(e) \/ TxUnlink(e) \/ RxRead(e)
      PROVE  Pending(m)
  BY <1>6 DEF TxPick, TxSend, TxBusy, TxDrop, TxUnlink, RxRead, Pending
<1>7. ASSUME NEW e \in End, TxPend(e) PROVE Pending(m) \/ InHand(m)
  <2>1. PICK c : c = cur[e]
    OBVIOUS
  <2> QED BY <1>1, <1>7, <2>1, TxPendMoves
<1>8. ASSUME RxRequestPf \/ RxDispatchVf PROVE Pending(m)
  BY <1>8 DEF RxRequestPf, RxDispatchVf, Pending
<1>9. ASSUME RxCopyVf PROVE Pending(m)
  <2>1. PICK r : r = cur["vf"]
    OBVIOUS
  <2>2. Loses(rx_pend_list, rx_pend_list', "vf", r)
    BY <1>9, <2>1, RxCopyVfMoves
  <2> QED BY <2>2, HomeFacts DEF Loses, Pending
<1>10. ASSUME RxResponsePf PROVE Pending(m)
  <2>1. PICK r : r = FirstMatch("pf")
    OBVIOUS
  <2>2. UNCHANGED rx_pend_list \/ Loses(rx_pend_list, rx_pend_list', "pf", r)
    BY <1>10, <2>1, RxResponsePfMoves
  <2> QED BY <2>2, HomeFacts DEF Loses, Pending
<1> QED BY <1>2, <1>3, <1>4, <1>5, <1>6, <1>7, <1>8, <1>9, <1>10
        DEF Next, Sender, Worker, Tx, Rx, RxVf, RxPf, Quiet

\* What a step does to a request of the virtual function, as its sender sees it.
LEMMA SenderMoves ==
  ASSUME AllAlive, [Next]_vars, NEW r \in VfReq
  PROVE  /\ ~RxCopyVf => raw'[r] = raw[r]
         /\ resp_op_matched[r] => resp_op_matched'[r]
         /\ stage[r] \in Over => stage'[r] = stage[r]
         /\ stage'[r] \in Over => stage[r] \in Over \/ r \in freed'
         /\ r \in freed => r \in freed'
<1>1. /\ r \in Req /\ r \notin PfReq /\ Home(r) = "vf" /\ PlaceInv
      /\ stage \in [Req -> {"new", "queued", "asleep", "awake", "late", "ok", "failed"}]
      /\ resp_op_matched \in [Req -> BOOLEAN] /\ raw \in [Req -> Msg]
  BY AnswerFacts DEF AllAlive, PlaceInv, Types, SenderType
<1> DEFINE Goal == /\ ~RxCopyVf => raw'[r] = raw[r]
                   /\ resp_op_matched[r] => resp_op_matched'[r]
                   /\ stage[r] \in Over => stage'[r] = stage[r]
                   /\ stage'[r] \in Over => stage[r] \in Over \/ r \in freed'
                   /\ r \in freed => r \in freed'
<1>2. ASSUME UNCHANGED <<stage[r], resp_op_matched[r], raw[r]>>, r \in freed => r \in freed' PROVE Goal
  BY <1>2
<1>3. ASSUME NEW q \in Req, MsgSend(q) \/ Wait(q) \/ TimeOut(q) PROVE Goal
  <2>1. /\ UNCHANGED <<resp_op_matched, raw, freed>> /\ stage[q] \notin Over
        /\ \E s \in {"queued", "asleep", "awake", "late"} : stage' = [stage EXCEPT ![q] = s]
    BY <1>3 DEF MsgSend, Wait, TimeOut, Over
  <2>2. \A p \in Req : p # q => stage'[p] = stage[p]
    BY <1>1, <2>1
  <2>3. stage'[q] \notin Over
    BY <1>1, <2>1 DEF Over
  <2>4. CASE q = r
    BY <2>1, <2>3, <2>4
  <2>5. CASE q # r
    BY <1>1, <1>2, <2>1, <2>2, <2>5
  <2> QED BY <2>4, <2>5
<1>4. ASSUME NEW q \in Req, Return(q) \/ Expire(q) PROVE Goal
  <2>1. /\ UNCHANGED <<resp_op_matched, raw>> /\ stage[q] \notin Over
        /\ freed' = freed \cup (IF q \in VfReq THEN {q} ELSE {})
        /\ \E s \in Over : stage' = [stage EXCEPT ![q] = s]
    BY <1>4 DEF Return, Expire, Release, Over
  <2>2. \A p \in Req : p # q => stage'[p] = stage[p]
    BY <1>1, <2>1
  <2>3. CASE q = r
    BY <2>1, <2>3
  <2>4. CASE q # r
    BY <1>1, <1>2, <2>1, <2>2, <2>4
  <2> QED BY <2>3, <2>4
<1>5. ASSUME NEW e \in End, Start(e) \/ RxRead(e) \/ RxEnd(e) \/ TimerFire(e) PROVE Goal
  BY <1>2, <1>5 DEF Start, RxRead, RxEnd, TimerFire
<1>6. ASSUME NEW e \in End, Tx(e) PROVE Goal
  <2>1. UNCHANGED senders /\ freed \subseteq freed'
    BY <1>6 DEF Tx, TxPick, TxSend, TxBusy, TxDrop, TxUnlink, TxPend
  <2> QED BY <1>2, <2>1
<1>7. ASSUME RxMatchVf PROVE Goal
  <2>1. UNCHANGED <<stage, raw, freed>> /\ (resp_op_matched[r] => resp_op_matched'[r])
    BY <1>1, <1>7 DEF RxMatchVf
  <2> QED BY <2>1
<1>8. ASSUME RxDispatchVf \/ RxRequestPf \/ LeaveStop \/ LeaveBye \/ LeaveOff \/ UNCHANGED vars PROVE Goal
  BY <1>2, <1>8 DEF RxDispatchVf, RxRequestPf, LeaveStop, LeaveBye, LeaveOff, vars
<1>9. ASSUME RxCopyVf PROVE Goal
  <2>1. stage' = Wake(cur["vf"]) /\ UNCHANGED <<resp_op_matched, freed>>
    BY <1>9 DEF RxCopyVf
  <2>2. /\ stage[r] \in Over => stage'[r] = stage[r]
        /\ stage'[r] \in Over => stage[r] \in Over
    BY <1>1, <2>1 DEF Wake, Over
  <2> QED BY <1>9, <2>1, <2>2
<1>10. ASSUME RxResponsePf PROVE Goal
  <2>1. PICK c, q : c = rx["pf"] /\ q = FirstMatch("pf")
    OBVIOUS
  <2>2. \/ UNCHANGED <<senders, memory>>
        \/ /\ q \in Req /\ Home(q) = "pf" /\ stage' = Wake(q) /\ raw' = [raw EXCEPT ![q] = c]
           /\ resp_op_matched' = [resp_op_matched EXCEPT ![q] = TRUE] /\ freed' = freed \cup {q}
    BY <1>1, <1>10, <2>1, RxResponsePfMoves
  <2>3. CASE UNCHANGED <<senders, memory>>
    BY <1>2, <2>3
  <2>4. CASE ~UNCHANGED <<senders, memory>>
    <3>1. q # r
      BY <1>1, <2>2, <2>4, EndNames
    <3>2. UNCHANGED <<stage[r], resp_op_matched[r], raw[r]>> /\ (r \in freed => r \in freed')
      BY <1>1, <2>2, <2>4, <3>1 DEF Wake
    <3> QED BY <1>2, <3>2
  <2> QED BY <2>3, <2>4
<1> HIDE DEF Goal
<1>11. Goal
  BY <1>3, <1>4, <1>5, <1>6, <1>7, <1>8, <1>9, <1>10 DEF Next, Sender, Worker, Rx, RxVf, RxPf
<1> QED BY <1>11 DEF Goal

\* What the worker of the virtual function copies is an answer nobody has.
LEMMA CopyMoves ==
  ASSUME AllAlive, \A s \in VfReq : UsedInv(s), RxCopyVf, NEW c, c = rx["vf"], NEW r, r = cur["vf"]
  PROVE  /\ r \in VfReq /\ resp_op_matched'[r] /\ ~Pending(r)'
         /\ \A s \in VfReq : raw'[s] = IF s = r /\ s \notin freed THEN c ELSE raw[s]
         /\ \E q \in VfReq : c = Answer(q)
         /\ Passed(c)' /\ c \in Msg
         /\ \A s \in VfReq : raw[s] # c
<1>1. /\ PlaceInv /\ raw \in [Req -> Msg] /\ pc["vf"] = "copy" /\ UNCHANGED resp_op_matched
      /\ raw' = [raw EXCEPT ![r] = IF r \in freed THEN @ ELSE c]
  BY DEF AllAlive, PlaceInv, Types, SenderType, RxCopyVf
<1>2. /\ c \in Msg /\ c \in Answers /\ Home(c) = "pf" /\ InRx(c) /\ ~InRx(c)' /\ r \in Req /\ c # r
      /\ Listed(c)' <=> Listed(c)
      /\ AtSend(c)' <=> AtSend(c)
      /\ Sent(c)' <=> Sent(c)
      /\ InSlot(c)' <=> InSlot(c)
      /\ Fresh(c)' <=> Fresh(c)
      /\ Home(r) = "vf" => ~Pending(r)'
  BY <1>1, RxCopyVfMoves, HomeFacts
<1>3. r \in VfReq /\ Home(r) = "vf" /\ resp_op_matched[r]
  <2>1. r \in VfReq
    BY <1>1, <1>2, HomeFacts DEF AllAlive, HeldInv
  <2>2. AliveInv(r) /\ Matched(r)
    BY <1>1, <1>2 DEF AllAlive, Matched
  <2> QED BY <2>1, <2>2, AnswerFacts DEF AliveInv
<1>4. \E q \in VfReq : c = Answer(q)
  <2>1. c[1] \in Req /\ c = Answer(c[1])
    BY <1>2, HomeFacts
  <2>2. c[1] \in VfReq
    BY <1>2, <2>1, HomeFacts, EndNames
  <2> QED BY <2>1, <2>2
<1>5. Passed(c)'
  BY <1>1, <1>2 DEF Passed, PlaceInv, MsgInv
<1>6. ASSUME NEW s \in VfReq, raw[s] = c PROVE FALSE
  <2>1. raw[s] # s
    BY <1>2, <1>6, AnswerFacts
  <2>2. Passed(c)
    BY <1>6, <2>1 DEF UsedInv
  <2> QED BY <1>2, <2>2 DEF Passed
<1>7. ASSUME NEW s \in VfReq PROVE raw'[s] = IF s = r /\ s \notin freed THEN c ELSE raw[s]
  BY <1>1, <1>2, AnswerFacts
<1> QED BY <1>1, <1>2, <1>3, <1>4, <1>5, <1>6, <1>7

LEMMA UsedStep ==
  ASSUME AllAlive, \A s \in VfReq : UsedInv(s), [Next]_vars, NEW r \in VfReq
  PROVE  UsedInv(r)'
<1>1. PlaceInv /\ AliveInv(r) /\ r \in Req /\ r \in Msg /\ UsedInv(r)
  BY AnswerFacts DEF AllAlive
<1>2. /\ resp_op_matched[r] => resp_op_matched'[r]
      /\ stage[r] \in Over => stage'[r] = stage[r]
      /\ stage'[r] \in Over => stage[r] \in Over \/ r \in freed'
      /\ r \in freed => r \in freed'
  BY SenderMoves
<1>3. stage'[r] \in Over => r \in freed'
  BY <1>1, <1>2 DEF UsedInv
<1>4. \A q \in VfReq : Passed(Answer(q)) => Passed(Answer(q))'
  BY <1>1, AnswerFacts, PassedStays
<1>5. CASE RxCopyVf
  <2>1. PICK c, k : c = rx["vf"] /\ k = cur["vf"]
    OBVIOUS
  <2>2. /\ k \in VfReq /\ resp_op_matched'[k] /\ ~Pending(k)'
        /\ \A s \in VfReq : raw'[s] = IF s = k /\ s \notin freed THEN c ELSE raw[s]
        /\ \E q \in VfReq : c = Answer(q)
        /\ Passed(c)' /\ \A s \in VfReq : raw[s] # c
    BY <1>5, <2>1, CopyMoves
  <2>3. raw'[r] # r => \E q \in VfReq : raw'[r] = Answer(q) /\ Passed(Answer(q))'
    <3>1. CASE raw'[r] = raw[r]
      BY <1>1, <1>4, <3>1 DEF UsedInv
    <3>2. CASE raw'[r] = c
      BY <2>2, <3>2
    <3> QED BY <2>2, <3>1, <3>2
  <2>4. \A s \in VfReq : s # r => raw'[s] # raw'[r]
    BY <1>1, <2>2 DEF UsedInv
  <2>5. raw'[r] # r /\ stage'[r] \notin Over => resp_op_matched'[r] /\ ~Pending(r)'
    <3>1. CASE r = k
      BY <2>2, <3>1
    <3>2. CASE r # k
      <4>1. raw'[r] = raw[r]
        BY <2>2, <3>2
      <4>2. Pending(r)' => Pending(r) \/ InHand(r)
        BY <1>1, PendingMoves
      <4> QED BY <1>1, <1>2, <4>1, <4>2 DEF UsedInv, AliveInv
    <3> QED BY <3>1, <3>2
  <2> QED BY <1>3, <2>3, <2>4, <2>5 DEF UsedInv
<1>6. CASE ~RxCopyVf
  <2>1. \A s \in VfReq : raw'[s] = raw[s]
    BY <1>6, SenderMoves
  <2>2. raw'[r] # r => \E q \in VfReq : raw'[r] = Answer(q) /\ Passed(Answer(q))'
    BY <1>1, <1>4, <2>1 DEF UsedInv
  <2>3. \A s \in VfReq : s # r => raw'[s] # raw'[r]
    BY <1>1, <2>1 DEF UsedInv
  <2>4. raw'[r] # r /\ stage'[r] \notin Over => resp_op_matched'[r] /\ ~Pending(r)'
    <3>1. Pending(r)' => Pending(r) \/ InHand(r)
      BY <1>1, PendingMoves
    <3> QED BY <1>1, <1>2, <2>1, <3>1 DEF UsedInv, AliveInv
  <2> QED BY <1>3, <2>2, <2>3, <2>4 DEF UsedInv
<1> QED BY <1>5, <1>6


-----------------------------------------------------------------------------
(* The mailbox is a MailboxService to the virtual function.                *)

ServiceInv ==
  /\ AllAlive
  /\ \A q \in VfReq : UsedInv(q)
  /\ NoneFailed => CopyInv /\ OrderInv /\ \A q \in VfReq : FlowInv(q) /\ TellInv(q)

LEMMA InitService == Init => ServiceInv
<1> SUFFICES ASSUME Init PROVE ServiceInv
  OBVIOUS
<1>1. PlaceInv /\ AllAlive
  BY InitAlive DEF AllAlive
<1>2. CopyInv
  BY InitFacts, EndNames DEF CopyInv
<1>3. ASSUME NEW q \in VfReq PROVE ~Flying(q) /\ ~Out(q) /\ TellInv(q)
  <2>1. /\ handled[q] = 0 /\ stage[q] = "new" /\ raw[q] = q /\ ~resp_op_matched[q]
        /\ q \in Req /\ q \in Msg /\ Home(q) = "vf" /\ pc["vf"] = "idle"
        /\ rx_pend_list["vf"] = <<>>
    BY InitFacts, AnswerFacts, EndNames
  <2>2. ~InSlot(q) /\ ~InRx(q)
    BY <1>1, <2>1, AnswerFacts DEF PlaceInv, MsgInv, Fresh
  <2>3. Level(q) \in 0..5 /\ Level(q) \notin {3, 4, 5} /\ Level(q) # 1 /\ Level(q) # 2
    BY <1>1, <2>1, <2>2, LevelFacts
  <2>4. ~Out(q)
    BY <2>1, EmptyFacts DEF Out, Sent, InHand, Pending
  <2> QED BY <2>1, <2>3, <2>4 DEF Flying, TellInv
<1>4. ASSUME NEW q \in VfReq PROVE FlowInv(q)
  BY <1>3 DEF FlowInv
<1>5. OrderInv
  BY <1>3 DEF OrderInv
<1>6. ASSUME NEW q \in VfReq PROVE UsedInv(q)
  <2>1. \A s \in VfReq : raw[s] = s /\ stage[s] = "new"
    BY AnswerFacts DEF Init
  <2> QED BY <2>1 DEF UsedInv, Over
<1> QED BY <1>1, <1>2, <1>3, <1>4, <1>5, <1>6 DEF ServiceInv

LEMMA StepService == ServiceInv /\ [Next]_vars => ServiceInv'
<1> SUFFICES ASSUME ServiceInv, [Next]_vars PROVE ServiceInv'
  OBVIOUS
<1>1. AllAlive /\ \A q \in VfReq : UsedInv(q)
  BY DEF ServiceInv
<1>2. AllAlive' /\ \A q \in VfReq : UsedInv(q)'
  BY <1>1, StepAlive, UsedStep
<1>3. NoneFailed' => NoneFailed
  BY <1>1, SenderMoves DEF NoneFailed, Over
<1>4. ASSUME NoneFailed' PROVE CopyInv' /\ OrderInv' /\ \A q \in VfReq : FlowInv(q)' /\ TellInv(q)'
  <2>1. CopyInv /\ OrderInv /\ (\A q \in VfReq : FlowInv(q)) /\ (\A q \in VfReq : TellInv(q))
    BY <1>3, <1>4 DEF ServiceInv
  <2> QED BY <1>1, <1>4, <2>1, CopyStep, OrderStep, FlowStep, TellStep
<1> QED BY <1>2, <1>4 DEF ServiceInv

\* What a step of the mailbox is to the service.
Stays(r) ==
  /\ ServiceStage(r)' = ServiceStage(r) /\ handled'[r] = handled[r]
  /\ (r \in hurried' <=> r \in hurried) /\ Told(r)' = Told(r)
Asks(r) ==
  /\ ServiceStage(r) = "new" /\ ServiceStage(r)' = "asked" /\ handled'[r] = handled[r]
  /\ (r \in hurried' <=> r \in hurried) /\ Told(r)' = Told(r)
Handles(r) ==
  /\ ServiceStage(r) # "new" /\ ServiceStage(r)' = ServiceStage(r) /\ handled[r] = 0 /\ handled'[r] = 1
  /\ (r \in hurried' <=> r \in hurried) /\ Told(r)' = Told(r)
Ends(r) ==
  /\ ServiceStage(r) = "asked" /\ ServiceStage(r)' = "ok" /\ handled'[r] = handled[r]
  /\ (r \in hurried' <=> r \in hurried)
  /\ \E q \in VfReq : /\ handled[q] = 1 /\ \A s \in VfReq : Told(s) # q
                      /\ ~GivenUp /\ NoneFailed => q = r
                      /\ Told(r)' = q
EndsEarly(r) ==
  /\ ServiceStage(r) = "asked" /\ ServiceStage(r)' = "ok" /\ handled'[r] = handled[r]
  /\ ~GivenUp /\ NoneFailed => handled[r] = 1
  /\ r \in hurried' /\ Told(r)' = Told(r)
Fails(r) ==
  /\ ServiceStage(r) = "asked" /\ ServiceStage(r)' = "failed" /\ handled'[r] = handled[r]
  /\ (r \in hurried => r \in hurried') /\ Told(r)' = Told(r)
Moves(r) == Asks(r) \/ Handles(r) \/ Ends(r) \/ EndsEarly(r) \/ Fails(r)

LEMMA StaysFacts ==
  ASSUME NEW r, ServiceStage(r)' = ServiceStage(r), handled'[r] = handled[r],
         r \in hurried' <=> r \in hurried, stage[r] = "ok" => raw'[r] = raw[r]
  PROVE  Stays(r)
BY DEF Stays, Told, ServiceStage

\* A sender of the virtual function that was woken is told what was copied, or
\* returns while the worker holds the response.
LEMMA ReturnMoves ==
  ASSUME ServiceInv, NEW r \in VfReq, Return(r)
  PROVE  Ends(r) \/ EndsEarly(r)
<1>1. /\ r \in Req /\ Home(r) = "vf" /\ AliveInv(r) /\ UsedInv(r) /\ PlaceInv
      /\ stage \in [Req -> {"new", "queued", "asleep", "awake", "late", "ok", "failed"}]
  BY AnswerFacts DEF ServiceInv, AllAlive, PlaceInv, Types, SenderType
<1>2. /\ stage[r] = "awake" /\ UNCHANGED <<resp_op_matched, raw, handled>>
      /\ hurried' = hurried \cup (IF Held(r) THEN {r} ELSE {})
      /\ \E matched \in Reads(r) : stage' = [stage EXCEPT ![r] = IF matched THEN "ok" ELSE "failed"]
  BY DEF Return, Hurry
<1>3. r \notin freed /\ resp_op_matched[r] /\ r \notin hurried
  BY <1>1, <1>2, AnswerFacts DEF AliveInv, Over
<1>4. stage'[r] = "ok"
  BY <1>1, <1>2, <1>3 DEF Reads
<1>5. ServiceStage(r) = "asked" /\ ServiceStage(r)' = "ok" /\ Told(r) = Nil
  BY <1>2, <1>4 DEF ServiceStage, Told
<1>6. Held(r) <=> Matched(r)
  BY <1>1, <1>3, HeldIs DEF AliveInv
<1>7. CASE raw[r] = r
  <2>1. Held(r)
    BY <1>1, <1>2, <1>3, <1>6, <1>7 DEF AliveInv, Over
  <2>2. r \in hurried' /\ Told(r)' = Nil
    BY <1>2, <1>7, <2>1 DEF Told
  <2>3. NoneFailed => handled[r] = 1
    BY <1>3 DEF ServiceInv, TellInv
  <2> QED BY <1>2, <1>5, <2>2, <2>3 DEF EndsEarly
<1>8. CASE raw[r] # r
  <2>1. ~Held(r)
    BY <1>1, <1>2, <1>3, <1>6, <1>8 DEF AliveInv, UsedInv, Over
  <2>2. PICK q \in VfReq : raw[r] = Answer(q) /\ Passed(Answer(q))
    BY <1>1, <1>8 DEF UsedInv
  <2>3. Told(r)' = q
    BY <1>2, <1>4, <1>8, <2>2, AnswerFacts DEF Told
  <2>4. handled[q] = 1
    <3>1. handled[q] \in {0, 1}
      BY <1>1, AnswerFacts DEF PlaceInv, MsgInv
    <3>2. handled[q] # 0
      BY <2>2, AnswerFacts DEF Passed, Fresh
    <3> QED BY <3>1, <3>2
  <2>5. ASSUME NEW s \in VfReq, Told(s) = q PROVE FALSE
    <3>1. s # r /\ q # Nil
      BY <1>5, <2>5, AnswerFacts, ReqAssumption
    <3>2. raw[s] # s /\ raw[s][1] = q
      BY <2>5, <3>1 DEF Told
    <3>3. PICK p \in VfReq : raw[s] = Answer(p)
      BY <3>2 DEF ServiceInv, UsedInv
    <3>4. p = q
      BY <3>2, <3>3, AnswerFacts
    <3> QED BY <1>1, <2>2, <3>1, <3>3, <3>4 DEF UsedInv
  <2>6. ~GivenUp /\ NoneFailed => q = r
    BY <1>8, <2>2, AnswerFacts DEF ServiceInv, TellInv
  <2> QED BY <1>2, <1>5, <2>1, <2>3, <2>4, <2>5, <2>6 DEF Ends
<1> QED BY <1>7, <1>8


LEMMA ServiceStep ==
  ASSUME ServiceInv, [Next]_vars
  PROVE  \/ \A q \in VfReq : Stays(q)
         \/ /\ UNCHANGED retry_cnt
            /\ \E r \in VfReq : Moves(r) /\ \A q \in VfReq : q # r => Stays(q)
<1> DEFINE Goal == \/ \A q \in VfReq : Stays(q)
                   \/ /\ UNCHANGED retry_cnt
                      /\ \E r \in VfReq : Moves(r) /\ \A q \in VfReq : q # r => Stays(q)
<1>1. /\ stage \in [Req -> {"new", "queued", "asleep", "awake", "late", "ok", "failed"}]
      /\ handled \in [Req \cup {Bye} -> Nat] /\ raw \in [Req -> Msg] /\ PlaceInv /\ AllAlive
      /\ \A s \in VfReq : UsedInv(s)
  BY DEF ServiceInv, AllAlive, PlaceInv, Types, SenderType
<1>2. ASSUME UNCHANGED <<stage, handled, hurried, raw>>, NEW q PROVE Stays(q)
  BY <1>2, StaysFacts DEF ServiceStage
<1>3. ASSUME NEW r \in Req, NEW s, stage' = [stage EXCEPT ![r] = s], UNCHANGED <<handled, raw>>,
             hurried' \in {hurried, hurried \cup {r}}, NEW q \in VfReq, q # r
      PROVE  Stays(q)
  <2>1. stage'[q] = stage[q]
    BY <1>1, <1>3, AnswerFacts
  <2>2. ServiceStage(q)' = ServiceStage(q)
    BY <2>1 DEF ServiceStage
  <2> QED BY <1>3, <2>2, StaysFacts
<1>4. ASSUME NEW r \in Req, MsgSend(r) PROVE Goal
  <2>1. /\ stage[r] = "new" /\ stage' = [stage EXCEPT ![r] = "queued"]
        /\ UNCHANGED <<handled, raw, hurried, retry_cnt>>
    BY <1>4 DEF MsgSend
  <2>2. \A q \in VfReq : q # r => Stays(q)
    BY <1>3, <2>1
  <2>3. stage'[r] = "queued"
    BY <1>1, <2>1
  <2>4. r \in VfReq => Asks(r)
    BY <2>1, <2>3 DEF Asks, ServiceStage, Told
  <2> QED BY <2>1, <2>2, <2>4 DEF Moves
<1>5. ASSUME NEW r \in Req, Wait(r) \/ TimeOut(r) PROVE Goal
  <2>1. PICK s \in {"asleep", "awake", "late"} : stage' = [stage EXCEPT ![r] = s]
    BY <1>5 DEF Wait, TimeOut
  <2>2. stage[r] \in {"queued", "asleep"} /\ UNCHANGED <<handled, raw, hurried>>
    BY <1>5 DEF Wait, TimeOut
  <2>3. \A q \in VfReq : q # r => Stays(q)
    BY <1>3, <2>1, <2>2
  <2>4. stage'[r] = s
    BY <1>1, <2>1
  <2>5. Stays(r)
    BY <2>1, <2>2, <2>4, StaysFacts DEF ServiceStage
  <2> QED BY <2>3, <2>5
<1>6. ASSUME NEW r \in Req, Return(r) PROVE Goal
  <2>1. /\ UNCHANGED <<handled, raw, retry_cnt>> /\ hurried' \in {hurried, hurried \cup {r}}
        /\ \E s : stage' = [stage EXCEPT ![r] = s]
    BY <1>6 DEF Return, Hurry
  <2>2. \A q \in VfReq : q # r => Stays(q)
    BY <1>3, <2>1
  <2>3. r \in VfReq => Ends(r) \/ EndsEarly(r)
    BY <1>6, ReturnMoves
  <2> QED BY <2>1, <2>2, <2>3 DEF Moves
<1>7. ASSUME NEW r \in Req, Expire(r) PROVE Goal
  <2>1. /\ stage[r] = "late" /\ stage' = [stage EXCEPT ![r] = "failed"]
        /\ UNCHANGED <<handled, raw, retry_cnt>> /\ hurried' \in {hurried, hurried \cup {r}}
    BY <1>7 DEF Expire, Hurry
  <2>2. \A q \in VfReq : q # r => Stays(q)
    BY <1>3, <2>1
  <2>3. stage'[r] = "failed"
    BY <1>1, <2>1
  <2>4. Fails(r)
    BY <2>1, <2>3 DEF Fails, ServiceStage, Told
  <2> QED BY <2>1, <2>2, <2>4 DEF Moves
<1>8. ASSUME RxRequestPf PROVE Goal
  <2>1. PICK c : c = rx["pf"]
    OBVIOUS
  <2>2. /\ c \in VfReq \/ c = Bye
        /\ handled' = [handled EXCEPT ![c] = @ + 1] /\ UNCHANGED <<stage, raw, hurried, retry_cnt>> /\ InRx(c)
    BY <1>1, <1>8, <2>1, HomeFacts, EndNames DEF RxRequestPf, Handle, InRx, Reading
  <2>3. ASSUME NEW q \in VfReq, q # c PROVE Stays(q)
    <3>1. handled'[q] = handled[q]
      BY <1>1, <2>2, <2>3, AnswerFacts
    <3> QED BY <2>2, <3>1, StaysFacts DEF ServiceStage
  <2>4. CASE c = Bye
    BY <2>3, <2>4, AnswerFacts
  <2>5. CASE c \in VfReq
    <3>1. handled[c] = 0 /\ stage[c] # "new"
      BY <1>1, <2>2, <2>5, AnswerFacts DEF PlaceInv, MsgInv, Fresh
    <3>2. handled'[c] = 1
      BY <1>1, <2>2, <2>5, <3>1, AnswerFacts
    <3>3. Handles(c)
      BY <2>2, <3>1, <3>2 DEF Handles, ServiceStage, Told
    <3> QED BY <2>2, <2>3, <2>5, <3>3 DEF Moves
  <2> QED BY <2>2, <2>4, <2>5
<1>9. ASSUME RxDispatchVf PROVE Goal
  <2>1. /\ UNCHANGED <<stage, raw, hurried>>
        /\ UNCHANGED handled \/ (rx["vf"] \in PfReq /\ handled' = [handled EXCEPT ![rx["vf"]] = @ + 1])
    BY <1>9 DEF RxDispatchVf, Handle
  <2>2. ASSUME NEW q \in VfReq PROVE Stays(q)
    <3>1. handled'[q] = handled[q]
      BY <1>1, <2>1, AnswerFacts
    <3> QED BY <2>1, <3>1, StaysFacts DEF ServiceStage
  <2> QED BY <2>2
<1>10. ASSUME NEW c \in Req, stage' = Wake(c), UNCHANGED <<handled, hurried>>, NEW q \in VfReq,
              stage[q] = "ok" => raw'[q] = raw[q]
       PROVE  Stays(q)
  <2>1. ServiceStage(q)' = ServiceStage(q)
    BY <1>1, <1>10, AnswerFacts DEF ServiceStage, Wake
  <2> QED BY <1>10, <2>1, StaysFacts
<1>11. ASSUME RxCopyVf PROVE Goal
  <2>1. PICK c, k : c = rx["vf"] /\ k = cur["vf"]
    OBVIOUS
  <2>2. /\ k \in VfReq /\ k \in Req
        /\ \A s \in VfReq : raw'[s] = IF s = k /\ s \notin freed THEN c ELSE raw[s]
    BY <1>1, <1>11, <2>1, CopyMoves, AnswerFacts
  <2>3. ASSUME NEW q \in VfReq, stage[q] = "ok" PROVE raw'[q] = raw[q]
    BY <1>1, <2>2, <2>3 DEF UsedInv, Over
  <2>4. stage' = Wake(k) /\ UNCHANGED <<handled, hurried>>
    BY <1>11, <2>1 DEF RxCopyVf
  <2> QED BY <1>10, <2>2, <2>3, <2>4
<1>12. ASSUME RxResponsePf PROVE Goal
  <2>1. PICK c, k : c = rx["pf"] /\ k = FirstMatch("pf")
    OBVIOUS
  <2>2. /\ UNCHANGED <<handled, hurried>>
        /\ UNCHANGED <<stage, raw>> \/ (k \in Req /\ stage' = Wake(k))
    BY <1>1, <1>12, <2>1, RxResponsePfMoves DEF RxResponsePf
  <2>3. \A q \in VfReq : raw'[q] = raw[q]
    <3>1. pc'["vf"] = pc["vf"] /\ (RxCopyVf => pc'["vf"] # pc["vf"])
      BY <1>1, <1>12, EndNames DEF RxResponsePf, RxCopyVf, PlaceInv, Types, WorkerType
    <3> QED BY <1>1, <3>1, SenderMoves
  <2> QED BY <1>2, <1>10, <2>2, <2>3
<1>13. ASSUME NEW e \in End, Start(e) \/ Tx(e) \/ RxRead(e) \/ RxEnd(e) \/ TimerFire(e)
       PROVE  UNCHANGED <<stage, handled, hurried, raw>>
  BY <1>13 DEF Start, Tx, TxPick, TxSend, TxBusy, TxDrop, TxUnlink, TxPend, RxRead, RxEnd, TimerFire
<1>14. ASSUME RxMatchVf PROVE UNCHANGED <<stage, handled, hurried, raw>>
  BY <1>14 DEF RxMatchVf
<1>15. ASSUME LeaveStop \/ LeaveBye \/ LeaveOff \/ UNCHANGED vars
       PROVE  UNCHANGED <<stage, handled, hurried, raw>>
  BY <1>15 DEF LeaveStop, LeaveBye, LeaveOff, vars
<1>16. UNCHANGED <<stage, handled, hurried, raw>> => Goal
  BY <1>2
<1> HIDE DEF Goal
<1>17. Goal
  BY <1>4, <1>5, <1>6, <1>7, <1>8, <1>9, <1>11, <1>12, <1>13, <1>14, <1>15, <1>16
     DEF Next, Sender, Worker, Rx, RxVf, RxPf
<1> QED BY <1>17 DEF Goal

\* To the virtual function the mailbox is a MailboxService, whatever the limits
\* of the waits and the signals do: the parent handles a request at most once;
\* a request that ends well was given an answer that no other request was given,
\* its own as long as none failed and no answer was given up, or its sender
\* returned while the worker held the response.  (qdma_mbox_send_msg matches a
\* response to the first request of its operation: that is the right one while
\* nothing overtakes.)
THEOREM PromiseKept == Spec => KeepsPromise
<1> DEFINE S == [r \in VfReq |-> ServiceStage(r)]
           H == [r \in VfReq |-> handled[r]]
           U == hurried \cap VfReq
           A == [r \in VfReq |-> Told(r)]
<1>1. Init => Promise!Init
  <2> SUFFICES ASSUME Init PROVE Promise!Init
    OBVIOUS
  <2>1. \A r \in VfReq : ServiceStage(r) = "new" /\ handled[r] = 0 /\ Told(r) = Nil
    BY InitFacts, AnswerFacts DEF ServiceStage, Told
  <2>2. GivenUp = FALSE
    BY RetryAssumption DEF Init, GivenUp
  <2>3. hurried = {}
    BY DEF Init
  <2> QED BY <2>1, <2>2, <2>3 DEF Promise!Init
<1>2. ServiceInv /\ [Next]_vars => [Promise!Next]_(Promise!svars)
  <2> SUFFICES ASSUME ServiceInv, [Next]_vars
               PROVE  Promise!Next \/ UNCHANGED <<S, H, GivenUp, U, A>>
    BY DEF Promise!svars
  <2>1. /\ S' = [r \in VfReq |-> ServiceStage(r)'] /\ H' = [r \in VfReq |-> handled'[r]]
        /\ A' = [r \in VfReq |-> Told(r)'] /\ U' = hurried' \cap VfReq
    OBVIOUS
  <2>2. GivenUp \in BOOLEAN /\ GivenUp' \in BOOLEAN /\ (UNCHANGED retry_cnt => GivenUp' = GivenUp)
    BY DEF GivenUp
  <2>3. GivenUp => GivenUp'
    BY GivenUpStays DEF ServiceInv, AllAlive
  <2>4. CASE \A q \in VfReq : Stays(q)
    <3>1. UNCHANGED <<S, H, U, A>>
      BY <2>1, <2>4 DEF Stays
    <3>2. CASE GivenUp'
      BY <3>1, <3>2 DEF Promise!Next, Promise!GiveUp
    <3>3. CASE ~GivenUp'
      BY <2>2, <2>3, <3>1, <3>3
    <3> QED BY <3>2, <3>3
  <2>5. ASSUME NEW r \in VfReq, Moves(r), UNCHANGED retry_cnt, \A q \in VfReq : q # r => Stays(q)
        PROVE  Promise!Next
    <3>1. /\ S[r] = ServiceStage(r) /\ S' = [S EXCEPT ![r] = ServiceStage(r)']
          /\ H' = [H EXCEPT ![r] = handled'[r]]
          /\ A' = [A EXCEPT ![r] = Told(r)']
          /\ U' = IF r \in hurried' THEN U \cup {r} ELSE U \ {r}
      BY <2>1, <2>5 DEF Stays
    <3>2. GivenUp' = GivenUp
      BY <2>2, <2>5
    <3>3. /\ Told(r)' = Told(r) => A' = A
          /\ handled'[r] = handled[r] => H' = H
          /\ (r \in hurried' <=> r \in hurried) => U' = U
          /\ ServiceStage(r)' = ServiceStage(r) => S' = S
      BY <2>1, <3>1
    <3>4. Promise!Undisturbed <=> ~GivenUp /\ NoneFailed
      BY DEF Promise!Undisturbed, NoneFailed, ServiceStage
    <3> HIDE DEF S, H, A, U
    <3>5. CASE Asks(r)
      <4>1. S[r] = "new" /\ S' = [S EXCEPT ![r] = "asked"] /\ UNCHANGED <<H, U, A>>
        BY <3>1, <3>3, <3>5 DEF Asks
      <4>2. Promise!Ask(r)
        BY <3>2, <4>1 DEF Promise!Ask, Promise!Move, H, A, S, U
      <4> QED BY <4>2 DEF Promise!Next
    <3>6. CASE Handles(r)
      <4>1. S[r] # "new" /\ UNCHANGED <<S, U, A>> /\ H' = [H EXCEPT ![r] = 1]
        BY <3>1, <3>3, <3>6 DEF Handles
      <4>2. H[r] = 0
        BY <3>6 DEF Handles, H
      <4>3. Promise!Handle(r)
        BY <3>2, <4>1, <4>2 DEF Promise!Handle, H, A, S, U
      <4> QED BY <4>3 DEF Promise!Next
    <3>7. CASE Ends(r)
      <4>1. PICK q \in VfReq : /\ handled[q] = 1 /\ \A s \in VfReq : Told(s) # q
                               /\ ~GivenUp /\ NoneFailed => q = r
                               /\ Told(r)' = q
        BY <3>7 DEF Ends
      <4>2. H[q] = 1 /\ \A s \in VfReq : A[s] # q
        BY <4>1 DEF H, A
      <4>3. A' = [A EXCEPT ![r] = q]
        BY <3>1, <4>1
      <4>4. S[r] = "asked" /\ S' = [S EXCEPT ![r] = "ok"] /\ UNCHANGED <<H, U>>
        BY <3>1, <3>3, <3>7 DEF Ends
      <4>5. Promise!End(r)
        BY <3>2, <3>4, <4>1, <4>2, <4>3, <4>4 DEF Promise!End, Promise!Move, H, A, S, U
      <4> QED BY <4>5 DEF Promise!Next
    <3>8. CASE EndsEarly(r)
      <4>1. S[r] = "asked" /\ S' = [S EXCEPT ![r] = "ok"] /\ UNCHANGED <<H, A>> /\ U' = U \cup {r}
        BY <3>1, <3>3, <3>8 DEF EndsEarly
      <4>2. ~GivenUp /\ NoneFailed => H[r] = 1
        BY <3>8 DEF EndsEarly, H
      <4>3. Promise!EndEarly(r)
        BY <3>2, <3>4, <4>1, <4>2 DEF Promise!EndEarly, Promise!Move, H, A, S, U
      <4> QED BY <4>3 DEF Promise!Next
    <3>9. CASE Fails(r)
      <4>1. S[r] = "asked" /\ S' = [S EXCEPT ![r] = "failed"] /\ UNCHANGED <<H, A>>
        BY <3>1, <3>3, <3>9 DEF Fails
      <4>2. U' \in {U, U \cup {r}}
        BY <3>1, <3>3, <3>9 DEF Fails
      <4>3. Promise!Fail(r)
        BY <3>2, <4>1, <4>2 DEF Promise!Fail, Promise!Move, H, A, S, U
      <4> QED BY <4>3 DEF Promise!Next
    <3> QED BY <2>5, <3>5, <3>6, <3>7, <3>8, <3>9 DEF Moves
  <2> QED BY <2>4, <2>5, ServiceStep
<1> HIDE DEF S, H, U, A
<1>3. Init => ServiceInv
  BY InitService
<1>4. ServiceInv /\ [Next]_vars => ServiceInv'
  BY StepService
<1> QED BY <1>1, <1>2, <1>3, <1>4, PTL DEF Spec, KeepsPromise, Promise!Spec
=============================================================================
