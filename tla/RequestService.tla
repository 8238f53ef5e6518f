--------------------------- MODULE RequestService ---------------------------
(***************************************************************************)
(* What a descriptor queue promises its callers (qdma_request_submit and   *)
(* qdma_batch_request_submit in libqdma_export.h): a request is refused or *)
(* accepted; accepted requests are moved by the device in the order they   *)
(* came, one descriptor at a time, and end in that order; a request ends   *)
(* well only after all of it has been moved; a request aborted by a stop   *)
(* ends badly and the device moves nothing more of it.                     *)
(***************************************************************************)
EXTENDS Integers, Sequences

CONSTANTS Req, MaxNeed

VARIABLES
  phase,   \* per request: "new", "active", "ok" or "failed"
  left,    \* per request: descriptors the device has not moved yet
  fifo     \* the active requests in the order they were accepted

vars == <<phase, left, fifo>>

Init ==
  /\ phase = [r \in Req |-> "new"]
  /\ left = [r \in Req |-> 0]
  /\ fifo = <<>>

In(s, r) == \E i \in 1..Len(s) : s[i] = r

\* s without its entry i.
Without(s, i) == [j \in 1..(Len(s) - 1) |-> IF j < i THEN s[j] ELSE s[j + 1]]

\* One request, or a batch of two, is accepted.
Accept(s, n) ==
  /\ \A i \in 1..Len(s) : phase[s[i]] = "new"
  /\ phase' = [r \in Req |-> IF In(s, r) THEN "active" ELSE phase[r]]
  /\ left' = [r \in Req |-> IF In(s, r) THEN n ELSE left[r]]
  /\ fifo' = fifo \o s

Refuse(r) ==
  /\ phase[r] = "new"
  /\ phase' = [phase EXCEPT ![r] = "failed"]
  /\ UNCHANGED <<left, fifo>>

\* The device moves a descriptor of the oldest request that has one left.
Transfer ==
  \E i \in 1..Len(fifo) :
    /\ left[fifo[i]] > 0
    /\ \A j \in 1..(i-1) : left[fifo[j]] = 0
    /\ left' = [left EXCEPT ![fifo[i]] = @ - 1]
    /\ UNCHANGED <<phase, fifo>>

\* The oldest request, moved in full, ends well.
Finish ==
  /\ fifo # <<>> /\ left[Head(fifo)] = 0
  /\ phase' = [phase EXCEPT ![Head(fifo)] = "ok"]
  /\ fifo' = Tail(fifo)
  /\ UNCHANGED left

Abort(i) ==
  /\ phase' = [phase EXCEPT ![fifo[i]] = "failed"]
  /\ fifo' = Without(fifo, i)
  /\ UNCHANGED left

Next ==
  \/ \E a, b \in Req, n \in 1..MaxNeed :
       Accept(<<a>>, n) \/ (a # b /\ Accept(<<a, b>>, n))
  \/ \E r \in Req : Refuse(r)
  \/ \E i \in 1..Len(fifo) : Abort(i)
  \/ Transfer \/ Finish

Spec == Init /\ [][Next]_vars
=============================================================================
