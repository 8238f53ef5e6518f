----------------------------- MODULE QueuePool -----------------------------
(***************************************************************************)
(* What the resource manager promises: the hardware queues of one board    *)
(* are handed out in contiguous runs, a queue has one owner at a time, a   *)
(* function has exactly the run it was told it has, and the run of a       *)
(* function does not change while the function uses a queue of it.         *)
(***************************************************************************)
EXTENDS Integers

CONSTANTS Func, TotalQ, Nobody

VARIABLES
  owner,     \* owner[q]: the function hardware queue q belongs to, or Nobody
  granted,   \* granted[f]: how many queues function f was told it has
  inUse      \* inUse[f]: the hardware queues function f has queues on

pvars == <<owner, granted, inUse>>

Queues == 0 .. TotalQ - 1

Init ==
  /\ owner = [q \in Queues |-> Nobody]
  /\ granted = [f \in Func |-> 0]
  /\ inUse = [f \in Func |-> {}]

HandOver(f, run) ==
  owner' = [q \in Queues |-> IF q \in run THEN f
                             ELSE IF owner[q] = f THEN Nobody ELSE owner[q]]

\* f exchanges its queues for a run of n that were free or its own.
Resize(f, n) ==
  /\ granted' = [granted EXCEPT ![f] = n]
  /\ inUse[f] = {}
  /\ UNCHANGED inUse
  /\ \E b \in Queues :
       LET run == b .. b + n - 1 IN
       /\ run \subseteq {q \in Queues : owner[q] \in {f, Nobody}}
       /\ HandOver(f, run)

Use(f, q) ==
  /\ inUse' = [inUse EXCEPT ![f] = @ \cup {q}]
  /\ owner[q] = f
  /\ UNCHANGED <<owner, granted>>

Unuse(f, q) ==
  /\ inUse' = [inUse EXCEPT ![f] = @ \ {q}]
  /\ UNCHANGED <<owner, granted>>

Leave(f) ==
  /\ granted' = [granted EXCEPT ![f] = 0]
  /\ HandOver(f, {})
  /\ inUse' = [inUse EXCEPT ![f] = {}]

Next ==
  \E f \in Func :
    \/ \E n \in 0 .. TotalQ : Resize(f, n)
    \/ \E q \in Queues : Use(f, q) \/ Unuse(f, q)
    \/ Leave(f)

Spec == Init /\ [][Next]_pvars
=============================================================================
