---- MODULE MCQueueContext ----
\* QueueContext over two threads: alone, with every field of every context
\* and hardware generation marked in turn, and in the pairs that meet at one
\* queue or at one word.
EXTENDS QueueContext

CONSTANTS c1, c2

Idle == [op |-> "none", by |-> "pf", st |-> TRUE, type |-> "H2C", q |-> 0, mark |-> "all"]
\* Stream queues st, memory-mapped ones otherwise.
Stream(op, by, type, q) ==
  [op |-> op, by |-> by, st |-> TRUE, type |-> type, q |-> q, mark |-> "all"]
Mapped(op, by, type, q) == [Stream(op, by, type, q) EXCEPT !.st = FALSE]

Run(hw, j1, j2) == [hw |-> hw, job |-> (c1 :> j1 @@ c2 :> j2)]

\* One field at a time.
Alone(hw, job, kinds) ==
  {Run(hw, [job EXCEPT !.mark = f], Idle) :
     f \in UNION {Fields(WriteTable[hw][k]) : k \in kinds}}
LayoutScenarios ==
  UNION {Alone(hw, Stream("start", "pf", "C2H", 0), {"sw", "pfetch", "cmpt"})
           : hw \in {"eqdma", "cpm5", "soft", "cpm4"}}
    \cup UNION {Alone(hw, Stream("ring", "pf", "C2H", 0), {"intr"})
           : hw \in {"eqdma", "cpm5", "soft", "cpm4"}}
    \cup UNION {Alone(hw, Stream("fmap", "pf", "C2H", 0), {"fmap"})
           : hw \in {"eqdma", "cpm5", "soft"}}

\* Two threads.
RaceScenarios ==
  {Run("eqdma", Stream("start", "pf", "C2H", 0), Mapped("start", "pf", "H2C", 0)),
   Run("eqdma", Stream("start", "vf", "C2H", 1), Stream("read", "pf", "C2H", 1)),
   Run("eqdma", Stream("stop", "pf", "C2H", 0), Stream("read", "pf", "C2H", 0)),
   Run("soft", Stream("stop", "vf", "C2H", 1), Stream("start", "pf", "C2H", 0)),
   Run("cpm5", Mapped("stop", "pf", "CMPT", 0), Mapped("read", "pf", "CMPT", 0)),
   Run("eqdma", Mapped("start", "pf", "CMPT", 0), Stream("ring", "vf", "C2H", 0)),
   Run("eqdma", Mapped("stop", "vf", "H2C", 0), Stream("read", "vf", "C2H", 1)),
   Run("cpm4", Stream("start", "pf", "C2H", 0), Stream("start", "pf", "H2C", 0))}

MCScenarios == LayoutScenarios \cup RaceScenarios
====
