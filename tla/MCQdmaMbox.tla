----------------------------- MODULE MCQdmaMbox -----------------------------
(* Small instances of QdmaMbox for TLC. *)
EXTENDS QdmaMbox

CONSTANTS v1, v2, p1

SameOp == [r \in Req |-> "op"]
PollAndIntr == {[e \in End |-> IF e = "vf" THEN "poll" ELSE "intr"]}
\* Every two messages; which of the two requests v1 and v2 it is does not matter.
Pairs == {{v1, v2}, {v1, p1}, {v1, Bye}, {p1, Bye}}
=============================================================================
