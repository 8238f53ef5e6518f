--------------------------- MODULE MCQdmaResource ---------------------------
(* Small instances of QdmaResource for TLC. *)
EXTENDS QdmaResource

CONSTANTS p1, p2, v1

ParentP1 == [v \in VF |-> p1]
StreamOnly == {[t |-> "C2H", st |-> TRUE]}
=============================================================================
