----------------------------- MODULE MCQdmaStC2h -----------------------------
(* A small instance of QdmaStC2h for TLC. *)
EXTENDS QdmaStC2h

CONSTANTS s1, d1, a1

MCRequests == {s1, d1, a1}
MCAsync == {a1}
MCDirect == {d1}
MCLengths == {0, 3}
MCAsked == (s1 :> 3) @@ (d1 :> 3) @@ (a1 :> 1)
==============================================================================
