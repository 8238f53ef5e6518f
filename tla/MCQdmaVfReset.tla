--------------------------- MODULE MCQdmaVfReset ---------------------------
(* Small instances of QdmaVfReset for TLC. *)
EXTENDS QdmaVfReset

CONSTANTS v1, v2
=============================================================================
