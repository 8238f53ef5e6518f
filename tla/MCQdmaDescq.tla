---------------------------- MODULE MCQdmaDescq ----------------------------
(* Small instances of QdmaDescq for TLC. *)
EXTENDS QdmaDescq

CONSTANTS r1, r2

AllAsync == [r \in Req |-> "async"]
SyncAsync == [r \in Req |-> IF r = r1 THEN "sync" ELSE "async"]
SyncBatch == [r \in Req |-> IF r = r1 THEN "sync" ELSE "batch"]
=============================================================================
