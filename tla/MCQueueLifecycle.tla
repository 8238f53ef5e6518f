-------------------------- MODULE MCQueueLifecycle --------------------------
(* Two queues of each type, two workers and two vectors, every driver mode. *)
EXTENDS QueueLifecycle

AllModes  == {"poll", "direct", "legacy"}
PolledOnly == {"poll"}
=============================================================================
