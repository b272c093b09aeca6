------------------------ MODULE MCCheckpointFlusher ------------------------
(* TLC instance of CheckpointFlusher. *)
EXTENDS CheckpointFlusher
=============================================================================
