----------------------------- MODULE MCCallLine -----------------------------
(* The operations the run of CallLine lets its goroutines perform. *)
EXTENDS CallLine

AllOps  == {"dial", "answer", "hangup", "reap", "poll"}
=============================================================================
