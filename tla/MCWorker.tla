------------------------------ MODULE MCWorker ------------------------------
(* Model values for Worker: every kind of request. *)
EXTENDS Worker
MCOps == {"load", "unload", "work", "invalid"}
=============================================================================
