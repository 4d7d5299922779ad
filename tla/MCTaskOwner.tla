---------------------------- MODULE MCTaskOwner ----------------------------
(* TaskOwner on small sets of tasks, shutdown() callers and clients.       *)
EXTENDS TaskOwner
=============================================================================
