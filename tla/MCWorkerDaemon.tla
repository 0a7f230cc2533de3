--------------------------- MODULE MCWorkerDaemon ---------------------------
(* Bounded instances of WorkerDaemon for TLC. *)
EXTENDS WorkerDaemon

=============================================================================
