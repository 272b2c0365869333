---------------------------- MODULE MCWorkerWake ----------------------------
(* Small instances of WorkerWake for TLC.                                  *)
EXTENDS WorkerWake
=============================================================================
