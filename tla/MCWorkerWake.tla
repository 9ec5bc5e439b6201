---------------------------- MODULE MCWorkerWake ----------------------------
(* WorkerWake on two overlapping wakes.                                    *)
EXTENDS WorkerWake, TLC
=============================================================================
