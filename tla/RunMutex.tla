------------------------------ MODULE RunMutex ------------------------------
(***************************************************************************)
(* What the run lease promises to the worker (REQ-12 of pipeline-wiring):  *)
(* at any time at most one invocation executes the pipeline.  An           *)
(* invocation gets the right to run only when nobody has it, and gives up  *)
(* only its own right; a host that dies gives it up for the invocation it  *)
(* was executing.  How the right is kept in Table Storage is RunLease's    *)
(* business; RunLease implements this specification.                       *)
(***************************************************************************)
CONSTANTS Wake,     \* invocations of the worker, timer and process-now alike
          NoWake    \* nobody

VARIABLE holder     \* the invocation that executes the pipeline, or NoWake

MutexInit == holder = NoWake

(* The with-block of run_lease is entered.                                 *)
Enter(w) ==
  /\ holder = NoWake
  /\ holder' = w

(* The with-block is left: by its end, by an exception, by the host's kill.*)
Leave(w) ==
  /\ holder = w
  /\ holder' = NoWake

MutexNext == \E w \in Wake : Enter(w) \/ Leave(w)

MutexSpec == MutexInit /\ [][MutexNext]_holder
=============================================================================
