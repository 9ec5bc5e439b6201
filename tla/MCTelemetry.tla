---------------------------- MODULE MCTelemetry ------------------------------
(* Telemetry on a day of a few wakes.                                      *)
EXTENDS Telemetry

CONSTANTS w1, w2

MCCaps == <<99, 5, 2>>
MCMessageLength == [t \in {"no_access", "failed", "unstarted", "raised", "http"} |->
                      IF t = "http" THEN 6 ELSE 3]

(* A failed request, with a trace.                                         *)
MCNoise ==
  {[id |-> <<"request", 1>>, item |-> "trace", severity |-> 2, details |-> 7,
    message |-> [text |-> "http", volatile |-> 1]]}
=============================================================================
