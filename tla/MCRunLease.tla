----------------------------- MODULE MCRunLease -----------------------------
(* RunLease on three invocations: two share a host process, one runs on    *)
(* another instance.                                                       *)
EXTENDS RunLease, TLC

CONSTANTS w1, w2, w3, h1, h2

MCHostOf == w1 :> h1 @@ w2 :> h1 @@ w3 :> h2

(* w1 and w2 run in the same process and differ in nothing else.           *)
MCSymmetry == Permutations({w1, w2})
=============================================================================
