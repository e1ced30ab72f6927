----------------------------- MODULE MCLeaseLock -----------------------------
(* Instances of LeaseLock for TLC. *)
EXTENDS LeaseLock, TLC

CONSTANTS r1, r2, n1, n2

\* Two experiments; the second asks for more than the minimal duration.
TwoNames == (r1 :> n1) @@ (r2 :> n2)
TwoWants == (r1 :> 1) @@ (r2 :> 2)
=============================================================================
