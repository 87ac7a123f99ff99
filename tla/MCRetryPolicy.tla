--------------------------- MODULE MCRetryPolicy ---------------------------
(* Four attempts at most, and a power that overflows before the last one.  *)
EXTENDS RetryPolicy

SteepPolicies == {[max |-> 4, base |-> 1, factor |-> 3, ceiling |-> 4]}
=============================================================================
