------------------------------- MODULE Clock -------------------------------
(***************************************************************************)
(* The time the timed parts are given: a reading handed in by the caller   *)
(* (`now`) or taken from an injected clock.  Nothing in the code makes it  *)
(* monotone, so from one reading to the next it may jump either way.       *)
(***************************************************************************)
EXTENDS Integers

CONSTANT Latest   \* the last reading

ASSUME LatestAssumption == Latest \in Nat

VARIABLE now

Readings == 0 .. Latest

ClockJumps == now' \in Readings \ {now}

Larger(a, b) == IF a < b THEN b ELSE a
Smaller(a, b) == IF a < b THEN a ELSE b
=============================================================================
