------------------------- MODULE MCLoopProjections -------------------------
(* A small instance of the loop with all views of its results: two agents  *)
(* with the same or different names, one of the names blank; one string    *)
(* the validator refuses, one it accepts, and one initial state that is    *)
(* not a string; histories of up to three iterations.                      *)
EXTENDS AuditLog, StateDiff

CONSTANTS draft, done, number, alice, blank

MCStrings == {draft, done}
MCStates == {draft, done, number}
MCAccepted == {done}
MCNames == {alice, blank}
MCBlankNames == {blank}
OneBreaking == {draft}
=============================================================================
