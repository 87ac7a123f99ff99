--------------------------- MODULE MCCliCommands ---------------------------
(* Small instances of CliCommands: a and b are two files of one text       *)
(* without a heading, c is one of a text with a heading.                   *)
EXTENDS CliCommands

CONSTANTS t1, t2, t3, r1, r2, r3, a, b, c, plain, headed

ThreeTasks == {t1, t2, t3}
ThreeRuns == {r1, r2, r3}
ThreeFiles == {a, b, c}
MCTextOf == [f \in ThreeFiles |-> IF f = c THEN headed ELSE plain]
MCHeaded == {headed}
=============================================================================
