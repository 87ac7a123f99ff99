--------------------------- MODULE MCLoopReports ---------------------------
(* A small instance of LoopReports.                                        *)
EXTENDS LoopReports

CONSTANTS t1, t2, t3

ThreeTasks == {t1, t2, t3}
=============================================================================
