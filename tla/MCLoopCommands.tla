--------------------------- MODULE MCLoopCommands ---------------------------
(* Small instances of LoopCommands.                                        *)
EXTENDS LoopCommands, TLC

CONSTANTS t1, t2, unsafe, p1, p2, i1, i2, i3, i4, i5, i6

OneTask == {t1}
TwoTasks == {t1, t2}
OneTaskAndUnsafe == {t1, unsafe}
TwoProcs == {p1, p2}
FourInodes == {i1, i2, i3, i4}
SixInodes == {i1, i2, i3, i4, i5, i6}

\* Tasks and processes are interchangeable; inodes are not, for OpenTemp
\* chooses one.
TaskOrProcSwaps == Permutations(TwoTasks) \cup Permutations(TwoProcs)
=============================================================================
