---------------------------- MODULE MCWorkParts ----------------------------
(* A small instance of the queues, of what is made of their tasks, and of  *)
(* the parts that bound work: small budgets and pools, four policies (two  *)
(* with a ceiling and two without; one with a power that overflows, one    *)
(* that never retries), six readings of the clock, and three calls of      *)
(* the breaker.                                                            *)
EXTENDS WorkParts

CONSTANTS t1, t2, t3, t4, red, blue

FourTasks == {t1, t2, t3, t4}
TwoPriorities == {1, 2}
TwoReasons == {1, 2}
TwoTags == {red, blue}

SomeTags ==
    [t \in FourTasks |-> CASE t = t1 -> {} [] t = t2 -> {red} [] t = t3 -> {blue}
                             [] t = t4 -> {red, blue}]

CONSTANTS none, step, idle, running, done, archived

MCRunTotals == {0, 3}
MCTaskCaps == {Uncapped, 2}

MCPolicies ==
    {[max |-> 4, base |-> 1, factor |-> 2, ceiling |-> 3],
     [max |-> 3, base |-> 2, factor |-> 1, ceiling |-> NoCeiling],
     [max |-> 4, base |-> 1, factor |-> 3, ceiling |-> 4],
     [max |-> 1, base |-> 0, factor |-> 2, ceiling |-> NoCeiling]}

(* Texts of every length modulo three, and none. *)
MCEngineStates == {-1, 2, 7, 8, 9}

(* An agent that is done may be archived, which has no row. *)
MCMoves ==
    [s \in {idle, running, done} |->
        CASE s = idle -> {running}
          [] s = running -> {idle, done}
          [] s = done -> {archived}]

CONSTANTS c1, c2, c3

ThreeCalls == {c1, c2, c3}
=============================================================================
