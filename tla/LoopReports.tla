---------------------------- MODULE LoopReports ----------------------------
(***************************************************************************)
(* The status command of digital_fte/cli.py: it lists the snapshots, loads *)
(* them one by one while other commands save theirs, counts the outcomes   *)
(* (loop_outcomes.py) and prints a report that must pass the schema of its *)
(* export (loop_health_report.py, loop_report_schema.py).  What loading    *)
(* one snapshot may meet is in LoopCommands; here every snapshot is whole. *)
(***************************************************************************)
EXTENDS Integers, FiniteSets

CONSTANT Tasks    \* the tasks of the state directory

ASSUME TasksAssumption == IsFiniteSet(Tasks)

VARIABLES
    stored,      \* stored[t]: the status of t's snapshot, or "none"
    todo,        \* ids listed and not loaded yet
    running,     \* whether status is running
    completed,   \* completed results among those loaded
    failed,      \* failed results among those loaded
    report,      \* what the last status command did
    stayed,      \* history: listed tasks that were failed ever since it began
    were         \* history: listed tasks that were failed at some time before
                 \* they were loaded

vars == <<stored, todo, running, completed, failed, report, stayed, were>>

-----------------------------------------------------------------------------
(* Ratios are kept in units of the fourth decimal place. *)
Scale == 10000

(* round(c / r, 4).  A tie is rounded up here; whichever way it goes, the  *)
(* schema refuses the ratio, since a tie is no multiple of the fourth      *)
(* place.                                                                  *)
Rounded(c, r) == IF r = 0 THEN 0 ELSE (2 * Scale * c + r) \div (2 * r)

(* summarize_loop_outcomes of c completed and f failed results. *)
Summary(c, f) ==
    [runs |-> c + f, completed |-> c, failed |-> f, ratio |-> Rounded(c, c + f)]

(* validate_loop_health_report: the ratio must equal the quotient itself.  *)
ValidReport(s) ==
    /\ s.completed + s.failed = s.runs
    /\ s.ratio \in 0 .. Scale
    /\ s.runs > 0 => s.ratio * s.runs = Scale * s.completed
    /\ s.runs = 0 => s.ratio = 0

NoReport == [kind |-> "none"]
Raises == [kind |-> "raises"]
(* A faulty variant of Printed: one success is enough for exit code 0.     *)
PrintedLeniently(s) ==
    [kind |-> "printed", summary |-> s, exit |-> IF s.completed > 0 THEN 0 ELSE 1]

Printed(s) ==
    [kind |-> "printed", summary |-> s, exit |-> IF s.failed > 0 THEN 1 ELSE 0]

-----------------------------------------------------------------------------
Init ==
    /\ stored = [t \in Tasks |-> "none"]
    /\ todo = {}
    /\ running = FALSE
    /\ completed = 0
    /\ failed = 0
    /\ report = NoReport
    /\ stayed = {}
    /\ were = {}

(* A loop or resume command of another process saves a result of t. *)
Save(t, status) ==
    /\ stored' = [stored EXCEPT ![t] = status]
    /\ stayed' = IF status = "failed" THEN stayed ELSE stayed \ {t}
    /\ were' = IF status = "failed" /\ t \in todo THEN were \cup {t} ELSE were
    /\ UNCHANGED <<todo, running, completed, failed, report>>

StartStatus ==
    /\ ~running
    /\ running' = TRUE
    /\ todo' = {t \in Tasks : stored[t] # "none"}
    /\ completed' = 0
    /\ failed' = 0
    /\ stayed' = {t \in Tasks : stored[t] = "failed"}
    /\ were' = stayed'
    /\ report' = NoReport
    /\ UNCHANGED stored

(* The next snapshot of load_all; the order does not matter to the counts. *)
LoadOne(t) ==
    /\ t \in todo
    /\ todo' = todo \ {t}
    /\ completed' = completed + (IF stored[t] = "completed" THEN 1 ELSE 0)
    /\ failed' = failed + (IF stored[t] = "completed" THEN 0 ELSE 1)
    /\ UNCHANGED <<stored, running, report, stayed, were>>

(* All are loaded: the report is printed, or the schema refuses it and the *)
(* ValueError ends the command.                                            *)
Report ==
    /\ running
    /\ todo = {}
    /\ running' = FALSE
    /\ report' = LET s == Summary(completed, failed)
                 IN  IF ValidReport(s) THEN Printed(s) ELSE Raises
    /\ UNCHANGED <<stored, todo, completed, failed, stayed, were>>

Status == StartStatus \/ (\E t \in Tasks : LoadOne(t)) \/ Report

Next == Status \/ \E t \in Tasks, status \in {"completed", "failed"} : Save(t, status)

Spec == Init /\ [][Next]_vars

-----------------------------------------------------------------------------
(* Although the snapshots are read one after the other while they change,  *)
(* a printed report counts as failed every loop that was failed all along, *)
(* and none that never was; so exit code 0 tells that no loop was failed   *)
(* all along.                                                              *)
FailuresBracketed ==
    [][report'.kind = "printed" /\ report' # report =>
          /\ Cardinality(stayed) <= report'.summary.failed
          /\ report'.summary.failed <= Cardinality(were)
          /\ report'.exit = 0 => stayed = {}]_vars

(* "Stable JSON export for agent-loop outcome summaries": status gets a    *)
(* report for every outcome there is, and does not end in an exception.    *)
EveryOutcomeReported == report # Raises
=============================================================================
