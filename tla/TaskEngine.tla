----------------------------- MODULE TaskEngine -----------------------------
(***************************************************************************)
(* The run command: TaskEngine.process of engine.py on what parser.py      *)
(* reads.  Every run is a process; it writes a dashboard file and then a   *)
(* log, both named by a hash of the task's text, so that runs of equal     *)
(* texts share their files.  A title is taken from the text if it has a    *)
(* heading, and else from the name of the task file.                       *)
(***************************************************************************)
EXTENDS FiniteSets

CONSTANTS
    Runs,      \* the run commands, each of which is given once
    Files,     \* the task files
    TextOf,    \* the text of each
    Headed     \* the texts with a heading

ASSUME FilesAssumption == Files \subseteq DOMAIN TextOf

VARIABLES
    run,          \* what each run command is doing, to which file
    written,      \* what the dashboard file and the log of each text hold
    overlapped,   \* history: the runs that were not alone with their text
    latest        \* history: for each text, the run started last

engineVars == <<run, written, overlapped, latest>>

Texts == {TextOf[f] : f \in Files}
NotStarted == [at |-> "new"]
Missing == [holds |-> "absent"]
Empty == [holds |-> "nothing"]
Torn == [holds |-> "part"]

Started == {r \in Runs : run[r] # NotStarted}
UnderWay == {r \in Started : run[r].at \in {"output", "log"}}
Text(r) == TextOf[run[r].file]
Title(r) == IF Text(r) \in Headed THEN Text(r) ELSE run[r].file
Target(r) == <<run[r].at, Text(r)>>

EngineInit ==
    /\ run = [r \in Runs |-> NotStarted]
    /\ written = [target \in {"output", "log"} \X Texts |-> Missing]
    /\ overlapped = {}
    /\ latest = [x \in {} |-> x]

(* parse_task, before anything is written *)
StartRun(r, f) ==
    LET others == {q \in UnderWay : Text(q) = TextOf[f]}
    IN  /\ run[r] = NotStarted
        /\ run' = [run EXCEPT ![r] = [at |-> "output", file |-> f, open |-> FALSE,
                                      status |-> "none"]]
        /\ overlapped' = overlapped \cup others
                         \cup (IF others = {} THEN {} ELSE {r})
        /\ latest' = [x \in DOMAIN latest \cup {TextOf[f]} |->
                         IF x = TextOf[f] THEN r ELSE latest[x]]
        /\ UNCHANGED written

(* write_text truncates the file as it opens it ... *)
OpenFile(r) ==
    /\ r \in UnderWay
    /\ ~run[r].open
    /\ written' = [written EXCEPT ![Target(r)] = Empty]
    /\ run' = [run EXCEPT ![r].open = TRUE]
    /\ UNCHANGED <<overlapped, latest>>

(* ... and what another run has put there since keeps its tail, if longer. *)
Over(old, new) == IF old \in {Empty, new} THEN {new} ELSE {new, Torn}

Contents(r) ==
    IF run[r].at = "output" THEN [holds |-> "result", title |-> Title(r)]
    ELSE [holds |-> "log", by |-> r, status |-> run[r].status]

(* After the log, process returns and main prints the result, in which the *)
(* paths are no JSON: a TypeError ends the command whatever the status.    *)
WriteFile(r) ==
    /\ r \in UnderWay
    /\ run[r].open
    /\ \E c \in Over(written[Target(r)], Contents(r)) :
          written' = [written EXCEPT ![Target(r)] = c]
    /\ run' = [run EXCEPT ![r] =
                  IF @.at = "output"
                  THEN [@ EXCEPT !.at = "log", !.open = FALSE, !.status = "completed"]
                  ELSE [@ EXCEPT !.at = "raised"]]
    /\ UNCHANGED <<overlapped, latest>>

(* What opening or half writing a file leaves. *)
Spoilt(r) ==
    IF run[r].open THEN {written, [written EXCEPT ![Target(r)] = Torn]} ELSE {written}

(* A faulty variant of OutputFails: the status was set beforehand.         *)
OutputFailsUnnoticed(r) ==
    /\ r \in UnderWay /\ run[r].at = "output"
    /\ written' \in Spoilt(r)
    /\ run' = [run EXCEPT ![r] = [@ EXCEPT !.at = "log", !.open = FALSE,
                                           !.status = "completed"]]
    /\ UNCHANGED <<overlapped, latest>>

(* An exception while the output is written makes the task failed. *)
OutputFails(r) ==
    /\ r \in UnderWay /\ run[r].at = "output"
    /\ written' \in Spoilt(r)
    /\ run' = [run EXCEPT ![r] = [@ EXCEPT !.at = "log", !.open = FALSE,
                                           !.status = "failed"]]
    /\ UNCHANGED <<overlapped, latest>>

(* One while the log is written ends the command, and so does a kill. *)
Breaks(r) ==
    /\ r \in UnderWay
    /\ written' \in Spoilt(r)
    /\ run' = [run EXCEPT ![r] = [@ EXCEPT !.at = "broken", !.open = FALSE,
                                           !.status = "none"]]
    /\ UNCHANGED <<overlapped, latest>>

EngineNext ==
    \E r \in Runs :
        \/ \E f \in Files : StartRun(r, f)
        \/ OpenFile(r) \/ WriteFile(r) \/ OutputFails(r) \/ Breaks(r)

-----------------------------------------------------------------------------
(* Running a task again repairs it: whatever earlier runs of the text have *)
(* left, failed at, or been killed in, once process has returned in the    *)
(* latest run of it, and no other was under way with it, the log is its    *)
(* log, and if that reports success, the dashboard shows its result and no *)
(* other's.                                                                *)
RerunRepairs ==
    \A r \in Started \ overlapped :
        LET output == written[<<"output", Text(r)>>]
            log == written[<<"log", Text(r)>>]
        IN  (run[r].at = "raised" /\ latest[Text(r)] = r) =>
                /\ log = [holds |-> "log", by |-> r, status |-> run[r].status]
                /\ run[r].status = "completed" =>
                      output = [holds |-> "result", title |-> Title(r)]
=============================================================================
