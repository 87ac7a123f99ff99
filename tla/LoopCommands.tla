---------------------------- MODULE LoopCommands ----------------------------
(***************************************************************************)
(* The commands of digital_fte/cli.py that use the state directory: loop,  *)
(* resume and status, run by processes that may overlap and may be killed. *)
(*                                                                         *)
(* A LoopResult is its task, the loop command its history began with, its  *)
(* status and its number of iterations; LoopOrchestrator has the history   *)
(* itself.  An iteration is one step, whose verdict is the validator's.    *)
(***************************************************************************)
EXTENDS LoopStateStore

CONSTANTS
    Verdicts,         \* what the validator may say: the CLI's own pair of agents
                      \* always satisfies it, {TRUE}; other agents may not
    Exclusive,        \* TRUE: no two commands work on one task at a time
    MaxLoops,         \* cap on the number of loop commands
    IterationBound    \* cap on the iterations of one history

ASSUME CommandsAssumption ==
    /\ Verdicts \subseteq BOOLEAN
    /\ Exclusive \in BOOLEAN
    /\ MaxLoops \in Nat
    /\ IterationBound \in Nat

VARIABLES
    pc,           \* where each process is
    out,          \* the result it is building or saving
    left,         \* iterations it may still run
    todo,         \* status: the task ids still to load
    loops,        \* number of loop commands so far
    overlapped    \* history: tasks of which two saves were under way at once

procVars == <<pc, out, left, todo>>
vars == <<storeVars, procVars, loops, overlapped>>

Saving == {"write", "replace"}
Working == {"iterate", "save"} \cup Saving

LoopResult == [task : TaskIds, loop : 1 .. MaxLoops,
               status : {"completed", "failed"}, iterations : 0 .. IterationBound]
NoResult == [task |-> "none"]

-----------------------------------------------------------------------------
(* Process p is at `place` with result r, n iterations to go and no ids to *)
(* load.                                                                   *)
Goto(p, place, r, n) ==
    /\ pc' = [pc EXCEPT ![p] = place]
    /\ out' = [out EXCEPT ![p] = r]
    /\ left' = [left EXCEPT ![p] = n]
    /\ UNCHANGED todo

(* The process of p ends. *)
Finish(p) ==
    /\ pc' = [pc EXCEPT ![p] = "idle"]
    /\ out' = [out EXCEPT ![p] = NoResult]
    /\ left' = [left EXCEPT ![p] = 0]
    /\ todo' = [todo EXCEPT ![p] = {}]

(* A new command on task t may start. *)
MayStart(p, t) ==
    /\ pc[p] = "idle"
    /\ Exclusive => \A q \in Procs : ~(pc[q] \in Working /\ out[q].task = t)

(* loop <t> --max-iterations n: any task id is accepted until save. *)
StartLoop(p, t, n) ==
    /\ MayStart(p, t)
    /\ loops < MaxLoops
    /\ loops' = loops + 1
    /\ Goto(p, "iterate", [task |-> t, loop |-> loops + 1, status |-> "failed",
                           iterations |-> 0], n)
    /\ UNCHANGED <<storeVars, overlapped>>

(* A faulty variant of StartResume: a completed result is run again.       *)
StartResumeAnyway(p, t, n) ==
    /\ MayStart(p, t)
    /\ LET found == Load(t)
       IN  \/ /\ found \in {Missing, Invalid}
              /\ Finish(p)
           \/ /\ found.kind = "document"
              /\ found.result.iterations + n <= IterationBound
              /\ Goto(p, "iterate", found.result, n)
    /\ UNCHANGED <<storeVars, loops, overlapped>>

(* resume <t> --additional-iterations n: it prints missing_state or        *)
(* invalid_state, saves a completed result as it is, or carries on.        *)
StartResume(p, t, n) ==
    /\ MayStart(p, t)
    /\ LET found == Load(t)
       IN  \/ /\ found \in {Missing, Invalid}
              /\ Finish(p)
           \/ /\ found.kind = "document" /\ found.result.status = "completed"
              /\ Goto(p, "save", found.result, 0)
           \/ /\ found.kind = "document" /\ found.result.status = "failed"
              /\ found.result.iterations + n <= IterationBound
              /\ Goto(p, "iterate", found.result, n)
    /\ UNCHANGED <<storeVars, loops, overlapped>>

(* One iteration of the loop, all agents and the validator. *)
Iterate(p, accepted) ==
    /\ pc[p] = "iterate"
    /\ LET r == [task |-> out[p].task, loop |-> out[p].loop,
                 status |-> IF accepted THEN "completed" ELSE "failed",
                 iterations |-> out[p].iterations + 1]
       IN  Goto(p, IF accepted \/ left[p] = 1 THEN "save" ELSE "iterate", r, left[p] - 1)
    /\ UNCHANGED <<storeVars, loops, overlapped>>

(* An agent or the validator raises: nothing is saved. *)
AgentRaises(p) ==
    /\ pc[p] = "iterate"
    /\ Finish(p)
    /\ UNCHANGED <<storeVars, loops, overlapped>>

(* save(result): the id is validated, then the temporary file is opened. *)
SaveOpen(p) ==
    LET t == out[p].task
    IN  /\ pc[p] = "save"
        /\ t \in SafeIds
        /\ OpenTemp(p, t)
        /\ Goto(p, "write", out[p], 0)
        /\ overlapped' =
              IF \E q \in Procs \ {p} : pc[q] \in Saving /\ out[q].task = t
              THEN overlapped \cup {t} ELSE overlapped
        /\ UNCHANGED loops

SaveRefused(p) ==
    /\ pc[p] = "save"
    /\ out[p].task \notin SafeIds
    /\ Finish(p)
    /\ UNCHANGED <<storeVars, loops, overlapped>>

SaveWrite(p) ==
    /\ pc[p] = "write"
    /\ WriteTemp(p, out[p])
    /\ Goto(p, "replace", out[p], 0)
    /\ UNCHANGED <<loops, overlapped>>

SaveReplace(p) ==
    /\ pc[p] = "replace"
    /\ ReplaceJson(out[p].task)
    /\ Finish(p)
    /\ UNCHANGED <<loops, overlapped>>

(* The temporary file is gone: FileNotFoundError, which nobody catches. *)
SaveFails(p) ==
    /\ pc[p] = "replace"
    /\ temp[out[p].task] = NoFile
    /\ Finish(p)
    /\ UNCHANGED <<storeVars, loops, overlapped>>

(* status: the ids are listed, then loaded one by one; the first that does *)
(* not load ends it, with invalid_state or an uncaught error.              *)
StartStatus(p) ==
    /\ pc[p] = "idle"
    /\ pc' = [pc EXCEPT ![p] = "status"]
    /\ todo' = [todo EXCEPT ![p] = Listed]
    /\ UNCHANGED <<storeVars, out, left, loops, overlapped>>

(* A faulty variant of StatusLoads: the id stays on the list.              *)
StatusReloads(p, t) ==
    /\ pc[p] = "status"
    /\ t \in todo[p]
    /\ IF Load(t).kind = "document"
       THEN UNCHANGED <<pc, out, left, todo>>
       ELSE Finish(p)
    /\ UNCHANGED <<storeVars, loops, overlapped>>

StatusLoads(p, t) ==
    /\ pc[p] = "status"
    /\ t \in todo[p]
    /\ IF Load(t).kind = "document"
       THEN /\ todo' = [todo EXCEPT ![p] = @ \ {t}]
            /\ UNCHANGED <<pc, out, left>>
       ELSE Finish(p)
    /\ UNCHANGED <<storeVars, loops, overlapped>>

StatusReports(p) ==
    /\ pc[p] = "status"
    /\ todo[p] = {}
    /\ Finish(p)
    /\ UNCHANGED <<storeVars, loops, overlapped>>

(* The process is killed. *)
Crash(p) ==
    /\ pc[p] # "idle"
    /\ CrashStore(p)
    /\ Finish(p)
    /\ UNCHANGED <<loops, overlapped>>

-----------------------------------------------------------------------------
Init ==
    /\ StoreInit
    /\ pc = [p \in Procs |-> "idle"]
    /\ out = [p \in Procs |-> NoResult]
    /\ left = [p \in Procs |-> 0]
    /\ todo = [p \in Procs |-> {}]
    /\ loops = 0
    /\ overlapped = {}

Command(p) ==
    \/ \E t \in TaskIds, n \in 1 .. IterationBound :
          StartLoop(p, t, n) \/ StartResume(p, t, n)
    \/ StartStatus(p)

Progress(p) ==
    \/ \E accepted \in Verdicts : Iterate(p, accepted)
    \/ SaveOpen(p)
    \/ SaveRefused(p)
    \/ SaveWrite(p)
    \/ SaveReplace(p)
    \/ SaveFails(p)
    \/ \E t \in TaskIds : StatusLoads(p, t)
    \/ StatusReports(p)

Next == \E p \in Procs : Command(p) \/ Progress(p) \/ AgentRaises(p) \/ Crash(p)

(* The operating system runs every process that is not killed; agents      *)
(* answer unless they raise.                                               *)
Spec == Init /\ [][Next]_vars /\ \A p \in Procs : WF_vars(Progress(p))

-----------------------------------------------------------------------------
(* Every variable has its type. *)
TypeOK ==
    /\ json \in [TaskIds -> Inodes \cup {NoFile}]
    /\ temp \in [TaskIds -> Inodes \cup {NoFile}]
    /\ disk \in [Inodes -> {Empty, Torn} \cup {Document(r) : r \in LoopResult}]
    /\ fd \in [Procs -> Inodes \cup {NoFile}]
    /\ pc \in [Procs -> {"idle", "status"} \cup Working]
    /\ out \in [Procs -> LoopResult \cup {NoResult}]
    /\ left \in [Procs -> 0 .. IterationBound]
    /\ todo \in [Procs -> SUBSET TaskIds]
    /\ loops \in 0 .. MaxLoops
    /\ overlapped \subseteq TaskIds

(* Whatever is killed when, a task's snapshot can be restored as soon as   *)
(* there is one, unless two saves of that task have overlapped; and an     *)
(* unsafe id never gets a file (save writes aside and renames).            *)
SnapshotsWhole ==
    \A t \in TaskIds \ overlapped : json[t] # NoFile => Load(t).kind = "document"

(* Even when saves overlap, no file ever holds the result of another task, *)
(* and no inode is shared by two names.                                    *)
TasksIsolated ==
    /\ \A t \in TaskIds : \A i \in {json[t], temp[t]} \ {NoFile} :
          disk[i].kind = "document" => disk[i].result.task = t
    /\ \A t, u \in TaskIds :
          /\ json[t] = temp[u] => json[t] = NoFile
          /\ (t # u /\ json[t] = json[u]) => json[t] = NoFile
          /\ (t # u /\ temp[t] = temp[u]) => temp[t] = NoFile

(* A save that has come to its rename fails only if another save of the    *)
(* task overlapped it, and then it can tell: its temporary file is gone.   *)
SavesSucceed ==
    \A p \in Procs :
        LET t == out[p].task
        IN  (pc[p] = "replace" /\ t \notin overlapped) =>
                temp[t] # NoFile /\ disk[temp[t]] = Document(out[p])

(* status finds every file it listed, and reports invalid_state only for a *)
(* task whose saves have overlapped: a save under way is never seen.       *)
StatusSeesSnapshots ==
    \A p \in Procs : pc[p] = "status" =>
        \A t \in todo[p] : /\ Load(t) # Missing
                           /\ t \notin overlapped => Load(t) # Invalid

(* Every command ends. *)
CommandsEnd == \A p \in Procs : pc[p] # "idle" ~> pc[p] = "idle"

(* "Persist and restore the latest loop result for a task", by a save      *)
(* whose test is named "replaces existing snapshot atomically": what was   *)
(* saved can be loaded, also when saves overlap.                           *)
SavedIsRestorable ==
    \A t \in SafeIds : json[t] # NoFile => Load(t).kind = "document"

(* The promise to a user who runs one command per task at a time. *)
Register == INSTANCE SnapshotRegister
    WITH Tasks <- SafeIds, Results <- LoopResult, Missing <- Missing,
         latest <- [t \in SafeIds |-> Load(t)]

IsRegister == Register!Spec
=============================================================================
