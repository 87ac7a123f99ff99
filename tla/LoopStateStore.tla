--------------------------- MODULE LoopStateStore ---------------------------
(***************************************************************************)
(* digital_fte/state_store.py: one directory with a file <id>.json per     *)
(* task, replaced through <id>.json.tmp.  The steps of save() are separate *)
(* actions, because another process may use the directory between them;    *)
(* the caller composes them with its own program counter.                  *)
(*                                                                         *)
(* A name is bound to an inode and an inode has contents, since save()     *)
(* keeps writing through its descriptor when the name has moved on.        *)
(***************************************************************************)
EXTENDS Integers, FiniteSets

CONSTANTS
    TaskIds,   \* the task ids commands are given
    SafeIds,   \* those _validate_task_id accepts
    Procs,     \* processes using the directory
    Inodes,    \* inodes of the file system
    NoFile     \* a name or descriptor that refers to no file

ASSUME IdsAssumption == SafeIds \subseteq TaskIds
ASSUME NoFileAssumption == NoFile \notin Inodes

VARIABLES
    json,   \* json[t]: the inode <t>.json names
    temp,   \* temp[t]: the inode <t>.json.tmp names
    disk,   \* disk[i]: the contents of inode i
    fd      \* fd[p]: the inode process p has open for writing

storeVars == <<json, temp, disk, fd>>

(* Contents: nothing (the file was just truncated), bytes that are not one *)
(* JSON document, or one LoopResult as a document.                         *)
Empty == [kind |-> "empty"]
Torn == [kind |-> "torn"]
Document(r) == [kind |-> "document", result |-> r]

StoreInit ==
    /\ json = [t \in TaskIds |-> NoFile]
    /\ temp = [t \in TaskIds |-> NoFile]
    /\ disk = [i \in Inodes |-> Empty]
    /\ fd = [p \in Procs |-> NoFile]

-----------------------------------------------------------------------------
InUse == {json[t] : t \in TaskIds} \cup {temp[t] : t \in TaskIds}
           \cup {fd[p] : p \in Procs}
FreeInodes == Inodes \ InUse

(* Faulty variants of OpenTemp: the snapshot is written in place, all      *)
(* tasks share one temporary name, a left-over file is not truncated.      *)
OpenInPlace(p, t) ==
    LET i == IF json[t] # NoFile THEN json[t]
             ELSE IF temp[t] = NoFile THEN CHOOSE f \in FreeInodes : TRUE ELSE temp[t]
    IN  /\ {json[t], temp[t]} = {NoFile} => FreeInodes # {}
        /\ temp' = [temp EXCEPT ![t] = i]
        /\ disk' = [disk EXCEPT ![i] = Empty]
        /\ fd' = [fd EXCEPT ![p] = i]
        /\ UNCHANGED json

OpenShared(p, t) ==
    LET i == IF temp[t] = NoFile THEN CHOOSE f \in FreeInodes : TRUE ELSE temp[t]
    IN  /\ temp[t] = NoFile => FreeInodes # {}
        /\ temp' = [u \in TaskIds |-> i]
        /\ disk' = [disk EXCEPT ![i] = Empty]
        /\ fd' = [fd EXCEPT ![p] = i]
        /\ UNCHANGED json

OpenUntruncated(p, t) ==
    LET i == IF temp[t] = NoFile THEN CHOOSE f \in FreeInodes : TRUE ELSE temp[t]
    IN  /\ temp[t] = NoFile => FreeInodes # {}
        /\ temp' = [temp EXCEPT ![t] = i]
        /\ fd' = [fd EXCEPT ![p] = i]
        /\ UNCHANGED <<json, disk>>

(* open(<t>.json.tmp, "w") of write_text: the file is created, or the one  *)
(* that is there is truncated, whoever may be writing it.                  *)
OpenTemp(p, t) ==
    LET i == IF temp[t] = NoFile THEN CHOOSE f \in FreeInodes : TRUE ELSE temp[t]
    IN  /\ temp[t] = NoFile => FreeInodes # {}
        /\ temp' = [temp EXCEPT ![t] = i]
        /\ disk' = [disk EXCEPT ![i] = Empty]
        /\ fd' = [fd EXCEPT ![p] = i]
        /\ UNCHANGED json

(* What a document written from offset 0 over contents c leaves: itself,   *)
(* or, over longer contents, itself followed by their tail.                *)
Written(c, r) == IF c = Empty THEN {Document(r)} ELSE {Document(r), Torn}

(* The disk becomes d, less the inodes no name or descriptor refers to any *)
(* more.                                                                   *)
SetDisk(d) == disk' = [i \in Inodes |-> IF i \in InUse' THEN d[i] ELSE Empty]

(* The write and the close of write_text. *)
WriteTemp(p, r) ==
    /\ fd' = [fd EXCEPT ![p] = NoFile]
    /\ UNCHANGED <<json, temp>>
    /\ \E c \in Written(disk[fd[p]], r) : SetDisk([disk EXCEPT ![fd[p]] = c])

(* temporary.replace(path), a rename: possible while the name is there. *)
ReplaceJson(t) ==
    /\ temp[t] # NoFile
    /\ json' = [json EXCEPT ![t] = temp[t]]
    /\ temp' = [temp EXCEPT ![t] = NoFile]
    /\ UNCHANGED fd
    /\ SetDisk(disk)

(* The process dies: its descriptor is closed, and a write it was in the   *)
(* middle of may have left a part of the document.                         *)
CrashStore(p) ==
    /\ fd' = [fd EXCEPT ![p] = NoFile]
    /\ UNCHANGED <<json, temp>>
    /\ IF fd[p] = NoFile
       THEN UNCHANGED disk
       ELSE \E c \in {disk[fd[p]], Torn} : SetDisk([disk EXCEPT ![fd[p]] = c])

-----------------------------------------------------------------------------
(* load(t): no file, contents it refuses, or the result stored there.      *)
Missing == [kind |-> "missing"]
Invalid == [kind |-> "invalid"]

Load(t) ==
    IF t \notin SafeIds THEN Invalid
    ELSE IF json[t] = NoFile THEN Missing
    ELSE LET c == disk[json[t]]
         IN  IF c.kind = "document" /\ c.result.task = t THEN c ELSE Invalid

(* A faulty variant of Listed: temporary files are listed as well.         *)
ListedWithTemp == {t \in SafeIds : json[t] # NoFile \/ temp[t] # NoFile}

(* list_task_ids: the names the directory has. *)
Listed == {t \in SafeIds : json[t] # NoFile}
=============================================================================
