------------------------- MODULE LoopCommandsProofs -------------------------
(***************************************************************************)
(* Proofs about the commands on a shared state directory, for any number   *)
(* of tasks, processes, inodes and iterations, exclusive or not.           *)
(***************************************************************************)
EXTENDS LoopCommands, TLAPS

USE IdsAssumption, NoFileAssumption, CommandsAssumption

-----------------------------------------------------------------------------
(* Type correctness.                                                       *)

Contents == {Empty, Torn} \cup {Document(r) : r \in LoopResult}

(* A command that works on a result has one, and the iterations it may     *)
(* still run fit the bound.                                                *)
WorkBounded ==
    \A p \in Procs :
        /\ pc[p] \in Working => out[p] \in LoopResult
        /\ pc[p] = "iterate" =>
              left[p] >= 1 /\ out[p].iterations + left[p] <= IterationBound

TypeInv == TypeOK /\ WorkBounded

(* The contents of a file differ by their kinds.                           *)
LEMMA DocumentFields ==
    /\ Empty.kind = "empty" /\ Torn.kind = "torn"
    /\ \A r : Document(r).kind = "document" /\ Document(r).result = r
    /\ Missing.kind = "missing" /\ Invalid.kind = "invalid"
BY DEF Empty, Torn, Document, Missing, Invalid

(* A file that holds a document holds that of its result.                  *)
LEMMA StoreTyped ==
    ASSUME TypeOK
    PROVE  /\ disk \in [Inodes -> Contents]
           /\ \A c \in Contents : c.kind = "document" =>
                 c.result \in LoopResult /\ c = Document(c.result)
BY DocumentFields DEF TypeOK, Contents

(* What load returns: a result of the task, or a refusal. *)
LEMMA LoadTyped ==
    ASSUME TypeOK, NEW t \in TaskIds
    PROVE  \/ Load(t) = Missing /\ t \in SafeIds /\ json[t] = NoFile
           \/ Load(t) = Invalid
           \/ /\ t \in SafeIds /\ json[t] \in Inodes /\ Load(t) = disk[json[t]]
              /\ Load(t).kind = "document"
              /\ Load(t).result \in LoopResult /\ Load(t).result.task = t
<1>1. CASE t \notin SafeIds
  BY <1>1 DEF Load
<1>2. CASE t \in SafeIds /\ json[t] = NoFile
  BY <1>2 DEF Load
<1>3. CASE t \in SafeIds /\ json[t] # NoFile
  <2>1. json[t] \in Inodes
    BY <1>3 DEF TypeOK
  <2>2. disk[json[t]] \in Contents
    BY <2>1, StoreTyped
  <2> QED
    BY <1>3, <2>1, <2>2, StoreTyped DEF Load
<1> QED
  BY <1>1, <1>2, <1>3

(* Moving on within a command, and ending it, keep the types.              *)
LEMMA GotoTyped ==
    ASSUME TypeInv, NEW p \in Procs, NEW place \in Working, NEW r \in LoopResult,
           NEW n \in 0 .. IterationBound, Goto(p, place, r, n),
           place = "iterate" => n >= 1 /\ r.iterations + n <= IterationBound
    PROVE  /\ pc' \in [Procs -> {"idle", "status"} \cup Working]
           /\ out' \in [Procs -> LoopResult \cup {NoResult}]
           /\ left' \in [Procs -> 0 .. IterationBound]
           /\ todo' \in [Procs -> SUBSET TaskIds]
           /\ WorkBounded'
BY DEF Goto, TypeInv, TypeOK, WorkBounded

(* The end of a command.                                                   *)
LEMMA FinishTyped ==
    ASSUME TypeInv, NEW p \in Procs, Finish(p)
    PROVE  /\ pc' \in [Procs -> {"idle", "status"} \cup Working]
           /\ out' \in [Procs -> LoopResult \cup {NoResult}]
           /\ left' \in [Procs -> 0 .. IterationBound]
           /\ todo' \in [Procs -> SUBSET TaskIds]
           /\ WorkBounded'
<1>1. 0 \in 0 .. IterationBound
  OBVIOUS
<1>2. "idle" \notin Working
  BY DEF Working, Saving
<1> QED
  BY <1>1, <1>2 DEF Finish, TypeInv, TypeOK, WorkBounded

(* The contents SetDisk gives are contents. *)
LEMMA SetDiskTyped ==
    ASSUME NEW d \in [Inodes -> Contents], SetDisk(d)
    PROVE  disk' \in [Inodes -> Contents]
BY DEF SetDisk, Contents

(* A result put together from its fields. *)
LEMMA ResultAssembled ==
    ASSUME NEW t \in TaskIds, NEW l \in 1 .. MaxLoops,
           NEW s \in {"completed", "failed"}, NEW n \in 0 .. IterationBound
    PROVE  [task |-> t, loop |-> l, status |-> s, iterations |-> n] \in LoopResult
BY DEF LoopResult

-----------------------------------------------------------------------------
(* The initial state has its type.                                         *)
LEMMA InitType == Init => TypeInv
<1>1. "idle" \notin Working
  BY DEF Working, Saving
<1> QED
  BY <1>1 DEF Init, StoreInit, TypeInv, TypeOK, WorkBounded

(* Every step keeps the types.                                             *)
LEMMA NextType == TypeInv /\ [Next]_vars => TypeInv'
<1> SUFFICES ASSUME TypeInv, [Next]_vars PROVE TypeInv'
  OBVIOUS
<1>t. TypeOK /\ WorkBounded
  BY DEF TypeInv
<1>w. "idle" \notin Working /\ "status" \notin Working /\ "iterate" \in Working
      /\ "save" \in Working /\ "write" \in Working /\ "replace" \in Working
      /\ 0 \in 0 .. IterationBound
  BY DEF Working, Saving
<1>1. ASSUME NEW p \in Procs, NEW t \in TaskIds, NEW n \in 1 .. IterationBound,
             StartLoop(p, t, n)
      PROVE  TypeInv'
  <2> DEFINE r == [task |-> t, loop |-> loops + 1, status |-> "failed", iterations |-> 0]
  <2>1. /\ Goto(p, "iterate", r, n) /\ UNCHANGED <<storeVars, overlapped>>
        /\ loops' = loops + 1 /\ loops < MaxLoops
    BY <1>1 DEF StartLoop
  <2>2. loops' \in 0 .. MaxLoops /\ loops + 1 \in 1 .. MaxLoops
    BY <1>t, <2>1 DEF TypeOK
  <2>3. r \in LoopResult /\ r.iterations + n <= IterationBound
    <3>1. "failed" \in {"completed", "failed"}
      OBVIOUS
    <3>2. r \in LoopResult
      BY <1>w, <2>2, <3>1, ResultAssembled, Zenon
    <3> QED
      BY <3>2
  <2> HIDE DEF r
  <2> QED
    BY <1>t, <1>w, <2>1, <2>2, <2>3, GotoTyped DEF TypeInv, TypeOK, storeVars
<1>2. ASSUME NEW p \in Procs, NEW t \in TaskIds, NEW n \in 1 .. IterationBound,
             StartResume(p, t, n)
      PROVE  TypeInv'
  <2>1. UNCHANGED <<storeVars, loops, overlapped>>
    BY <1>2 DEF StartResume
  <2>2. CASE Finish(p)
    BY <1>t, <2>1, <2>2, FinishTyped DEF TypeInv, TypeOK, storeVars
  <2>3. CASE /\ Load(t).kind = "document"
             /\ Goto(p, "save", Load(t).result, 0)
    <3>1. Load(t).result \in LoopResult
      BY <1>t, <2>3, LoadTyped, DocumentFields
    <3> QED
      BY <1>t, <1>w, <2>1, <2>3, <3>1, GotoTyped DEF TypeInv, TypeOK, storeVars
  <2>4. CASE /\ Load(t).kind = "document"
             /\ Load(t).result.iterations + n <= IterationBound
             /\ Goto(p, "iterate", Load(t).result, n)
    <3>1. Load(t).result \in LoopResult
      BY <1>t, <2>4, LoadTyped, DocumentFields
    <3> QED
      BY <1>t, <1>w, <2>1, <2>4, <3>1, GotoTyped DEF TypeInv, TypeOK, storeVars
  <2> QED
    BY <1>2, <2>2, <2>3, <2>4 DEF StartResume
<1>3. ASSUME NEW p \in Procs, NEW accepted \in Verdicts, Iterate(p, accepted)
      PROVE  TypeInv'
  <2> DEFINE s == IF accepted THEN "completed" ELSE "failed"
             r == [task |-> out[p].task, loop |-> out[p].loop, status |-> s,
                   iterations |-> out[p].iterations + 1]
             place == IF accepted \/ left[p] = 1 THEN "save" ELSE "iterate"
  <2>1. /\ pc[p] = "iterate" /\ Goto(p, place, r, left[p] - 1)
        /\ UNCHANGED <<storeVars, loops, overlapped>>
    BY <1>3 DEF Iterate
  <2>2. /\ out[p] \in LoopResult /\ left[p] >= 1 /\ left[p] \in 0 .. IterationBound
        /\ out[p].iterations + left[p] <= IterationBound
        /\ out[p].iterations \in Nat
    BY <1>t, <1>w, <2>1 DEF WorkBounded, TypeOK, LoopResult
  <2>3. s \in {"completed", "failed"} /\ place \in {"save", "iterate"}
    OBVIOUS
  <2>4. r \in LoopResult /\ r.iterations = out[p].iterations + 1
    <3>1. out[p].task \in TaskIds /\ out[p].loop \in 1 .. MaxLoops
      BY <2>2 DEF LoopResult
    <3>2. out[p].iterations + 1 \in 0 .. IterationBound
      BY <2>2
    <3> HIDE DEF s
    <3> QED
      BY <2>3, <3>1, <3>2, ResultAssembled, Zenon
  <2>5. left[p] - 1 \in 0 .. IterationBound
    BY <2>2
  <2>6. place = "iterate" =>
          left[p] - 1 >= 1 /\ r.iterations + (left[p] - 1) <= IterationBound
    BY <2>2, <2>4
  <2> HIDE DEF r, place, s
  <2> QED
    BY <1>t, <1>w, <2>1, <2>3, <2>4, <2>5, <2>6, GotoTyped DEF TypeInv, TypeOK, storeVars
<1>4. ASSUME NEW p \in Procs,
             AgentRaises(p) \/ SaveRefused(p) \/ SaveFails(p) \/ StatusReports(p)
      PROVE  TypeInv'
  BY <1>t, <1>4, FinishTyped
     DEF AgentRaises, SaveRefused, SaveFails, StatusReports, TypeInv, TypeOK, storeVars
<1>5. ASSUME NEW p \in Procs, SaveOpen(p) PROVE TypeInv'
  <2> DEFINE t == out[p].task
             i == IF temp[t] = NoFile THEN CHOOSE f \in FreeInodes : TRUE ELSE temp[t]
  <2>1. /\ pc[p] = "save" /\ t \in SafeIds /\ Goto(p, "write", out[p], 0)
        /\ loops' = loops /\ overlapped' \in {overlapped \cup {t}, overlapped}
        /\ temp[t] = NoFile => FreeInodes # {}
        /\ temp' = [temp EXCEPT ![t] = i]
        /\ disk' = [disk EXCEPT ![i] = Empty]
        /\ fd' = [fd EXCEPT ![p] = i] /\ json' = json
    BY <1>5 DEF SaveOpen, OpenTemp
  <2>2. i \in Inodes
    BY <1>t, <2>1 DEF TypeOK, FreeInodes
  <2>3. out[p] \in LoopResult
    BY <1>t, <1>w, <2>1 DEF WorkBounded
  <2> HIDE DEF i
  <2>4. /\ temp' \in [TaskIds -> Inodes \cup {NoFile}]
        /\ fd' \in [Procs -> Inodes \cup {NoFile}]
        /\ json' \in [TaskIds -> Inodes \cup {NoFile}]
        /\ overlapped' \subseteq TaskIds /\ loops' \in 0 .. MaxLoops
    BY <1>t, <2>1, <2>2 DEF TypeOK
  <2>5. disk' \in [Inodes -> Contents]
    BY <1>t, <2>1, <2>2, StoreTyped DEF Contents
  <2> QED
    BY <1>w, <2>1, <2>3, <2>4, <2>5, GotoTyped DEF TypeInv, TypeOK, Contents
<1>6. ASSUME NEW p \in Procs, SaveWrite(p) PROVE TypeInv'
  <2>1. /\ pc[p] = "write" /\ Goto(p, "replace", out[p], 0)
        /\ fd' = [fd EXCEPT ![p] = NoFile]
        /\ UNCHANGED <<json, temp, loops, overlapped>>
    BY <1>6 DEF SaveWrite, WriteTemp
  <2>2. out[p] \in LoopResult
    BY <1>t, <1>w, <2>1 DEF WorkBounded
  <2>3. PICK c \in Written(disk[fd[p]], out[p]) : SetDisk([disk EXCEPT ![fd[p]] = c])
    BY <1>6 DEF SaveWrite, WriteTemp
  <2>4. c \in Contents
    BY <2>2, <2>3 DEF Written, Contents
  <2>5. [disk EXCEPT ![fd[p]] = c] \in [Inodes -> Contents]
    BY <1>t, <2>4, StoreTyped
  <2>6. disk' \in [Inodes -> Contents]
    BY <2>3, <2>5, SetDiskTyped
  <2>7. fd' \in [Procs -> Inodes \cup {NoFile}]
    BY <1>t, <2>1 DEF TypeOK
  <2> QED
    BY <1>t, <1>w, <2>1, <2>2, <2>6, <2>7, GotoTyped DEF TypeInv, TypeOK, Contents
<1>7. ASSUME NEW p \in Procs, SaveReplace(p) PROVE TypeInv'
  <2>1. /\ pc[p] = "replace" /\ Finish(p) /\ UNCHANGED <<fd, loops, overlapped>>
        /\ temp' = [temp EXCEPT ![out[p].task] = NoFile]
        /\ json' = [json EXCEPT ![out[p].task] = temp[out[p].task]]
        /\ SetDisk(disk)
    BY <1>7 DEF SaveReplace, ReplaceJson
  <2>2. out[p].task \in TaskIds
    BY <1>t, <1>w, <2>1 DEF WorkBounded, LoopResult
  <2>3. disk' \in [Inodes -> Contents]
    BY <1>t, <2>1, StoreTyped, SetDiskTyped
  <2>4. /\ temp' \in [TaskIds -> Inodes \cup {NoFile}]
        /\ json' \in [TaskIds -> Inodes \cup {NoFile}]
    BY <1>t, <2>1, <2>2 DEF TypeOK
  <2> QED
    BY <1>t, <2>1, <2>3, <2>4, FinishTyped DEF TypeInv, TypeOK, Contents
<1>8. ASSUME NEW p \in Procs, StartStatus(p) PROVE TypeInv'
  <2>1. Listed \subseteq TaskIds
    BY DEF Listed
  <2> QED
    BY <1>t, <1>w, <1>8, <2>1 DEF StartStatus, TypeInv, TypeOK, WorkBounded, storeVars
<1>9. ASSUME NEW p \in Procs, NEW t \in TaskIds, StatusLoads(p, t) PROVE TypeInv'
  <2>1. CASE Finish(p)
    BY <1>t, <1>9, <2>1, FinishTyped DEF StatusLoads, TypeInv, TypeOK, storeVars
  <2>2. CASE todo' = [todo EXCEPT ![p] = @ \ {t}] /\ UNCHANGED <<pc, out, left>>
    BY <1>t, <1>9, <2>2 DEF StatusLoads, TypeInv, TypeOK, WorkBounded, storeVars
  <2> QED
    BY <1>9, <2>1, <2>2 DEF StatusLoads
<1>10. ASSUME NEW p \in Procs, Crash(p) PROVE TypeInv'
  <2>1. /\ Finish(p) /\ UNCHANGED <<json, temp, loops, overlapped>>
        /\ fd' = [fd EXCEPT ![p] = NoFile]
    BY <1>10 DEF Crash, CrashStore
  <2>2. fd' \in [Procs -> Inodes \cup {NoFile}]
    BY <1>t, <2>1 DEF TypeOK
  <2>3. disk' \in [Inodes -> Contents]
    <3>1. CASE UNCHANGED disk
      BY <1>t, <3>1, StoreTyped
    <3>2. CASE fd[p] # NoFile
      <4>1. PICK c \in {disk[fd[p]], Torn} : SetDisk([disk EXCEPT ![fd[p]] = c])
        BY <1>10, <3>2 DEF Crash, CrashStore
      <4>2. fd[p] \in Inodes
        BY <1>t, <3>2 DEF TypeOK
      <4>3. c \in Contents
        BY <1>t, <4>1, <4>2, StoreTyped DEF Contents
      <4>4. [disk EXCEPT ![fd[p]] = c] \in [Inodes -> Contents]
        BY <1>t, <4>3, StoreTyped
      <4> QED
        BY <4>1, <4>4, SetDiskTyped
    <3> QED
      BY <1>10, <3>1, <3>2 DEF Crash, CrashStore
  <2> QED
    BY <1>t, <2>1, <2>2, <2>3, FinishTyped DEF TypeInv, TypeOK, Contents
<1>11. CASE UNCHANGED vars
  BY <1>t, <1>11 DEF vars, storeVars, procVars, TypeInv, TypeOK, WorkBounded
<1> QED
  BY <1>1, <1>2, <1>3, <1>4, <1>5, <1>6, <1>7, <1>8, <1>9, <1>10, <1>11
     DEF Next, Command, Progress

(* Every variable keeps its type (see TypeOK). *)
THEOREM TypeCorrect == Spec => []TypeOK
<1>1. TypeInv => TypeOK
  BY DEF TypeInv
<1>2. Init /\ [][Next]_vars => []TypeInv
  BY InitType, NextType, PTL
<1> QED
  BY <1>1, <1>2, PTL DEF Spec

-----------------------------------------------------------------------------
(* The store: who owns which inode.                                        *)

Busy(p, t) == pc[p] \in Saving /\ out[p].task = t

(* Names of different tasks, and the two names of one task, are bound to   *)
(* different inodes; an unsafe id has no file.                             *)
NamesApart ==
    /\ \A t \in TaskIds \ SafeIds : json[t] = NoFile /\ temp[t] = NoFile
    /\ \A t, u \in TaskIds :
          /\ json[t] = temp[u] => json[t] = NoFile
          /\ (t # u /\ json[t] = json[u]) => json[t] = NoFile
          /\ (t # u /\ temp[t] = temp[u]) => temp[t] = NoFile

(* A process has a file open exactly while it writes, and if that file has *)
(* a name at all, it is a name of the task the process saves.              *)
Writers ==
    \A p \in Procs :
        /\ pc[p] \in Saving => out[p].task \in SafeIds
        /\ pc[p] = "write" => fd[p] # NoFile
        /\ pc[p] # "write" => fd[p] = NoFile
        /\ \A u \in TaskIds :
              (pc[p] = "write" /\ fd[p] \in {json[u], temp[u]}) => out[p].task = u

OwnDocuments ==
    \A t \in TaskIds : \A i \in {json[t], temp[t]} \ {NoFile} :
        disk[i].kind = "document" => disk[i].result.task = t

(* What the saves of a task may rely on while no two have overlapped.      *)
AloneOn(t) ==
    /\ \A p, q \in Procs : Busy(p, t) /\ Busy(q, t) => p = q
    /\ \A p \in Procs :
          /\ (pc[p] = "write" /\ out[p].task = t) =>
                fd[p] = temp[t] /\ disk[temp[t]] = Empty
          /\ (pc[p] = "replace" /\ out[p].task = t) =>
                temp[t] # NoFile /\ disk[temp[t]] = Document(out[p])
    /\ json[t] # NoFile => disk[json[t]].kind = "document"

OneSaver == \A t \in TaskIds \ overlapped : AloneOn(t)

ListedStay == \A p \in Procs : \A t \in todo[p] : t \in SafeIds /\ json[t] # NoFile

StoreInv ==
    /\ NamesApart
    /\ Writers
    /\ OwnDocuments
    /\ OneSaver
    /\ ListedStay

-----------------------------------------------------------------------------
(* Only process p moves. *)
Moves(p) ==
    \A q \in Procs \ {p} : pc'[q] = pc[q] /\ out'[q] = out[q] /\ todo'[q] = todo[q]

(* Moving on within a command, and ending it, concern one process.         *)
LEMMA GotoMoves ==
    ASSUME TypeInv, NEW p \in Procs, NEW place, NEW r, NEW n, Goto(p, place, r, n)
    PROVE  Moves(p) /\ pc'[p] = place /\ out'[p] = r /\ todo'[p] = todo[p]
BY DEF Goto, Moves, TypeInv, TypeOK

(* The end of a command.                                                   *)
LEMMA FinishMoves ==
    ASSUME TypeInv, NEW p \in Procs, Finish(p)
    PROVE  Moves(p) /\ pc'[p] = "idle" /\ todo'[p] = {}
BY DEF Finish, Moves, TypeInv, TypeOK

(* A step that leaves the store alone, of a process that is not writing    *)
(* and does not save now.                                                  *)
LEMMA QuietStep ==
    ASSUME TypeInv, StoreInv, NEW p \in Procs, Moves(p),
           UNCHANGED <<storeVars, overlapped>>,
           pc[p] # "write", pc'[p] \notin Saving,
           \A t \in todo'[p] : t \in SafeIds /\ json[t] # NoFile
    PROVE  StoreInv'
<1>w. "write" \in Saving /\ "replace" \in Saving
  BY DEF Saving
<1>u. json' = json /\ temp' = temp /\ disk' = disk /\ fd' = fd /\ overlapped' = overlapped
  BY DEF storeVars
<1>1. NamesApart'
  BY <1>u DEF StoreInv, NamesApart
<1>2. Writers'
  BY <1>u, <1>w DEF StoreInv, Writers, Moves
<1>3. OwnDocuments'
  BY <1>u DEF StoreInv, OwnDocuments
<1>4. OneSaver'
  <2> SUFFICES ASSUME NEW t \in TaskIds \ overlapped PROVE AloneOn(t)'
    BY <1>u DEF OneSaver
  <2>1. AloneOn(t)
    BY DEF StoreInv, OneSaver
  <2>2. \A q \in Procs : (Busy(q, t))' => Busy(q, t)
    BY DEF Busy, Moves
  <2> QED
    BY <1>u, <1>w, <2>1, <2>2 DEF AloneOn, Moves
<1>5. ListedStay'
  BY <1>u DEF StoreInv, ListedStay, Moves
<1> QED
  BY <1>1, <1>2, <1>3, <1>4, <1>5 DEF StoreInv

(* Contents survive SetDisk where a name or a descriptor refers to them. *)
LEMMA NamedKept ==
    ASSUME TypeInv', NEW d, SetDisk(d)
    PROVE  \A u \in TaskIds :
              /\ json'[u] # NoFile => disk'[json'[u]] = d[json'[u]]
              /\ temp'[u] # NoFile => disk'[temp'[u]] = d[temp'[u]]
<1> SUFFICES ASSUME NEW u \in TaskIds
             PROVE  /\ json'[u] # NoFile => disk'[json'[u]] = d[json'[u]]
                    /\ temp'[u] # NoFile => disk'[temp'[u]] = d[temp'[u]]
  OBVIOUS
<1>1. json'[u] \in InUse' /\ temp'[u] \in InUse'
  BY DEF InUse
<1>2. json'[u] # NoFile => json'[u] \in Inodes
  BY DEF TypeInv, TypeOK
<1>3. temp'[u] # NoFile => temp'[u] \in Inodes
  BY DEF TypeInv, TypeOK
<1> QED
  BY <1>1, <1>2, <1>3 DEF SetDisk

-----------------------------------------------------------------------------
(* Opening the temporary file keeps the store in order,                    *)
LEMMA OpenKeepsStore ==
    ASSUME TypeInv, TypeInv', StoreInv, NEW p \in Procs, SaveOpen(p)
    PROVE  StoreInv'
<1> DEFINE t == out[p].task
           i == IF temp[t] = NoFile THEN CHOOSE f \in FreeInodes : TRUE ELSE temp[t]
<1>w. "write" \in Saving /\ "replace" \in Saving /\ "save" \notin Saving
  BY DEF Saving
<1>1. /\ pc[p] = "save" /\ t \in SafeIds /\ Goto(p, "write", out[p], 0)
      /\ temp[t] = NoFile => FreeInodes # {}
      /\ temp' = [temp EXCEPT ![t] = i]
      /\ disk' = [disk EXCEPT ![i] = Empty]
      /\ fd' = [fd EXCEPT ![p] = i] /\ json' = json
      /\ overlapped' = IF \E q \in Procs \ {p} : pc[q] \in Saving /\ out[q].task = t
                       THEN overlapped \cup {t} ELSE overlapped
  BY DEF SaveOpen, OpenTemp
<1>2. t \in TaskIds /\ i \in Inodes /\ i # NoFile
  BY <1>1 DEF TypeInv, TypeOK, FreeInodes
<1>3. \/ temp[t] = i
      \/ temp[t] = NoFile /\ (\A u \in TaskIds : i # json[u] /\ i # temp[u])
         /\ (\A q \in Procs : i # fd[q])
  <2>1. CASE temp[t] = NoFile
    <3>1. i \in FreeInodes
      BY <1>1, <2>1
    <3> QED
      BY <2>1, <3>1 DEF FreeInodes, InUse
  <2> QED
    BY <2>1
<1> HIDE DEF i
<1>4. Moves(p) /\ pc'[p] = "write" /\ out'[p] = out[p] /\ todo'[p] = todo[p]
  BY <1>1, GotoMoves
<1>5. /\ temp'[t] = i /\ fd'[p] = i /\ disk'[i] = Empty
      /\ \A u \in TaskIds \ {t} : temp'[u] = temp[u]
      /\ \A q \in Procs \ {p} : fd'[q] = fd[q]
      /\ \A j \in Inodes \ {i} : disk'[j] = disk[j]
  BY <1>1, <1>2 DEF TypeInv, TypeOK
(* i is no name but t's temporary one. *)
<1>6. /\ \A u \in TaskIds : json[u] # i
      /\ \A u \in TaskIds \ {t} : temp[u] # i
  <2>1. NamesApart
    BY DEF StoreInv
  <2> QED
    BY <1>2, <1>3, <2>1 DEF NamesApart
<1>7. NamesApart'
  BY <1>1, <1>2, <1>5, <1>6 DEF StoreInv, NamesApart
<1>8. Writers'
  <2> SUFFICES ASSUME NEW q \in Procs
               PROVE  /\ pc'[q] \in Saving => out'[q].task \in SafeIds
                      /\ pc'[q] = "write" => fd'[q] # NoFile
                      /\ pc'[q] # "write" => fd'[q] = NoFile
                      /\ \A u \in TaskIds :
                           (pc'[q] = "write" /\ fd'[q] \in {json'[u], temp'[u]})
                              => out'[q].task = u
    BY DEF Writers
  <2>1. CASE q = p
    BY <1>1, <1>2, <1>4, <1>5, <1>6, <2>1
  <2>2. CASE q # p
    <3>1. /\ pc'[q] = pc[q] /\ out'[q] = out[q] /\ fd'[q] = fd[q]
          /\ pc[q] \in Saving => out[q].task \in SafeIds
          /\ pc[q] = "write" => fd[q] # NoFile
          /\ pc[q] # "write" => fd[q] = NoFile
          /\ \A u \in TaskIds :
                (pc[q] = "write" /\ fd[q] \in {json[u], temp[u]}) => out[q].task = u
      BY <1>4, <1>5, <2>2 DEF Moves, StoreInv, Writers
    <3>2. fd[q] = i => temp[t] = i
      BY <1>3
    <3> QED
      BY <1>1, <1>2, <1>5, <3>1, <3>2
  <2> QED
    BY <2>1, <2>2
<1>9. OwnDocuments'
  <2> SUFFICES ASSUME NEW u \in TaskIds, NEW j \in {json'[u], temp'[u]} \ {NoFile},
                      disk'[j].kind = "document"
               PROVE  disk'[j].result.task = u
    BY DEF OwnDocuments
  <2>1. j # i
    BY <1>5, DocumentFields
  <2>2. j \in {json[u], temp[u]} \ {NoFile} /\ j \in Inodes
    BY <1>1, <1>5, <2>1 DEF TypeInv, TypeOK
  <2> QED
    BY <1>5, <2>1, <2>2 DEF StoreInv, OwnDocuments
<1>10. OneSaver'
  <2> SUFFICES ASSUME NEW u \in TaskIds \ overlapped' PROVE AloneOn(u)'
    BY DEF OneSaver
  <2>1. AloneOn(u)
    BY <1>1 DEF StoreInv, OneSaver
  <2>2. json'[u] # NoFile => disk'[json'[u]].kind = "document"
    BY <1>1, <1>5, <1>6, <2>1 DEF AloneOn, TypeInv, TypeOK
  <2>3. CASE u = t
    <3>1. \A q \in Procs \ {p} : ~(pc[q] \in Saving /\ out[q].task = t)
      BY <1>1, <2>3
    <3>2. \A q \in Procs \ {p} : ~(pc'[q] \in Saving /\ out'[q].task = t)
      BY <1>4, <3>1 DEF Moves
    <3> QED
      BY <1>w, <1>4, <1>5, <2>2, <2>3, <3>2 DEF AloneOn, Busy
  <2>4. CASE u # t
    <3>1. \A q \in Procs : out'[q].task = u =>
             q # p /\ pc'[q] = pc[q] /\ out'[q] = out[q] /\ fd'[q] = fd[q]
      BY <1>4, <1>5, <2>4 DEF Moves
    <3>2. temp'[u] = temp[u] /\ (temp[u] # NoFile => disk'[temp[u]] = disk[temp[u]])
      BY <1>5, <1>6, <2>4 DEF TypeInv, TypeOK
    <3>3. \A q \in Procs : (pc[q] = "write" /\ out[q].task = u) => temp[u] # NoFile
      BY <2>1 DEF AloneOn, StoreInv, Writers
    <3> QED
      BY <2>1, <2>2, <3>1, <3>2, <3>3 DEF AloneOn, Busy
  <2> QED
    BY <2>3, <2>4
<1>11. ListedStay'
  BY <1>1, <1>4 DEF StoreInv, ListedStay, Moves
<1> QED
  BY <1>7, <1>8, <1>9, <1>10, <1>11 DEF StoreInv

(* writing it,                                                             *)
LEMMA WriteKeepsStore ==
    ASSUME TypeInv, TypeInv', StoreInv, NEW p \in Procs, SaveWrite(p)
    PROVE  StoreInv'
<1> DEFINE t == out[p].task
           i == fd[p]
<1>w. "write" \in Saving /\ "replace" \in Saving
  BY DEF Saving
<1>1. /\ pc[p] = "write" /\ Goto(p, "replace", out[p], 0)
      /\ fd' = [fd EXCEPT ![p] = NoFile]
      /\ json' = json /\ temp' = temp /\ overlapped' = overlapped
  BY DEF SaveWrite, WriteTemp
<1>2. PICK c \in Written(disk[i], out[p]) : SetDisk([disk EXCEPT ![i] = c])
  BY DEF SaveWrite, WriteTemp
<1>3. /\ i \in Inodes /\ t \in SafeIds /\ t \in TaskIds
      /\ \A u \in TaskIds : i \in {json[u], temp[u]} => u = t
  BY <1>w, <1>1 DEF StoreInv, Writers, TypeInv, TypeOK
<1>4. Moves(p) /\ pc'[p] = "replace" /\ out'[p] = out[p] /\ todo'[p] = todo[p]
  BY <1>1, GotoMoves
<1>5. \A j \in Inodes : [disk EXCEPT ![i] = c][j] = IF j = i THEN c ELSE disk[j]
  BY <1>3 DEF TypeInv, TypeOK
<1>6. \A u \in TaskIds :
         /\ json[u] # NoFile => disk'[json[u]] = IF json[u] = i THEN c ELSE disk[json[u]]
         /\ temp[u] # NoFile => disk'[temp[u]] = IF temp[u] = i THEN c ELSE disk[temp[u]]
  <2> DEFINE d == [disk EXCEPT ![i] = c]
  <2>1. SetDisk(d)
    BY <1>2
  <2> HIDE DEF d
  <2>2. \A u \in TaskIds :
           /\ json'[u] # NoFile => disk'[json'[u]] = d[json'[u]]
           /\ temp'[u] # NoFile => disk'[temp'[u]] = d[temp'[u]]
    BY <2>1, NamedKept
  <2>3. \A j \in Inodes : d[j] = IF j = i THEN c ELSE disk[j]
    BY <1>5 DEF d
  <2>4. \A u \in TaskIds : /\ json[u] # NoFile => json[u] \in Inodes
                           /\ temp[u] # NoFile => temp[u] \in Inodes
    BY DEF TypeInv, TypeOK
  <2> SUFFICES ASSUME NEW u \in TaskIds
               PROVE  /\ json[u] # NoFile =>
                           disk'[json[u]] = IF json[u] = i THEN c ELSE disk[json[u]]
                      /\ temp[u] # NoFile =>
                           disk'[temp[u]] = IF temp[u] = i THEN c ELSE disk[temp[u]]
    OBVIOUS
  <2>u. json' = json /\ temp' = temp
    BY <1>1
  <2>5. json[u] # NoFile => disk'[json[u]] = d[json[u]] /\ json[u] \in Inodes
    BY <2>2, <2>4, <2>u
  <2>6. temp[u] # NoFile => disk'[temp[u]] = d[temp[u]] /\ temp[u] \in Inodes
    BY <2>2, <2>4, <2>u
  <2> QED
    BY <2>3, <2>5, <2>6
<1>7. c.kind = "document" => c = Document(out[p])
  BY <1>2, DocumentFields DEF Written
<1>8. NamesApart'
  BY <1>1 DEF StoreInv, NamesApart
<1>9. Writers'
  <2>1. fd'[p] = NoFile /\ \A q \in Procs \ {p} : fd'[q] = fd[q]
    BY <1>1 DEF TypeInv, TypeOK
  <2> QED
    BY <1>1, <1>3, <1>4, <2>1 DEF StoreInv, Writers, Moves
<1>10. OwnDocuments'
  <2> SUFFICES ASSUME NEW u \in TaskIds, NEW j \in {json[u], temp[u]} \ {NoFile},
                      disk'[j].kind = "document"
               PROVE  disk'[j].result.task = u
    BY <1>1 DEF OwnDocuments
  <2>1. disk'[j] = IF j = i THEN c ELSE disk[j]
    BY <1>6
  <2>2. CASE j = i
    BY <1>3, <1>7, <2>1, <2>2, DocumentFields
  <2>3. CASE j # i
    BY <2>1, <2>3 DEF StoreInv, OwnDocuments
  <2> QED
    BY <2>2, <2>3
<1>11. OneSaver'
  <2> SUFFICES ASSUME NEW u \in TaskIds \ overlapped PROVE AloneOn(u)'
    BY <1>1 DEF OneSaver
  <2>1. AloneOn(u)
    BY DEF StoreInv, OneSaver
  <2>2. \A q \in Procs : (Busy(q, u))' => Busy(q, u)
    BY <1>w, <1>1, <1>4 DEF Busy, Moves
  <2>3. CASE u = t
    <3>1. i = temp[t] /\ disk[i] = Empty /\ i # NoFile
      BY <1>1, <1>3, <2>1, <2>3 DEF AloneOn
    <3>2. c = Document(out[p])
      BY <1>2, <3>1 DEF Written
    <3>3. json[t] # i
      BY <1>3, <3>1 DEF StoreInv, NamesApart
    <3>4. disk'[temp[t]] = c
      BY <1>3, <1>6, <3>1
    <3>5. json[t] # NoFile => disk'[json[t]] = disk[json[t]]
      BY <1>3, <1>6, <3>3
    <3>6. \A q \in Procs \ {p} : ~(pc'[q] \in Saving /\ out'[q].task = t)
      BY <1>w, <1>1, <1>4, <2>1, <2>3 DEF AloneOn, Busy, Moves
    <3> QED
      BY <1>w, <1>1, <1>4, <2>1, <2>2, <2>3, <3>1, <3>2, <3>4, <3>5, <3>6 DEF AloneOn
  <2>4. CASE u # t
    <3>1. \A q \in Procs : out'[q].task = u =>
             q # p /\ pc'[q] = pc[q] /\ out'[q] = out[q] /\ fd'[q] = fd[q]
      BY <1>1, <1>4, <2>4 DEF Moves, TypeInv, TypeOK
    <3>2. /\ temp[u] # NoFile => disk'[temp[u]] = disk[temp[u]]
          /\ json[u] # NoFile => disk'[json[u]] = disk[json[u]]
      BY <1>3, <1>6, <2>4
    <3>3. \A q \in Procs : (pc[q] = "write" /\ out[q].task = u) => temp[u] # NoFile
      BY <2>1 DEF AloneOn, StoreInv, Writers
    <3> QED
      BY <1>1, <2>1, <2>2, <3>1, <3>2, <3>3 DEF AloneOn
  <2> QED
    BY <2>3, <2>4
<1>12. ListedStay'
  BY <1>1, <1>4 DEF StoreInv, ListedStay, Moves
<1> QED
  BY <1>8, <1>9, <1>10, <1>11, <1>12 DEF StoreInv

(* renaming it,                                                            *)
LEMMA ReplaceKeepsStore ==
    ASSUME TypeInv, TypeInv', StoreInv, NEW p \in Procs, SaveReplace(p)
    PROVE  StoreInv'
<1> DEFINE t == out[p].task
<1>w. "write" \in Saving /\ "replace" \in Saving /\ "idle" \notin Saving
  BY DEF Saving
<1>1. /\ pc[p] = "replace" /\ Finish(p) /\ temp[t] # NoFile
      /\ json' = [json EXCEPT ![t] = temp[t]]
      /\ temp' = [temp EXCEPT ![t] = NoFile]
      /\ SetDisk(disk) /\ fd' = fd /\ overlapped' = overlapped
  BY DEF SaveReplace, ReplaceJson
<1>2. t \in SafeIds /\ t \in TaskIds
  BY <1>w, <1>1 DEF StoreInv, Writers
<1>3. Moves(p) /\ pc'[p] = "idle" /\ todo'[p] = {}
  BY <1>1, FinishMoves
<1>4. /\ json'[t] = temp[t] /\ temp'[t] = NoFile
      /\ \A u \in TaskIds \ {t} : json'[u] = json[u] /\ temp'[u] = temp[u]
  BY <1>1, <1>2 DEF TypeInv, TypeOK
<1>5. \A u \in TaskIds :
         /\ json'[u] # NoFile => disk'[json'[u]] = disk[json'[u]]
         /\ temp'[u] # NoFile => disk'[temp'[u]] = disk[temp'[u]]
  BY <1>1, NamedKept
<1>6. NamesApart'
  BY <1>1, <1>2, <1>4 DEF StoreInv, NamesApart
<1>7. Writers'
  <2> SUFFICES ASSUME NEW q \in Procs
               PROVE  /\ pc'[q] \in Saving => out'[q].task \in SafeIds
                      /\ pc'[q] = "write" => fd'[q] # NoFile
                      /\ pc'[q] # "write" => fd'[q] = NoFile
                      /\ \A u \in TaskIds :
                           (pc'[q] = "write" /\ fd'[q] \in {json'[u], temp'[u]})
                              => out'[q].task = u
    BY DEF Writers
  <2>1. /\ pc[q] \in Saving => out[q].task \in SafeIds
        /\ pc[q] = "write" => fd[q] # NoFile
        /\ pc[q] # "write" => fd[q] = NoFile
        /\ \A u \in TaskIds :
              (pc[q] = "write" /\ fd[q] \in {json[u], temp[u]}) => out[q].task = u
    BY DEF StoreInv, Writers
  <2>2. q # p => pc'[q] = pc[q] /\ out'[q] = out[q]
    BY <1>3 DEF Moves
  <2> QED
    BY <1>w, <1>1, <1>2, <1>3, <1>4, <2>1, <2>2
<1>8. OwnDocuments'
  <2> SUFFICES ASSUME NEW u \in TaskIds, NEW j \in {json'[u], temp'[u]} \ {NoFile},
                      disk'[j].kind = "document"
               PROVE  disk'[j].result.task = u
    BY DEF OwnDocuments
  <2>1. disk'[j] = disk[j]
    BY <1>5
  <2>2. j \in {json[u], temp[u]} \ {NoFile}
    BY <1>4
  <2> QED
    BY <2>1, <2>2 DEF StoreInv, OwnDocuments
<1>9. OneSaver'
  <2> SUFFICES ASSUME NEW u \in TaskIds \ overlapped PROVE AloneOn(u)'
    BY <1>1 DEF OneSaver
  <2>1. AloneOn(u)
    BY DEF StoreInv, OneSaver
  <2>2. \A q \in Procs : q # p => pc'[q] = pc[q] /\ out'[q] = out[q]
    BY <1>3 DEF Moves
  <2>3. \A q \in Procs : (Busy(q, u))' => Busy(q, u) /\ q # p
    BY <1>w, <1>3, <2>2 DEF Busy
  <2>4. CASE u = t
    <3>1. disk[temp[t]] = Document(out[p])
      BY <1>1, <2>1, <2>4 DEF AloneOn
    <3>2. \A q \in Procs : ~(Busy(q, u))'
      BY <1>w, <1>1, <2>1, <2>3, <2>4 DEF AloneOn, Busy
    <3>3. disk'[json'[t]].kind = "document"
      BY <1>1, <1>2, <1>4, <1>5, <3>1, DocumentFields
    <3> QED
      BY <1>w, <2>4, <3>2, <3>3 DEF AloneOn, Busy
  <2>5. CASE u # t
    <3>1. /\ temp'[u] = temp[u] /\ json'[u] = json[u]
          /\ temp[u] # NoFile => disk'[temp[u]] = disk[temp[u]]
          /\ json[u] # NoFile => disk'[json[u]] = disk[json[u]]
      BY <1>4, <1>5, <2>5
    <3>2. \A q \in Procs : (pc[q] = "write" /\ out[q].task = u) => temp[u] # NoFile
      BY <2>1 DEF AloneOn, StoreInv, Writers
    <3> QED
      BY <1>w, <1>1, <2>1, <2>2, <2>3, <3>1, <3>2 DEF AloneOn, Busy
  <2> QED
    BY <2>4, <2>5
<1>10. ListedStay'
  <2>1. \A u \in TaskIds : json[u] # NoFile => json'[u] # NoFile
    BY <1>1, <1>4
  <2>2. \A q \in Procs : \A u \in todo[q] : u \in TaskIds
    BY DEF TypeInv, TypeOK
  <2> QED
    BY <1>3, <2>1, <2>2 DEF StoreInv, ListedStay, Moves
<1> QED
  BY <1>6, <1>7, <1>8, <1>9, <1>10 DEF StoreInv

(* and crashing.                                                           *)
LEMMA CrashKeepsStore ==
    ASSUME TypeInv, TypeInv', StoreInv, NEW p \in Procs, Crash(p)
    PROVE  StoreInv'
<1> DEFINE t == out[p].task
           i == fd[p]
<1>w. "write" \in Saving /\ "replace" \in Saving /\ "idle" \notin Saving
  BY DEF Saving
<1>1. /\ Finish(p) /\ fd' = [fd EXCEPT ![p] = NoFile]
      /\ json' = json /\ temp' = temp /\ overlapped' = overlapped
  BY DEF Crash, CrashStore
<1>2. Moves(p) /\ pc'[p] = "idle" /\ todo'[p] = {}
  BY <1>1, FinishMoves
<1>3. CASE pc[p] # "write"
  <2>1. UNCHANGED <<disk, fd>>
    BY <1>1, <1>3 DEF Crash, CrashStore, StoreInv, Writers, TypeInv, TypeOK
  <2> QED
    BY <1>w, <1>1, <1>2, <1>3, <2>1, QuietStep DEF storeVars
<1>4. CASE pc[p] = "write"
  <2>1. /\ i \in Inodes /\ t \in TaskIds
        /\ \A u \in TaskIds : i \in {json[u], temp[u]} => u = t
    BY <1>w, <1>4 DEF StoreInv, Writers, TypeInv, TypeOK
  <2>2. PICK c \in {disk[i], Torn} : SetDisk([disk EXCEPT ![i] = c])
    BY <2>1 DEF Crash, CrashStore
  <2>3. \A u \in TaskIds :
           /\ json[u] # NoFile => disk'[json[u]] = IF json[u] = i THEN c ELSE disk[json[u]]
           /\ temp[u] # NoFile => disk'[temp[u]] = IF temp[u] = i THEN c ELSE disk[temp[u]]
    <3> DEFINE d == [disk EXCEPT ![i] = c]
    <3>1. SetDisk(d)
      BY <2>2
    <3>2. \A j \in Inodes : d[j] = IF j = i THEN c ELSE disk[j]
      BY <2>1 DEF TypeInv, TypeOK
    <3> HIDE DEF d
    <3>3. \A u \in TaskIds :
             /\ json'[u] # NoFile => disk'[json'[u]] = d[json'[u]]
             /\ temp'[u] # NoFile => disk'[temp'[u]] = d[temp'[u]]
      BY <3>1, NamedKept
    <3>4. \A u \in TaskIds : /\ json[u] # NoFile => json[u] \in Inodes
                             /\ temp[u] # NoFile => temp[u] \in Inodes
      BY DEF TypeInv, TypeOK
    <3> SUFFICES ASSUME NEW u \in TaskIds
                 PROVE  /\ json[u] # NoFile =>
                             disk'[json[u]] = IF json[u] = i THEN c ELSE disk[json[u]]
                        /\ temp[u] # NoFile =>
                             disk'[temp[u]] = IF temp[u] = i THEN c ELSE disk[temp[u]]
      OBVIOUS
    <3>u. json' = json /\ temp' = temp
      BY <1>1
    <3>5. json[u] # NoFile => disk'[json[u]] = d[json[u]] /\ json[u] \in Inodes
      BY <3>3, <3>4, <3>u
    <3>6. temp[u] # NoFile => disk'[temp[u]] = d[temp[u]] /\ temp[u] \in Inodes
      BY <3>3, <3>4, <3>u
    <3> QED
      BY <3>2, <3>5, <3>6
  <2>4. NamesApart'
    BY <1>1 DEF StoreInv, NamesApart
  <2>5. Writers'
    <3>1. fd'[p] = NoFile /\ \A q \in Procs \ {p} : fd'[q] = fd[q]
      BY <1>1 DEF TypeInv, TypeOK
    <3> QED
      BY <1>w, <1>1, <1>2, <3>1 DEF StoreInv, Writers, Moves
  <2>6. OwnDocuments'
    <3> SUFFICES ASSUME NEW u \in TaskIds, NEW j \in {json[u], temp[u]} \ {NoFile},
                        disk'[j].kind = "document"
                 PROVE  disk'[j].result.task = u
      BY <1>1 DEF OwnDocuments
    <3>1. disk'[j] = IF j = i THEN c ELSE disk[j]
      BY <2>3
    <3>2. disk'[j] = disk[j]
      BY <2>2, <3>1, DocumentFields
    <3> QED
      BY <3>2 DEF StoreInv, OwnDocuments
  <2>7. OneSaver'
    <3> SUFFICES ASSUME NEW u \in TaskIds \ overlapped PROVE AloneOn(u)'
      BY <1>1 DEF OneSaver
    <3>1. AloneOn(u)
      BY DEF StoreInv, OneSaver
    <3>2. \A q \in Procs : (Busy(q, u))' =>
             Busy(q, u) /\ q # p /\ pc'[q] = pc[q] /\ out'[q] = out[q] /\ fd'[q] = fd[q]
      BY <1>w, <1>1, <1>2 DEF Busy, Moves, TypeInv, TypeOK
    <3>3. CASE u = t
      <4>1. i = temp[t] /\ i # NoFile
        BY <1>4, <2>1, <3>1, <3>3 DEF AloneOn
      <4>2. json[t] # NoFile => disk'[json[t]] = disk[json[t]]
        BY <2>1, <2>3, <4>1 DEF StoreInv, NamesApart
      <4>3. \A q \in Procs : ~(Busy(q, u))'
        BY <1>w, <1>4, <3>1, <3>2, <3>3 DEF AloneOn, Busy
      <4> QED
        BY <1>w, <1>1, <3>1, <3>3, <4>2, <4>3 DEF AloneOn, Busy
    <3>4. CASE u # t
      <4>1. /\ temp[u] # NoFile => disk'[temp[u]] = disk[temp[u]]
            /\ json[u] # NoFile => disk'[json[u]] = disk[json[u]]
        BY <2>1, <2>3, <3>4
      <4>2. \A q \in Procs : (pc[q] = "write" /\ out[q].task = u) => temp[u] # NoFile
        BY <3>1 DEF AloneOn, StoreInv, Writers
      <4> QED
        BY <1>w, <1>1, <3>1, <3>2, <4>1, <4>2 DEF AloneOn, Busy
    <3> QED
      BY <3>3, <3>4
  <2>8. ListedStay'
    BY <1>1, <1>2 DEF StoreInv, ListedStay, Moves
  <2> QED
    BY <2>4, <2>5, <2>6, <2>7, <2>8 DEF StoreInv
<1> QED
  BY <1>3, <1>4

-----------------------------------------------------------------------------
(* The empty store is in order.                                            *)
LEMMA InitStore == Init => StoreInv
<1>1. "idle" \notin Saving
  BY DEF Saving
<1> QED
  BY <1>1 DEF Init, StoreInit, StoreInv, NamesApart, Writers, OwnDocuments, OneSaver,
              AloneOn, Busy, ListedStay

(* Every step keeps the store in order.                                    *)
LEMMA NextStore == TypeInv /\ TypeInv' /\ StoreInv /\ [Next]_vars => StoreInv'
<1> SUFFICES ASSUME TypeInv, TypeInv', StoreInv, [Next]_vars PROVE StoreInv'
  OBVIOUS
<1>w. {"idle", "iterate", "save", "status"} \cap Saving = {}
  BY DEF Saving
<1>l. \A p \in Procs : \A t \in todo[p] : t \in SafeIds /\ json[t] # NoFile
  BY DEF StoreInv, ListedStay
<1>1. ASSUME NEW p \in Procs, NEW t \in TaskIds, NEW n \in 1 .. IterationBound,
             StartLoop(p, t, n) \/ StartResume(p, t, n)
      PROVE  StoreInv'
  <2>1. pc[p] = "idle" /\ UNCHANGED <<storeVars, overlapped>>
    BY <1>1 DEF StartLoop, StartResume, MayStart
  <2>2. \/ Finish(p)
        \/ \E place \in {"iterate", "save"} : \E r, m : Goto(p, place, r, m)
    BY <1>1 DEF StartLoop, StartResume
  <2>3. /\ Moves(p) /\ pc'[p] \in {"idle", "iterate", "save"}
        /\ todo'[p] \in {{}, todo[p]}
    BY <2>2, GotoMoves, FinishMoves
  <2> QED
    BY <1>w, <1>l, <2>1, <2>3, QuietStep
<1>2. ASSUME NEW p \in Procs, NEW accepted \in Verdicts, Iterate(p, accepted)
      PROVE  StoreInv'
  <2>1. pc[p] = "iterate" /\ UNCHANGED <<storeVars, overlapped>>
    BY <1>2 DEF Iterate
  <2>2. \E place \in {"iterate", "save"} : \E r, m : Goto(p, place, r, m)
    BY <1>2 DEF Iterate
  <2>3. Moves(p) /\ pc'[p] \in {"iterate", "save"} /\ todo'[p] = todo[p]
    BY <2>2, GotoMoves
  <2> QED
    BY <1>w, <1>l, <2>1, <2>3, QuietStep
<1>3. ASSUME NEW p \in Procs,
             AgentRaises(p) \/ SaveRefused(p) \/ SaveFails(p) \/ StatusReports(p)
      PROVE  StoreInv'
  <2>1. pc[p] # "write" /\ Finish(p) /\ UNCHANGED <<storeVars, overlapped>>
    BY <1>3 DEF AgentRaises, SaveRefused, SaveFails, StatusReports
  <2> QED
    BY <1>w, <2>1, FinishMoves, QuietStep
<1>4. ASSUME NEW p \in Procs, StartStatus(p) PROVE StoreInv'
  <2>1. /\ pc[p] = "idle" /\ UNCHANGED <<storeVars, overlapped>> /\ Moves(p)
        /\ pc'[p] = "status" /\ todo'[p] = Listed
    BY <1>4 DEF StartStatus, Moves, TypeInv, TypeOK
  <2>2. \A t \in Listed : t \in SafeIds /\ json[t] # NoFile
    BY DEF Listed
  <2> QED
    BY <1>w, <2>1, <2>2, QuietStep
<1>5. ASSUME NEW p \in Procs, NEW t \in TaskIds, StatusLoads(p, t) PROVE StoreInv'
  <2>1. pc[p] = "status" /\ UNCHANGED <<storeVars, overlapped>>
    BY <1>5 DEF StatusLoads
  <2>2. CASE Finish(p)
    BY <1>w, <2>1, <2>2, FinishMoves, QuietStep
  <2>3. CASE todo' = [todo EXCEPT ![p] = @ \ {t}] /\ UNCHANGED <<pc, out, left>>
    <3>1. Moves(p) /\ pc'[p] = "status" /\ todo'[p] \subseteq todo[p]
      BY <2>1, <2>3 DEF Moves, TypeInv, TypeOK
    <3> QED
      BY <1>w, <1>l, <2>1, <3>1, QuietStep
  <2> QED
    BY <1>5, <2>2, <2>3 DEF StatusLoads
<1>6. ASSUME NEW p \in Procs,
             SaveOpen(p) \/ SaveWrite(p) \/ SaveReplace(p) \/ Crash(p)
      PROVE  StoreInv'
  BY <1>6, OpenKeepsStore, WriteKeepsStore, ReplaceKeepsStore, CrashKeepsStore
<1>7. CASE UNCHANGED vars
  <2>1. UNCHANGED <<json, temp, disk, fd, pc, out, todo, overlapped>>
    BY <1>7 DEF vars, storeVars, procVars
  <2> QED
    BY <2>1 DEF StoreInv, NamesApart, Writers, OwnDocuments, OneSaver, AloneOn, Busy,
                ListedStay
<1> QED
  BY <1>1, <1>2, <1>3, <1>4, <1>5, <1>6, <1>7 DEF Next, Command, Progress

-----------------------------------------------------------------------------
(* While no two saves of a task have overlapped, load does not refuse its  *)
(* snapshot.                                                               *)
LEMMA AloneLoads ==
    ASSUME TypeInv, StoreInv, NEW t \in TaskIds \ overlapped, json[t] # NoFile
    PROVE  Load(t).kind = "document"
<1>1. t \in SafeIds
  BY DEF StoreInv, NamesApart
<1>2. disk[json[t]].kind = "document"
  BY DEF StoreInv, OneSaver, AloneOn
<1>3. disk[json[t]].result.task = t
  BY <1>2 DEF StoreInv, OwnDocuments
<1> QED
  BY <1>1, <1>2, <1>3 DEF Load

(* The store is in order in every state that can be reached.               *)
LEMMA StoreAlways == Spec => [](TypeInv /\ StoreInv)
<1>1. Init => TypeInv /\ StoreInv
  BY InitType, InitStore
<1>2. (TypeInv /\ StoreInv) /\ [Next]_vars => (TypeInv /\ StoreInv)'
  BY NextType, NextStore
<1> QED
  BY <1>1, <1>2, PTL DEF Spec

(* A snapshot can be restored from the moment there is one, whatever is    *)
(* killed when (see SnapshotsWhole).                                       *)
THEOREM SnapshotsStayWhole == Spec => []SnapshotsWhole
<1>1. TypeInv /\ StoreInv => SnapshotsWhole
  BY AloneLoads DEF SnapshotsWhole
<1> QED
  BY <1>1, StoreAlways, PTL

(* No file holds another task's result (see TasksIsolated). *)
THEOREM TasksStayIsolated == Spec => []TasksIsolated
<1>1. StoreInv => TasksIsolated
  BY DEF StoreInv, OwnDocuments, NamesApart, TasksIsolated
<1> QED
  BY <1>1, StoreAlways, PTL

(* A rename finds the document its save wrote (see SavesSucceed). *)
THEOREM SavesAloneSucceed == Spec => []SavesSucceed
<1>1. TypeInv /\ StoreInv => SavesSucceed
  <2> SUFFICES ASSUME TypeInv, StoreInv, NEW p \in Procs, pc[p] = "replace",
                      out[p].task \notin overlapped
               PROVE  temp[out[p].task] # NoFile /\ disk[temp[out[p].task]] = Document(out[p])
    BY DEF SavesSucceed
  <2>1. out[p].task \in TaskIds
    BY DEF StoreInv, Writers, Saving
  <2>2. AloneOn(out[p].task)
    BY <2>1 DEF StoreInv, OneSaver
  <2> QED
    BY <2>2 DEF AloneOn
<1> QED
  BY <1>1, StoreAlways, PTL

(* status finds what it listed (see StatusSeesSnapshots). *)
THEOREM StatusFindsListed == Spec => []StatusSeesSnapshots
<1>1. TypeInv /\ StoreInv => StatusSeesSnapshots
  <2> SUFFICES ASSUME TypeInv, StoreInv, NEW p \in Procs, pc[p] = "status",
                      NEW t \in todo[p]
               PROVE  Load(t) # Missing /\ (t \notin overlapped => Load(t) # Invalid)
    BY DEF StatusSeesSnapshots
  <2>1. t \in TaskIds /\ json[t] # NoFile
    BY DEF StoreInv, ListedStay, TypeInv, TypeOK
  <2>2. Load(t) # Missing
    BY <2>1, LoadTyped, DocumentFields DEF TypeInv
  <2>3. t \notin overlapped => Load(t).kind = "document"
    BY <2>1, AloneLoads
  <2> QED
    BY <2>2, <2>3, DocumentFields
<1> QED
  BY <1>1, StoreAlways, PTL

-----------------------------------------------------------------------------
(* One command per task at a time: the store is the register of            *)
(* SnapshotRegister.                                                       *)

Stored(t) == Load(t).kind = "document"

OneWorker ==
    \A p, q \in Procs :
        (pc[p] \in Working /\ pc[q] \in Working /\ out[p].task = out[q].task) => p = q

(* loops numbers the loop commands: no history began later than the last.  *)
LoopsCounted ==
    /\ \A p \in Procs : pc[p] \in Working => out[p].loop <= loops
    /\ \A t \in SafeIds : Stored(t) => Load(t).result.loop <= loops

(* One more iteration of r may take the place of old; r may be saved over  *)
(* old, as its successor or as old itself.                                 *)
Continues(r, old) ==
    \/ r.loop > old.loop
    \/ r.loop = old.loop /\ old.status = "failed" /\ r.iterations >= old.iterations

Replaces(r, old) == r = old \/ Register!Supersedes(r, old)

Succeeding ==
    \A p \in Procs : (pc[p] \in Working /\ Stored(out[p].task)) =>
        IF pc[p] = "iterate" THEN Continues(out[p], Load(out[p].task).result)
                             ELSE Replaces(out[p], Load(out[p].task).result)

RegisterInv ==
    /\ overlapped = {}
    /\ OneWorker
    /\ LoopsCounted
    /\ Succeeding

(* Load sees the files named <t>.json only.                                *)
LEMMA LoadKept ==
    ASSUME NEW t \in TaskIds, json'[t] = json[t],
           json[t] # NoFile => disk'[json[t]] = disk[json[t]]
    PROVE  Load(t)' = Load(t)
BY DEF Load, Missing, Invalid

(* A step that does not rename leaves every snapshot as it is.             *)
LEMMA LoadsKept ==
    ASSUME TypeInv, TypeInv', StoreInv, overlapped = {}, NEW p \in Procs,
           UNCHANGED storeVars \/ SaveOpen(p) \/ SaveWrite(p) \/ Crash(p)
    PROVE  \A t \in TaskIds : Load(t)' = Load(t)
<1>w. "write" \in Saving
  BY DEF Saving
<1> SUFFICES ASSUME NEW t \in TaskIds
             PROVE  /\ json'[t] = json[t]
                    /\ json[t] # NoFile => disk'[json[t]] = disk[json[t]]
  BY LoadKept
<1>1. CASE UNCHANGED storeVars
  BY <1>1 DEF storeVars
<1>2. CASE SaveOpen(p)
  <2> DEFINE u == out[p].task
             i == IF temp[u] = NoFile THEN CHOOSE f \in FreeInodes : TRUE ELSE temp[u]
  <2>1. /\ u \in SafeIds /\ json' = json /\ disk' = [disk EXCEPT ![i] = Empty]
        /\ temp[u] = NoFile => FreeInodes # {}
    BY <1>2 DEF SaveOpen, OpenTemp
  <2>2. json[t] # NoFile => i # json[t]
    <3>1. CASE temp[u] = NoFile
      <4>1. i \in FreeInodes
        BY <2>1, <3>1
      <4> QED
        BY <4>1 DEF FreeInodes, InUse
    <3>2. CASE temp[u] # NoFile
      BY <2>1, <3>2 DEF StoreInv, NamesApart
    <3> QED
      BY <3>1, <3>2
  <2> HIDE DEF i
  <2> QED
    BY <2>1, <2>2 DEF TypeInv, TypeOK
<1>3. CASE SaveWrite(p) \/ Crash(p)
  <2>1. /\ json' = json
        /\ SaveWrite(p) => pc[p] = "write"
    BY <1>3 DEF SaveWrite, WriteTemp, Crash, CrashStore
  <2>2. CASE fd[p] = NoFile
    <3>1. pc[p] # "write"
      BY <2>2 DEF StoreInv, Writers
    <3> QED
      BY <1>3, <2>1, <2>2, <3>1 DEF Crash, CrashStore
  <2>3. CASE fd[p] # NoFile
    <3>1. \E c : SetDisk([disk EXCEPT ![fd[p]] = c])
      BY <1>3, <2>3 DEF SaveWrite, WriteTemp, Crash, CrashStore
    <3>2. PICK c : SetDisk([disk EXCEPT ![fd[p]] = c])
      BY <3>1
    <3>3. pc[p] = "write" /\ out[p].task \in TaskIds
      BY <1>w, <2>3 DEF StoreInv, Writers
    <3>4. AloneOn(out[p].task)
      BY <3>3 DEF StoreInv, OneSaver
    <3>5. fd[p] = temp[out[p].task]
      BY <3>3, <3>4 DEF AloneOn
    <3>6. json[t] # NoFile => json[t] # fd[p]
      BY <3>3, <3>5 DEF StoreInv, NamesApart
    <3> DEFINE d == [disk EXCEPT ![fd[p]] = c]
    <3>7. json[t] # NoFile => json[t] \in Inodes /\ d[json[t]] = disk[json[t]]
      BY <3>6 DEF TypeInv, TypeOK
    <3>8. SetDisk(d)
      BY <3>2
    <3> HIDE DEF d
    <3>9. json'[t] # NoFile => disk'[json'[t]] = d[json'[t]]
      BY <3>8, NamedKept
    <3> QED
      BY <2>1, <3>7, <3>9
  <2> QED
    BY <2>2, <2>3
<1> QED
  BY <1>1, <1>2, <1>3

(* A rename puts the result of its save in the place of the snapshot, and  *)
(* leaves the other snapshots as they are.                                 *)
LEMMA ReplaceLoads ==
    ASSUME TypeInv, TypeInv', StoreInv, overlapped = {}, NEW p \in Procs, SaveReplace(p),
           NEW t, t = out[p].task
    PROVE  /\ t \in SafeIds /\ out[p] \in LoopResult
           /\ Load(t)' = Document(out[p])
           /\ \A u \in TaskIds \ {t} : Load(u)' = Load(u)
<1>w. "replace" \in Saving /\ "replace" \in Working
  BY DEF Saving, Working
<1>1. /\ pc[p] = "replace" /\ temp[t] # NoFile
      /\ json' = [json EXCEPT ![t] = temp[t]] /\ SetDisk(disk)
  BY DEF SaveReplace, ReplaceJson
<1>2. t \in SafeIds /\ t \in TaskIds /\ out[p] \in LoopResult
  BY <1>w, <1>1 DEF StoreInv, Writers, TypeInv, WorkBounded
<1>3. disk[temp[t]] = Document(out[p])
  BY <1>1, <1>2 DEF StoreInv, OneSaver, AloneOn
<1>4. \A u \in TaskIds : json'[u] # NoFile => disk'[json'[u]] = disk[json'[u]]
  BY <1>1, NamedKept
<1>5. json'[t] = temp[t] /\ \A u \in TaskIds \ {t} : json'[u] = json[u]
  BY <1>1, <1>2 DEF TypeInv, TypeOK
<1>6. disk'[json'[t]] = Document(out[p]) /\ json'[t] # NoFile
  BY <1>1, <1>2, <1>3, <1>4, <1>5
<1>7. Load(t)' = Document(out[p])
  BY <1>2, <1>6, DocumentFields DEF Load
<1>8. \A u \in TaskIds \ {t} : Load(u)' = Load(u)
  BY <1>4, <1>5, LoadKept
<1> QED
  BY <1>2, <1>7, <1>8

-----------------------------------------------------------------------------
(* A step of p that renames nothing: what p works on now, alone, may be    *)
(* saved over what is stored.                                              *)
LEMMA WorkStep ==
    ASSUME TypeInv, TypeInv', RegisterInv, NEW p \in Procs, Moves(p), overlapped' = {},
           loops' \in {loops, loops + 1},
           \A t \in TaskIds : Load(t)' = Load(t),
           pc'[p] \in Working =>
              /\ \A q \in Procs \ {p} : ~(pc[q] \in Working /\ out[q].task = out'[p].task)
              /\ out'[p].loop <= loops'
              /\ Stored(out'[p].task) =>
                    IF pc'[p] = "iterate"
                    THEN Continues(out'[p], Load(out'[p].task).result)
                    ELSE Replaces(out'[p], Load(out'[p].task).result)
    PROVE  RegisterInv'
<1>1. \A q \in Procs \ {p} : pc'[q] = pc[q] /\ out'[q] = out[q]
  BY DEF Moves
<1>2. loops \in Nat /\ loops <= loops'
  BY DEF TypeInv, TypeOK
<1>3. \A q \in Procs : pc'[q] \in Working => out'[q] \in LoopResult
  BY DEF TypeInv, WorkBounded
<1>t. \A r \in LoopResult : r.task \in TaskIds /\ r.loop \in Nat
  BY DEF LoopResult
<1>4. OneWorker'
  <2> SUFFICES ASSUME NEW q \in Procs, NEW s \in Procs, pc'[q] \in Working,
                      pc'[s] \in Working, out'[q].task = out'[s].task
               PROVE  q = s
    BY DEF OneWorker
  <2>1. CASE q = p
    BY <1>1, <2>1
  <2>2. CASE s = p
    BY <1>1, <2>2
  <2>3. CASE q # p /\ s # p
    BY <1>1, <2>3 DEF RegisterInv, OneWorker
  <2> QED
    BY <2>1, <2>2, <2>3
<1>5. LoopsCounted'
  <2>1. ASSUME NEW q \in Procs, pc'[q] \in Working PROVE out'[q].loop <= loops'
    <3>1. CASE q = p
      BY <2>1, <3>1
    <3>2. CASE q # p
      <4>1. out[q].loop <= loops /\ out[q].loop \in Nat
        BY <1>1, <1>3, <1>t, <2>1, <3>2 DEF RegisterInv, LoopsCounted
      <4> QED
        BY <1>1, <1>2, <3>2, <4>1
    <3> QED
      BY <3>1, <3>2
  <2>2. ASSUME NEW t \in SafeIds, Stored(t)' PROVE Load(t)'.result.loop <= loops'
    <3>1. Load(t)' = Load(t) /\ t \in TaskIds /\ Stored(t)
      BY <2>2 DEF Stored
    <3>2. Load(t).result \in LoopResult
      BY <3>1, LoadTyped, DocumentFields DEF TypeInv, Stored
    <3>3. Load(t).result.loop <= loops /\ Load(t).result.loop \in Nat
      BY <1>t, <3>1, <3>2 DEF RegisterInv, LoopsCounted
    <3> QED
      BY <1>2, <3>1, <3>3
  <2> QED
    BY <2>1, <2>2 DEF LoopsCounted
<1>6. Succeeding'
  <2> SUFFICES ASSUME NEW q \in Procs, pc'[q] \in Working, Stored(out[q].task)'
               PROVE  IF pc'[q] = "iterate"
                      THEN Continues(out'[q], Load(out[q].task)'.result)
                      ELSE Replaces(out'[q], Load(out[q].task)'.result)
    BY DEF Succeeding, Continues, Replaces, Register!Supersedes
  <2>1. out'[q].task \in TaskIds
    BY <1>3, <1>t
  <2>2. CASE q = p
    BY <2>1, <2>2 DEF Stored
  <2>3. CASE q # p
    BY <1>1, <2>1, <2>3 DEF RegisterInv, Succeeding, Stored
  <2> QED
    BY <2>2, <2>3
<1> QED
  BY <1>4, <1>5, <1>6 DEF RegisterInv

(* What the refinement needs holds initially,                              *)
LEMMA InitRegister == Init => RegisterInv
<1>1. "idle" \notin Working
  BY DEF Working, Saving
<1>2. Init => \A t \in SafeIds : ~Stored(t)
  BY DocumentFields DEF Init, StoreInit, Load, Stored
<1> QED
  BY <1>1, <1>2 DEF Init, RegisterInv, OneWorker, LoopsCounted, Succeeding

(* and every step keeps it, if a task has one command at a time.           *)
LEMMA NextRegister ==
    ASSUME Exclusive, TypeInv, TypeInv', StoreInv, RegisterInv, [Next]_vars
    PROVE  RegisterInv'
<1>w. /\ "idle" \notin Working /\ "status" \notin Working /\ Saving \subseteq Working
      /\ "iterate" \in Working /\ "save" \in Working /\ "write" \in Working
      /\ "replace" \in Working
  BY DEF Working, Saving
<1>o. overlapped = {} /\ OneWorker /\ LoopsCounted /\ Succeeding
  BY DEF RegisterInv
<1>n. loops \in Nat
  BY DEF TypeInv, TypeOK
<1>t. \A r \in LoopResult : r.loop \in Nat /\ r.iterations \in Nat /\ r.task \in TaskIds
  BY DEF LoopResult
(* A process that does not work on a result afterwards needs nothing. *)
<1>q. ASSUME NEW p \in Procs, Moves(p), pc'[p] \notin Working,
             UNCHANGED <<loops, overlapped>>,
             UNCHANGED storeVars \/ SaveOpen(p) \/ SaveWrite(p) \/ Crash(p)
      PROVE  RegisterInv'
  BY <1>q, <1>o, LoadsKept, WorkStep
<1>1. ASSUME NEW p \in Procs, NEW t \in TaskIds, NEW n \in 1 .. IterationBound,
             StartLoop(p, t, n)
      PROVE  RegisterInv'
  <2> DEFINE r == [task |-> t, loop |-> loops + 1, status |-> "failed", iterations |-> 0]
  <2>1. /\ MayStart(p, t) /\ loops' = loops + 1 /\ Goto(p, "iterate", r, n)
        /\ UNCHANGED <<storeVars, overlapped>>
    BY <1>1 DEF StartLoop
  <2>2. r.task = t /\ r.loop = loops + 1
    OBVIOUS
  <2> HIDE DEF r
  <2>3. Moves(p) /\ pc'[p] = "iterate" /\ out'[p] = r
    BY <2>1, GotoMoves
  <2>4. \A q \in Procs \ {p} : ~(pc[q] \in Working /\ out[q].task = t)
    BY <2>1 DEF MayStart
  <2>5. Stored(t) => Continues(r, Load(t).result)
    <3> SUFFICES ASSUME Stored(t) PROVE r.loop > Load(t).result.loop
      BY DEF Continues
    <3>1. t \in SafeIds /\ Load(t).result \in LoopResult
      BY LoadTyped, DocumentFields DEF TypeInv, Stored
    <3>2. Load(t).result.loop <= loops /\ Load(t).result.loop \in Nat
      BY <1>o, <1>t, <3>1 DEF LoopsCounted
    <3> QED
      BY <1>n, <2>2, <3>2
  <2>6. \A u \in TaskIds : Load(u)' = Load(u)
    BY <1>o, <2>1, LoadsKept
  <2> QED
    BY <1>o, <1>n, <2>1, <2>2, <2>3, <2>4, <2>5, <2>6, WorkStep
<1>2. ASSUME NEW p \in Procs, NEW t \in TaskIds, NEW n \in 1 .. IterationBound,
             StartResume(p, t, n)
      PROVE  RegisterInv'
  <2>1. MayStart(p, t) /\ UNCHANGED <<storeVars, loops, overlapped>>
    BY <1>2 DEF StartResume
  <2>2. CASE Finish(p)
    BY <1>w, <1>q, <2>1, <2>2, FinishMoves
  <2>3. ASSUME NEW place \in {"save", "iterate"}, NEW m, Stored(t),
               Goto(p, place, Load(t).result, m),
               place = "iterate" => Load(t).result.status = "failed"
        PROVE  RegisterInv'
    <3> DEFINE r == Load(t).result
    <3>1. t \in SafeIds /\ r \in LoopResult /\ r.task = t
      BY <2>3, LoadTyped, DocumentFields DEF TypeInv, Stored
    <3>2. r.loop <= loops
      BY <1>o, <2>3, <3>1 DEF LoopsCounted
    <3>3. IF place = "iterate" THEN Continues(r, r) ELSE Replaces(r, r)
      BY <1>t, <2>3, <3>1 DEF Continues, Replaces
    <3>4. Moves(p) /\ pc'[p] = place /\ out'[p] = r
      BY <2>3, GotoMoves
    <3>5. \A q \in Procs \ {p} : ~(pc[q] \in Working /\ out[q].task = t)
      BY <2>1 DEF MayStart
    <3>6. \A u \in TaskIds : Load(u)' = Load(u)
      BY <1>o, <2>1, LoadsKept
    <3>7. /\ out'[p].task = t /\ out'[p].loop <= loops'
          /\ IF pc'[p] = "iterate" THEN Continues(out'[p], r) ELSE Replaces(out'[p], r)
      BY <2>1, <3>1, <3>2, <3>3, <3>4
    <3> QED
      BY <1>o, <1>n, <2>1, <3>4, <3>5, <3>6, <3>7, WorkStep
  <2> QED
    BY <1>2, <2>2, <2>3 DEF StartResume, Stored
<1>3. ASSUME NEW p \in Procs, NEW accepted \in Verdicts, Iterate(p, accepted)
      PROVE  RegisterInv'
  <2> DEFINE s == IF accepted THEN "completed" ELSE "failed"
             r == [task |-> out[p].task, loop |-> out[p].loop, status |-> s,
                   iterations |-> out[p].iterations + 1]
             place == IF accepted \/ left[p] = 1 THEN "save" ELSE "iterate"
             old == Load(out[p].task).result
  <2>1. /\ pc[p] = "iterate" /\ Goto(p, place, r, left[p] - 1)
        /\ UNCHANGED <<storeVars, loops, overlapped>>
    BY <1>3 DEF Iterate
  <2>2. out[p] \in LoopResult
    BY <1>w, <2>1 DEF TypeInv, WorkBounded
  <2>3. /\ r.task = out[p].task /\ r.loop = out[p].loop
        /\ r.iterations = out[p].iterations + 1
        /\ place \in {"iterate", "save"}
    OBVIOUS
  <2> HIDE DEF r, place
  <2>4. Stored(out[p].task) => Continues(r, old) /\ Replaces(r, old)
    <3> SUFFICES ASSUME Stored(out[p].task) PROVE Continues(r, old) /\ Replaces(r, old)
      OBVIOUS
    <3>1. Continues(out[p], old)
      BY <1>w, <1>o, <2>1 DEF Succeeding
    <3>2. old \in LoopResult
      BY <1>t, <2>2, LoadTyped, DocumentFields DEF TypeInv, Stored
    <3>3. old.iterations \in Nat /\ out[p].iterations \in Nat
      BY <1>t, <2>2, <3>2
    <3> QED
      BY <2>3, <3>1, <3>3 DEF Continues, Replaces, Register!Supersedes
  <2>5. Moves(p) /\ pc'[p] = place /\ out'[p] = r
    BY <2>1, GotoMoves
  <2>6. \A q \in Procs \ {p} : ~(pc[q] \in Working /\ out[q].task = out[p].task)
    BY <1>w, <1>o, <2>1 DEF OneWorker
  <2>7. out[p].loop <= loops
    BY <1>w, <1>o, <2>1 DEF LoopsCounted
  <2>8. \A u \in TaskIds : Load(u)' = Load(u)
    BY <1>o, <2>1, LoadsKept
  <2> QED
    BY <1>o, <1>n, <2>1, <2>3, <2>4, <2>5, <2>6, <2>7, <2>8, WorkStep
<1>4. ASSUME NEW p \in Procs,
             AgentRaises(p) \/ SaveRefused(p) \/ SaveFails(p) \/ StatusReports(p)
      PROVE  RegisterInv'
  <2>1. Finish(p) /\ UNCHANGED <<storeVars, loops, overlapped>>
    BY <1>4 DEF AgentRaises, SaveRefused, SaveFails, StatusReports
  <2> QED
    BY <1>w, <1>q, <2>1, FinishMoves
<1>5. ASSUME NEW p \in Procs, SaveOpen(p) \/ SaveWrite(p) PROVE RegisterInv'
  <2>1. /\ pc[p] \in {"save", "write"} /\ loops' = loops
        /\ \E place \in {"write", "replace"} : Goto(p, place, out[p], 0)
    BY <1>5 DEF SaveOpen, SaveWrite
  <2>2. Moves(p) /\ pc'[p] \in {"write", "replace"} /\ out'[p] = out[p]
    BY <2>1, GotoMoves
  <2>3. \A q \in Procs \ {p} : ~(pc[q] \in Working /\ out[q].task = out[p].task)
    BY <1>w, <1>o, <2>1 DEF OneWorker
  <2>4. overlapped' = {}
    BY <1>w, <1>o, <1>5, <2>3 DEF SaveOpen, SaveWrite
  <2>5. \A u \in TaskIds : Load(u)' = Load(u)
    BY <1>o, <1>5, LoadsKept
  <2>6. /\ out[p].loop <= loops
        /\ Stored(out[p].task) => Replaces(out[p], Load(out[p].task).result)
    BY <1>w, <1>o, <2>1 DEF LoopsCounted, Succeeding
  <2> QED
    BY <1>o, <1>n, <2>1, <2>2, <2>3, <2>4, <2>5, <2>6, WorkStep
<1>6. ASSUME NEW p \in Procs, SaveReplace(p) PROVE RegisterInv'
  <2>1. PICK t : t = out[p].task
    OBVIOUS
  <2>2. /\ pc[p] = "replace" /\ Finish(p) /\ UNCHANGED <<loops, overlapped>>
    BY <1>6 DEF SaveReplace
  <2>3. /\ t \in SafeIds /\ out[p] \in LoopResult /\ Load(t)' = Document(out[p])
        /\ \A u \in TaskIds \ {t} : Load(u)' = Load(u)
    BY <1>o, <1>6, <2>1, ReplaceLoads
  <2>4. pc'[p] = "idle" /\ \A q \in Procs \ {p} : pc'[q] = pc[q] /\ out'[q] = out[q]
    BY <2>2, FinishMoves DEF Moves
  <2>5. \A q \in Procs : pc'[q] \in Working =>
           q # p /\ pc[q] \in Working /\ out'[q] = out[q] /\ out[q].task # t
                 /\ out[q] \in LoopResult
    BY <1>w, <1>o, <2>1, <2>2, <2>4 DEF OneWorker, TypeInv, WorkBounded
  <2>6. OneWorker'
    BY <1>o, <2>4, <2>5 DEF OneWorker
  <2>7. LoopsCounted'
    <3>1. \A q \in Procs : pc'[q] \in Working => out'[q].loop <= loops'
      BY <1>o, <2>2, <2>5 DEF LoopsCounted
    <3>2. ASSUME NEW u \in SafeIds, Stored(u)' PROVE Load(u)'.result.loop <= loops'
      <4>1. CASE u = t
        BY <1>w, <1>o, <2>2, <2>3, <4>1, DocumentFields DEF LoopsCounted
      <4>2. CASE u # t
        BY <1>o, <2>2, <2>3, <3>2, <4>2 DEF LoopsCounted, Stored
      <4> QED
        BY <4>1, <4>2
    <3> QED
      BY <3>1, <3>2 DEF LoopsCounted
  <2>8. Succeeding'
    <3> SUFFICES ASSUME NEW q \in Procs, pc'[q] \in Working, Stored(out[q].task)'
                 PROVE  IF pc'[q] = "iterate"
                        THEN Continues(out'[q], Load(out[q].task)'.result)
                        ELSE Replaces(out'[q], Load(out[q].task)'.result)
      BY DEF Succeeding, Continues, Replaces, Register!Supersedes
    <3>1. /\ q # p /\ pc[q] \in Working /\ out'[q] = out[q] /\ out[q].task # t
          /\ out[q].task \in TaskIds /\ pc'[q] = pc[q]
      BY <1>t, <2>4, <2>5
    <3> QED
      BY <1>o, <2>3, <3>1 DEF Succeeding, Stored
  <2> QED
    BY <1>o, <2>2, <2>6, <2>7, <2>8 DEF RegisterInv
<1>7. ASSUME NEW p \in Procs, StartStatus(p) PROVE RegisterInv'
  <2>1. /\ UNCHANGED <<storeVars, loops, overlapped>> /\ Moves(p) /\ pc'[p] = "status"
    BY <1>7 DEF StartStatus, Moves, TypeInv, TypeOK
  <2> QED
    BY <1>w, <1>q, <2>1
<1>8. ASSUME NEW p \in Procs, NEW t \in TaskIds, StatusLoads(p, t) PROVE RegisterInv'
  <2>1. pc[p] = "status" /\ UNCHANGED <<storeVars, loops, overlapped>>
    BY <1>8 DEF StatusLoads
  <2>2. CASE Finish(p)
    BY <1>w, <1>q, <2>1, <2>2, FinishMoves
  <2>3. CASE todo' = [todo EXCEPT ![p] = @ \ {t}] /\ UNCHANGED <<pc, out, left>>
    BY <1>w, <1>q, <2>1, <2>3 DEF Moves, TypeInv, TypeOK
  <2> QED
    BY <1>8, <2>2, <2>3 DEF StatusLoads
<1>9. ASSUME NEW p \in Procs, Crash(p) PROVE RegisterInv'
  <2>1. Finish(p) /\ UNCHANGED <<loops, overlapped>>
    BY <1>9 DEF Crash
  <2> QED
    BY <1>w, <1>q, <1>9, <2>1, FinishMoves
<1>10. CASE UNCHANGED vars
  <2>1. UNCHANGED <<json, disk, pc, out, loops, overlapped>>
    BY <1>10 DEF vars, storeVars, procVars
  <2> QED
    BY <2>1 DEF RegisterInv, OneWorker, LoopsCounted, Succeeding, Stored, Load
<1> QED
  BY <1>1, <1>2, <1>3, <1>4, <1>5, <1>6, <1>7, <1>8, <1>9, <1>10 DEF Next, Command, Progress

-----------------------------------------------------------------------------
(* While no saves have overlapped a snapshot is missing or a document.     *)
LEMMA SnapshotKinds ==
    ASSUME TypeInv, StoreInv, overlapped = {}, NEW t \in SafeIds
    PROVE  /\ Load(t) = Missing \/ Stored(t)
           /\ Load(t) # Missing =>
                 Load(t).result \in LoopResult /\ Load(t) = Document(Load(t).result)
<1>1. t \in TaskIds /\ TypeOK
  BY DEF TypeInv
<1>2. json[t] = NoFile => Load(t) = Missing
  BY DEF Load
<1>3. json[t] # NoFile => Stored(t)
  BY <1>1, AloneLoads DEF Stored
<1>4. Stored(t) => Load(t).result \in LoopResult /\ Load(t) = Document(Load(t).result)
  <2> SUFFICES ASSUME Stored(t)
               PROVE  Load(t).result \in LoopResult /\ Load(t) = Document(Load(t).result)
    OBVIOUS
  <2>1. json[t] \in Inodes /\ Load(t) = disk[json[t]]
    BY <1>1, LoadTyped, DocumentFields DEF Stored
  <2>2. Load(t) \in Contents
    BY <1>1, <2>1, StoreTyped
  <2> QED
    BY <1>1, <2>2, StoreTyped DEF Stored
<1> QED
  BY <1>2, <1>3, <1>4

(* The initial states are initial states of the register.                  *)
LEMMA RegisterInit == Init => Register!Init
BY DEF Init, StoreInit, Register!Init, Load, Missing

(* A rename publishes the result it saves, or saves again what is there;   *)
(* no other step touches the register.                                     *)
LEMMA RegisterStep ==
    ASSUME Exclusive, TypeInv, TypeInv', StoreInv, RegisterInv, [Next]_vars
    PROVE  Register!Next \/ [t \in SafeIds |-> Load(t)]' = [t \in SafeIds |-> Load(t)]
<1> DEFINE latest == [t \in SafeIds |-> Load(t)]
<1>o. overlapped = {}
  BY DEF RegisterInv
<1>k. ASSUME \A t \in TaskIds : Load(t)' = Load(t) PROVE latest' = latest
  BY <1>k
<1>1. ASSUME NEW p \in Procs,
             UNCHANGED storeVars \/ SaveOpen(p) \/ SaveWrite(p) \/ Crash(p)
      PROVE  latest' = latest
  BY <1>o, <1>k, <1>1, LoadsKept
<1>2. ASSUME NEW p \in Procs, SaveReplace(p) PROVE Register!Next \/ latest' = latest
  <2>1. PICK t : t = out[p].task
    OBVIOUS
  <2>2. PICK r : r = out[p]
    OBVIOUS
  <2>3. /\ t \in SafeIds /\ r \in LoopResult /\ Load(t)' = Document(r)
        /\ \A u \in TaskIds \ {t} : Load(u)' = Load(u)
    BY <1>o, <1>2, <2>1, <2>2, ReplaceLoads
  <2>4. latest' = [latest EXCEPT ![t] = Document(r)]
    BY <2>3
  <2>5. Stored(t) => Replaces(r, Load(t).result)
    <3>1. pc[p] = "replace" /\ "replace" \in Working /\ "replace" # "iterate"
      BY <1>2 DEF SaveReplace, Working, Saving
    <3> QED
      BY <2>1, <2>2, <3>1 DEF RegisterInv, Succeeding
  <2>6. CASE Load(t) # Missing /\ r = Load(t).result
    <3>1. Load(t)' = Load(t)
      BY <1>o, <2>3, <2>6, SnapshotKinds
    <3> QED
      BY <1>k, <2>3, <3>1
  <2>7. CASE Load(t) # Missing => Register!Supersedes(r, Load(t).result)
    <3>1. latest[t] = Load(t)
      BY <2>3
    <3>2. Register!Document(r) = Document(r)
      BY DEF Register!Document, Document
    <3>3. Register!Publish(t, r)
      BY <2>1, <2>2, <2>4, <2>7, <3>1, <3>2 DEF Register!Publish
    <3> QED
      BY <2>3, <3>3 DEF Register!Next
  <2> QED
    BY <1>o, <2>3, <2>5, <2>6, <2>7, SnapshotKinds DEF Replaces
<1> QED
  <2>1. CASE UNCHANGED vars
    <3>1. UNCHANGED <<json, disk>>
      BY <2>1 DEF vars, storeVars
    <3> QED
      BY <1>k, <3>1 DEF Load, Missing, Invalid
  <2>2. CASE Next
    BY <1>1, <1>2, <2>2
       DEF Next, Command, Progress, StartLoop, StartResume, StartStatus, Iterate,
           SaveRefused, SaveFails, StatusLoads, StatusReports, AgentRaises
  <2> QED
    BY <2>1, <2>2

(* When no two commands work on one task at a time, resume, loop and their *)
(* crashes keep the register SnapshotRegister describes: a snapshot is     *)
(* only ever replaced, at once, by a later loop's result or by a resume of *)
(* the same loop that got further (see IsRegister).                        *)
THEOREM CommandsKeepRegister == ASSUME Exclusive PROVE Spec => IsRegister
<1>1. Init => RegisterInv
  BY InitRegister
<1>2. RegisterInv /\ (TypeInv /\ StoreInv) /\ (TypeInv /\ StoreInv)' /\ [Next]_vars
         => RegisterInv'
  BY NextRegister
<1>3. Spec => []RegisterInv
  BY <1>1, <1>2, StoreAlways, PTL DEF Spec
<1>4. (RegisterInv /\ (TypeInv /\ StoreInv)) /\ (TypeInv /\ StoreInv)' /\ [Next]_vars
         => [Register!Next]_([t \in SafeIds |-> Load(t)])
  BY RegisterStep
<1>5. Spec => Register!Spec
  BY <1>3, <1>4, RegisterInit, StoreAlways, PTL DEF Spec, Register!Spec
<1> QED
  BY <1>5 DEF IsRegister
=============================================================================
