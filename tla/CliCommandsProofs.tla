------------------------- MODULE CliCommandsProofs -------------------------
(***************************************************************************)
(* Running a task again repairs it, for any number of runs and of task     *)
(* files, whatever texts and headings they have; and the report of status  *)
(* brackets the failed loops, for any number of tasks.                     *)
(***************************************************************************)
EXTENDS CliCommands, FiniteSetTheorems, TLAPS

Targets == {"output", "log"} \X Texts

RunRecords ==
    [at : {"output", "log", "raised", "broken"}, file : Files, open : BOOLEAN,
     status : {"none", "completed", "failed"}]

EngineTyped ==
    /\ run \in [Runs -> {NotStarted} \cup RunRecords]
    /\ written = [target \in Targets |-> written[target]]
    /\ \A r \in Started : Text(r) \in DOMAIN latest

(* A run whose word counts: the last that started on its text, without any *)
(* other.                                                                  *)
Counts(r) == r \in Started \ overlapped /\ latest[Text(r)] = r

Alone(r) == \A q \in UnderWay : Text(q) = Text(r) => q = r

(* What its files hold at each point of a run that is alone. *)
OnTrack(r) ==
    LET output == written[<<"output", Text(r)>>]
        log == written[<<"log", Text(r)>>]
    IN  /\ run[r].at = "output" /\ run[r].open => output = Empty
        /\ run[r].at \in {"log", "raised"} /\ run[r].status = "completed" =>
              output = [holds |-> "result", title |-> Title(r)]
        /\ run[r].at = "log" /\ run[r].open => log = Empty
        /\ run[r].at = "raised" =>
              log = [holds |-> "log", by |-> r, status |-> run[r].status]

RunInv == EngineTyped /\ \A r \in Runs : Counts(r) => Alone(r) /\ OnTrack(r)

-----------------------------------------------------------------------------
(* What q does to its own file is all that matters: a run that counts and  *)
(* is not q has another text than q, which is under way.                   *)
LEMMA OneRunSteps ==
    ASSUME RunInv, NEW q \in UnderWay, NEW rec \in RunRecords,
           rec.file = run[q].file,
           run' = [run EXCEPT ![q] = rec],
           written' = [target \in Targets |-> written'[target]],
           \A target \in Targets \ {Target(q)} : written'[target] = written[target],
           UNCHANGED <<overlapped, latest>>,
           Counts(q) => OnTrack(q)'
    PROVE  RunInv'
<1>1. q \in Runs /\ q \in Started /\ run[q] \in RunRecords /\ rec # NotStarted
  BY DEF RunInv, EngineTyped, UnderWay, Started, NotStarted, RunRecords
<1>2. Started' = Started /\ \A r \in Runs : r # q => run'[r] = run[r]
  BY <1>1 DEF RunInv, EngineTyped, Started
<1>3. run'[q] = rec
  BY <1>1 DEF RunInv, EngineTyped
<1>4. \A r \in Runs : Text(r)' = Text(r) /\ Title(r)' = Title(r)
  BY <1>2, <1>3 DEF Text, Title
<1>5. \A r \in Runs : Counts(r)' <=> Counts(r)
  BY <1>2, <1>4 DEF Counts
<1>6. EngineTyped'
  <2>1. run' \in [Runs -> {NotStarted} \cup RunRecords]
    BY <1>1 DEF RunInv, EngineTyped
  <2>2. \A r \in Started' : Text(r)' \in DOMAIN latest'
    BY <1>2, <1>4 DEF RunInv, EngineTyped, Started
  <2> QED
    BY <2>1, <2>2 DEF EngineTyped, Targets, Texts
<1>7. ASSUME NEW r \in Runs, Counts(r)
      PROVE  Alone(r)' /\ OnTrack(r)'
  <2>1. Alone(r) /\ OnTrack(r) /\ r \in Started
    BY <1>7 DEF RunInv, Counts
  <2>2. UnderWay' \subseteq UnderWay
    BY <1>1, <1>2 DEF UnderWay, Started
  <2>3. Alone(r)'
    BY <1>4, <2>1, <2>2 DEF Alone, UnderWay, Started
  <2>4. CASE r = q
    BY <1>7, <2>3, <2>4
  <2>5. CASE r # q
    <3>1. Text(r) # Text(q)
      BY <2>1, <2>5 DEF Alone
    <3>2. Text(r) \in Texts
      BY <2>1, FilesAssumption
      DEF RunInv, EngineTyped, Started, RunRecords, Text, Texts
    <3>3. written'[<<"output", Text(r)>>] = written[<<"output", Text(r)>>]
          /\ written'[<<"log", Text(r)>>] = written[<<"log", Text(r)>>]
      BY <3>1, <3>2 DEF Targets, Target
    <3>4. OnTrack(r)'
      BY <1>2, <1>4, <2>1, <2>5, <3>3 DEF OnTrack, Empty
    <3> QED
      BY <2>3, <3>4
  <2> QED
    BY <2>4, <2>5
<1> QED
  BY <1>5, <1>6, <1>7 DEF RunInv

(* Starting a run overlaps every other under way with the text. *)
LEMMA RunsStart ==
    ASSUME RunInv, NEW q \in Runs, NEW f \in Files, StartRun(q, f)
    PROVE  RunInv'
<1> DEFINE rec == [at |-> "output", file |-> f, open |-> FALSE, status |-> "none"]
<1>1. rec \in RunRecords /\ rec # NotStarted
  BY DEF RunRecords, NotStarted
<1>2. run' = [run EXCEPT ![q] = rec] /\ run[q] = NotStarted /\ written' = written
  BY DEF StartRun
<1>3. run'[q] = rec /\ \A r \in Runs : r # q => run'[r] = run[r]
  BY <1>2 DEF RunInv, EngineTyped
<1>4. Started' = Started \cup {q} /\ q \notin Started /\ UnderWay' = UnderWay \cup {q}
  BY <1>1, <1>2, <1>3 DEF Started, UnderWay
<1>5. Text(q)' = TextOf[f] /\ \A r \in Runs : r # q => Text(r)' = Text(r) /\ Title(r)' = Title(r)
  BY <1>3 DEF Text, Title
<1> HIDE DEF rec
<1>6. DOMAIN latest' = DOMAIN latest \cup {TextOf[f]}
      /\ latest'[TextOf[f]] = q
      /\ \A x \in DOMAIN latest : x # TextOf[f] => latest'[x] = latest[x]
  BY DEF StartRun
<1>7. EngineTyped'
  <2>1. run' \in [Runs -> {NotStarted} \cup RunRecords]
    BY <1>1, <1>2 DEF RunInv, EngineTyped
  <2>2. written' = [target \in Targets |-> written'[target]]
    BY <1>2 DEF RunInv, EngineTyped
  <2>3. \A r \in Started' : Text(r)' \in DOMAIN latest'
    BY <1>4, <1>5, <1>6 DEF RunInv, EngineTyped, Started
  <2> QED
    BY <2>1, <2>2, <2>3 DEF EngineTyped, Targets, Texts
<1>8. ASSUME NEW r \in Runs, Counts(r)', r # q
      PROVE  Alone(r)' /\ OnTrack(r)'
  <2>1. Text(r) # TextOf[f] /\ r \in Started /\ Text(r) \in DOMAIN latest
    BY <1>4, <1>5, <1>6, <1>8 DEF Counts, RunInv, EngineTyped
  <2>2. Counts(r)
    BY <1>4, <1>5, <1>6, <1>8, <2>1 DEF Counts, StartRun
  <2>3. Alone(r)'
    BY <1>4, <1>5, <1>8, <2>1, <2>2 DEF Alone, RunInv, UnderWay, Started
  <2>4. OnTrack(r)'
    BY <1>2, <1>3, <1>5, <1>8, <2>2 DEF OnTrack, RunInv, Empty
  <2> QED
    BY <2>3, <2>4
<1>9. ASSUME Counts(q)'
      PROVE  Alone(q)' /\ OnTrack(q)'
  <2>1. {p \in UnderWay : Text(p) = TextOf[f]} = {}
    BY <1>9 DEF Counts, StartRun
  <2>2. Alone(q)'
    BY <1>4, <1>5, <2>1 DEF Alone, UnderWay, Started
  <2>3. OnTrack(q)'
    BY <1>3 DEF OnTrack, rec
  <2> QED
    BY <2>2, <2>3
<1> QED
  BY <1>7, <1>8, <1>9 DEF RunInv

(* Opening leaves an empty file. *)
LEMMA FilesOpen ==
    ASSUME RunInv, NEW q \in Runs, OpenFile(q)
    PROVE  RunInv'
<1> DEFINE rec == [run[q] EXCEPT !.open = TRUE]
<1>1. q \in UnderWay /\ run[q] \in RunRecords
  BY DEF OpenFile, UnderWay, Started, RunInv, EngineTyped
<1>2. rec \in RunRecords /\ rec.file = run[q].file /\ rec.at = run[q].at
      /\ rec.status = run[q].status
  BY <1>1 DEF RunRecords
<1>3. run' = [run EXCEPT ![q] = rec]
  BY DEF OpenFile
<1>4. Target(q) \in Targets
  BY <1>1, FilesAssumption
  DEF Target, Targets, Text, Texts, UnderWay, RunRecords
<1>5. written' = [written EXCEPT ![Target(q)] = Empty]
  BY DEF OpenFile
<1>6. written' = [target \in Targets |-> written'[target]] /\ written'[Target(q)] = Empty
      /\ \A target \in Targets \ {Target(q)} : written'[target] = written[target]
  BY <1>4, <1>5 DEF RunInv, EngineTyped
<1>7. run'[q] = rec
  BY <1>3 DEF RunInv, EngineTyped
<1> HIDE DEF rec
<1>8. Text(q)' = Text(q) /\ Title(q)' = Title(q)
  BY <1>2, <1>7 DEF Text, Title
<1>9. ASSUME Counts(q) PROVE OnTrack(q)'
  <2>1. OnTrack(q)
    BY <1>9 DEF RunInv
  <2>2. Text(q) \in Texts
    BY <1>1, FilesAssumption DEF Text, Texts, RunRecords
  <2>3. CASE run[q].at = "output"
    BY <1>2, <1>6, <1>7, <1>8, <2>3 DEF OnTrack, Target, Empty
  <2>4. CASE run[q].at = "log"
    <3>1. written'[<<"output", Text(q)>>] = written[<<"output", Text(q)>>]
      BY <1>6, <2>2, <2>4 DEF Targets, Target
    <3> QED
      BY <1>2, <1>6, <1>7, <1>8, <2>1, <2>4, <3>1 DEF OnTrack, Target, Empty
  <2> QED
    BY <1>1, <2>3, <2>4 DEF UnderWay
<1> QED
  BY <1>1, <1>2, <1>3, <1>6, <1>9, OneRunSteps DEF OpenFile

(* Written into an empty file, the contents are what was to be written. *)
LEMMA FilesAreWritten ==
    ASSUME RunInv, NEW q \in Runs, WriteFile(q)
    PROVE  RunInv'
<1> DEFINE rec == IF run[q].at = "output"
                  THEN [run[q] EXCEPT !.at = "log", !.open = FALSE, !.status = "completed"]
                  ELSE [run[q] EXCEPT !.at = "raised"]
<1>1. q \in UnderWay /\ run[q] \in RunRecords /\ run[q].open
  BY DEF WriteFile, UnderWay, Started, RunInv, EngineTyped
<1>2. rec \in RunRecords /\ rec.file = run[q].file
  BY <1>1 DEF RunRecords
<1>3. run' = [run EXCEPT ![q] = rec]
  BY DEF WriteFile
<1>4. Target(q) \in Targets
  BY <1>1, FilesAssumption
  DEF Target, Targets, Text, Texts, UnderWay, RunRecords
<1>5. PICK c \in Over(written[Target(q)], Contents(q)) :
         written' = [written EXCEPT ![Target(q)] = c]
  BY DEF WriteFile
<1>6. written' = [target \in Targets |-> written'[target]] /\ written'[Target(q)] = c
      /\ \A target \in Targets \ {Target(q)} : written'[target] = written[target]
  BY <1>4, <1>5 DEF RunInv, EngineTyped
<1>7. run'[q] = rec
  BY <1>3 DEF RunInv, EngineTyped
<1>8. Text(q)' = Text(q) /\ Title(q)' = Title(q)
  BY <1>2, <1>7 DEF Text, Title
<1>9. ASSUME Counts(q) PROVE OnTrack(q)'
  <2>1. OnTrack(q)
    BY <1>9 DEF RunInv
  <2>2. written[Target(q)] = Empty
    BY <1>1, <2>1 DEF OnTrack, Target, UnderWay
  <2>3. c = Contents(q)
    BY <1>5, <2>2 DEF Over
  <2>4. Text(q) \in Texts
    BY <1>1, FilesAssumption DEF Text, Texts, RunRecords
  <2>5. CASE run[q].at = "output"
    <3>1. rec.at = "log" /\ ~rec.open
      BY <1>1, <2>5 DEF RunRecords
    <3>2. written'[<<"output", Text(q)>>] = [holds |-> "result", title |-> Title(q)]
      BY <1>6, <2>3, <2>5 DEF Target, Contents
    <3> HIDE DEF rec
    <3> QED
      BY <1>7, <1>8, <3>1, <3>2 DEF OnTrack
  <2>6. CASE run[q].at = "log"
    <3>1. rec.at = "raised" /\ rec.status = run[q].status
      BY <1>1, <2>6 DEF RunRecords
    <3>2. written'[<<"log", Text(q)>>] = [holds |-> "log", by |-> q, status |-> run[q].status]
      BY <1>6, <2>3, <2>6 DEF Target, Contents
    <3>3. written'[<<"output", Text(q)>>] = written[<<"output", Text(q)>>]
      BY <1>6, <2>4, <2>6 DEF Targets, Target
    <3> HIDE DEF rec
    <3> QED
      BY <1>7, <1>8, <2>1, <2>6, <3>1, <3>2, <3>3 DEF OnTrack
  <2> QED
    BY <1>1, <2>5, <2>6 DEF UnderWay
<1> HIDE DEF rec
<1> QED
  BY <1>1, <1>2, <1>3, <1>6, <1>9, OneRunSteps DEF WriteFile

(* A failure touches the file in hand at most. *)
LEMMA SpoiltInOnePlace ==
    ASSUME RunInv, NEW q \in UnderWay, written' \in Spoilt(q)
    PROVE  /\ written' = [target \in Targets |-> written'[target]]
           /\ \A target \in Targets \ {Target(q)} : written'[target] = written[target]
BY DEF RunInv, EngineTyped, Spoilt

(* A failed run claims no result. *)
LEMMA OutputsFail ==
    ASSUME RunInv, NEW q \in Runs, OutputFails(q)
    PROVE  RunInv'
<1> DEFINE rec == [run[q] EXCEPT !.at = "log", !.open = FALSE, !.status = "failed"]
<1>1. q \in UnderWay /\ run[q] \in RunRecords
  BY DEF OutputFails, UnderWay, Started, RunInv, EngineTyped
<1>2. rec \in RunRecords /\ rec.file = run[q].file /\ rec.at = "log" /\ ~rec.open
      /\ rec.status = "failed"
  BY <1>1 DEF RunRecords
<1>3. run' = [run EXCEPT ![q] = rec]
  BY DEF OutputFails
<1>4. run'[q] = rec
  BY <1>3 DEF RunInv, EngineTyped
<1> HIDE DEF rec
<1>5. OnTrack(q)'
  BY <1>2, <1>4 DEF OnTrack
<1> QED
  BY <1>1, <1>2, <1>3, <1>5, OneRunSteps, SpoiltInOnePlace DEF OutputFails

(* Nor does a broken one. *)
LEMMA RunsBreak ==
    ASSUME RunInv, NEW q \in Runs, Breaks(q)
    PROVE  RunInv'
<1> DEFINE rec == [run[q] EXCEPT !.at = "broken", !.open = FALSE, !.status = "none"]
<1>1. q \in UnderWay /\ run[q] \in RunRecords
  BY DEF Breaks, UnderWay, Started, RunInv, EngineTyped
<1>2. rec \in RunRecords /\ rec.file = run[q].file /\ rec.at = "broken"
  BY <1>1 DEF RunRecords
<1>3. run' = [run EXCEPT ![q] = rec]
  BY DEF Breaks
<1>4. run'[q] = rec
  BY <1>3 DEF RunInv, EngineTyped
<1> HIDE DEF rec
<1>5. OnTrack(q)'
  BY <1>2, <1>4 DEF OnTrack
<1> QED
  BY <1>1, <1>2, <1>3, <1>5, OneRunSteps, SpoiltInOnePlace DEF Breaks

(* status leaves the vault alone. *)
LEMMA RunsIdle ==
    ASSUME RunInv, UNCHANGED engineVars
    PROVE  RunInv'
BY DEF RunInv, EngineTyped, Counts, Alone, OnTrack, engineVars, Started, UnderWay, Text,
       Title, Targets, Texts

-----------------------------------------------------------------------------
(* RerunRepairs (engine.py, process): the log and the dashboard of a text  *)
(* are those of the latest run that was alone with it.  What a run finds   *)
(* does not matter, since it empties each file before it writes it.        *)
THEOREM RunsRepair == CliSpec => []RerunRepairs
<1>1. CliInit => RunInv
  <2> SUFFICES ASSUME CliInit PROVE RunInv
    OBVIOUS
  <2>1. Started = {}
    BY DEF CliInit, EngineInit, Started
  <2>2. written = [target \in Targets |-> written[target]]
    BY DEF CliInit, EngineInit, Targets
  <2> QED
    BY <2>1, <2>2 DEF CliInit, EngineInit, RunInv, EngineTyped, Counts
<1>2. ASSUME RunInv, [CliNext]_cliVars
      PROVE  RunInv'
  <2>1. CASE EngineNext
    BY <1>2, <2>1, RunsStart, FilesOpen, FilesAreWritten, OutputsFail, RunsBreak
    DEF EngineNext
  <2>2. CASE UNCHANGED engineVars
    BY <1>2, <2>2, RunsIdle
  <2> QED
    BY <1>2, <2>1, <2>2 DEF CliNext, cliVars
<1>3. RunInv => RerunRepairs
  BY DEF RunInv, Counts, OnTrack, RerunRepairs, Started
<1> QED
  BY <1>1, <1>2, <1>3, PTL DEF CliSpec

-----------------------------------------------------------------------------
(* What status has counted so far lies between two numbers of the listed   *)
(* tasks it has loaded: those that stayed failed, those that ever were.    *)
CountInv ==
    /\ stayed \subseteq Tasks /\ were \subseteq Tasks /\ todo \subseteq Tasks
    /\ stored \in [Tasks -> {"none", "completed", "failed"}]
    /\ failed \in Nat
    /\ \A t \in stayed : stored[t] = "failed"
    /\ \A t \in todo : stored[t] # "none" /\ (stored[t] = "failed" => t \in were)
    /\ Cardinality(stayed \ todo) <= failed
    /\ failed <= Cardinality(were \ todo)

(* Parts of finite sets. *)
LEMMA PartsCount ==
    ASSUME NEW S \in SUBSET Tasks, NEW T \in SUBSET S
    PROVE  Cardinality(T) \in Nat /\ Cardinality(S) \in Nat /\ Cardinality(T) <= Cardinality(S)
BY TasksAssumption, FS_Subset, FS_CardinalityType

(* What is saved while status runs can only widen the bracket. *)
LEMMA SavesKeepCount ==
    ASSUME CountInv, NEW t \in Tasks, NEW status \in {"completed", "failed"}, Save(t, status)
    PROVE  CountInv'
<1>1. stayed' \subseteq stayed /\ todo' = todo /\ failed' = failed /\ were' \subseteq Tasks
      /\ were' \ todo' = were \ todo
  BY DEF Save, CountInv
<1>2. stored' \in [Tasks -> {"none", "completed", "failed"}]
      /\ stored'[t] = status /\ \A u \in Tasks : u # t => stored'[u] = stored[u]
  BY DEF Save, CountInv
<1>3. \A u \in stayed' : stored'[u] = "failed"
  BY <1>2 DEF Save, CountInv
<1>4. \A u \in todo' : stored'[u] # "none" /\ (stored'[u] = "failed" => u \in were')
  BY <1>2 DEF Save, CountInv
<1>5. Cardinality(stayed' \ todo') \in Nat /\ Cardinality(stayed \ todo) \in Nat
      /\ Cardinality(stayed' \ todo') <= Cardinality(stayed \ todo)
  <2>1. stayed \ todo \in SUBSET Tasks /\ stayed' \ todo' \in SUBSET (stayed \ todo)
    BY <1>1 DEF CountInv
  <2> QED
    BY <2>1, PartsCount
<1> QED
  BY <1>1, <1>2, <1>3, <1>4, <1>5 DEF CountInv

(* Nothing is loaded yet when status starts. *)
LEMMA StartsCountNothing ==
    ASSUME CountInv, StartStatus
    PROVE  CountInv'
<1>1. stayed' \ todo' = {} /\ were' \ todo' = {} /\ failed' = 0
  BY DEF StartStatus, CountInv
<1>2. Cardinality({}) = 0
  BY FS_EmptySet
<1>3. /\ stayed' \subseteq Tasks /\ were' \subseteq Tasks /\ todo' \subseteq Tasks
      /\ stored' = stored
      /\ \A t \in stayed' : stored'[t] = "failed"
      /\ \A t \in todo' : stored'[t] # "none" /\ (stored'[t] = "failed" => t \in were')
  BY DEF StartStatus, CountInv
<1> QED
  BY <1>1, <1>2, <1>3 DEF CountInv

(* A task that stayed failed is counted, and a counted one was failed. *)
LEMMA LoadsCountOne ==
    ASSUME CountInv, NEW t \in Tasks, LoadOne(t)
    PROVE  CountInv'
<1>1. t \in todo /\ todo' = todo \ {t} /\ stored' = stored /\ stayed' = stayed /\ were' = were
  BY DEF LoadOne
<1>2. ASSUME NEW S \in SUBSET Tasks
      PROVE  /\ Cardinality(S \ todo) \in Nat
             /\ t \in S => Cardinality(S \ todo') = Cardinality(S \ todo) + 1
             /\ t \notin S => S \ todo' = S \ todo
  <2>1. IsFiniteSet(S \ todo)
    BY TasksAssumption, FS_Subset
  <2>2. Cardinality(S \ todo) \in Nat
    BY <2>1, FS_CardinalityType
  <2>3. t \in S => S \ todo' = (S \ todo) \cup {t}
    BY <1>1
  <2>4. t \notin S \ todo
    BY <1>1
  <2>5. Cardinality((S \ todo) \cup {t}) = Cardinality(S \ todo) + 1
    BY <2>1, <2>4, FS_AddElement
  <2> QED
    BY <1>1, <2>2, <2>3, <2>5
<1>3. stayed \in SUBSET Tasks /\ were \in SUBSET Tasks /\ failed \in Nat
  BY DEF CountInv
<1>4. failed' \in Nat /\ Cardinality(stayed' \ todo') <= failed'
      /\ failed' <= Cardinality(were' \ todo')
  <2> DEFINE s0 == Cardinality(stayed \ todo)
             s1 == Cardinality(stayed \ todo')
             w0 == Cardinality(were \ todo)
             w1 == Cardinality(were \ todo')
  <2>1. s0 \in Nat /\ IF t \in stayed THEN s1 = s0 + 1 ELSE s1 = s0
    BY <1>2, <1>3
  <2>2. w0 \in Nat /\ IF t \in were THEN w1 = w0 + 1 ELSE w1 = w0
    BY <1>2, <1>3
  <2>3. s0 <= failed /\ failed <= w0
    BY DEF CountInv
  <2>4. IF stored[t] = "failed" THEN failed' = failed + 1 /\ t \in were
        ELSE failed' = failed /\ t \notin stayed
    BY <1>1 DEF LoadOne, CountInv
  <2> HIDE DEF s0, s1, w0, w1
  <2>5. failed' \in Nat /\ s1 <= failed' /\ failed' <= w1
    BY <1>3, <2>1, <2>2, <2>3, <2>4
  <2> QED
    BY <1>1, <2>5 DEF s1, w1
<1>5. /\ todo' \subseteq Tasks
      /\ \A u \in todo' : stored'[u] # "none" /\ (stored'[u] = "failed" => u \in were')
  BY <1>1 DEF CountInv
<1> QED
  BY <1>1, <1>3, <1>4, <1>5 DEF CountInv

(* When all are loaded, the bracket is that of the report. *)
LEMMA ReportsAreBracketed ==
    ASSUME CountInv, Report, report'.kind = "printed"
    PROVE  /\ Cardinality(stayed) <= report'.summary.failed
           /\ report'.summary.failed <= Cardinality(were)
           /\ report'.exit = 0 => stayed = {}
<1>1. report' = Printed(Summary(completed, failed)) /\ todo = {}
  BY DEF Report, Raises
<1>2. report'.summary.failed = failed /\ (report'.exit = 0 => ~(failed > 0))
  BY <1>1 DEF Printed, Summary
<1>3. stayed \ todo = stayed /\ were \ todo = were
  BY <1>1
<1>4. IsFiniteSet(stayed) /\ Cardinality(stayed) \in Nat
  BY TasksAssumption, FS_Subset, FS_CardinalityType DEF CountInv
<1>5. Cardinality(stayed) = 0 => stayed = {}
  BY <1>4, FS_EmptySet
<1> QED
  BY <1>2, <1>3, <1>4, <1>5 DEF CountInv

(* FailuresBracketed (cli.py, status): the counts of a printed report, and *)
(* its exit code, however many commands save while the snapshots are read. *)
THEOREM ReportsBracket == CliSpec => FailuresBracketed
<1>1. CliInit => CountInv
  <2> SUFFICES ASSUME CliInit PROVE CountInv
    OBVIOUS
  <2>1. Cardinality({}) = 0
    BY FS_EmptySet
  <2>2. stayed \ todo = {} /\ were \ todo = {}
    BY DEF CliInit, Init
  <2> QED
    BY <2>1, <2>2 DEF CliInit, Init, CountInv
<1>2. ASSUME CountInv, [CliNext]_cliVars
      PROVE  CountInv'
  <2>1. CASE UNCHANGED vars
    BY <1>2, <2>1 DEF CountInv, vars
  <2>2. CASE Report
    BY <1>2, <2>2 DEF CountInv, Report
  <2>3. ASSUME NEW t \in Tasks, LoadOne(t) PROVE CountInv'
    BY <1>2, <2>3, LoadsCountOne
  <2>4. CASE StartStatus
    BY <1>2, <2>4, StartsCountNothing
  <2>5. ASSUME NEW t \in Tasks, NEW status \in {"completed", "failed"}, Save(t, status)
        PROVE  CountInv'
    BY <1>2, <2>5, SavesKeepCount
  <2> QED
    BY <1>2, <2>1, <2>2, <2>3, <2>4, <2>5 DEF CliNext, cliVars, Next, Status
<1>3. ASSUME CountInv, [CliNext]_cliVars, report'.kind = "printed", report' # report
      PROVE  /\ Cardinality(stayed) <= report'.summary.failed
             /\ report'.summary.failed <= Cardinality(were)
             /\ report'.exit = 0 => stayed = {}
  <2>1. Report
    BY <1>3
    DEF CliNext, cliVars, vars, Next, Status, StartStatus, LoadOne, Save, NoReport
  <2> QED
    BY <1>3, <2>1, ReportsAreBracketed
<1> QED
  BY <1>1, <1>2, <1>3, PTL DEF CliSpec, FailuresBracketed
=============================================================================
