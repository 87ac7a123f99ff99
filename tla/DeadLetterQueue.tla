-------------------------- MODULE DeadLetterQueue --------------------------
(***************************************************************************)
(* digital_fte/dead_letter_queue.py: a bounded dictionary of the tasks     *)
(* that were abandoned.  A dictionary keeps the order its keys were        *)
(* inserted in, so it is the sequence of its records.                      *)
(***************************************************************************)
EXTENDS Lists

LOCAL S == INSTANCE SequencesExt

CONSTANTS
    DeadIds,        \* task ids that are recorded
    Reasons,        \* 1 .. n, the reasons in alphabetical order
    DeadCapacity,   \* capacity
    MaxRecords      \* cap on the number of records ever filed

ASSUME DeadCapacityAssumption == DeadCapacity \in Nat \ {0} /\ MaxRecords \in Nat
ASSUME ReasonsAssumption == Reasons \subseteq Int

VARIABLES
    letters,   \* _entries, oldest first
    filed      \* _sequence

deadVars == <<letters, filed>>

Letter(id, reason) == [task |-> id, reason |-> reason, sequence |-> filed]

-----------------------------------------------------------------------------
DeadInit == letters = << >> /\ filed = 0

Recorded == {letters[i].task : i \in DOMAIN letters}

(* A faulty variant of Record: what is recorded already is replaced.       *)
RecordOverwriting(id, reason) ==
    /\ id \in Recorded \/ Len(letters) < DeadCapacity
    /\ filed < MaxRecords
    /\ letters' = IF id \in Recorded
                  THEN [i \in DOMAIN letters |->
                           IF letters[i].task = id THEN Letter(id, reason) ELSE letters[i]]
                  ELSE Append(letters, Letter(id, reason))
    /\ filed' = filed + 1

Record(id, reason) ==
    /\ id \notin Recorded
    /\ Len(letters) < DeadCapacity
    /\ filed < MaxRecords
    /\ letters' = Append(letters, Letter(id, reason))
    /\ filed' = filed + 1

(* AlreadyDeadLettered or DeadLetterQueueFull *)
RecordRefused(id) ==
    /\ id \in Recorded \/ Len(letters) >= DeadCapacity
    /\ UNCHANGED deadVars

RemoveLetter(id) ==
    /\ \E i \in DOMAIN letters :
          letters[i].task = id /\ letters' = S!RemoveAt(letters, i)
    /\ UNCHANGED filed

DrainLetters ==
    /\ letters' = << >>
    /\ UNCHANGED filed

(* reason_counts: the reasons there are, by descending count, then name. *)
ReasonCounts ==
    LET count(r) == Cardinality({i \in DOMAIN letters : letters[i].reason = r})
        pairs == {[reason |-> letters[i].reason, count |-> count(letters[i].reason)] :
                     i \in DOMAIN letters}
    IN  Sorted(pairs, {p \in pairs \X pairs :
                          \/ p[1].count > p[2].count
                          \/ p[1].count = p[2].count /\ p[1].reason < p[2].reason})

-----------------------------------------------------------------------------
(* The report reads oldest first over any removals and re-recordings: the  *)
(* records are in the order they were filed, one per task, no more than    *)
(* the capacity; and the roll-up counts each of them once.                 *)
LettersFiled ==
    /\ \A i, j \in DOMAIN letters :
          i < j => /\ letters[i].sequence < letters[j].sequence
                   /\ letters[i].task # letters[j].task
    /\ \A i \in DOMAIN letters : letters[i].sequence < filed
    /\ Len(letters) <= DeadCapacity
    /\ Sum([k \in DOMAIN ReasonCounts |-> ReasonCounts[k].count]) = Len(letters)
=============================================================================
