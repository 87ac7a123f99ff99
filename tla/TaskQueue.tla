----------------------------- MODULE TaskQueue -----------------------------
(***************************************************************************)
(* digital_fte/task_queue.py: a bounded queue of tasks without duplicates, *)
(* kept in the order it serves.  It consists of three structures, the      *)
(* entries, their sort keys and the set of their ids, each updated by a    *)
(* statement of its own.                                                   *)
(***************************************************************************)
EXTENDS Integers, Sequences, FiniteSets

CONSTANTS
    Tasks,        \* task ids
    Priorities,   \* the priorities tasks are pushed with
    Capacity,     \* capacity; None is any number from MaxPushes on
    MaxPushes     \* cap on the number of accepted pushes

ASSUME PrioritiesAssumption == Priorities \subseteq Int
ASSUME CapacityAssumption == Capacity \in Nat \ {0} /\ MaxPushes \in Nat

VARIABLES
    entries,    \* _entries
    keys,       \* _keys
    ids,        \* _ids
    sequence,   \* _sequence
    served      \* the entries the last pop or drain returned

queueVars == <<entries, keys, ids, sequence, served>>

QueuedTask == [task : Tasks, priority : Priorities, sequence : Nat]

(* A faulty variant of KeyOf: the priority is not negated.                 *)
KeyUnnegated(e) == <<e.priority, e.sequence>>

(* The tuple entries are sorted by, and the order of such tuples. *)
KeyOf(e) == <<-e.priority, e.sequence>>
Below(k, l) == k[1] < l[1] \/ (k[1] = l[1] /\ k[2] < l[2])

(* n is where bisect_left puts k in the sorted list ks. *)
Bisects(ks, k, n) ==
    /\ \A i \in 1 .. n : Below(ks[i], k)
    /\ \A i \in n + 1 .. Len(ks) : ~Below(ks[i], k)

(* list.insert(n, x) and list.pop(0) *)
Inserted(s, n, x) ==
    [i \in 1 .. Len(s) + 1 |-> IF i <= n THEN s[i] ELSE IF i = n + 1 THEN x ELSE s[i - 1]]

-----------------------------------------------------------------------------
QueueInit ==
    /\ entries = << >>
    /\ keys = << >>
    /\ ids = {}
    /\ sequence = 0
    /\ served = << >>

IsFull == Len(entries) >= Capacity

(* push(task, priority) of a task that is accepted. *)
PushAccepted(t, p) ==
    LET entry == [task |-> t, priority |-> p, sequence |-> sequence]
    IN  /\ t \notin ids
        /\ ~IsFull
        /\ sequence < MaxPushes
        /\ sequence' = sequence + 1
        /\ \E n \in 0 .. Len(keys) :
              /\ Bisects(keys, KeyOf(entry), n)
              /\ keys' = Inserted(keys, n, KeyOf(entry))
              /\ entries' = Inserted(entries, n, entry)
        /\ ids' = ids \cup {t}
        /\ UNCHANGED served

(* push of a duplicate returns False; push onto a full queue raises. *)
PushRefused(t) ==
    /\ t \in ids \/ IsFull
    /\ UNCHANGED queueVars

(* A faulty variant of Pop: the id stays taken.                            *)
PopKeepingId ==
    /\ entries # << >>
    /\ entries' = Tail(entries)
    /\ keys' = Tail(keys)
    /\ served' = <<Head(entries)>>
    /\ UNCHANGED <<ids, sequence>>

Pop ==
    /\ entries # << >>
    /\ entries' = Tail(entries)
    /\ keys' = Tail(keys)
    /\ ids' = ids \ {Head(entries).task}
    /\ served' = <<Head(entries)>>
    /\ UNCHANGED sequence

Drain ==
    /\ served' = entries
    /\ entries' = << >>
    /\ keys' = << >>
    /\ ids' = {}
    /\ UNCHANGED sequence

QueueNext ==
    \/ \E t \in Tasks, p \in Priorities : PushAccepted(t, p)
    \/ \E t \in Tasks : PushRefused(t)
    \/ Pop
    \/ Drain

QueueSpec == QueueInit /\ [][QueueNext]_queueVars

-----------------------------------------------------------------------------
(* Every variable of the queue has its type. *)
QueueTyped ==
    /\ entries \in Seq(QueuedTask)
    /\ keys \in Seq(Int \X Nat)
    /\ ids \subseteq Tasks
    /\ sequence \in Nat
    /\ served \in Seq(QueuedTask)

(* The three structures tell of the same queue: the keys are those of the  *)
(* entries, position by position; the ids are those of the entries, each   *)
(* once; everything is in the order it will be served, so that bisect_left *)
(* finds the place of the next entry; and the capacity is kept ("a         *)
(* bounded, de-duplicating priority queue ... entries are kept sorted").   *)
QueueInStep ==
    /\ Len(keys) = Len(entries)
    /\ \A i \in 1 .. Len(entries) : keys[i] = KeyOf(entries[i])
    /\ ids = {entries[i].task : i \in 1 .. Len(entries)}
    /\ \A i, j \in 1 .. Len(entries) :
          i < j => /\ Below(keys[i], keys[j])
                   /\ entries[i].task # entries[j].task
    /\ \A i \in 1 .. Len(entries) : entries[i].sequence < sequence
    /\ Len(entries) <= Capacity

(* The queue serves as ServiceOrder promises. *)
Order == INSTANCE ServiceOrder
    WITH largestFirst <- TRUE,
         waiting <- {entries[i] : i \in 1 .. Len(entries)},
         arrivals <- sequence

ServesInOrder == Order!Spec
=============================================================================
