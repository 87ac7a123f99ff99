--------------------------- MODULE PriorityQueue ---------------------------
(***************************************************************************)
(* digital_fte/priority_queue.py: a heap of (sort_priority, sequence,      *)
(* entry) tuples, where sort_priority is the priority negated in max mode. *)
(* heapq serves the least tuple, so the heap is the set of its tuples.     *)
(* Priorities are numbers that float() keeps apart.                        *)
(***************************************************************************)
EXTENDS Lists

CONSTANTS Items, Ranks   \* what is pushed, and the priorities it is pushed with

ASSUME RanksAssumption == Ranks \subseteq Int

VARIABLES
    mode,      \* "min" or "max"
    heap,      \* _heap
    arrived,   \* _sequence
    taken      \* the entries the last pop or drain returned

heapVars == <<mode, heap, arrived, taken>>

(* The order of tuples; entries are never compared, sequences differ. *)
Less(a, b) == a.sort < b.sort \/ (a.sort = b.sort /\ a.entry.sequence < b.entry.sequence)

(* A faulty variant of SortPriority: max mode serves like min mode.        *)
SortUnnegated(priority) == priority

SortPriority(priority) == IF mode = "max" THEN -priority ELSE priority

-----------------------------------------------------------------------------
HeapInit ==
    /\ mode \in {"min", "max"}
    /\ heap = {}
    /\ arrived = 0
    /\ taken = << >>

HeapPush(item, priority) ==
    LET entry == [task |-> item, priority |-> priority, sequence |-> arrived]
    IN  /\ heap' = heap \cup {[sort |-> SortPriority(priority), entry |-> entry]}
        /\ arrived' = arrived + 1
        /\ UNCHANGED <<mode, taken>>

HeapPop ==
    \E least \in heap :
        /\ \A other \in heap \ {least} : Less(least, other)
        /\ heap' = heap \ {least}
        /\ taken' = <<least.entry>>
        /\ UNCHANGED <<mode, arrived>>

(* drain pops until the heap is empty. *)
HeapDrain ==
    LET popped == Sorted(heap, {p \in heap \X heap : Less(p[1], p[2])})
    IN  /\ taken' = [i \in DOMAIN popped |-> popped[i].entry]
        /\ heap' = {}
        /\ UNCHANGED <<mode, arrived>>

-----------------------------------------------------------------------------
(* Either mode serves as ServiceOrder promises, although the heap sees     *)
(* only negated priorities in max mode.                                    *)
HeapOrder == INSTANCE ServiceOrder
    WITH Tasks <- Items, Priorities <- Ranks, largestFirst <- mode = "max",
         waiting <- {x.entry : x \in heap}, arrivals <- arrived, served <- taken

HeapServesInOrder == HeapOrder!Spec
=============================================================================
