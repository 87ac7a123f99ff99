--------------------------- MODULE WorkSelections ---------------------------
(***************************************************************************)
(* What is done with the tasks of a queue once they are listed: batcher.py *)
(* chunks them, task_filter.py selects by tags, and fanout_merge.py merges *)
(* lists that overlap.  All are pure; they are evaluated here on every     *)
(* order of tasks the task queue produces.                                 *)
(***************************************************************************)
EXTENDS WorkQueues, Lists

LOCAL S == INSTANCE SequencesExt

CONSTANTS
    Tags,     \* the tags, normalised: stripped and lower-cased
    TagsOf    \* the tags of each task

ASSUME TagsAssumption == TagsOf \in [Tasks -> SUBSET Tags]

-----------------------------------------------------------------------------
(* batch: the item joins the current batch, or closes it if a limit would  *)
(* be broken.  A limit that is not given is Unlimited.                     *)
Unlimited == -1

Breaks(chunk, size, limits) ==
    /\ chunk.items # << >>
    /\ \/ limits.count # Unlimited /\ Len(chunk.items) >= limits.count
       \/ limits.size # Unlimited /\ chunk.size + size > limits.size

(* A faulty variant of Placed: a closed batch leaves its size behind.      *)
PlacedCarrying(chunk, item, size, limits) ==
    IF Breaks(chunk, size, limits)
    THEN [closed |-> Append(chunk.closed, chunk.items),
          items |-> <<item>>, size |-> chunk.size + size]
    ELSE [chunk EXCEPT !.items = Append(@, item), !.size = @ + size]

Placed(chunk, item, size, limits) ==
    IF Breaks(chunk, size, limits)
    THEN [closed |-> Append(chunk.closed, chunk.items), items |-> <<item>>, size |-> size]
    ELSE [chunk EXCEPT !.items = Append(@, item), !.size = @ + size]

(* The size of an entry is its priority; it counts under a size limit.     *)
SizeOf(e, limits) == IF limits.size = Unlimited THEN 0 ELSE e.priority

Batches(items, limits) ==
    LET after[n \in 0 .. Len(items)] ==
            IF n = 0 THEN [closed |-> << >>, items |-> << >>, size |-> 0]
            ELSE Placed(after[n - 1], items[n], SizeOf(items[n], limits), limits)
        last == after[Len(items)]
    IN  IF last.items = << >> THEN last.closed ELSE Append(last.closed, last.items)

-----------------------------------------------------------------------------
(* TagQuery: a query that contradicts itself is refused. *)
Queries ==
    {q \in [any : SUBSET Tags, all : SUBSET Tags, none : SUBSET Tags] :
        q.none \cap (q.any \cup q.all) = {}}

Matches(q, owned) ==
    /\ q.any = {} \/ q.any \cap owned # {}
    /\ q.all \subseteq owned
    /\ q.none \cap owned = {}

FilterTasks(items, q) ==
    Selected(items, {k \in DOMAIN items : Matches(q, TagsOf[items[k].task])})

(* partition_tasks makes one pass and keeps both sides. *)
Sided(sides, e, q) ==
    IF Matches(q, TagsOf[e.task])
    THEN [sides EXCEPT !.matching = Append(@, e)]
    ELSE [sides EXCEPT !.rest = Append(@, e)]

PartitionTasks(items, q) ==
    LET after[n \in 0 .. Len(items)] ==
            IF n = 0 THEN [matching |-> << >>, rest |-> << >>]
            ELSE Sided(after[n - 1], items[n], q)
    IN  after[Len(items)]

-----------------------------------------------------------------------------
(* merge_fanout, keyed by the task: the first item of each key stays. *)
Merged(m, e) ==
    IF e.task \in {m.keys[i] : i \in DOMAIN m.keys}
    THEN [m EXCEPT !.dropped = @ + 1]
    ELSE [m EXCEPT !.merged = Append(@, e), !.keys = Append(@, e.task)]

MergeFanout(lists) ==
    LET items == Joined(lists)
        after[n \in 0 .. Len(items)] ==
            IF n = 0 THEN [merged |-> << >>, dropped |-> 0, keys |-> << >>]
            ELSE Merged(after[n - 1], items[n])
    IN  after[Len(items)]

-----------------------------------------------------------------------------
LimitPairs ==
    {l \in [count : {Unlimited} \cup 1 .. Capacity, size : {Unlimited} \cup 1 .. Capacity] :
        l.count # Unlimited \/ l.size # Unlimited}

TotalSize(items) == Sum([k \in DOMAIN items |-> items[k].priority])

Fits(items, l) ==
    /\ l.count # Unlimited => Len(items) <= l.count
    /\ l.size # Unlimited => TotalSize(items) <= l.size

(* Chunking loses, repeats and reorders nothing; a batch keeps the limits  *)
(* unless it is one oversized item, and ends only where the next item      *)
(* would not have fitted.                                                  *)
BatchesRight ==
    \A l \in LimitPairs :
        LET batches == Batches(entries, l)
        IN  /\ Joined(batches) = entries
            /\ \A i \in DOMAIN batches :
                  /\ batches[i] # << >>
                  /\ Fits(batches[i], l) \/ Len(batches[i]) = 1
                  /\ i > 1 => ~Fits(Append(batches[i - 1], Head(batches[i])), l)

(* The two sides of a partition are those of the filter, each in the order *)
(* of the queue, and every entry is on exactly one of them; a clause that  *)
(* is added narrows what matches.                                          *)
PartitionRight ==
    \A q \in Queries :
        LET sides == PartitionTasks(entries, q)
        IN  /\ sides.matching = FilterTasks(entries, q)
            /\ Len(sides.matching) + Len(sides.rest) = Len(entries)
            /\ S!ToSet(sides.matching) \cup S!ToSet(sides.rest) = S!ToSet(entries)
            /\ \A i, j \in DOMAIN sides.rest :
                  i < j => Below(KeyOf(sides.rest[i]), KeyOf(sides.rest[j]))
            /\ S!ToSet(FilterTasks(entries, [q EXCEPT !.any = {}]))
                  = S!ToSet(FilterTasks(entries, [q EXCEPT !.any = {}, !.all = {}]))
                    \cap S!ToSet(FilterTasks(entries, [q EXCEPT !.any = {}, !.none = {}]))

(* A task that was served and queued again is in both lists: the merge     *)
(* keeps what it met first, once per key, and accounts for the rest.       *)
MergeRight ==
    LET m == MergeFanout(<<served, entries>>)
        both == served \o entries
    IN  /\ Len(m.merged) + m.dropped = Len(both)
        /\ Len(m.merged) = Cardinality({e.task : e \in S!ToSet(both)})
        /\ m.keys = [i \in DOMAIN m.merged |-> m.merged[i].task]
        /\ S!IsPrefix(served, m.merged)
        /\ \A e \in S!ToSet(entries) :
              e \in S!ToSet(m.merged) <=> e.task \notin {x.task : x \in S!ToSet(served)}

(* What is done with a list of tasks keeps every task and its order; there *)
(* is something to list once a task has been pushed.                       *)
SelectionsRight == sequence > 0 => BatchesRight /\ PartitionRight /\ MergeRight
=============================================================================
