----------------------------- MODULE StateDiff -----------------------------
(***************************************************************************)
(* The difference between two snapshots of one task (state_diff.py).  The  *)
(* snapshots compared are two results the caller holds one after the       *)
(* other: a resume in between extends the history, a new run starts over.  *)
(***************************************************************************)
EXTENDS LoopOrchestrator, FiniteSets

Ext == INSTANCE SequencesExt

(* A faulty variant of CommonPrefixLength: the equal places are counted,   *)
(* also those after the first difference.                                  *)
CommonPlaces(left, right) ==
    Cardinality({k \in 1 .. Ext!Min({Len(left), Len(right)}) : left[k] = right[k]})

CommonPrefixLength(left, right) ==
    Ext!Max({n \in 0 .. Ext!Min({Len(left), Len(right)}) :
            \A k \in 1 .. n : left[k] = right[k]})

From(s, n) == SubSeq(s, n + 1, Len(s))

DiffStates(before, after) ==
    LET stepPrefix == CommonPrefixLength(before.steps, after.steps)
        eventPrefix == CommonPrefixLength(before.events, after.events)
    IN  [statusBefore |-> before.status, statusAfter |-> after.status,
         iterationsBefore |-> before.iterations, iterationsAfter |-> after.iterations,
         finalBefore |-> before.final, finalAfter |-> after.final,
         stepsAdded |-> From(after.steps, stepPrefix),
         stepsRemoved |-> From(before.steps, stepPrefix),
         eventsAdded |-> From(after.events, eventPrefix),
         eventsRemoved |-> From(before.events, eventPrefix)]

IterationsDelta(d) == d.iterationsAfter - d.iterationsBefore
Adds(d) == d.eventsAdded # << >> \/ d.stepsAdded # << >>
Removes(d) == d.eventsRemoved # << >> \/ d.stepsRemoved # << >>

IsNoop(d) ==
    /\ d.statusBefore = d.statusAfter
    /\ d.finalBefore = d.finalAfter
    /\ IterationsDelta(d) = 0
    /\ ~Adds(d) /\ ~Removes(d)
IsProgression(d) == Adds(d) /\ ~Removes(d)
IsRewind(d) == Removes(d) /\ ~Adds(d)
IsDivergence(d) == Removes(d) /\ Adds(d)

(* By name.  The diff compares entries of the two histories that stand at  *)
(* the same place, which are the same agent's: by name they are equal      *)
(* exactly when they are by position.                                      *)
AgentsEngaged(d, name) == {name[d.eventsAdded[k].agent] : k \in DOMAIN d.eventsAdded}

(* render_diff: a heading that names the shape of the change, the status   *)
(* and final state if they changed, and a line for each transition.        *)
Shape(d) == CASE IsNoop(d) -> "noop"
              [] IsProgression(d) -> "progression"
              [] IsRewind(d) -> "rewind"
              [] IsDivergence(d) -> "divergence"
              [] OTHER -> "changed"

RenderDiff(d) ==
    LET If(test, line) == IF test THEN <<line>> ELSE << >>
        Each(mark, events_) == [k \in DOMAIN events_ |-> [line |-> mark, event |-> events_[k]]]
    IN  <<[line |-> Shape(d), delta |-> IterationsDelta(d)]>>
        \o If(d.statusBefore # d.statusAfter,
              [line |-> "status", was |-> d.statusBefore, is |-> d.statusAfter])
        \o If(d.finalBefore # d.finalAfter,
              [line |-> "final_state", was |-> d.finalBefore, is |-> d.finalAfter])
        \o Each("-", d.eventsRemoved) \o Each("+", d.eventsAdded)

-----------------------------------------------------------------------------
(* Without what was removed and with what was added, before is after. *)
Patched(s, removed, added) == SubSeq(s, 1, Len(s) - Len(removed)) \o added

Snapshot(r) == [status |-> r.status, iterations |-> r.iterations, final |-> r.final,
                steps |-> r.steps, events |-> r.events]

(* The diff narrates what a call did to the result the caller holds:       *)
(* applied to the old result it gives the new one; read backwards it is    *)
(* the diff back; its shape is the relation of the two histories and never *)
(* the catch-all "changed"; only a no-op renders as a single line; and     *)
(* what a resume returns is a progression by the iterations it added,      *)
(* engaging every agent by its name.                                       *)
DiffNarrates ==
    [][(result # NoResult /\ phase = "validator" /\ phase' = "idle") =>
          LET d == DiffStates(result, result')
              back == DiffStates(result', result)
          IN  /\ Patched(result.steps, d.stepsRemoved, d.stepsAdded) = result'.steps
              /\ Patched(result.events, d.eventsRemoved, d.eventsAdded) = result'.events
              /\ back.eventsAdded = d.eventsRemoved /\ back.stepsRemoved = d.stepsAdded
              /\ IterationsDelta(back) = 0 - IterationsDelta(d)
              /\ Shape(d) = "noop" <=> Snapshot(result) = Snapshot(result')
              /\ Shape(d) = "progression" <=>
                    Ext!IsStrictPrefix(result.events, result'.events)
              /\ Shape(d) = "rewind" <=> Ext!IsStrictPrefix(result'.events, result.events)
              /\ Shape(d) # "changed"
              /\ Len(RenderDiff(d)) = 1 <=> IsNoop(d)
              /\ (method = "resume" /\ result' # result) =>
                    /\ Shape(d) = "progression"
                    /\ Len(d.eventsAdded) = Len(d.stepsAdded)
                    /\ Len(d.eventsAdded) = NumAgents * IterationsDelta(d)
                    /\ \A name \in Namings :
                          AgentsEngaged(d, name) = {name[t] : t \in Turns}]_vars
=============================================================================
