----------------------------- MODULE Checkpoint -----------------------------
(***************************************************************************)
(* The forward-only store of checkpoint.py, fed with positions that may    *)
(* come late, twice or out of order.                                       *)
(***************************************************************************)
EXTENDS Integers, Sequences

CONSTANTS
    Positions,   \* the positions reported
    Labels       \* the labels a checkpoint may carry, None among them

ASSUME PositionsAssumption == Positions \subseteq Nat

VARIABLES
    records,     \* self._records
    attempted    \* history: the positions reported so far

checkpointVars == <<records, attempted>>

CheckpointInit == records = << >> /\ attempted = {}

NoPosition == -1
Position == IF records = << >> THEN NoPosition ELSE records[Len(records)].position

AppendRecord(p, label) ==
    records' = Append(records,
                      [position |-> p, sequence |-> Len(records), label |-> label])

(* A faulty variant of Ahead: any other position will do.                  *)
AheadOrBack(p) == p # Position

(* An empty store, whose Position is below all others, takes any position. *)
Ahead(p) == p > Position

(* try_advance answers None, advance raises CheckpointRegression, when the *)
(* position is not ahead.                                                  *)
TryAdvance(p, label) ==
    /\ attempted' = attempted \cup {p}
    /\ IF Ahead(p) THEN AppendRecord(p, label) ELSE UNCHANGED records

Advance(p, label) ==
    /\ attempted' = attempted \cup {p}
    /\ \/ Ahead(p) /\ AppendRecord(p, label)
       \/ ~Ahead(p) /\ UNCHANGED records

CheckpointNext ==
    \E p \in Positions, label \in Labels : TryAdvance(p, label) \/ Advance(p, label)

-----------------------------------------------------------------------------
(* In whatever order positions arrive, and however often, the latest       *)
(* checkpoint is the largest of them: nothing is lost to a late report and *)
(* nothing repeated by a duplicate; and the history has every checkpoint   *)
(* once, in order, numbered from 0.                                        *)
LatestIsMaximum ==
    /\ records = << >> <=> attempted = {}
    /\ \A p \in attempted : p <= Position
    /\ \A i \in 1 .. Len(records) :
          /\ records[i].position \in attempted
          /\ records[i].sequence = i - 1
          /\ \A j \in i + 1 .. Len(records) : records[i].position < records[j].position
=============================================================================
