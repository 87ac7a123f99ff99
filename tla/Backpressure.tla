---------------------------- MODULE Backpressure ----------------------------
(***************************************************************************)
(* The watermarks of backpressure.py: an observed depth engages            *)
(* backpressure at the high mark and releases it at the low one.           *)
(***************************************************************************)
EXTENDS Integers

CONSTANTS
    High, Low,   \* self.high, self.low
    MaxDepth     \* the largest depth observed

ASSUME WatermarkAssumption == High \in Nat /\ Low \in Nat /\ Low < High

VARIABLES
    engaged,     \* self._engaged
    switched     \* history: the depth at the last switch, or Unswitched

pressureVars == <<engaged, switched>>

Unswitched == -1

PressureInit == engaged \in BOOLEAN /\ switched = Unswitched

(* A faulty variant of Evaluate: released as soon as the depth is below    *)
(* the high mark.                                                          *)
EvaluateOneMark(depth, was) ==
    CASE ~was /\ depth >= High -> [engaged |-> TRUE, changed |-> TRUE, action |-> "apply"]
      [] was /\ depth < High -> [engaged |-> FALSE, changed |-> TRUE, action |-> "release"]
      [] OTHER -> [engaged |-> was, changed |-> FALSE, action |-> "hold"]

(* evaluate_backpressure *)
Evaluate(depth, was) ==
    CASE ~was /\ depth >= High -> [engaged |-> TRUE, changed |-> TRUE, action |-> "apply"]
      [] was /\ depth <= Low -> [engaged |-> FALSE, changed |-> TRUE, action |-> "release"]
      [] OTHER -> [engaged |-> was, changed |-> FALSE, action |-> "hold"]

(* observe *)
ObserveDepth(depth) ==
    LET decision == Evaluate(depth, engaged)
    IN  /\ engaged' = decision.engaged
        /\ switched' = IF decision.changed THEN depth ELSE switched

PressureNext == \E depth \in 0 .. MaxDepth : ObserveDepth(depth)

-----------------------------------------------------------------------------
(* The two marks "form a stable band": between one switch and the next the *)
(* depth has crossed all of it, so that a depth that moves within the band *)
(* never makes backpressure flap.                                          *)
BandRespected ==
    [][engaged' # engaged =>
          \/ switched = Unswitched
          \/ engaged' /\ switched' - switched >= High - Low
          \/ ~engaged' /\ switched - switched' >= High - Low]_pressureVars
=============================================================================
