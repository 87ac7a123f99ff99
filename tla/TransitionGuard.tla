-------------------------- MODULE TransitionGuard --------------------------
(***************************************************************************)
(* The lifecycle of an agent, transition_guard.py: a table of the moves    *)
(* that are legal, the check of one move, and the machine that applies     *)
(* moves and is left as it was by an illegal one.                          *)
(***************************************************************************)
EXTENDS Integers, Sequences

CONSTANTS
    Moves,      \* the table: for each of its states the set of next states
    MaxMoves    \* bound: how many moves a machine makes

ASSUME MovesAssumption == DOMAIN Moves # {} /\ MaxMoves \in Nat

VARIABLES
    machineState,   \* self._state
    refusal,        \* the reason of the last transition that raised, or Allowed
    walked          \* history: the states the machine has been in

machineVars == <<machineState, refusal, walked>>

Allowed == "allowed"
NotAllowed == "not_allowed"
UnknownState == "unknown_state"

(* A target need not have a row of its own. *)
Lifecycle == DOMAIN Moves \cup UNION {Moves[s] : s \in DOMAIN Moves}

(* A faulty variant of CheckTransition: a known target will do.            *)
CheckTransitionLoosely(current, target) ==
    IF current \notin DOMAIN Moves THEN UnknownState
    ELSE IF target \in Moves[current] \cup DOMAIN Moves THEN Allowed ELSE NotAllowed

(* The reason of the TransitionCheck; it is allowed if that is Allowed. *)
CheckTransition(current, target) ==
    IF current \notin DOMAIN Moves THEN UnknownState
    ELSE IF target \in Moves[current] THEN Allowed ELSE NotAllowed

CanMove(target) == CheckTransition(machineState, target) = Allowed

(* StateMachine's initial state has a row. *)
MachineInit ==
    /\ machineState \in DOMAIN Moves
    /\ refusal = Allowed
    /\ walked = <<machineState>>

(* transition, which guard_transition may end with IllegalTransition *)
Transition(target) ==
    LET reason == CheckTransition(machineState, target)
    IN  /\ refusal' = reason
        /\ IF reason = Allowed
           THEN /\ Len(walked) <= MaxMoves
                /\ machineState' = target
                /\ walked' = Append(walked, target)
           ELSE UNCHANGED <<machineState, walked>>

MachineNext == \E target \in Lifecycle : Transition(target)

-----------------------------------------------------------------------------
(* The machine has only ever walked along the table, whatever it was asked *)
(* for; it can leave the table's rows by a legal move, and is then stuck   *)
(* for good, refusing every move as coming from an unknown state.          *)
MachineOnTable ==
    /\ walked[Len(walked)] = machineState
    /\ \A i \in 1 .. Len(walked) - 1 :
          walked[i] \in DOMAIN Moves /\ walked[i + 1] \in Moves[walked[i]]
    /\ machineState \notin DOMAIN Moves =>
          \A target \in Lifecycle : CheckTransition(machineState, target) = UnknownState
    /\ refusal = UnknownState => ~\E target \in Lifecycle : CanMove(target)
    /\ refusal = NotAllowed => machineState \in DOMAIN Moves
=============================================================================
