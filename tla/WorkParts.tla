----------------------------- MODULE WorkParts -----------------------------
(***************************************************************************)
(* The queues with what is made of their tasks, the parts that bound work, *)
(* and the circuit breaker.  Nothing in the code connects the three: a     *)
(* behaviour uses one, `side`, and leaves the others as they were made.    *)
(***************************************************************************)
EXTENDS WorkSelections, WorkLimits, CircuitBreaker

VARIABLE side

partsVars == <<side, queuesVars, limitVars, breakerVars>>

(* Where another side may be made in several ways, one is enough. *)
OnlySideVaries ==
    /\ side # "queues" => mode = "min"
    /\ side # "limits" => part = "checkpoint"

PartsInit ==
    /\ side \in {"queues", "limits", "breaker"}
    /\ QueuesInit /\ Init /\ BreakerInit
    /\ OnlySideVaries

OnQueues == side = "queues" /\ QueuesNext /\ UNCHANGED <<limitVars, breakerVars>>

OnLimits == side = "limits" /\ Next /\ UNCHANGED <<queuesVars, breakerVars>>

OnBreaker == side = "breaker" /\ BreakerNext /\ UNCHANGED <<queuesVars, limitVars>>

PartsNext == (OnQueues \/ OnLimits \/ OnBreaker) /\ UNCHANGED side

(* The fairness is that of the sides: an execute under way goes on, and    *)
(* somebody keeps looking at the breaker while its clock advances.         *)
PartsSpec ==
    /\ PartsInit
    /\ [][PartsNext]_partsVars
    /\ WF_attemptVars(ExecuteStep)
    /\ WF_breakerVars(Tick)
    /\ WF_breakerVars(Observe)
=============================================================================
