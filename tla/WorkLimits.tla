----------------------------- MODULE WorkLimits -----------------------------
(***************************************************************************)
(* The parts that bound work: budgets, limits, retries, checkpoints, and   *)
(* the parts that are given a time.  Nothing in the code connects them, so *)
(* a behaviour exercises one, `part`, and leaves the others as they were   *)
(* made; only the clock is shared by the timed ones.                       *)
(***************************************************************************)
EXTENDS RetryBudget, TokenBudget, ConcurrencyLimiter, Backpressure,
        RetryPolicy, Checkpoint, ResumeToken, TransitionGuard, TokenBucket,
        TtlCache, Leases

CONSTANT EngineStates   \* the states paused with, by the length of their JSON

ASSUME EngineStatesAssumption == EngineStates \subseteq Nat \cup {None}

(* Positions are printed with finitely many digits. *)
ASSUME DigitsAssumption == \A p \in Positions : Digits(p) \in Nat

VARIABLE part

TimedParts == {"token bucket", "ttl cache", "leases"}
UntimedParts == {"retry budget", "token budget", "slots", "backpressure",
                 "retry policy", "checkpoint", "state machine"}

limitVars == <<part, now, budgetVars, tokenVars, slotVars, pressureVars, attemptVars,
               checkpointVars, machineVars, bucketVars, cacheVars, leaseVars>>

(* Where a part may be made in several ways, only the one exercised is. *)
OnlyPartVaries ==
    /\ part # "retry budget" => /\ total = CHOOSE n \in RunTotals : TRUE
                                /\ perTask = CHOOSE n \in TaskCaps : TRUE
    /\ part # "backpressure" => ~engaged
    /\ part # "retry policy" => policy = CHOOSE p \in Policies : TRUE
    /\ part # "state machine" => machineState = CHOOSE s \in DOMAIN Moves : TRUE
    /\ part # "token bucket" => tokens = BucketCapacity
    /\ part \notin TimedParts => now = 0

Init ==
    /\ part \in TimedParts \cup UntimedParts
    /\ now \in Readings
    /\ BudgetInit /\ TokenInit /\ SlotInit /\ PressureInit /\ AttemptInit
    /\ CheckpointInit /\ MachineInit /\ BucketInit /\ CacheInit /\ LeaseInit
    /\ OnlyPartVaries

-----------------------------------------------------------------------------
OnBudget ==
    /\ part = "retry budget" /\ BudgetNext
    /\ UNCHANGED <<now, tokenVars, slotVars, pressureVars, attemptVars,
                   checkpointVars, machineVars, bucketVars, cacheVars, leaseVars>>

OnTokens ==
    /\ part = "token budget" /\ TokenNext
    /\ UNCHANGED <<now, budgetVars, slotVars, pressureVars, attemptVars,
                   checkpointVars, machineVars, bucketVars, cacheVars, leaseVars>>

OnSlots ==
    /\ part = "slots" /\ SlotNext
    /\ UNCHANGED <<now, budgetVars, tokenVars, pressureVars, attemptVars,
                   checkpointVars, machineVars, bucketVars, cacheVars, leaseVars>>

OnPressure ==
    /\ part = "backpressure" /\ PressureNext
    /\ UNCHANGED <<now, budgetVars, tokenVars, slotVars, attemptVars,
                   checkpointVars, machineVars, bucketVars, cacheVars, leaseVars>>

OnPolicy ==
    /\ part = "retry policy" /\ AttemptNext
    /\ UNCHANGED <<now, budgetVars, tokenVars, slotVars, pressureVars,
                   checkpointVars, machineVars, bucketVars, cacheVars, leaseVars>>

OnCheckpoint ==
    /\ part = "checkpoint" /\ CheckpointNext
    /\ UNCHANGED <<now, budgetVars, tokenVars, slotVars, pressureVars, attemptVars,
                   machineVars, bucketVars, cacheVars, leaseVars>>

OnMachine ==
    /\ part = "state machine" /\ MachineNext
    /\ UNCHANGED <<now, budgetVars, tokenVars, slotVars, pressureVars, attemptVars,
                   checkpointVars, bucketVars, cacheVars, leaseVars>>

OnBucket ==
    /\ part = "token bucket" /\ BucketNext
    /\ UNCHANGED <<now, budgetVars, tokenVars, slotVars, pressureVars, attemptVars,
                   checkpointVars, machineVars, cacheVars, leaseVars>>

OnCache ==
    /\ part = "ttl cache" /\ CacheNext
    /\ UNCHANGED <<now, budgetVars, tokenVars, slotVars, pressureVars, attemptVars,
                   checkpointVars, machineVars, bucketVars, leaseVars>>

OnLeases ==
    /\ part = "leases" /\ LeaseNext
    /\ UNCHANGED <<now, budgetVars, tokenVars, slotVars, pressureVars, attemptVars,
                   checkpointVars, machineVars, bucketVars, cacheVars>>

TimePasses ==
    /\ part \in TimedParts /\ ClockJumps
    /\ UNCHANGED <<budgetVars, tokenVars, slotVars, pressureVars, attemptVars,
                   checkpointVars, machineVars, bucketVars, cacheVars, leaseVars>>

Next ==
    /\ \/ OnBudget \/ OnTokens \/ OnSlots \/ OnPressure \/ OnPolicy
       \/ OnCheckpoint \/ OnMachine \/ OnBucket \/ OnCache \/ OnLeases \/ TimePasses
    /\ UNCHANGED part

(* Nobody need call a part again, but an execute under way goes on: func   *)
(* and sleep return or raise some time.                                    *)
Spec == Init /\ [][Next]_limitVars /\ WF_attemptVars(ExecuteStep)

-----------------------------------------------------------------------------
(* What was granted is honoured, of tokens and of slots: every holder can  *)
(* return or commit what it holds, and the sums never leave their bounds.  *)
ClaimsHonoured == TokensHonoured /\ SlotsHonoured

(* Where a run has got to survives what happens to it: late and repeated   *)
(* reports do not move the checkpoint back, the token made for it comes    *)
(* back as the same position or not at all, and an illegal move leaves the *)
(* agent on the table of its lifecycle.                                    *)
PositionsKept ==
    /\ LatestIsMaximum
    /\ records # << >> => \A s \in EngineStates : ReadsBack(Position, s)
    /\ MachineOnTable
=============================================================================
