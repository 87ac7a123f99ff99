---------------------------- MODULE RetryPolicy ----------------------------
(***************************************************************************)
(* RetryPolicy.execute of retry_policy.py: the attempts of one call, the   *)
(* sleeps between them and the failures recorded; and the schedule of      *)
(* exponential_backoff.py, which is to agree with it.  A policy is a       *)
(* record; its max_delay is NoCeiling for None.  Delays are whole units of *)
(* time.  factor ** n beyond LargestPower is the OverflowError of Python   *)
(* floats, whatever ceiling would have been applied to it.                 *)
(***************************************************************************)
EXTENDS Lists

CONSTANTS
    Policies,      \* the policies execute is called under
    LargestPower   \* the largest factor ** n a float can hold

NoCeiling == -1

(* What RetryPolicy and BackoffSchedule accept. *)
PolicySet == [max : Nat \ {0}, base : Nat, factor : Nat \ {0},
              ceiling : (Nat \ {0}) \cup {NoCeiling}]

ASSUME PoliciesAssumption == Policies \subseteq PolicySet

ASSUME LargestAssumption == LargestPower \in Nat

VARIABLES
    policy,     \* self, of the call in progress or of the last one
    attempt,    \* the loop variable; 0 outside execute
    stage,      \* "idle", "pausing" before an attempt, or "calling" func
    failures,   \* the local `failures`
    outcome,    \* what the last call ended with, or NoOutcome
    calls,      \* history: how often func has been called
    waited      \* history: the sleeps of this call

attemptVars == <<policy, attempt, stage, failures, outcome, calls, waited>>

NoOutcome == [kind |-> "none"]

-----------------------------------------------------------------------------
Capped(delay, ceiling) ==
    IF ceiling # NoCeiling /\ ceiling < delay THEN ceiling ELSE delay

(* A faulty variant of DelayBefore: the exponent of backoff_delay.         *)
DelayBeforeShifted(p, n) ==
    IF n = 1 THEN 0 ELSE Capped(p.base * Power(p.factor, n - 1), p.ceiling)

(* delay_before, where the power can be held *)
DelayBefore(p, n) ==
    IF n = 1 THEN 0 ELSE Capped(p.base * Power(p.factor, n - 2), p.ceiling)

Overflows(p, n) == n > 1 /\ Power(p.factor, n - 2) > LargestPower

Schedule(p) == [n \in 1 .. p.max |-> DelayBefore(p, n)]

TotalDelay(p) == Sum(Schedule(p))

(* backoff_delay and backoff_schedule *)
BackoffDelay(p, n) == Capped(p.base * Power(p.factor, n - 1), p.ceiling)

BackoffSchedule(p, n) == [k \in 1 .. n |-> BackoffDelay(p, k)]

BackoffTotal(p, n) == Sum(BackoffSchedule(p, n))

(* jitter.py; the fraction is in eighths, the results are in sixteenths. *)
FullJitter(delay, eighths) == 2 * delay * eighths

EqualJitter(delay, eighths) == 8 * delay + delay * eighths

(* The ceiling first, then the floor, which is at most the ceiling. *)
ClampedJitter(delay, eighths, floor, ceiling) ==
    LET jitter == Capped(FullJitter(delay, eighths),
                         IF ceiling = NoCeiling THEN NoCeiling ELSE 16 * ceiling)
    IN  IF jitter < 16 * floor THEN 16 * floor ELSE jitter

-----------------------------------------------------------------------------
AttemptInit ==
    /\ policy \in Policies
    /\ attempt = 0
    /\ stage = "idle"
    /\ failures = << >>
    /\ outcome = NoOutcome
    /\ calls = 0
    /\ waited = << >>

StartExecute(p) ==
    /\ stage = "idle"
    /\ policy' = p
    /\ attempt' = 1
    /\ stage' = "pausing"
    /\ failures' = << >>
    /\ outcome' = NoOutcome
    /\ calls' = 0
    /\ waited' = << >>

(* execute is over, with a result or an exception. *)
EndWith(end) ==
    /\ stage' = "idle"
    /\ attempt' = 0
    /\ outcome' = end
    /\ UNCHANGED <<policy, failures>>

(* The delay before the attempt is computed and slept, unless it is 0. *)
Pause ==
    /\ stage = "pausing"
    /\ ~Overflows(policy, attempt)
    /\ stage' = "calling"
    /\ waited' = LET delay == DelayBefore(policy, attempt)
                 IN  IF delay > 0 THEN Append(waited, delay) ELSE waited
    /\ calls' = calls + 1
    /\ UNCHANGED <<policy, attempt, failures, outcome>>

(* sleep raises, or delay_before does: no retry_on catches it. *)
PauseRaises ==
    /\ stage = "pausing"
    /\ \/ Overflows(policy, attempt) /\ EndWith([kind |-> "overflow"])
       \/ ~Overflows(policy, attempt) /\ DelayBefore(policy, attempt) > 0
          /\ EndWith([kind |-> "interrupted"])
    /\ UNCHANGED <<calls, waited>>

FuncReturns ==
    /\ stage = "calling"
    /\ EndWith([kind |-> "returned", attempts |-> attempt, failures |-> failures])
    /\ UNCHANGED <<calls, waited>>

(* func raises what retry_on does not list. *)
FuncEscapes ==
    /\ stage = "calling"
    /\ EndWith([kind |-> "escaped"])
    /\ UNCHANGED <<calls, waited>>

(* A faulty variant of FuncFails: the delay recorded is the one to come.   *)
FuncFailsAhead ==
    /\ stage = "calling"
    /\ failures' = Append(failures, [attempt |-> attempt,
                                     delay |-> DelayBefore(policy, attempt + 1)])
    /\ IF attempt < policy.max
       THEN /\ attempt' = attempt + 1 /\ stage' = "pausing"
            /\ UNCHANGED outcome
       ELSE /\ attempt' = 0 /\ stage' = "idle"
            /\ outcome' = [kind |-> "exhausted", attempts |-> policy.max]
    /\ UNCHANGED <<policy, calls, waited>>

(* A faulty variant of FuncFails: what is exhausted starts over.           *)
FuncFailsForever ==
    /\ stage = "calling"
    /\ IF attempt < policy.max
       THEN /\ failures' = Append(failures, [attempt |-> attempt,
                                             delay |-> DelayBefore(policy, attempt)])
            /\ attempt' = attempt + 1
            /\ UNCHANGED <<calls, waited>>
       ELSE attempt' = 1 /\ failures' = << >> /\ calls' = 0 /\ waited' = << >>
    /\ stage' = "pausing"
    /\ UNCHANGED <<policy, outcome>>

(* func raises what retry_on lists: recorded, then the next attempt or     *)
(* RetryExhausted.                                                         *)
FuncFails ==
    /\ stage = "calling"
    /\ failures' = Append(failures, [attempt |-> attempt,
                                     delay |-> DelayBefore(policy, attempt)])
    /\ IF attempt < policy.max
       THEN /\ attempt' = attempt + 1 /\ stage' = "pausing"
            /\ UNCHANGED outcome
       ELSE /\ attempt' = 0 /\ stage' = "idle"
            /\ outcome' = [kind |-> "exhausted", attempts |-> policy.max]
    /\ UNCHANGED <<policy, calls, waited>>

ExecuteStep == Pause \/ PauseRaises \/ FuncReturns \/ FuncEscapes \/ FuncFails

AttemptNext == (\E p \in Policies : StartExecute(p)) \/ ExecuteStep

(* One policy's calls on their own. *)
AttemptSpec == AttemptInit /\ [][AttemptNext]_attemptVars

-----------------------------------------------------------------------------
(* The two modules that know a schedule agree on it, as far as its powers  *)
(* can be held: it never shrinks and never passes the ceiling; and jitter  *)
(* only spreads its delays, within the bounds promised, for every fraction *)
(* and floor.                                                              *)
SchedulesAgree(p) ==
    LET schedule == Schedule(p)
        held == {n \in 2 .. p.max : ~Overflows(p, n)}
        last == Cardinality(held)
        floors == 0 .. IF p.ceiling = NoCeiling THEN 2 ELSE p.ceiling
    IN  /\ BackoffTotal(p, last) = Sum(SubSeq(schedule, 1, last + 1))
        /\ \A n \in held :
              LET delay == schedule[n]
              IN  /\ BackoffSchedule(p, last)[n - 1] = delay
                  /\ schedule[n - 1] <= delay
                  /\ Capped(delay, p.ceiling) = delay
                  /\ \A e \in 0 .. 8 :
                        /\ FullJitter(delay, e) \in 0 .. 16 * delay
                        /\ EqualJitter(delay, e) \in 8 * delay .. 16 * delay
                        /\ FullJitter(delay, e) <= EqualJitter(delay, e)
                        /\ \A floor \in floors :
                              LET jitter == ClampedJitter(delay, e, floor, p.ceiling)
                              IN  /\ jitter >= 16 * floor
                                  /\ p.ceiling # NoCeiling => jitter <= 16 * p.ceiling
                                  /\ delay >= floor => jitter <= 16 * delay

(* Attempts, sleeps and failure records agree however a call ends: every   *)
(* attempt but a last one that did not fail has left its record, with the  *)
(* delay slept before it; func has been called that often and never more   *)
(* than max_attempts times; the sleeps are the schedule's, as far as it    *)
(* got, and the schedule is the one both modules compute.  This says what  *)
(* a call that overflowed has done by then, not that it may: that is       *)
(* FailuresExhaust.                                                        *)
AttemptsAccounted ==
    LET recorded == Len(failures)
        Slept(n) == Sum(waited) = Sum(SubSeq(Schedule(policy), 1, n))
    IN  /\ \A i \in 1 .. recorded :
              failures[i] = [attempt |-> i, delay |-> Schedule(policy)[i]]
        /\ stage = "pausing" => attempt = recorded + 1 /\ calls = recorded /\ Slept(recorded)
        /\ stage = "calling" => attempt = recorded + 1 /\ calls = recorded + 1 /\ Slept(recorded + 1)
        /\ outcome.kind = "returned" =>
              /\ outcome.attempts = calls /\ outcome.failures = failures
              /\ calls = recorded + 1 /\ Slept(calls)
        /\ outcome.kind = "escaped" => calls = recorded + 1 /\ Slept(calls)
        /\ outcome.kind = "exhausted" =>
              /\ calls = policy.max /\ recorded = policy.max
              /\ outcome.attempts = policy.max /\ Sum(waited) = TotalDelay(policy)
        /\ outcome.kind \in {"overflow", "interrupted"} =>
              calls = recorded /\ recorded < policy.max /\ Slept(recorded)
        /\ calls <= policy.max
        /\ SchedulesAgree(policy)

(* The delay before attempt n is min(base_delay * factor ** (n - 2),       *)
(* max_delay), and when every allowed attempt has failed RetryExhausted is *)
(* raised: so a call under a ceiling each of whose attempts fails comes to *)
(* its last attempt, unless a sleep is interrupted, however fast the       *)
(* schedule grows.                                                         *)
FailuresExhaust ==
    (policy.ceiling # NoCeiling /\ outcome # NoOutcome /\ calls = Len(failures)) =>
        outcome.kind \in {"exhausted", "interrupted"}

(* execute comes to an end after at most max_attempts calls, whatever func *)
(* does, as long as func and sleep come to an end.                         *)
ExecuteEnds == stage # "idle" ~> stage = "idle"
=============================================================================
