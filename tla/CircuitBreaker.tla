--------------------------- MODULE CircuitBreaker ---------------------------
(***************************************************************************)
(* digital_fte/circuit_breaker.py: one CircuitBreaker shared by calls that *)
(* overlap: func may itself call the breaker, record outcomes or reset it. *)
(* Entering call() and recording its outcome are one step each; between    *)
(* the two, anything else may happen to the breaker.                       *)
(*                                                                         *)
(* Time is the number of clock units since _opened_at, counted up to       *)
(* RecoveryTimeout: _maybe_recover compares it with nothing else.          *)
(***************************************************************************)
EXTENDS Integers, FiniteSets

CONSTANTS
    Calls,              \* invocations of call() that may be in flight at once
    FailureThreshold,   \* failure_threshold
    SuccessThreshold,   \* success_threshold
    RecoveryTimeout,    \* recovery_timeout, in clock units
    MaxCalls,           \* cap on _total_calls
    MaxOpens,           \* cap on _opened_count
    MaxRefusals         \* cap on _total_rejections

ASSUME CallsAssumption == IsFiniteSet(Calls)
ASSUME ThresholdsAssumption ==
    /\ FailureThreshold \in Nat \ {0}
    /\ SuccessThreshold \in Nat \ {0}
    /\ RecoveryTimeout \in Nat \ {0}
ASSUME CapsAssumption == MaxCalls \in Nat /\ MaxOpens \in Nat /\ MaxRefusals \in Nat

VARIABLES
    breaker,     \* the live state: _state, _consecutive_failures, ...
    totals,      \* the cumulative counters of the telemetry snapshot
    inFlight,    \* what each call is doing: "idle", "normal" or "probe"
    counted,     \* history: probes in flight admitted since the slots were last zeroed
    strays,      \* history: since then, calls that gave back a slot of an earlier count
    succeeded    \* history: calls that returned normally

breakerVars == <<breaker, totals, inFlight, counted, strays, succeeded>>

NotOpened == -1   \* _opened_at is None

Breaker == [state : {"closed", "open", "half_open"},
            consecutive : Nat,          \* _consecutive_failures
            successes : Nat,            \* _half_open_successes
            probes : Int,               \* _probes_in_flight
            openedFor : NotOpened .. RecoveryTimeout,
            opens : Nat]                \* _opened_count

-----------------------------------------------------------------------------
(* The internal transitions, as functions of the live state.               *)

(* A faulty variant of Recover: the cooldown is not awaited.               *)
RecoverAtOnce(b) ==
    IF b.state = "open"
    THEN [b EXCEPT !.state = "half_open", !.successes = 0, !.probes = 0]
    ELSE b

(* _maybe_recover *)
Recover(b) ==
    IF b.state = "open" /\ b.openedFor = RecoveryTimeout
    THEN [b EXCEPT !.state = "half_open", !.successes = 0, !.probes = 0]
    ELSE b

(* _trip *)
Trip(b) ==
    [state |-> "open", consecutive |-> b.consecutive, successes |-> 0,
     probes |-> 0, openedFor |-> 0, opens |-> b.opens + 1]

(* A faulty variant of Close: _opened_at is kept.                          *)
CloseKeepingTime(b) ==
    [state |-> "closed", consecutive |-> 0, successes |-> 0,
     probes |-> 0, openedFor |-> b.openedFor, opens |-> b.opens]

(* _close, and the whole of reset() *)
Close(b) ==
    [state |-> "closed", consecutive |-> 0, successes |-> 0,
     probes |-> 0, openedFor |-> NotOpened, opens |-> b.opens]

(* _on_success *)
OnSuccess(b) ==
    IF b.state = "half_open"
    THEN IF b.successes + 1 >= SuccessThreshold
         THEN Close(b) ELSE [b EXCEPT !.successes = @ + 1]
    ELSE [b EXCEPT !.consecutive = 0]

(* A faulty variant of OnFailure: a failure of an open breaker extends the *)
(* cooldown and counts as nothing else.                                    *)
OnFailureExtending(b) ==
    IF b.state = "half_open" THEN Trip(b)
    ELSE IF b.state = "open" THEN [b EXCEPT !.openedFor = 0]
    ELSE LET more == [b EXCEPT !.consecutive = @ + 1]
         IN  IF more.consecutive >= FailureThreshold THEN Trip(more) ELSE more

(* _on_failure *)
OnFailure(b) ==
    IF b.state = "half_open" THEN Trip(b)
    ELSE LET more == [b EXCEPT !.consecutive = @ + 1]
         IN  IF more.consecutive >= FailureThreshold THEN Trip(more) ELSE more

(* A faulty variant of Allows: one probe too many.                         *)
AllowsOneMore(b) ==
    \/ b.state = "closed"
    \/ b.state = "half_open" /\ b.probes <= SuccessThreshold

(* allows_call, of a breaker that has just been recovered *)
Allows(b) ==
    \/ b.state = "closed"
    \/ b.state = "half_open" /\ b.probes < SuccessThreshold

(* The probe slot of call c, if it holds one, is given back. *)
Released(b, c) ==
    IF inFlight[c] = "probe" THEN [b EXCEPT !.probes = @ - 1] ELSE b

(* The step zeroed _probes_in_flight: every transition between states and  *)
(* every trip does.                                                        *)
SlotsZeroed(b, after) == after.state # b.state \/ after.opens # b.opens

-----------------------------------------------------------------------------
(* call(func), up to the call of func: admitted, with a slot if half-open. *)
Admit(c) ==
    LET b == Recover(breaker)
        kind == IF b.state = "half_open" THEN "probe" ELSE "normal"
    IN  /\ inFlight[c] = "idle"
        /\ totals.calls < MaxCalls
        /\ Allows(b)
        /\ breaker' = IF kind = "probe" THEN [b EXCEPT !.probes = @ + 1] ELSE b
        /\ totals' = [totals EXCEPT !.calls = @ + 1]
        /\ inFlight' = [inFlight EXCEPT ![c] = kind]
        /\ counted' = (IF SlotsZeroed(breaker, b) THEN {} ELSE counted)
                        \cup (IF kind = "probe" THEN {c} ELSE {})
        /\ strays' = IF SlotsZeroed(breaker, b) THEN {} ELSE strays
        /\ UNCHANGED succeeded

(* call(func) refused with CircuitOpenError. *)
Reject ==
    LET b == Recover(breaker)
    IN  /\ totals.rejections < MaxRefusals
        /\ ~Allows(b)
        /\ breaker' = b
        /\ totals' = [totals EXCEPT !.rejections = @ + 1]
        /\ counted' = IF SlotsZeroed(breaker, b) THEN {} ELSE counted
        /\ strays' = IF SlotsZeroed(breaker, b) THEN {} ELSE strays
        /\ UNCHANGED <<inFlight, succeeded>>

(* func has come back and call c leaves the breaker in state `after`. *)
End(c, after) ==
    /\ inFlight[c] # "idle"
    /\ breaker' = after
    /\ inFlight' = [inFlight EXCEPT ![c] = "idle"]
    /\ counted' = IF SlotsZeroed(breaker, after) THEN {} ELSE counted \ {c}
    /\ strays' = IF SlotsZeroed(breaker, after) THEN {}
                 ELSE IF inFlight[c] = "probe" /\ c \notin counted
                      THEN strays \cup {c} ELSE strays

(* func returned. *)
CallSucceeds(c) ==
    /\ End(c, OnSuccess(Released(breaker, c)))
    /\ succeeded' = succeeded + 1
    /\ UNCHANGED totals

(* func raised an exception of record_on. *)
CallFails(c) ==
    /\ breaker.opens < MaxOpens
    /\ End(c, OnFailure(Released(breaker, c)))
    /\ totals' = [totals EXCEPT !.failures = @ + 1]
    /\ UNCHANGED succeeded

(* Faulty variants of CallEscapes: the slot is kept, the call is not taken *)
(* back.                                                                   *)
CallEscapesLeaking(c) ==
    /\ End(c, breaker)
    /\ totals' = [totals EXCEPT !.calls = @ - 1]
    /\ UNCHANGED succeeded

CallEscapesCounted(c) ==
    /\ End(c, Released(breaker, c))
    /\ UNCHANGED <<totals, succeeded>>

(* func raised anything else: the call is taken back from the counters. *)
CallEscapes(c) ==
    /\ End(c, Released(breaker, c))
    /\ totals' = [totals EXCEPT !.calls = @ - 1]
    /\ UNCHANGED succeeded

(* A step outside call() that leaves the breaker in state `after`. *)
Drive(after) ==
    /\ breaker' = after
    /\ counted' = IF SlotsZeroed(breaker, after) THEN {} ELSE counted
    /\ strays' = IF SlotsZeroed(breaker, after) THEN {} ELSE strays
    /\ UNCHANGED <<totals, inFlight, succeeded>>

(* The property `state`, allows_call and snapshot move the state on too. *)
Observe == Drive(Recover(breaker))

RecordSuccess == Drive(OnSuccess(Recover(breaker)))

RecordFailure == breaker.opens < MaxOpens /\ Drive(OnFailure(Recover(breaker)))

(* reset() zeroes the slots even when nothing else changes. *)
Reset ==
    /\ breaker' = Close(breaker)
    /\ counted' = {}
    /\ strays' = {}
    /\ UNCHANGED <<totals, inFlight, succeeded>>

(* The clock moves on. *)
Tick ==
    /\ breaker.openedFor \in 0 .. RecoveryTimeout - 1
    /\ breaker' = [breaker EXCEPT !.openedFor = @ + 1]
    /\ UNCHANGED <<totals, inFlight, counted, strays, succeeded>>

-----------------------------------------------------------------------------
BreakerInit ==
    /\ breaker = [state |-> "closed", consecutive |-> 0, successes |-> 0,
                  probes |-> 0, openedFor |-> NotOpened, opens |-> 0]
    /\ totals = [calls |-> 0, failures |-> 0, rejections |-> 0]
    /\ inFlight = [c \in Calls |-> "idle"]
    /\ counted = {}
    /\ strays = {}
    /\ succeeded = 0

BreakerNext ==
    \/ \E c \in Calls : \/ Admit(c)
                        \/ CallSucceeds(c)
                        \/ CallFails(c)
                        \/ CallEscapes(c)
    \/ Reject
    \/ Observe
    \/ RecordSuccess
    \/ RecordFailure
    \/ Reset
    \/ Tick

(* The clock advances, and somebody keeps looking at the breaker: a call,  *)
(* a telemetry snapshot.                                                   *)
BreakerSpec ==
    /\ BreakerInit
    /\ [][BreakerNext]_breakerVars
    /\ WF_breakerVars(Tick)
    /\ WF_breakerVars(Observe)

-----------------------------------------------------------------------------
ProbesRunning == {c \in Calls : inFlight[c] = "probe"}
Running == {c \in Calls : inFlight[c] # "idle"}

(* Every variable has its type. *)
TypeOK ==
    /\ breaker \in Breaker
    /\ totals \in [calls : Nat, failures : Nat, rejections : Nat]
    /\ inFlight \in [Calls -> {"idle", "normal", "probe"}]
    /\ counted \subseteq Calls
    /\ strays \subseteq Calls
    /\ succeeded \in Nat

Consistent(b) ==
    /\ b.state = "closed" <=> b.openedFor = NotOpened
    /\ b.state = "closed" => b.consecutive < FailureThreshold
    /\ b.state = "half_open" =>
          b.openedFor = RecoveryTimeout /\ b.successes < SuccessThreshold
    /\ b.state # "half_open" => b.successes = 0

(* The live fields agree with the state they belong to, whichever method   *)
(* made the transition: a closed breaker has no opening time and is below  *)
(* its failure threshold, an open or half-open one has an opening time, a  *)
(* half-open one has cooled down and is below its success threshold        *)
(* ("every transition goes through one guarded path").                     *)
StateConsistent == Consistent(breaker)

(* A probe slot is never lost: the count never exceeds the probes that are *)
(* still running, so a half-open breaker nobody is calling admits the next *)
(* call whatever happened before.                                          *)
SlotsNeverLeak == breaker.probes <= Cardinality(ProbesRunning)

(* As long as no probe of an earlier half-open episode has ended in this   *)
(* one, the slot count is exactly the number of this episode's running     *)
(* probes, and never above success_threshold.                              *)
SlotsCountProbes ==
    strays = {} => /\ breaker.probes = Cardinality(counted)
                   /\ Cardinality(counted) <= SuccessThreshold

(* The calls whose slots are counted are running, as probes. *)
CountedAreRunning == counted \subseteq ProbesRunning

(* The counters of a snapshot add up: every call counted has returned, has *)
(* failed or is running; one that escaped left no trace.                   *)
TotalsAddUp == totals.calls = succeeded + totals.failures + Cardinality(Running)

(* While the cooldown runs the dependency is left alone: an open breaker   *)
(* admits no call and changes state only by reset().                       *)
CooldownRespected ==
    [][(breaker.state = "open" /\ breaker.openedFor < RecoveryTimeout) =>
          /\ \A c \in Calls : inFlight'[c] \in {inFlight[c], "idle"}
          /\ breaker'.state # "open" => breaker' = Close(breaker)]_breakerVars

(* An open breaker is on offer again after its cooldown, unless failures   *)
(* still coming in from earlier calls restart it.                          *)
RecoversOrRetrips ==
    \A n \in 0 .. MaxOpens :
        breaker.state = "open" /\ breaker.opens = n ~>
            breaker.state # "open" \/ breaker.opens > n

(* "Also caps the number of concurrent probes admitted" (success_threshold *)
(* in the class docstring): of the probes admitted since the breaker last  *)
(* became half-open, at most success_threshold run at once.                *)
ConcurrentProbesCapped == Cardinality(counted) <= SuccessThreshold

(* "Once success_threshold probes have succeeded the breaker closes": the  *)
(* end of a call that was no probe does not close a half-open breaker.     *)
OnlyProbesClose ==
    [][\A c \in Calls :
          (breaker.state = "half_open" /\ inFlight[c] = "normal"
             /\ inFlight'[c] = "idle") => breaker'.state = "half_open"
                                          \/ breaker'.state = "open"]_breakerVars
=============================================================================
