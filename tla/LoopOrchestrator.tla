-------------------------- MODULE LoopOrchestrator --------------------------
(***************************************************************************)
(* The agent loop of digital_fte/loop.py: one LoopOrchestrator, one caller *)
(* and the LoopResult the caller holds.  The caller starts a run, resumes  *)
(* the result it holds, and calls again after an exception; within a call  *)
(* the agents take their turns one by one and the validator judges the     *)
(* state after the last of them.                                           *)
(*                                                                         *)
(* An agent is its position in the tuple self.agents, which its name need  *)
(* not tell (see Named); a state is a member of States, and what an agent  *)
(* may return is one of Strings, but run takes any initial state; the      *)
(* validator is the set of states it accepts.                              *)
(***************************************************************************)
EXTENDS Integers, Sequences

CONSTANTS
    NumAgents,       \* len(self.agents)
    States,          \* what run may be given as initial_state
    Strings,         \* those of them that are strings
    Accepted,        \* the strings self.validator accepts
    Names,           \* what agent.name may be
    IterationBound   \* cap on the iterations one history may accumulate

ASSUME AgentsAssumption == NumAgents \in Nat \ {0}
ASSUME StringsAssumption == Strings \subseteq States
ASSUME AcceptedAssumption == Accepted \subseteq Strings
ASSUME BoundAssumption == IterationBound \in Nat

VARIABLES
    phase,       \* "idle", or inside _run: "agents" or "validator"
    method,      \* which method the call in progress is of
    iteration,   \* the loop variable `iteration` of _run
    turn,        \* the agent whose turn it is
    limit,       \* the local `limit` of _run
    state,       \* the local `state` of _run
    steps,       \* step_list
    events,      \* event_list
    result,      \* the LoopResult the caller holds, or NoResult
    origin       \* history: the initial_state the running history began with

vars == <<phase, method, iteration, turn, limit, state, steps, events,
          result, origin>>

Turns == 1 .. NumAgents
Iterations == 1 .. IterationBound

Step == [agent : Turns, state : Strings, iteration : Iterations]
Event == [agent : Turns, iteration : Iterations, input : States, output : Strings]
Result == [status : {"completed", "failed"}, iterations : Iterations,
           steps : Seq(Step), events : Seq(Event), final : Strings, origin : States]
NoResult == [status |-> "none"]

(* The names of the agents: nothing makes them distinct.                   *)
Namings == [Turns -> Names]

(* The result as its readers get it: a step and an event hold the name of  *)
(* their agent, so that two agents of one name cannot be told apart.       *)
Signed(list, name) == [k \in DOMAIN list |-> [list[k] EXCEPT !.agent = name[@]]]

Named(r, name) ==
    [r EXCEPT !.steps = Signed(r.steps, name), !.events = Signed(r.events, name)]

-----------------------------------------------------------------------------
(* The body of _run up to its first agent: list(steps), list(events) and   *)
(* the iteration range first .. last, which both callers make non-empty.   *)
Enter(s, first, last, stepList, eventList) ==
    /\ phase = "idle"
    /\ last <= IterationBound
    /\ phase' = "agents"
    /\ iteration' = first
    /\ turn' = 1
    /\ limit' = last
    /\ state' = s
    /\ steps' = stepList
    /\ events' = eventList
    /\ UNCHANGED result

(* run(task_id, initial_state) with max_iterations = n. *)
Run(s, n) ==
    /\ Enter(s, 1, n, << >>, << >>)
    /\ method' = "run"
    /\ origin' = s

(* Faulty variants of Resume: the last iteration is replayed, the loop      *)
(* starts again from the first initial state, the old records are dropped. *)
ResumeReplaying(k) ==
    /\ result.status = "failed"
    /\ Enter(result.final, result.iterations, result.iterations + k,
             result.steps, result.events)
    /\ method' = "resume"
    /\ origin' = result.origin

ResumeForgetting(k) ==
    /\ result.status = "failed"
    /\ Enter(result.final, result.iterations + 1, result.iterations + k, << >>, << >>)
    /\ method' = "resume"
    /\ origin' = result.origin

(* resume(result, additional_iterations = k) of a result that failed. *)
Resume(k) ==
    /\ result.status = "failed"
    /\ Enter(result.final, result.iterations + 1, result.iterations + k,
             result.steps, result.events)
    /\ method' = "resume"
    /\ origin' = result.origin

(* resume of a completed result returns that very result. *)
ResumeCompleted ==
    /\ phase = "idle"
    /\ result.status = "completed"
    /\ UNCHANGED vars

(* The call is over and its locals are gone. *)
Leave ==
    /\ phase' = "idle"
    /\ method' = "run"
    /\ iteration' = 0
    /\ turn' = 1
    /\ limit' = 0
    /\ steps' = << >>
    /\ events' = << >>
    /\ UNCHANGED <<state, origin>>

(* A faulty variant of AgentReturns: the step records the state before.    *)
AgentReturnsStale(s) ==
    /\ phase = "agents"
    /\ s \in Strings
    /\ state' = s
    /\ steps' = Append(steps, [agent |-> turn, state |-> state, iteration |-> iteration])
    /\ events' = Append(events, [agent |-> turn, iteration |-> iteration,
                                 input |-> state, output |-> s])
    /\ IF turn < NumAgents
       THEN turn' = turn + 1 /\ UNCHANGED phase
       ELSE turn' = turn /\ phase' = "validator"
    /\ UNCHANGED <<method, iteration, limit, result, origin>>

(* One turn of the inner loop: the agent returns a string, which is       *)
(* recorded as a step and as an event.                                    *)
AgentReturns(s) ==
    /\ phase = "agents"
    /\ s \in Strings
    /\ state' = s
    /\ steps' = Append(steps, [agent |-> turn, state |-> s, iteration |-> iteration])
    /\ events' = Append(events, [agent |-> turn, iteration |-> iteration,
                                 input |-> state, output |-> s])
    /\ IF turn < NumAgents
       THEN turn' = turn + 1 /\ UNCHANGED phase
       ELSE turn' = turn /\ phase' = "validator"
    /\ UNCHANGED <<method, iteration, limit, result, origin>>

(* The agent raises or returns something that is not a string, or the      *)
(* validator raises: the exception leaves _run, the lists are dropped and  *)
(* the caller still holds what it held.                                    *)
CallRaises ==
    /\ phase \in {"agents", "validator"}
    /\ Leave
    /\ UNCHANGED result

Return(status, count) ==
    /\ Leave
    /\ result' = [status |-> status, iterations |-> count, steps |-> steps,
                  events |-> events, final |-> state, origin |-> origin]

(* The validator accepts: completed, at this iteration. *)
ReturnCompleted ==
    /\ phase = "validator"
    /\ state \in Accepted
    /\ Return("completed", iteration)

(* Faulty variants of NextIteration: one iteration too many, no look at    *)
(* the validator.                                                          *)
NextIterationPastLimit ==
    /\ phase = "validator"
    /\ state \notin Accepted
    /\ iteration <= limit
    /\ phase' = "agents"
    /\ iteration' = iteration + 1
    /\ turn' = 1
    /\ UNCHANGED <<method, limit, state, steps, events, result, origin>>

NextIterationUnjudged ==
    /\ phase = "validator"
    /\ iteration < limit
    /\ phase' = "agents"
    /\ iteration' = iteration + 1
    /\ turn' = 1
    /\ UNCHANGED <<method, limit, state, steps, events, result, origin>>

(* The validator refuses and iterations are left: the first agent again. *)
NextIteration ==
    /\ phase = "validator"
    /\ state \notin Accepted
    /\ iteration < limit
    /\ phase' = "agents"
    /\ iteration' = iteration + 1
    /\ turn' = 1
    /\ UNCHANGED <<method, limit, state, steps, events, result, origin>>

(* A faulty variant of ReturnFailed: the last iteration is not noticed.    *)
ReturnFailedTooLate ==
    /\ phase = "validator"
    /\ state \notin Accepted
    /\ iteration > limit
    /\ Return("failed", limit)

(* The validator refuses the last iteration: failed, reported with limit. *)
ReturnFailed ==
    /\ phase = "validator"
    /\ state \notin Accepted
    /\ iteration >= limit
    /\ Return("failed", limit)

-----------------------------------------------------------------------------
Init ==
    /\ phase = "idle"
    /\ method = "run"
    /\ iteration = 0
    /\ turn = 1
    /\ limit = 0
    /\ state \in States
    /\ steps = << >>
    /\ events = << >>
    /\ result = NoResult
    /\ origin = state

Call == \/ \E s \in States, n \in Iterations : Run(s, n)
        \/ \E k \in Iterations : Resume(k)
        \/ ResumeCompleted

Work == \/ \E s \in States : AgentReturns(s)
        \/ ReturnCompleted
        \/ NextIteration
        \/ ReturnFailed

Next == Call \/ Work \/ CallRaises

(* Agents and validator are assumed to answer unless they raise, which     *)
(* they need never do: a call in progress goes on.                         *)
Spec == Init /\ [][Next]_vars /\ WF_vars(Work)

-----------------------------------------------------------------------------
(* What a history must look like.                                          *)

(* Event f is the turn right after event e: it starts from the state e     *)
(* left, and it is the next agent's, or the first agent's of the next      *)
(* iteration.                                                              *)
Follows(e, f) ==
    /\ f.input = e.output
    /\ \/ e.agent < NumAgents /\ f.agent = e.agent + 1 /\ f.iteration = e.iteration
       \/ e.agent = NumAgents /\ f.agent = 1 /\ f.iteration = e.iteration + 1

(* evs leads from state `from` to state `to` turn by turn, from the first  *)
(* turn of iteration 1 on.                                                 *)
Chained(evs, from, to) ==
    /\ evs = << >> => from = to
    /\ evs # << >> =>
          /\ evs[1].agent = 1 /\ evs[1].iteration = 1 /\ evs[1].input = from
          /\ evs[Len(evs)].output = to
    /\ \A i \in 1 .. Len(evs) - 1 : Follows(evs[i], evs[i + 1])

(* evs ends with turn t of iteration n. *)
EndsAt(evs, t, n) ==
    /\ evs # << >>
    /\ evs[Len(evs)].agent = t
    /\ evs[Len(evs)].iteration = n

(* evs ends where the agent at turn t of iteration n is about to be run. *)
ReachesTurn(evs, t, n) ==
    IF t > 1 THEN EndsAt(evs, t - 1, n)
    ELSE IF n = 1 THEN evs = << >> ELSE EndsAt(evs, NumAgents, n - 1)

Mirrors(stepList, evs) ==
    /\ Len(stepList) = Len(evs)
    /\ \A i \in 1 .. Len(evs) :
          stepList[i] = [agent |-> evs[i].agent, state |-> evs[i].output,
                         iteration |-> evs[i].iteration]

(* No iteration of evs[1 .. n] ended in a state the validator accepts. *)
NeverAccepted(evs, n) ==
    \A i \in 1 .. n : evs[i].agent = NumAgents => evs[i].output \notin Accepted

(* new starts with all of old. *)
Extends(new, old) ==
    /\ Len(old) <= Len(new)
    /\ \A i \in 1 .. Len(old) : new[i] = old[i]

(* Every variable has its type. *)
TypeOK ==
    /\ phase \in {"idle", "agents", "validator"}
    /\ method \in {"run", "resume"}
    /\ iteration \in 0 .. IterationBound
    /\ turn \in Turns
    /\ limit \in 0 .. IterationBound
    /\ state \in States
    /\ steps \in Seq(Step)
    /\ events \in Seq(Event)
    /\ result \in Result \cup {NoResult}
    /\ origin \in States
    /\ phase # "idle" => iteration >= 1 /\ limit >= 1
    /\ phase = "validator" => state \in Strings

(* A returned result is whole: over every run and resume behind it, its    *)
(* events lead without a gap, a repeat or a jump from the first initial    *)
(* state to final_state and end with the last agent of the iteration the   *)
(* result reports (loop.py: resume passes iterations + 1 and the old       *)
(* tuples to _run, which must carry on exactly there).                     *)
ResultIsWhole ==
    result # NoResult =>
        /\ Chained(result.events, result.origin, result.final)
        /\ EndsAt(result.events, NumAgents, result.iterations)

(* The two records of a history, steps and events, tell the same story     *)
(* entry by entry, across resumes too (state_store.py refuses to load a    *)
(* snapshot in which their lengths differ).                                *)
StepsMirrorEvents == result # NoResult => Mirrors(result.steps, result.events)

(* The loop stops at the first iteration whose final state the validator   *)
(* accepts, and only then says "completed": no iteration before the last   *)
(* was accepted, whichever call executed it.                               *)
StopsAtFirstAcceptance ==
    result # NoResult =>
        /\ NeverAccepted(result.events, Len(result.events) - 1)
        /\ result.status = "completed" <=> result.final \in Accepted

(* resume "continues an incomplete result without replaying completed      *)
(* iterations": what it returns keeps every step and event of the result   *)
(* it was given and adds at least one and at most the asked-for number of  *)
(* iterations; a completed result never changes under resume.              *)
ResumeExtends ==
    [][(result' # result /\ method = "resume") =>
          /\ result.status = "failed"
          /\ Extends(result'.events, result.events)
          /\ Extends(result'.steps, result.steps)
          /\ result'.iterations \in result.iterations + 1 .. limit]_vars

(* The invariant behind the properties above: what a call in progress has  *)
(* built so far is a history that reaches exactly the turn about to be     *)
(* taken, and a resumed call has kept all of the result it started from.   *)
CallInProgress ==
    /\ phase # "idle" =>
          /\ iteration <= limit
          /\ Chained(events, origin, state)
          /\ Mirrors(steps, events)
    /\ phase = "agents" =>
          /\ ReachesTurn(events, turn, iteration)
          /\ NeverAccepted(events, Len(events))
    /\ phase = "validator" =>
          /\ EndsAt(events, NumAgents, iteration)
          /\ NeverAccepted(events, Len(events) - 1)
    /\ (phase # "idle" /\ method = "resume") =>
          /\ result.status = "failed"
          /\ iteration > result.iterations
          /\ Extends(events, result.events)
          /\ Extends(steps, result.steps)

(* Every call of run or resume ends, by returning or by raising, as long   *)
(* as the agents and the validator answer.                                 *)
CallsEnd == phase # "idle" ~> phase = "idle"
=============================================================================
