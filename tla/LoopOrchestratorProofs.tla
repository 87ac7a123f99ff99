----------------------- MODULE LoopOrchestratorProofs -----------------------
(***************************************************************************)
(* Proofs about the agent loop, for any number of agents, any states, any  *)
(* validator and any bound: type correctness, the invariant CallInProgress *)
(* and the properties that follow from it.                                 *)
(***************************************************************************)
EXTENDS LoopOrchestrator, TLAPS

USE AgentsAssumption, StringsAssumption, AcceptedAssumption, BoundAssumption

-----------------------------------------------------------------------------
(* What one more event does to a history.                                  *)

(* An event appended at the turn a history reaches keeps it chained. *)
LEMMA AppendChained ==
    ASSUME NEW evs \in Seq(Event), NEW from \in States, NEW to \in States,
           NEW t \in Turns, NEW n \in Iterations, NEW s \in Strings,
           Chained(evs, from, to), ReachesTurn(evs, t, n)
    PROVE  LET e == [agent |-> t, iteration |-> n, input |-> to, output |-> s]
           IN  /\ Chained(Append(evs, e), from, s)
               /\ EndsAt(Append(evs, e), t, n)
<1> DEFINE e == [agent |-> t, iteration |-> n, input |-> to, output |-> s]
           new == Append(evs, e)
<1>1. e \in Event
  BY DEF Event, Turns, Iterations
<1>2. /\ new \in Seq(Event) /\ Len(new) = Len(evs) + 1 /\ Len(evs) \in Nat
      /\ new[Len(evs) + 1] = e
      /\ \A i \in 1 .. Len(evs) : new[i] = evs[i]
  BY <1>1
<1> HIDE DEF new
<1>3. EndsAt(new, t, n)
  BY <1>2 DEF EndsAt
<1>4. ASSUME NEW i \in 1 .. Len(new) - 1 PROVE Follows(new[i], new[i + 1])
  <2>1. CASE i < Len(evs)
    BY <1>2, <2>1 DEF Chained
  <2>2. CASE i = Len(evs)
    <3>1. evs # << >> /\ new[i] = evs[Len(evs)] /\ new[i + 1] = e
      BY <1>2, <2>2
    <3>2. evs[Len(evs)].output = to
      BY <3>1 DEF Chained
    <3>3. evs[Len(evs)] \in Event
      BY <2>2
    <3>4. evs[Len(evs)].agent \in Turns /\ evs[Len(evs)].iteration \in Iterations
      BY <3>3 DEF Event
    <3> QED
      BY <3>1, <3>2, <3>4 DEF Follows, ReachesTurn, EndsAt, Turns, Iterations
  <2> QED
    BY <1>2, <2>1, <2>2
<1>5. new # << >> /\ new[Len(new)].output = s
  BY <1>2
<1>6. new[1].agent = 1 /\ new[1].iteration = 1 /\ new[1].input = from
  <2>1. CASE evs = << >>
    BY <1>2, <2>1 DEF Chained, ReachesTurn, EndsAt, Turns
  <2>2. CASE evs # << >>
    BY <1>2, <2>2 DEF Chained
  <2> QED
    BY <2>1, <2>2
<1> QED
  BY <1>3, <1>4, <1>5, <1>6 DEF Chained, new

(* A step and the event it mirrors appended together still mirror. *)
LEMMA AppendMirrors ==
    ASSUME NEW evs \in Seq(Event), NEW stepList \in Seq(Step),
           NEW e \in Event, Mirrors(stepList, evs)
    PROVE  Mirrors(Append(stepList, [agent |-> e.agent, state |-> e.output,
                                     iteration |-> e.iteration]),
                   Append(evs, e))
<1> DEFINE st == [agent |-> e.agent, state |-> e.output, iteration |-> e.iteration]
<1>1. st \in Step
  BY DEF Step, Event
<1> HIDE DEF st
<1>2. /\ Len(Append(evs, e)) = Len(evs) + 1
      /\ Append(evs, e)[Len(evs) + 1] = e
      /\ \A i \in 1 .. Len(evs) : Append(evs, e)[i] = evs[i]
  OBVIOUS
<1>3. /\ Len(Append(stepList, st)) = Len(evs) + 1
      /\ Append(stepList, st)[Len(evs) + 1] = st
      /\ \A i \in 1 .. Len(evs) : Append(stepList, st)[i] = stepList[i]
  BY <1>1 DEF Mirrors
<1>4. ASSUME NEW i \in 1 .. Len(evs) + 1
      PROVE  Append(stepList, st)[i] =
               [agent |-> Append(evs, e)[i].agent, state |-> Append(evs, e)[i].output,
                iteration |-> Append(evs, e)[i].iteration]
  <2>1. CASE i = Len(evs) + 1
    BY <1>2, <1>3, <2>1 DEF st
  <2>2. CASE i \in 1 .. Len(evs)
    BY <1>2, <1>3, <2>2 DEF Mirrors
  <2>3. i = Len(evs) + 1 \/ i \in 1 .. Len(evs)
    OBVIOUS
  <2> QED
    BY <2>1, <2>2, <2>3
<1> QED
  BY <1>2, <1>3, <1>4 DEF Mirrors, st

(* Appending keeps a prefix. *)
LEMMA AppendExtends ==
    ASSUME NEW S, NEW new \in Seq(S), NEW e \in S, NEW T, NEW old \in Seq(T),
           Extends(new, old)
    PROVE  Extends(Append(new, e), old)
BY DEF Extends

-----------------------------------------------------------------------------
(* Type correctness. *)

(* The initial state has its type.                                         *)
LEMMA InitType == Init => TypeOK
BY DEF Init, TypeOK, Turns

(* Every step keeps the types.                                             *)
LEMMA NextType == TypeOK /\ [Next]_vars => TypeOK'
<1> SUFFICES ASSUME TypeOK, [Next]_vars PROVE TypeOK'
  OBVIOUS
<1> USE DEF TypeOK
<1>1. ASSUME NEW s \in States, NEW n \in Iterations, Run(s, n) PROVE TypeOK'
  BY <1>1 DEF Run, Enter, Turns, Iterations
<1>2. ASSUME NEW k \in Iterations, Resume(k) PROVE TypeOK'
  <2>1. result \in Result
    BY <1>2 DEF Resume, NoResult
  <2>2. /\ result.iterations \in Iterations /\ result.final \in States
        /\ result.steps \in Seq(Step) /\ result.events \in Seq(Event)
        /\ result.origin \in States
    BY <2>1 DEF Result
  <2> QED
    BY <1>2, <2>2 DEF Resume, Enter, Turns, Iterations
<1>3. CASE ResumeCompleted
  BY <1>3 DEF ResumeCompleted, vars
<1>4. ASSUME NEW s \in States, AgentReturns(s) PROVE TypeOK'
  <2>1. iteration \in Iterations
    BY <1>4 DEF AgentReturns, Iterations
  <2> QED
    BY <1>4, <2>1 DEF AgentReturns, Turns, Step, Event
<1>5. CASE CallRaises
  BY <1>5 DEF CallRaises, Leave, Turns
<1>6. CASE ReturnCompleted
  BY <1>6 DEF ReturnCompleted, Return, Leave, Turns, Iterations, Result
<1>7. CASE NextIteration
  BY <1>7 DEF NextIteration, Turns
<1>8. CASE ReturnFailed
  BY <1>8 DEF ReturnFailed, Return, Leave, Turns, Iterations, Result
<1>9. CASE UNCHANGED vars
  BY <1>9 DEF vars
<1> QED
  BY <1>1, <1>2, <1>3, <1>4, <1>5, <1>6, <1>7, <1>8, <1>9 DEF Next, Call, Work

(* Every variable keeps its type (see TypeOK). *)
THEOREM TypeCorrect == Spec => []TypeOK
<1>1. Init => TypeOK
  BY InitType
<1>2. TypeOK /\ [Next]_vars => TypeOK'
  BY NextType
<1> QED
  BY <1>1, <1>2, PTL DEF Spec

-----------------------------------------------------------------------------
(* The inductive invariant: the call in progress, and what the caller      *)
(* holds.                                                                  *)

ResultOK == ResultIsWhole /\ StepsMirrorEvents /\ StopsAtFirstAcceptance
LoopInv == TypeOK /\ CallInProgress /\ ResultOK

(* The invariant holds initially.                                          *)
LEMMA InitInv == Init => CallInProgress /\ ResultOK
BY DEF Init, CallInProgress, ResultOK, ResultIsWhole, StepsMirrorEvents,
       StopsAtFirstAcceptance

(* The parts of a held result, typed. *)
LEMMA ResultTypes ==
    ASSUME TypeOK, result # NoResult
    PROVE  /\ result \in Result
           /\ result.status \in {"completed", "failed"}
           /\ result.iterations \in Iterations
           /\ result.final \in Strings /\ result.origin \in States
           /\ result.steps \in Seq(Step) /\ result.events \in Seq(Event)
BY DEF TypeOK, Result

(* A run starts with an empty history, which is chained. *)
LEMMA RunInv ==
    ASSUME LoopInv, NEW s \in States, NEW n \in Iterations, Run(s, n)
    PROVE  CallInProgress' /\ ResultOK'
<1>1. CallInProgress'
  <2>1. /\ phase' = "agents" /\ method' = "run" /\ iteration' = 1 /\ turn' = 1
        /\ limit' = n /\ steps' = << >> /\ events' = << >>
        /\ origin' = s /\ state' = s
    BY DEF Run, Enter
  <2>2. Chained(<< >>, s, s) /\ Mirrors(<< >>, << >>) /\ NeverAccepted(<< >>, 0)
    BY DEF Chained, Mirrors, NeverAccepted
  <2>3. ReachesTurn(<< >>, 1, 1)
    BY DEF ReachesTurn
  <2> QED
    BY <2>1, <2>2, <2>3 DEF CallInProgress, Iterations
<1>2. ResultOK'
  BY DEF LoopInv, Run, Enter, ResultOK, ResultIsWhole, StepsMirrorEvents,
         StopsAtFirstAcceptance
<1> QED
  BY <1>1, <1>2

(* A resume starts where the failed result ended: its history reaches the  *)
(* first turn of the iteration after the last one.                         *)
LEMMA ResumeInv ==
    ASSUME LoopInv, NEW k \in Iterations, Resume(k)
    PROVE  CallInProgress' /\ ResultOK'
<1>1. result # NoResult
  BY DEF Resume, NoResult
<1>2. /\ result.iterations \in Iterations
      /\ result.steps \in Seq(Step) /\ result.events \in Seq(Event)
  BY <1>1, ResultTypes DEF LoopInv
<1>3. /\ phase' = "agents" /\ method' = "resume" /\ turn' = 1
      /\ iteration' = result.iterations + 1
      /\ limit' = result.iterations + k
      /\ steps' = result.steps /\ events' = result.events
      /\ origin' = result.origin /\ state' = result.final
      /\ result' = result /\ result.status = "failed"
  BY DEF Resume, Enter
<1>4. /\ Chained(result.events, result.origin, result.final)
      /\ EndsAt(result.events, NumAgents, result.iterations)
      /\ Mirrors(result.steps, result.events)
      /\ NeverAccepted(result.events, Len(result.events) - 1)
      /\ result.final \notin Accepted
  BY <1>1, <1>3 DEF LoopInv, ResultOK, ResultIsWhole, StepsMirrorEvents,
                    StopsAtFirstAcceptance
<1>5. NeverAccepted(result.events, Len(result.events))
  <2>1. result.events # << >> /\ result.events[Len(result.events)].output = result.final
    BY <1>4 DEF Chained, EndsAt
  <2> QED
    BY <1>2, <1>4, <2>1 DEF NeverAccepted
<1>6. ReachesTurn(result.events, 1, result.iterations + 1)
  BY <1>2, <1>4 DEF ReachesTurn, Iterations
<1>7. Extends(result.events, result.events) /\ Extends(result.steps, result.steps)
  BY <1>2 DEF Extends
<1>8. CallInProgress'
  BY <1>2, <1>3, <1>4, <1>5, <1>6, <1>7 DEF CallInProgress, Iterations
<1>9. ResultOK'
  BY <1>3 DEF LoopInv, ResultOK, ResultIsWhole, StepsMirrorEvents,
              StopsAtFirstAcceptance
<1> QED
  BY <1>8, <1>9

(* A turn appends the event of the turn the history has reached. *)
LEMMA AgentInv ==
    ASSUME LoopInv, NEW s \in States, AgentReturns(s)
    PROVE  CallInProgress' /\ ResultOK'
<1> DEFINE e == [agent |-> turn, iteration |-> iteration, input |-> state, output |-> s]
           st == [agent |-> turn, state |-> s, iteration |-> iteration]
<1>1. /\ phase = "agents" /\ state' = s
      /\ steps' = Append(steps, st) /\ events' = Append(events, e)
      /\ UNCHANGED <<method, iteration, limit, result, origin>>
      /\ \/ turn < NumAgents /\ turn' = turn + 1 /\ phase' = "agents"
         \/ turn = NumAgents /\ turn' = turn /\ phase' = "validator"
  BY DEF AgentReturns, LoopInv, TypeOK, Turns
<1>2. /\ s \in Strings
      /\ turn \in Turns /\ iteration \in Iterations /\ state \in States
      /\ steps \in Seq(Step) /\ events \in Seq(Event) /\ origin \in States
      /\ result # NoResult =>
            result.steps \in Seq(Step) /\ result.events \in Seq(Event)
  BY <1>1, ResultTypes DEF AgentReturns, LoopInv, TypeOK, Iterations
<1>3. /\ iteration <= limit
      /\ Chained(events, origin, state) /\ Mirrors(steps, events)
      /\ ReachesTurn(events, turn, iteration)
      /\ NeverAccepted(events, Len(events))
      /\ method = "resume" =>
            /\ result.status = "failed" /\ iteration > result.iterations
            /\ Extends(events, result.events) /\ Extends(steps, result.steps)
  BY <1>1 DEF LoopInv, CallInProgress
<1>4. e \in Event /\ st \in Step
  BY <1>2 DEF Event, Step
<1>5. Chained(events', origin, s) /\ EndsAt(events', turn, iteration)
  BY <1>1, <1>2, <1>3, AppendChained
<1>6. Mirrors(steps', events')
  <2>1. st = [agent |-> e.agent, state |-> e.output, iteration |-> e.iteration]
    OBVIOUS
  <2> HIDE DEF e, st
  <2> QED
    BY <1>1, <1>2, <1>3, <1>4, <2>1, AppendMirrors
<1>7. method = "resume" =>
          Extends(events', result.events) /\ Extends(steps', result.steps)
  <2> HIDE DEF e, st
  <2>1. ASSUME method = "resume" PROVE result # NoResult
    BY <1>3, <2>1 DEF NoResult
  <2> QED
    BY <1>1, <1>2, <1>3, <1>4, <2>1, AppendExtends
<1>8. /\ Len(events') = Len(events) + 1
      /\ events'[Len(events) + 1] = e
      /\ \A i \in 1 .. Len(events) : events'[i] = events[i]
  BY <1>1, <1>2, <1>4
<1>9. NeverAccepted(events', Len(events') - 1)
  BY <1>2, <1>3, <1>8 DEF NeverAccepted
<1>10. turn < NumAgents => NeverAccepted(events', Len(events'))
  BY <1>2, <1>3, <1>8 DEF NeverAccepted, Turns
<1>11. turn < NumAgents => ReachesTurn(events', turn + 1, iteration)
  BY <1>2, <1>5 DEF ReachesTurn, Turns
<1> HIDE DEF e, st
<1>12. CallInProgress'
  BY <1>1, <1>3, <1>5, <1>6, <1>7, <1>9, <1>10, <1>11 DEF CallInProgress
<1>13. ResultOK'
  BY <1>1 DEF LoopInv, ResultOK, ResultIsWhole, StepsMirrorEvents,
              StopsAtFirstAcceptance
<1> QED
  BY <1>12, <1>13

(* After a refusal the history reaches the first turn of the next          *)
(* iteration.                                                              *)
LEMMA NextIterationInv ==
    ASSUME LoopInv, NextIteration
    PROVE  CallInProgress' /\ ResultOK'
<1>1. /\ phase = "validator" /\ state \notin Accepted /\ iteration < limit
      /\ phase' = "agents" /\ iteration' = iteration + 1 /\ turn' = 1
      /\ UNCHANGED <<method, limit, state, steps, events, result, origin>>
  BY DEF NextIteration
<1>2. /\ Chained(events, origin, state) /\ Mirrors(steps, events)
      /\ EndsAt(events, NumAgents, iteration)
      /\ NeverAccepted(events, Len(events) - 1)
  BY <1>1 DEF LoopInv, CallInProgress
<1>3. events \in Seq(Event) /\ iteration \in Iterations /\ limit \in Nat
  BY <1>1 DEF LoopInv, TypeOK, Iterations
<1>4. NeverAccepted(events, Len(events))
  <2>1. events # << >> /\ events[Len(events)].output = state
    BY <1>2 DEF Chained, EndsAt
  <2> QED
    BY <1>1, <1>2, <1>3, <2>1 DEF NeverAccepted
<1>5. ReachesTurn(events, 1, iteration + 1)
  BY <1>2, <1>3 DEF ReachesTurn, Iterations
<1>6. method = "resume" => result.iterations \in Iterations
  BY <1>1, ResultTypes DEF LoopInv, CallInProgress, NoResult
<1>7. CallInProgress'
  BY <1>1, <1>2, <1>3, <1>4, <1>5, <1>6 DEF CallInProgress, LoopInv, Iterations
<1>8. ResultOK'
  BY <1>1 DEF LoopInv, ResultOK, ResultIsWhole, StepsMirrorEvents,
              StopsAtFirstAcceptance
<1> QED
  BY <1>7, <1>8

(* What a call returns is a history that has come to its end. *)
LEMMA ReturnInv ==
    ASSUME LoopInv, ReturnCompleted \/ ReturnFailed
    PROVE  /\ CallInProgress' /\ ResultOK'
           /\ result'.events = events /\ result'.steps = steps
           /\ result'.iterations \in iteration .. limit
<1>1. PICK status \in {"completed", "failed"}, n \in Iterations :
        /\ phase = "validator" /\ n = iteration /\ n <= limit
        /\ Return(status, n)
        /\ status = "completed" <=> state \in Accepted
  <2>1. CASE ReturnCompleted
    BY <2>1 DEF ReturnCompleted, LoopInv, TypeOK, CallInProgress, Iterations
  <2>2. CASE ReturnFailed
    <3>1. phase = "validator" /\ iteration = limit /\ iteration \in Iterations
      BY <2>2 DEF ReturnFailed, LoopInv, TypeOK, CallInProgress, Iterations
    <3>2. Return("failed", iteration) /\ state \notin Accepted
      BY <2>2, <3>1 DEF ReturnFailed
    <3> QED
      BY <3>1, <3>2 DEF Iterations
  <2> QED
    BY <2>1, <2>2
<1>2. /\ phase' = "idle"
      /\ result' = [status |-> status, iterations |-> n, steps |-> steps,
                    events |-> events, final |-> state, origin |-> origin]
  BY <1>1 DEF Return, Leave
<1>3. /\ Chained(events, origin, state) /\ Mirrors(steps, events)
      /\ EndsAt(events, NumAgents, n)
      /\ NeverAccepted(events, Len(events) - 1)
  BY <1>1 DEF LoopInv, CallInProgress
<1>4. CallInProgress'
  BY <1>2 DEF CallInProgress
<1>5. ResultOK'
  BY <1>1, <1>2, <1>3 DEF ResultOK, ResultIsWhole, StepsMirrorEvents,
                          StopsAtFirstAcceptance
<1>6. n \in iteration .. limit
  BY <1>1 DEF LoopInv, TypeOK, Iterations
<1> QED
  BY <1>2, <1>4, <1>5, <1>6

(* Every step keeps the invariant.                                         *)
LEMMA NextInv == LoopInv /\ [Next]_vars => LoopInv'
<1> SUFFICES ASSUME LoopInv, [Next]_vars PROVE LoopInv'
  OBVIOUS
<1>1. TypeOK'
  BY NextType DEF LoopInv
<1>2. CallInProgress' /\ ResultOK'
  <2>1. ASSUME NEW s \in States, NEW n \in Iterations, Run(s, n)
        PROVE  CallInProgress' /\ ResultOK'
    BY <2>1, RunInv
  <2>2. ASSUME NEW k \in Iterations, Resume(k)
        PROVE  CallInProgress' /\ ResultOK'
    BY <2>2, ResumeInv
  <2>3. ASSUME NEW s \in States, AgentReturns(s)
        PROVE  CallInProgress' /\ ResultOK'
    BY <2>3, AgentInv
  <2>4. CASE CallRaises
    BY <2>4 DEF CallRaises, Leave, LoopInv, CallInProgress, ResultOK,
                ResultIsWhole, StepsMirrorEvents, StopsAtFirstAcceptance
  <2>5. CASE ReturnCompleted \/ ReturnFailed
    BY <2>5, ReturnInv
  <2>6. CASE NextIteration
    BY <2>6, NextIterationInv
  <2>7. CASE ResumeCompleted \/ UNCHANGED vars
    BY <2>7 DEF ResumeCompleted, vars, LoopInv, CallInProgress, ResultOK,
                ResultIsWhole, StepsMirrorEvents, StopsAtFirstAcceptance
  <2> QED
    BY <2>1, <2>2, <2>3, <2>4, <2>5, <2>6, <2>7 DEF Next, Call, Work
<1> QED
  BY <1>1, <1>2 DEF LoopInv

(* The invariant holds in every state that can be reached.                 *)
LEMMA Invariance == Spec => []LoopInv
<1>1. Init => LoopInv
  BY InitType, InitInv DEF LoopInv
<1> QED
  BY <1>1, NextInv, PTL DEF Spec

(* Every result the loop returns is a whole history of whole iterations    *)
(* (see ResultIsWhole).                                                    *)
THEOREM ResultsAreWhole == Spec => []ResultIsWhole
<1>1. LoopInv => ResultIsWhole
  BY DEF LoopInv, ResultOK
<1> QED
  BY <1>1, Invariance, PTL

(* The two records _run keeps, steps and events, tell the same turns also  *)
(* across resumes (see StepsMirrorEvents).                                 *)
THEOREM RecordsAgree == Spec => []StepsMirrorEvents
<1>1. LoopInv => StepsMirrorEvents
  BY DEF LoopInv, ResultOK
<1> QED
  BY <1>1, Invariance, PTL

(* The loop stops at the first iteration the validator accepts, whichever  *)
(* call executed it (see StopsAtFirstAcceptance).                          *)
THEOREM FirstAcceptanceStops == Spec => []StopsAtFirstAcceptance
<1>1. LoopInv => StopsAtFirstAcceptance
  BY DEF LoopInv, ResultOK
<1> QED
  BY <1>1, Invariance, PTL

(* What a call in progress has built reaches exactly the turn about to be  *)
(* taken (see CallInProgress).                                             *)
THEOREM CallStaysOnTrack == Spec => []CallInProgress
<1>1. LoopInv => CallInProgress
  BY DEF LoopInv
<1> QED
  BY <1>1, Invariance, PTL

(* A call of resume that returns something new has kept the failed result  *)
(* it was given.                                                           *)
LEMMA ResumedResult ==
    ASSUME LoopInv, [Next]_vars, result' # result, method = "resume"
    PROVE  /\ result.status = "failed"
           /\ Extends(result'.events, result.events)
           /\ Extends(result'.steps, result.steps)
           /\ result'.iterations \in result.iterations + 1 .. limit
<1>1. ReturnCompleted \/ ReturnFailed
  BY DEF Next, Call, Work, Run, Resume, Enter, ResumeCompleted, AgentReturns,
         CallRaises, NextIteration, vars
<1>2. /\ result'.events = events /\ result'.steps = steps
      /\ result'.iterations \in iteration .. limit
  BY <1>1, ReturnInv
<1>3. /\ result.status = "failed" /\ iteration > result.iterations
      /\ Extends(events, result.events) /\ Extends(steps, result.steps)
  BY <1>1 DEF ReturnCompleted, ReturnFailed, LoopInv, CallInProgress
<1>4. result.iterations \in Iterations /\ iteration \in Nat /\ limit \in Nat
  BY <1>3, ResultTypes DEF LoopInv, TypeOK, NoResult
<1> QED
  BY <1>2, <1>3, <1>4 DEF Iterations

(* A resume only ever adds iterations to a failed result (ResumeExtends).  *)
THEOREM ResumeOnlyExtends == Spec => ResumeExtends
<1> DEFINE Extension ==
      (result' # result /\ method = "resume") =>
          /\ result.status = "failed"
          /\ Extends(result'.events, result.events)
          /\ Extends(result'.steps, result.steps)
          /\ result'.iterations \in result.iterations + 1 .. limit
<1>1. LoopInv /\ [Next]_vars => [Extension]_vars
  BY ResumedResult
<1> QED
  BY <1>1, Invariance, PTL DEF Spec, ResumeExtends
=============================================================================
