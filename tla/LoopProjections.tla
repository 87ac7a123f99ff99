-------------------------- MODULE LoopProjections --------------------------
(***************************************************************************)
(* The read-only views the other modules of digital_fte compute from one   *)
(* LoopResult: its timeline (run_timeline.py), its validation              *)
(* (loop_validation.py) and its metrics (loop_health.py,                   *)
(* loop_health_summary.py, loop_audit.py, agent_summary.py,                *)
(* iteration_summary.py, agent_transitions.py, loop_metrics.py).  They are *)
(* functions of the result; the properties are about every result the loop *)
(* can return, so this module extends LoopOrchestrator.  A view that looks *)
(* at agent.name is taken of the named result, under every naming.         *)
(***************************************************************************)
EXTENDS LoopOrchestrator, FiniteSets, Lists

CONSTANT BlankNames     \* the names that strip() leaves nothing of

ASSUME BlankNamesAssumption == BlankNames \subseteq Names

-----------------------------------------------------------------------------
(* run_timeline.py *)

None == "none"         \* Python's None, which no run starts with

ASSUME NoneAssumption == None \notin States

NoAgent == 0
NoIteration == 0

(* A TimelineEvent at the end of `line`: its sequence is its position. *)
Marker(line, i, kind, to) ==
    [sequence |-> Len(line), iteration |-> i, kind |-> kind, agent |-> NoAgent,
     from |-> None, to |-> to, changed |-> FALSE]

(* A faulty variant of Acted: the state before is the state after.         *)
ActedAfterwards(line, e) ==
    [sequence |-> Len(line), iteration |-> e.iteration, kind |-> "agent_acted",
     agent |-> e.agent, from |-> e.output, to |-> e.output,
     changed |-> e.input # e.output]

Acted(line, e) ==
    [sequence |-> Len(line), iteration |-> e.iteration, kind |-> "agent_acted",
     agent |-> e.agent, from |-> e.input, to |-> e.output,
     changed |-> e.input # e.output]

Close(line, open) ==
    IF open = NoIteration THEN line
    ELSE Append(line, Marker(line, open, "iteration_completed", None))

(* A faulty variant of AddEvent: the iteration before is not completed.    *)
AddEventUnclosed(acc, e) ==
    LET begun == IF acc.open = e.iteration THEN acc.line
                 ELSE Append(acc.line,
                             Marker(acc.line, e.iteration, "iteration_started", None))
    IN  [line |-> Append(begun, Acted(begun, e)), open |-> e.iteration]

(* One turn of the loop over the events; `open` is the local               *)
(* open_iteration.                                                         *)
AddEvent(acc, e) ==
    LET closed == Close(acc.line, acc.open)
        begun == IF acc.open = e.iteration THEN acc.line
                 ELSE Append(closed, Marker(closed, e.iteration, "iteration_started", None))
    IN  [line |-> Append(begun, Acted(begun, e)), open |-> e.iteration]

Timeline(r) ==
    LET first == IF r.events = << >> THEN 0 ELSE r.events[1].iteration
        initial == IF r.events = << >> THEN r.final ELSE r.events[1].input
        opening == [line |-> <<Marker(<< >>, first, "run_started", initial)>>,
                    open |-> NoIteration]
        after[n \in 0 .. Len(r.events)] ==
            IF n = 0 THEN opening ELSE AddEvent(after[n - 1], r.events[n])
        body == after[Len(r.events)]
        line == Close(body.line, body.open)
        last == IF body.open = NoIteration THEN first ELSE body.open
        kind == IF r.status = "completed" THEN "run_completed" ELSE "run_failed"
    IN  Append(line, Marker(line, last, kind, r.final))

FilterTimeline(line, kind) == Selected(line, {k \in DOMAIN line : line[k].kind = kind})

TimelineKinds == {"run_started", "iteration_started", "agent_acted",
                  "iteration_completed", "run_completed", "run_failed"}

(* What TimelineEvent accepts. *)
EventOk(t) ==
    /\ t.sequence >= 0
    /\ t.iteration >= 0
    /\ t.kind \in TimelineKinds
    /\ IF t.kind = "agent_acted"
       THEN t.agent # NoAgent /\ t.changed = (t.from # t.to)
       ELSE t.agent = NoAgent

DigitCount(n) ==
    CHOOSE d \in 1 .. n + 1 : n < Power(10, d) /\ \A c \in 1 .. d - 1 : n >= Power(10, c)

(* n printed with at least `width` digits, the first digit first. *)
ZeroPadded(n, width) ==
    LET w == IF DigitCount(n) < width THEN width ELSE DigitCount(n)
    IN  [k \in 1 .. w |-> (n \div Power(10, w - k)) % 10]

(* render_timeline: a line is its prefix and what the arrow or the colon   *)
(* after it leads to.                                                      *)
RenderTimeline(line) ==
    LET width == IF line = << >> THEN 1 ELSE DigitCount(Len(line) - 1)
    IN  [k \in DOMAIN line |->
            LET t == line[k]
            IN  [prefix |-> ZeroPadded(t.sequence, width), kind |-> t.kind,
                 sign |-> IF t.kind = "agent_acted"
                          THEN IF t.changed THEN "->" ELSE "=="
                          ELSE IF t.to # None THEN ":" ELSE None,
                 to |-> t.to]]

-----------------------------------------------------------------------------
(* loop_validation.py: the issues of a named result. *)
Issues(r) ==
    {i \in {"invalid status", "iterations must be positive",
            "steps and events differ in length", "event agent is empty",
            "event iteration is invalid", "event state is invalid"} :
        CASE i = "invalid status" -> r.status \notin {"completed", "failed"}
          [] i = "iterations must be positive" -> r.iterations < 1
          [] i = "steps and events differ in length" -> Len(r.steps) # Len(r.events)
          [] i = "event agent is empty" ->
                \E k \in DOMAIN r.events : r.events[k].agent \in BlankNames
          [] i = "event iteration is invalid" ->
                \E k \in DOMAIN r.events : r.events[k].iteration < 1
          [] i = "event state is invalid" ->
                \E k \in DOMAIN r.events :
                    r.events[k].input \notin Strings \/ r.events[k].output \notin Strings}

-----------------------------------------------------------------------------
(* The metrics. *)
Changed(e) == e.output # e.input
CountOf(s, Test(_)) == Cardinality({k \in DOMAIN s : Test(s[k])})
AgentsOf(s) == {s[k].agent : k \in DOMAIN s}

Health(r) ==
    [iterations |-> r.iterations, events |-> Len(r.events),
     agents |-> Cardinality(AgentsOf(r.events)),
     changes |-> CountOf(r.events, Changed),
     completed |-> r.status = "completed",
     unique |-> Cardinality({r.final} \cup {r.events[k].input : k \in DOMAIN r.events}
                             \cup {r.events[k].output : k \in DOMAIN r.events})]

HealthIssues(h) ==
    UNION {IF h.completed /\ h.iterations > 1 /\ h.events = 0
           THEN {"iterations completed without events"} ELSE {},
           IF ~h.completed THEN {"loop did not complete"} ELSE {},
           IF h.events > 0 /\ h.changes = 0 THEN {"no state changes observed"} ELSE {},
           IF h.agents = 0 /\ (~h.completed \/ h.iterations > 1)
           THEN {"no agents observed"} ELSE {}}

(* A faulty variant of Healthy: a failed loop is healthy if it tried.      *)
HealthyIfChanged(h) == HealthIssues(h) \subseteq {"loop did not complete"}

Healthy(h) == HealthIssues(h) = {}

Audit(r) ==
    [iterations |-> r.iterations, steps |-> Len(r.steps), events |-> Len(r.events),
     status |-> r.status, agents |-> AgentsOf(r.steps)]

(* Per agent and per iteration: the two groupings of the same events. *)
AgentSummary(r) ==
    [a \in AgentsOf(r.events) |->
        LET Mine(e) == e.agent = a
            MineChanged(e) == e.agent = a /\ Changed(e)
        IN  [executions |-> CountOf(r.events, Mine),
             changes |-> CountOf(r.events, MineChanged)]]

IterationSummary(r) ==
    [i \in {r.events[k].iteration : k \in DOMAIN r.events} |->
        LET group == {k \in DOMAIN r.events : r.events[k].iteration = i}
        IN  [events |-> Cardinality(group),
             agents |-> Cardinality({r.events[k].agent : k \in group}),
             changes |-> Cardinality({k \in group : Changed(r.events[k])})]]

(* How often agent b acts right after agent a, and how many pairs there are. *)
Transitions(r) ==
    [pair \in {<<r.events[k].agent, r.events[k + 1].agent>> : k \in 1 .. Len(r.events) - 1} |->
        Cardinality({k \in 1 .. Len(r.events) - 1 :
                        <<r.events[k].agent, r.events[k + 1].agent>> = pair})]

(* A faulty variant of TransitionCount: one transition per event.          *)
TransitionPerEvent(r) == Len(r.events)

TransitionCount(r) == IF Len(r.events) = 0 THEN 0 ELSE Len(r.events) - 1

(* loop_metrics.py, of a batch of results; a ratio is <<numerator,         *)
(* denominator>>, its rounding left out.                                   *)
Ratio(numerator, denominator) ==
    IF denominator = 0 THEN <<0, 1>> ELSE <<numerator, denominator>>

Same(p, q) == p[1] * q[2] = q[1] * p[2]

LoopMetrics(rs) ==
    LET completed == {k \in DOMAIN rs : rs[k].status = "completed"}
        successes == Cardinality(completed)
        allIterations == Total([k \in DOMAIN rs |-> rs[k].iterations])
        allEvents == Total([k \in DOMAIN rs |-> Len(rs[k].events)])
    IN  [runs |-> Len(rs), successes |-> successes, failures |-> Len(rs) - successes,
         successRate |-> Ratio(successes, Len(rs)),
         totalIterations |-> allIterations,
         avgIterations |-> Ratio(allIterations, Len(rs)),
         avgIterationsToSuccess |->
            Ratio(Total([k \in completed |-> rs[k].iterations]), successes),
         totalEvents |-> allEvents,
         throughput |-> Ratio(allEvents, allIterations)]

-----------------------------------------------------------------------------
(* The positions of `line` that hold a given kind of a given iteration. *)
At(line, kind, i) ==
    {k \in DOMAIN line : line[k].kind = kind /\ line[k].iteration = i}

(* A timeline is bracketed: "always opens with a run_started marker and    *)
(* closes with a single terminal event"; every iteration of the result,    *)
(* resumed or not, is opened once and closed once, the iterations do not   *)
(* overlap, and all of an iteration's turns are inside it.                 *)
TimelineBracketed ==
    result # NoResult =>
        LET line == Timeline(result)
            Opens(i) == At(line, "iteration_started", i)
            Closes(i) == At(line, "iteration_completed", i)
        IN  /\ \A k \in DOMAIN line :
                  /\ EventOk(line[k])
                  /\ line[k].sequence = k - 1
                  /\ line[k].kind = "run_started" <=> k = 1
                  /\ line[k].kind \in {"run_completed", "run_failed"} <=> k = Len(line)
            /\ \A i \in 1 .. result.iterations :
                  \E a, b \in DOMAIN line :
                      /\ Opens(i) = {a} /\ Closes(i) = {b}
                      /\ At(line, "agent_acted", i) = a + 1 .. b - 1
                      /\ i < result.iterations => Opens(i + 1) = {b + 1}
            /\ line[Len(line)].iteration = result.iterations

(* Before(s, t): s comes first when lines are sorted as texts. *)
Before(s, t) ==
    \E k \in DOMAIN s : /\ k \in DOMAIN t
                         /\ s[k] < t[k]
                         /\ \A j \in 1 .. k - 1 : s[j] = t[j]

(* The timeline loses no turn: its agent_acted entries are the events, and *)
(* its lines "sort lexicographically into execution order", beyond ten of  *)
(* them too, each telling a turn that changed the state from one that did  *)
(* not.                                                                    *)
TimelineReplays ==
    result # NoResult =>
        LET line == Timeline(result)
            acts == FilterTimeline(line, "agent_acted")
        IN  /\ [k \in DOMAIN acts |->
                   [agent |-> acts[k].agent, iteration |-> acts[k].iteration,
                    input |-> acts[k].from, output |-> acts[k].to]] = result.events
            /\ LET text == RenderTimeline(line)
               IN  /\ \A k \in 1 .. Len(text) - 1 :
                         Before(text[k].prefix, text[k + 1].prefix)
                   /\ \A k \in DOMAIN text :
                         text[k].sign = "->" <=>
                             line[k].kind = "agent_acted" /\ line[k].from # line[k].to

(* "to_state: State produced by an agent_acted event, else None", says the *)
(* class docstring: an entry of the timeline that is no agent's turn tells *)
(* no state.                                                               *)
OnlyTurnsTellStates ==
    result # NoResult =>
        LET line == Timeline(result)
        IN  \A k \in DOMAIN line : line[k].to # None => line[k].kind = "agent_acted"

(* loop_validation finds with a result what the loop leaves unchecked, and *)
(* nothing else: an agent without a name, and an initial state that is not *)
(* a string.  loop_health_summary calls a result healthy exactly when the  *)
(* loop has completed and an agent did change the state.                   *)
VerdictsRight ==
    result # NoResult =>
        \A name \in Namings :
            LET r == Named(result, name)
            IN  /\ Issues(r) \subseteq {"event agent is empty", "event state is invalid"}
                /\ "event agent is empty" \in Issues(r) <=>
                      \E t \in Turns : name[t] \in BlankNames
                /\ "event state is invalid" \in Issues(r) <=> result.origin \notin Strings
                /\ Healthy(Health(r)) <=>
                      /\ result.status = "completed"
                      /\ \E k \in DOMAIN result.events : Changed(result.events[k])

(* The turns of the agents called a: more than one if names repeat. *)
Namesakes(name, a) == {t \in Turns : name[t] = a}

(* The views agree with each other on every result, although each counts   *)
(* on its own: per name, per iteration and in all the same events and      *)
(* changes, every agent once per iteration, agents that share a name       *)
(* counted together by every view alike, and one transition less than      *)
(* events; so the fleet's throughput over any batch of such results is the *)
(* number of agents, and its averages are the result's.                    *)
ViewsAgree ==
    result # NoResult =>
        \A name \in Namings :
            LET r == Named(result, name)
                names == {name[t] : t \in Turns}
                h == Health(r)
                byAgent == AgentSummary(r)
                byIteration == IterationSummary(r)
            IN  /\ DOMAIN byIteration = 1 .. r.iterations
                /\ \A i \in DOMAIN byIteration :
                      /\ byIteration[i].events = NumAgents
                      /\ byIteration[i].agents = Cardinality(names)
                /\ DOMAIN byAgent = names
                /\ \A a \in names :
                      byAgent[a].executions = r.iterations * Cardinality(Namesakes(name, a))
                /\ Total([a \in DOMAIN byAgent |-> byAgent[a].changes]) = h.changes
                /\ Total([i \in DOMAIN byIteration |-> byIteration[i].changes]) = h.changes
                /\ Total(Transitions(r)) = TransitionCount(r)
                /\ h.agents = Cardinality(names)
                /\ Audit(r).agents = names
                /\ Audit(r).steps = h.events
                /\ h.unique <= h.changes + 1
                /\ \A n \in 0 .. 2 :
                      LET m == LoopMetrics([k \in 1 .. n |-> r])
                      IN  /\ m.totalEvents = NumAgents * m.totalIterations
                          /\ m.totalEvents = n * h.events
                          /\ m.failures = (IF h.completed THEN 0 ELSE n)
                          /\ n > 0 => /\ Same(m.throughput, <<NumAgents, 1>>)
                                      /\ Same(m.avgIterations, <<h.iterations, 1>>)
                                      /\ Same(m.avgIterationsToSuccess,
                                              <<h.iterations, 1>>) <=> h.completed
                                      /\ Same(m.successRate, <<1, 1>>) <=> h.completed
=============================================================================
