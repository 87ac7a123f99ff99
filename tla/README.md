# digital_fte: specification and verification

This directory holds TLA+ models of the digital_fte agent, the TLC runs that check them
and TLAPS proofs about them. Paths such as `loop.py` are relative to
`src/digital_fte/`.

## 1. The system

digital_fte is a Python package of small libraries around one agent loop, and a command
line. Its parts, what they remember, and who calls whom:

| part | state | operations | used by |
|---|---|---|---|
| agent loop (`loop.py`) | the locals of `_run`: iteration, limit, state, step and event lists; the caller's `LoopResult` | `run`, `resume` | cli |
| loop state store (`state_store.py`) | a directory: `<id>.json`, `<id>.json.tmp` | `save`, `load`, `load_all`, `list_task_ids` | cli |
| command line (`cli.py`) | none of its own; every command is a process | `run`, `loop`, `resume`, `status` | the user |
| outcome report (`loop_outcomes.py`, `loop_health_report.py`, `loop_report_schema.py`) | none | count, round, export, validate | cli `status` |
| views of a result (`run_timeline.py`, `loop_validation.py`, `loop_health.py`, `loop_health_summary.py`, `loop_audit.py`, `agent_summary.py`, `iteration_summary.py`, `agent_transitions.py`, `loop_metrics.py`) | none | pure functions of a `LoopResult` | callers of the package |
| circuit breaker (`circuit_breaker.py`) | state, streaks, probe slots, opening time, counters | `call`, `record_success`, `record_failure`, `reset`, `allows_call`, `snapshot` | callers of the package |
| queues (`task_queue.py`, `priority_queue.py`, `dead_letter_queue.py`) | ordered entries, keys, ids | push/pop/drain, record/remove/drain | callers of the package |
| what is done with a list of tasks (`batcher.py`, `task_filter.py`, `fanout_merge.py`) | none | batch, filter, partition, merge | callers of the package |
| budgets and limits (`retry_budget.py`, `token_budget.py`, `concurrency_limiter.py`, `backpressure.py`) | counters under caps, a throttle between two marks | spend, reserve/commit/release, acquire/release, observe | callers of the package |
| retries (`retry_policy.py`, `exponential_backoff.py`, `jitter.py`, `retry_classifier.py`, `error_taxonomy.py`) | the locals of one `execute`: attempt, failures | `execute` | callers of the package |
| timed parts (`rate_limiter.py`, `ttl_cache.py`, `lease.py`, `deadline.py`, `timeout_guard.py`, `heartbeat.py`, `stale_reaper.py`, `sliding_window_rate.py`, `queue_depth.py`) | levels and stamps against a clock | try_acquire, add, renew, ... | callers of the package |
| checkpoints (`checkpoint.py`, `resume_token.py`, `transition_guard.py`) | a sequence of positions, the state of a lifecycle | advance, encode/decode, transition | callers of the package |
| audit log, state diff (`audit_log.py`, `state_diff.py`, `loop_telemetry.py`) | none | projections of one result, or of two | callers of the package |
| task engine (`engine.py`, `parser.py`, `models.py`) | per text a dashboard file and a log, in the vault | `process` | cli `run` |
| statistics, parsing, identifiers, inbox watcher | see `PROJECT.json` | | |

**Interactions.** The command line is the only place where parts meet at run time:
`loop` runs the orchestrator and saves its result; `resume` loads a result, resumes it and
saves it; `status` lists and loads every result, counts the outcomes and prints a report
that must pass the schema; `run` reads a task file and has the engine write its two files. Commands
share nothing but the directory (`run`: the vault), and each is a process of its own that may be
killed. Everything else is a library that is handed a
`LoopResult` or is used alone. Nothing in the package takes a lock.

**What is hard.** (1) A result is carried through several calls: `resume` continues with
the old tuples, the next iteration and a limit counted from the old total. (2) Processes
overlap in one directory, in which `save` uses one temporary name per task. (3) A process
dies between opening, writing and renaming. (4) `status` reads a directory that changes
while it reads. (5) Calls through one circuit breaker overlap, and end in a state of the
breaker other than the one that admitted them; an open breaker moves on lazily, whenever
someone looks. (6) Six modules count the same events, each in its own way, and six others
judge the same silence, some with `>` and some with `>=`. (7) A promise is kept across calls of others: a
reservation, a told waiting time, the window of a key. (8) The time is handed in by the caller
or by an injected clock, and may step back. (9) A log or a token comes back damaged. The
list with lines is in `PROJECT.json`, "hazards".

**What makes the parts correct.**

* loop: the result is one history without gaps or repeats, over all resumes; steps and
  events agree; it stops at the first accepted iteration; an exception leaves the caller's
  result usable; every call ends.
* store and commands: a snapshot can be restored whenever there is one, whatever is
  killed; tasks do not touch each other's files; with one command per task at a time,
  the store is an atomic register that only moves forward.
* report: the printed counts bracket the loops that were failed while it was made; every
  outcome can be reported.
* task engine: running a task again repairs whatever earlier runs left; the log never claims
  more than the dashboard shows.
* views: the timeline is bracketed and loses nothing; the verdicts are right; the counts
  of the six modules agree.
* breaker: live fields fit the state; no slot leaks; probes are capped; counters add up;
  the cooldown is respected and ends.
* queues: the order served is the order promised, nothing is lost or duplicated, ids are
  unique; batches, filters and merges keep every task and its order.
* budgets and limits: no cap is passed; what was granted can always be returned or
  committed; backpressure never flaps within its band.
* retries: attempts, sleeps and records agree however a call ends, and it ends.
* timed parts: nothing is granted before or after its time, a clock that steps back gains
  nothing, all notions of expiry agree.
* checkpoints: the latest is the largest, whatever comes late or twice; a token reads back as
  what it was made from or is refused; the lifecycle stays on its table.
* audit log and diff: the log tells the result and shows its damage; the diff says what
  happened between two results.

## 2. Modules

| module | models | built on |
|---|---|---|
| `LoopOrchestrator` | `loop.py`: `run`, `resume`, `_run` turn by turn | |
| `LoopProjections` | the nine modules of views, as operators on a result | extends `LoopOrchestrator` |
| `AuditLog` | `audit_log.py`: records, lines, reading and validating, with damaged logs | extends `LoopProjections` |
| `StateDiff` | `state_diff.py`, between the result before a call and the one after | extends `LoopOrchestrator` |
| `LoopStateStore` | `state_store.py`, on names, inodes and descriptors | |
| `LoopCommands` | `cli.py` `loop`, `resume`, `status` as overlapping processes | extends `LoopStateStore` |
| `SnapshotRegister` | abstract: one result per task, replaced atomically, only moving forward | implemented by `LoopCommands` |
| `LoopReports` | `status`: listing, loading, counting, rounding, schema | |
| `TaskEngine` | `run`: `engine.py`, `parser.py`, file by file | |
| `CliCommands` | `status` or `run`, one of them exercised per behaviour | extends `LoopReports`, `TaskEngine` |
| `CircuitBreaker` | `circuit_breaker.py` with overlapping calls | |
| `TaskQueue` | `task_queue.py`: entries, sort keys and ids | |
| `PriorityQueue` | `priority_queue.py`, in both modes | |
| `DeadLetterQueue` | `dead_letter_queue.py` | |
| `ServiceOrder` | abstract: whoever waits is served by priority, then by arrival | implemented by `TaskQueue` and `PriorityQueue` |
| `WorkQueues` | the three queues side by side | extends the three |
| `WorkSelections` | `batcher.py`, `task_filter.py`, `fanout_merge.py`, on what the queues hold | extends `WorkQueues` |
| `RetryBudget`, `TokenBudget`, `ConcurrencyLimiter`, `Backpressure` | the module each is named after | |
| `RetryPolicy` | `retry_policy.py` `execute` step by step, `exponential_backoff.py`, `jitter.py` | |
| `Checkpoint`, `ResumeToken`, `TransitionGuard` | the module each is named after | |
| `Clock` | the time the timed parts are given | |
| `TokenBucket`, `TtlCache` | `rate_limiter.py`, `ttl_cache.py` | extend `Clock` |
| `Leases` | `lease.py`, `deadline.py`, `timeout_guard.py`, `heartbeat.py`, `stale_reaper.py`, `sliding_window_rate.py` on one set of stamps | extends `Clock` |
| `WorkLimits` | all of `RetryBudget` to `Leases`, one part exercised per behaviour | extends them |
| `WorkParts` | the queues, the limits and the breaker, one side exercised per behaviour | extends `WorkSelections`, `WorkLimits`, `CircuitBreaker` |
| `Lists` | what `sum()`, `sorted()`, `**` and comprehensions compute, for the modules above | |
| `ListsProofs` | lemmas about `Lists`, and induction | extends `Lists` |
| `LoopOrchestratorProofs`, `LoopViewsProofs`, `LoopCommandsProofs`, `CircuitBreakerProofs`, `WorkQueuesProofs`, `WorkLimitsProofs`, `CliCommandsProofs` | theorems | extend the modules they are about |
| `MC...` | small instances for TLC | extend the module they instantiate |

### LoopOrchestrator

A call of `run` or `resume` is `Run`/`Resume` (arguments, `list(steps)`, the range of
iterations), then one `AgentReturns` per turn of the inner `for`, and one of
`ReturnCompleted`, `NextIteration`, `ReturnFailed` after the validator. `CallRaises` is an
exception of an agent or of the validator, and the type error for an agent that returns no
string: the locals vanish and the caller keeps the result it had. The range of the `for`
is `iteration .. limit`, so the variable `limit` and the reported count are those of the
code. Agents are positions in `self.agents`, and the validator is the set `Accepted`. An agent may return any
of `Strings`, so every agent is covered; what it returns is checked to be one, but nothing checks the
initial state, which is any of `States`. Nothing makes the names of the agents distinct either, or
not blank: a step and an event carry only a name, and `Named` is the result as its readers get it, under one of
`Namings`. The history variable `origin`
remembers the first initial state; the code does not keep it, and only properties read it.
`resume` of a completed result changes nothing (`ResumeCompleted`). Argument checks that
raise before anything happens (blank ids, counts below one) are represented by the
domains of the parameters.

### LoopStateStore and LoopCommands

`save` is three steps: `OpenTemp` (open with truncation), `WriteTemp` (write and close)
and `ReplaceJson` (rename), since between them another process can run. Names are bound
to inodes: a process writes through its descriptor, wherever the name has gone. A
document written over longer contents of another writer leaves a tail, `Torn`; a killed
writer leaves `Torn` or nothing. `Load` refuses everything that is not the document of
that task, as `load` does; an unsafe id is refused before any file is touched.
`FreeInodes` reuses inodes that nothing refers to, like a file system, which bounds the
model without cutting behaviours (`CHOOSE` among free inodes is harmless: their
contents are reset).

`LoopCommands` gives every process a program counter. A result is its task, the `loop`
command its history began with, its status and its iterations: what `SnapshotRegister`
and the properties tell apart; `LoopOrchestrator` has the history itself. `Verdicts` is
what the validator may say: the agents wired into the command line always satisfy it, but
the store is written for any. `Exclusive` says whether commands on one task overlap.
`overlapped` is a history variable: the tasks of which two saves were under way at once.
`save` validates the id only after all iterations (`SaveRefused`), as in the code.

### SnapshotRegister

The promise to a user who runs one command per task at a time. `latest[t]` is what `load`
would return. It changes only by `Publish`, at once, to a later loop's result or to a
resume of the same loop that got further; a completed result is final within its loop.
The refinement mapping is `latest <- [t |-> Load(t)]`: the rename is the `Publish`, all
other steps, crashes included, stutter. Saving a completed result again is a stutter too.

### LoopReports

`status` between its list and its report, while other processes save. Here a snapshot is
just its status: what loading can meet is the subject of `LoopCommands`. `Rounded` is
`round(c / r, 4)` in units of the fourth place, `ValidReport` the schema. `stayed` and
`were` are history: listed loops that were failed all along, and at some time before they
were read.

### TaskEngine and CliCommands

A run command reads its task file (`StartRun`), opens and writes the dashboard file, then opens and
writes the log; each of these may fail, and a kill comes anywhere. Opening truncates, so a
failure leaves the old file, an empty one or a part (`Spoilt`); when two runs of a text
overlap, the longer of two contents keeps its tail (`Over`). Files are named by the text, which
stands for its hash: two task files with the same text, and with different names and no heading,
have different results and share both files. A run ends with `at = "raised"`, since printing the
result never works (section 6). `overlapped` and `latest` are history. `CliCommands` puts the engine
beside `LoopReports`, with which it shares nothing: a behaviour has either.

### LoopProjections

Operators on `result`, evaluated at every result the loop model reaches. `Timeline` is the
loop of `run_timeline.py`, a recursive function `after` of the number of events read, with `open`
the local `open_iteration`; `Health`, `Audit`, `AgentSummary`, `IterationSummary`, `Transitions` and
`LoopMetrics` count as their modules do, each on its own. Those that look at `agent.name` are taken of the
named result, under every naming: with a name to each agent, with one shared, with a blank one
(`BlankNames`). The views assume of an agent what its `Protocol` declares, a name that is a string, and of
the initial state that it can be a member of a set and is not `None`. `Issues` has all six checks of
`loop_validation.py`, two of which can find something: a blank name, and an initial state that is no string. Of `render_timeline` the parts a
reader sorts and searches by are kept: the padded numbers, the kind and the arrow. The ratios
of `loop_metrics.py` are fractions; its rounding is left out.

### AuditLog and StateDiff

A log is a sequence of lines, and a line is the record written on it: JSON text is not
spelled out. What the text does to the reader is modelled where it matters: `str.splitlines()`
cuts a line at every Unicode line boundary, of which `json.dumps(ensure_ascii=False)` leaves
three kinds unescaped, so that a record whose states are in `Breaking` is read as several lines,
none of them JSON (`ContentLines`). `ParseLog` stops at the first bad line with its number,
`ValidateLog` goes on, and both judge a line with the same `RecordFromMapping`. `expected_seq`
grows at every line, so that it is the number of lines before (`InPlace`). `AuditTrail`
also damages the log of every result: a line lost, repeated, torn, swapped with another,
short of a field or with one too many. It speaks of logs without a line boundary (`Unbroken`); those with
one have a run of their own, which fails (section 6). A run that began with something other than a string has no
log, since `AuditRecord` refuses it. Records keep the position of their agent; a name is taken to hold no
line boundary.

`StateDiff` compares the result the caller holds before a call returns with the one after, and `AgentsEngaged` lists names:
`DiffNarrates` is an action property over `AgentReturns` and the ends of a call, so that the two
results are related by what the loop did (a resume, a resume that changed nothing, a new run).

### CircuitBreaker

The live fields are the record `breaker`; `_maybe_recover`, `_trip`, `_close`,
`_on_success`, `_on_failure` are functions of it. `call` is split where `func` runs:
`Admit` (or `Reject`), and `CallSucceeds`, `CallFails` (an exception of `record_on`) or
`CallEscapes` (any other). Between the two anything may happen, as it does when `func`
uses the breaker again. A call remembers whether it was
admitted as a probe, as the local `is_probe` does. `openedFor` is the clock minus `_opened_at`
up to `recovery_timeout`, the only comparison the code makes. `counted` and `strays` are
history: the probes whose slots the count should stand for, and the probes of an earlier
episode that gave back a slot in this one.
Admission (the test and the increment) is one step, as is the end of a call: the package is
driven from one thread, as `rate_limiter.py:105` and `priority_queue.py:55` say of their own parts,
and nothing runs between the two. Calls of one thread overlap by nesting; the model lets
them end in any order, which includes that one.

### TaskQueue, PriorityQueue, DeadLetterQueue and WorkQueues

The task queue holds the same facts three times: `entries` in serving order, `keys` for
`bisect_left`, and `ids`. `PushAccepted` inserts into the first two at the place `Bisects`
finds, as the code does, and says nothing of order itself: that the place is the right one is
a consequence (`QueueInStep`). `Pop`, `Drain` and `PushRefused` (a duplicate, or a full queue)
are the rest. A popped id may be pushed again.

`heapq` is a library that serves the least of its tuples, so the heap is the set of its tuples;
what `priority_queue.py` adds, the negation in max mode and the arrival number that breaks
ties, is kept. The code converts a priority with `float()`; priorities here are numbers that
conversion keeps apart. Dead letters are a dictionary, which is a sequence of records in
insertion order; `ReasonCounts` is the roll-up by reason.

`ServiceOrder` is the promise of both ordered queues: a set of waiting entries from which only
the first in the order leaves, or all in order. The refinement mappings forget the keys, the
ids and the sorted places. `WorkQueues` gives the task queue and the priority queue the same
accepted pushes and pops; the dead letters share no state with them, so the composition uses
either the two or the dead letters.

### WorkSelections

`Batches` is the loop of `batch`: `after[n]` is what it has after `n` items, the closed batches, the
open one and its size. `PartitionTasks` and `MergeFanout` are written in the same way. They are evaluated on the entries of the task
queue, in every order it can bring about, with every pair of limits and every tag query the
code accepts; the lists merged are what was served and what waits, which overlap when a
served task is queued again.

### RetryBudget, TokenBudget, ConcurrencyLimiter, Backpressure

A retry is charged through `TrySpend` or `Spend`, which look at the two caps each in its own
way, as the code does. The token budget and the limiter know only sums; who holds what is known to
their callers. The models split the callers into one, "me", and all others (`mine`, `theirs`;
`mySlots`, `otherSlots`): a promise to one holder must survive whatever the rest does, and no
more than two sides are needed to say so. A caller releases and commits only what it holds;
what the code refuses (`Exceeded`, `CommitRefused`, `OverRelease`) leaves the state as it is.
`Backpressure` is `Evaluate` with the remembered `engaged`, which may start either way, as the
constructor allows.

### RetryPolicy

One `execute` at a time: `StartExecute`, then `Pause` (the delay is computed and slept) or
`PauseRaises` before each attempt, and `FuncReturns`, `FuncEscapes` (an exception outside
`retry_on`) or `FuncFails` after it. `factor ** n` beyond `LargestPower` is the `OverflowError` of a
Python float, which no `retry_on` catches and no ceiling prevents: `AttemptsAccounted` says what such a call has
done by then, `FailuresExhaust` that the documented ceiling rules it out, which fails (section 6). Delays are whole units;
jitter takes a fraction in eighths, so its results are exact in sixteenths.

### Checkpoint, ResumeToken, TransitionGuard

Positions are reported in any order and as often as one likes; `TryAdvance` and `Advance`
differ in how they refuse. Of the text of a token only the length counts: it decides the number of base64
letters and of padding characters, and those decide what can be decoded once the
transport has taken characters from the end (`Shortened`). `Restored` is the padding `decode_token`
puts back. The machine is handed any target; a table may name a state that has no row of its
own, in which the machine is stuck.

### Clock, TokenBucket, TtlCache, Leases

Every operation of a timed part reads `now`, which changes between operations to any
reading, earlier ones included (`ClockJumps`): nothing in the code makes it monotone. The
bucket's `Refilled` and `Marker` are `_refill`, which every operation starts with. `promise` is the
last waiting time told, `window` and `passed` the window of a key as its owner would reckon it:
history, which the code does not keep. `Leases` holds one stamp per task and asks all six
modules the same question of it.

### WorkLimits

The parts `RetryBudget` to `Leases` share nothing, and the code connects none of them. A behaviour picks
one, `part`, and leaves the others as they were made, so that the states add up instead of
multiplying. `ClaimsHonoured` and `PositionsKept` put together what concerns one subject.

### WorkParts

The queues, the limits and the breaker have nothing to do with each other in the code, and each has a
specification of its own (`QueuesSpec`, `Spec` of `WorkLimits`, `BreakerSpec`). `PartsSpec` picks one,
`side`, and leaves the others as they were made; the properties of all three are checked under it, and
`SidesAreTheirOwn` proves that its behaviours are behaviours of each.

## 3. Runs

| run | question | properties | instance |
|---|---|---|---|
| `loop` | is every history whole, and do all views, the audit log and the diff tell it alike? | `ResultIsWhole`, `StepsMirrorEvents`, `StopsAtFirstAcceptance`, `TimelineBracketed`, `TimelineReplays`, `VerdictsRight`, `ViewsAgree`, `AuditTrail`, `ResumeExtends`, `CallsEnd`, `DiffNarrates` | 2 agents, 2 names (one blank), 3 states (one no string), 3 iterations |
| `timeline_states` | does no marker of a timeline hold a state? **violated** | `OnlyTurnsTellStates` | 2 agents, 1 iteration |
| `audit_lines` | is a log read back whatever the states are? **violated** | `LogReadsBack` | 2 agents, 1 iteration, a state with a line boundary |
| `store_exclusive` | is the store an atomic register? | `TasksIsolated`, `IsRegister` | 2 tasks, 2 processes, one command per task at a time, 2 loops, 2 iterations |
| `store_racing` | what is left of it when commands overlap? | `SnapshotsWhole`, `SavesSucceed`, `StatusSeesSnapshots`, `CommandsEnd` | 1 safe and 1 unsafe id, 2 processes |
| `store_torn` | is every snapshot restorable? **violated** | `SavedIsRestorable` | 1 task, 2 processes |
| `report` | can the report be trusted while it races with saves? does running a task again repair it? | `FailuresBracketed`, `RerunRepairs` | 3 tasks; 3 runs, 3 task files, two of them with one text |
| `report_every` | can every outcome be reported? **violated** | `EveryOutcomeReported` | 3 tasks |
| `breaker_probes` | are concurrent probes capped? **violated** | `ConcurrentProbesCapped` | 3 calls, thresholds 2 and 1 |
| `breaker_closes` | do only probes close it? **violated** | `OnlyProbesClose` | the same |
| `work` | queues: is the promised order served, are the records in step, do batches, filters and merges lose nothing? | `QueueInStep`, `LettersFiled`, `SelectionsRight`, `ServesInOrder`, `HeapServesInOrder` | 4 tasks, 2 priorities, capacity 3, 4 pushes, both modes of the heap; 4 dead ids, 2 reasons, capacity 3, 6 records; 2 tags |
| | limits: do caps hold and promises last, in whatever order the operations come and however the clock jumps? | `BudgetKept`, `ClaimsHonoured`, `AttemptsAccounted`, `PositionsKept`, `RateBounded`, `DedupeWindow`, `ExpiriesAgree`, `BandRespected`, `ExecuteEnds` | pool of 7 with a reserve of 1, 5 slots, marks 1 and 4, 4 retry policies, 4 positions, readings 0 to 5, ttl 3, 3 leases, a bucket of 3 at rate 2 |
| | breaker: is it consistent whatever overlaps? | `StateConsistent`, `SlotsNeverLeak`, `SlotsCountProbes`, `TotalsAddUp`, `CooldownRespected`, `RecoversOrRetrips` | 3 calls in flight, thresholds 2, cooldown 2 |
| `retry_overflow` | does a retry under a ceiling make all its attempts? **violated** | `FailuresExhaust` | 4 attempts, factor 3, ceiling 4, largest power 8 |

**Bounds, and why they are enough.** `IterationBound` = 3 allows a run with one iteration and two
resumes, a run with two and one resume, and so on; two agents distinguish first,
inner and last turn, and give every case of names: distinct, shared, one blank, both; one accepted
and one refused string distinguish the verdicts, and one state that is no string shows where a run may begin with it. The theorems
remove these bounds. In the store two processes are enough for every race between two
saves, a save and a load, a crash and a retry; `MaxLoops` = 2 gives a loop that supersedes
another's result; two inodes per task and one per process are all that can be in use, so
`Inodes` never runs out. Tasks are symmetric and so are processes (`store_exclusive`
has safety properties only, so the symmetry is sound); inodes are not, because of the `CHOOSE`.
Three tasks are the fewest whose ratio is no multiple of 0.0001. Three runs are one that breaks, one
that overlaps it, and one that repairs what they left. In the breaker, three
calls are a call of the closed breaker, a probe of an earlier episode and one of the
present; `MaxOpens` = 2, `MaxCalls` = 5 and `MaxRefusals` = 2 only cut off repetition: no
code compares these counters with anything.

In the queues, 4 tasks against a capacity of 3 make a full queue refuse one that is no duplicate, and 4
pushes allow a full queue to be popped and filled again with the same task; three entries of two
priorities include an insertion at the front, in the middle and at the end, with ties. Tasks carry
no tag, one or both, so that every clause of a query divides them.

The bounding parts have no bound but that of their own caps, except `MaxRejections` and
`MaxMoves`, which cut off repetition, and `MaxDepth`, one above the high mark. Amounts go one beyond what can be granted. The
retry budgets include one of total 0 and one without a task cap; the policies one with a ceiling
that is reached, one without, one whose power overflows before its last attempt, and one
with a single attempt. Positions 9 and 10 differ in digits, and the engine states' texts cover every
length modulo three: all paddings of base64. Six readings, against a ttl of 3 and a bucket
that is full after 2, put a reading before, at and after every expiry, with a step back from each;
what happens after a longer time is what happens after that. The theorems remove the bounds of
all ten parts, of the queues and of the breaker, and of the clock.

`store_racing` has no `SYMMETRY`, since it checks liveness. Deadlock is checked in all runs but
`report`, where a behaviour is over when every run command has ended.

**Faulty variants.** Beside several actions stands a variant with a plausible mistake (a
resume that replays an iteration, a shared temporary name, an untruncated file, a slot
that is not given back, a refill whose marker follows the clock back). `PROJECT.json`, "mutants", says which property notices which. They are
no part of any specification; they show that the properties can fail.

## 4. Fairness

* `LoopOrchestrator`: `WF(Work)`. `_run` is a plain loop; it goes on as long as agents and
  validator answer. They may raise at any time (`CallRaises`), but a call does not rely on
  that to end. An agent that neither answers nor raises is outside the claim.
* `LoopCommands`: `WF(Progress(p))` for every process: the operating system runs it. No
  fairness for starting commands, none for exceptions and crashes, and no strong fairness: `status` ends
  although others save all the time, since its list only shrinks.
* `LoopReports`, `TaskEngine` and `CliCommands` assume none: they state safety only. That `status` ends is checked
  in `LoopCommands`.
* `CircuitBreaker`: `WF(Tick)` and `WF(Observe)`. Time passes; and because an open breaker
  moves on only when someone looks (`state`, `allows_call`, `snapshot`, `call`), somebody
  must look from time to time. No call is assumed to end.
* `WorkLimits`: `WF(ExecuteStep)`: the sleep and `func` of an `execute` under way return or raise
  some time. Nobody need call anything, and the clock need not move. `WorkParts` assumes of each of its sides
  what is assumed of it here.

## 5. Proofs

All hold for every value of the constants that satisfies the named assumptions of the
module: sizes, caps and `LargestPower` are natural numbers, thresholds and the time to live
positive, `Accepted` is among `Strings`, those among `States`, `BlankNames` among `Names`, `None` is no state, `SafeIds` of `TaskIds`, `NoFile` no inode, `Calls` and
`LoopReports`' `Tasks` finite; positions are natural numbers printed with finitely many digits
(`DigitsAssumption`), the low mark is below the high one, a table of moves is not empty, a task has
tags among `Tags`. Where the code sorts by a name or a number (`BudgetTasks`, `Leased`, `Reasons`,
`Priorities`, `Ranks`), integers stand for them in their sort order: all that is used of them is
that any two can be compared. `SamePushesAssumption` says that what the task queue can be given, the
priority queue can be given. No theorem has a hypothesis but these, except `CommandsKeepRegister`,
which is about `Exclusive`: without it the register is torn (section 6).

Every invariant the passing runs check, every action property and both refinements are theorems.

* **LoopOrchestratorProofs.** `TypeCorrect`; `ResultsAreWhole` (`ResultIsWhole`), `RecordsAgree`
  (`StepsMirrorEvents`), `FirstAcceptanceStops` (`StopsAtFirstAcceptance`); `CallStaysOnTrack`;
  `ResumeOnlyExtends`. The properties of results are not inductive: a result is what a call has
  built. The invariant is `TypeOK /\ CallInProgress /\ ResultOK`; `CallInProgress`
  says that what has been built reaches exactly the turn about to be taken, and that a
  resumed call has kept its predecessor's lists. The lemmas `AppendChained`, `AppendMirrors`
  and `AppendExtends` say what appending one turn does to a history.
* **LoopViewsProofs.** `DiffsNarrate` (`DiffNarrates`), `VerdictsAreRight` (`VerdictsRight`),
  `TimelinesBracketed`, `ViewsDoAgree` (`ViewsAgree`), `TimelinesReplay` (`TimelineReplays`), `LogsAreTrails`, for
  every number of agents and histories of every length. They follow from the invariant of the
  loop. Every one of them that looks at names holds under every naming: what the agents' positions settle
  (`RowsApart`) is carried over to names through the agents that bear a name (`Namesakes`). A whole history puts the turn of agent `a` in iteration `i` at one place
  (`RowsApart`, `PlacesUnique`), and the timeline puts it `Opening(i) + a` lines down. That the
  loop of `run_timeline.py` lays the lines out like this (`Laid`) is by induction over the events read;
  brackets, contents and order are read off the layout. Counts of six modules are compared through
  the set of places each of them counts. For the sorting of the rendered lines, padded numbers of one width
  compare like the numbers they print. `LogsAreTrails` (`AuditTrail`): every line of a log is in its place and in
  no other (`LogLines`), so that each kind of damage leaves an interval of lines, or two lines, out of
  place (`Offending`), and those are what `validate_jsonl` reports (`ErrorsAre`). What a lost or an added field
  does is decided by the fields alone (`LossNoticed`, `DamageNoticed`).
* **CircuitBreakerProofs.** `BreakerStateRight` (`TypeOK`, `StateConsistent`), `NoSlotLeaks`
  (`SlotsNeverLeak`), `SlotsCountRight` (`SlotsCountProbes`), `CountersRight` (`TotalsAddUp`),
  `CooldownHolds` (`CooldownRespected`). The slot count is a number and the probes are a
  set; the invariant relates them through the history variables: the count is the number
  of counted probes less a debt that only strays explain. Each transition of the live state has a
  lemma, and each step uses those of the transitions it makes.
* **CliCommandsProofs.** `ReportsBracket` (`FailuresBracketed`): the count so far lies between
  the numbers of loaded tasks that stayed failed and that ever were; a save can only widen this bracket,
  a load moves all three along. `RunsRepair` (`RerunRepairs`): a run that counts, being the latest of its
  text and alone with it, keeps its files as it left them, because every step disturbs the files of
  one text only (`OneRunSteps`), and because each file is emptied before it is written.
* **LoopCommandsProofs.** `TypeCorrect`; `SnapshotsStayWhole`, `TasksStayIsolated`,
  `SavesAloneSucceed`, `StatusFindsListed`. `StoreInv` has five parts: names do not share
  inodes (`NamesApart`); who is writing has its descriptor open on a file of its own task
  (`Writers`); files hold documents of the task they are named after (`OwnDocuments`); if no two
  saves of a task have overlapped, at most one is under way and its file is what it has
  written (`OneSaver`); a file once listed stays (`ListedStay`). Opening, writing, renaming
  and crashing have a lemma each; all other steps leave the files alone (`QuietStep`).
  `CommandsKeepRegister` (`IsRegister`) is the refinement of `SnapshotRegister`: the rename publishes and
  everything else stutters. It needs more than `StoreInv`: under `Exclusive` a task has one command, and what that
  command holds is ahead of what the file says, being a later loop's result or the same loop's with more iterations.
* **WorkQueuesProofs.** `QueueStaysInStep` (`QueueInStep`), `QueueServesInOrder` (`ServesInOrder`),
  `HeapServes` (`HeapServesInOrder`), `LettersStayFiled` (`LettersFiled`), `SelectionsStayRight`
  (`SelectionsRight`). `QueueTyped /\ QueueInStep` is inductive. The push is the hard step: that the
  place found among the keys keeps the entries sorted needs the order of keys to be total,
  and that every earlier arrival has a smaller number. For the refinement of `ServiceOrder`, a pop serves the
  first entry, which precedes all others because the sequence is sorted by `Below` on keys,
  and that is `Precedes` on entries. The heap implements the same `ServiceOrder`, from the least of a finite set of tuples
  whose arrival numbers differ; its drain is `Sorted` of that set. The roll-up of the dead letters
  divides them into classes by reason, whose sizes add up. For the selections each loop has an
  invariant over the entries read so far: of `batch`, that closing and opening
  keeps good what was good (`ChunkOk`, `GoodGrow`); of `partition_tasks`, that it keeps what two
  comprehensions would (`PartitionSelects`); of `merge_fanout`, that what it has kept are the first entries of
  their tasks (`MergeOk`). That a merge keeps exactly the waiting entries not served before needs
  one more invariant of the queue, `ServedOnce`: what was served last is no longer queued.
* **WorkLimitsProofs.** `ClaimsAreHonoured`, `BandIsRespected`, `PositionsStayKept`, `RateIsBounded`,
  `WindowIsKept`, `BudgetStaysKept` (`BudgetKept`), `AttemptsStayAccounted` (`AttemptsAccounted`),
  `ExpiriesStayAgreed` (`ExpiriesAgree`). Every part has an invariant of its own and a lemma that its steps
  preserve it; `PartsStep` says that a step of `WorkLimits` is, for each part, a step of it or a
  stutter, and so the conjunction `LimitsInv` is inductive. Some of the arguments are not
  plain. *The bucket*: while a wait that was told stands, the bucket holds exactly what was
  missing then plus what the time since is worth, or is full and the wait over (`Promised`); and the marker is the latest
  reading given, so the worth of all refills telescopes into that of the time between the first and the latest reading.
  The product `Rate * (b - a)` is closed in `Worth`, of which four facts are used. *The tokens*
  (`TokensReadBack`): of a text of `b` bytes only the full number of letters gives `b` bytes back,
  and the padding restored after any loss of padding is the one the last group needs (`Wire`), by cases
  on `b % 3`. *The machine*: it is stuck if and only if its state has no row, and a refusal says
  which of the two it was. *The budget*: every retry spent is a pair of its task and a number
  (`Charges`), so that the sum over the tasks is the size of one set. *The retries*: what was slept so far is the
  sum of a prefix of the schedule (`SleptFor`), whose powers only grow until one overflows. *The
  expiries*: the reaper's sorted list is `Sorted` of the tasks that are due. `SidesAreTheirOwn` carries the theorems
  of the queues, of the limits and of the breaker over to `WorkParts`, where TLC checks their properties.
* **ListsProofs** has no theorem of its own. The library's induction theorems take an operator as a
  parameter, which the provers cannot instantiate; `NatSetInduction` says the same of a *set* of
  numbers and is derived from the well-foundedness of `<`. A loop over a list is a recursive
  function; `StepsExist` and `StepsUnique` say, once, that there is one such function for a
  step that stays within a set, and `SumUnfolds`, `PowerUnfolds`, `SelectedIs` and `JoinedIs` that the
  operators of `Lists` are what their loops compute. `Lists` exists because folds, `SelectSeq`,
  `SortSeq` and `^` are out of the provers' reach, and so is every module with a `RECURSIVE` operator.

Model-checked only: the liveness properties (`CallsEnd`, `CommandsEnd`,
`RecoversOrRetrips`, `ExecuteEnds`), which are out of the prover's reach with `ENABLED`.

## 6. What the checks found

1. **Overlapping saves of one task can publish a torn snapshot** (`store_torn`;
   `state_store.py:53`). Both write `<id>.json.tmp`; one truncates what the other is about to
   rename. The other saver may instead find its temporary file gone. Without overlap, both are
   proved impossible.
2. **`status` fails on outcomes such as 2 of 3** (`report_every`; `loop_report_schema.py:12`). The
   ratio is rounded to four places, and the schema compares it with the exact quotient.
3. **More probes than `success_threshold` can run at once** (`breaker_probes`;
   `circuit_breaker.py:262`). Slots are zeroed when the state changes, but a probe of an
   earlier episode still gives its slot back.
4. **A call admitted while closed can close a half-open breaker** (`breaker_closes`;
   `circuit_breaker.py:309`). Both 3 and 4 also happen when calls only nest.
5. **An audit log whose states hold a Unicode line boundary cannot be read back**
   (`audit_lines`; `audit_log.py:257`). The writer leaves U+0085, U+2028 and U+2029 as they
   are and the reader splits lines at them.
6. **A retry can overflow below its ceiling** (`retry_overflow`; `retry_policy.py:133`). The delay is documented
   as `min(base_delay * factor ** (n - 2), max_delay)`, but the power is computed first and raises
   `OverflowError` when it exceeds the largest float: the call ends before its last attempt and without
   `RetryExhausted`. `exponential_backoff.py` computes in the same order.
7. **The docstring of `TimelineEvent.to_state` leaves out the outer markers** (`timeline_states`;
   `run_timeline.py:125`, `:160`). It says `None` for all but `agent_acted`; the code gives the first marker the
   initial state and the last one the final state, as the tests assert.

One more disagreement has no run, since it happens every time: **the `run` command always ends
in a traceback**. `asdict` keeps the two paths of a `TaskResult` (`engine.py:24`), and `json.dumps` at
`cli.py:100` raises `TypeError` on them, after both files have been written; `cli.py:101`, which
would make the exit code tell the status, is not reached. (Executing `run` on a task file shows it;
the tests only parse its arguments.)

## 7. What is not modelled

Power loss and `fsync` (a killed process is; a lost page cache is not). The JSON text, its field
types and the wording of messages. Threads: the package takes no locks and says it is
driven from one thread, so that an operation of a library part is one step. Floating-point error: delays, rates and
times are whole units, and `loop_metrics.py`'s rounding is left out (that of the report, which goes wrong, is
modelled). The values of cache entries, `attempts` and `failed_at` of dead letters. `retry_classifier.py` and
`error_taxonomy.py`: tables of substrings. `queue_depth.py`: statistics of samples.
`loop_telemetry.py`: one JSON object per loop. Argument
parsing. The routing rules of the second package, `src/src/digital_fte`. The inbox watcher: a simulation with
no contact to the rest. Statistics: floating-point arithmetic without
protocol. Parsing, hashing and redaction: stateless functions of text. `PROJECT.json` lists every
component with its status.

## 8. Plan

Order of the modules, the most important behaviour first. Done: the loop with its views, log and
diff; the store and the commands with their abstract register; the report; the run command; the breaker; the
queues with their abstract order, and what is done with their tasks; budgets, limits, retries,
checkpoints and the timed parts; and the proofs of everything that is not liveness. Left, should their
tables change: the depth samples of `queue_depth.py` and the decisions of `retry_classifier.py`.
