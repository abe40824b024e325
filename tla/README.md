# AgentLens platform: models and proofs

TLA+ models of the parts of AgentLens whose correctness depends on the order in
which processes, threads, transactions and failures interleave, and of the pure
functions on which their data depends, with the TLC configurations that check
small instances of them and TLAPS proofs for instances of any size. Paths are
relative to `src/`; `P/` stands for `packages/obs-platform/src/obs_platform/` and
`S/` for `packages/obs-sdk/src/obs_sdk/`. `PROJECT.json` maps every definition to
the lines it stands for and lists runs, mutants, hazards, findings and theorems.

## 1. The system

An instrumented application (SDK) appends events to one Redis stream. Three
consumer groups read that stream: storage, guardrail and eval. Each writes to
PostgreSQL. A scheduler runs periodic jobs on the tables, and a read API with a
dashboard renders them. Roles run in worker processes, several replicas of each
if wanted, or inside the API process (`OBS_EMBED_WORKERS_IN_API`).

    application --tracer, LangChain callbacks--> publish()
                     --> queue --drain thread--> Redis stream
                                                      | three groups
              +-------------------+-------------------+
              v                   v                   v
        storage writer     guardrail scanner     eval scorer --> judge
              |                   |                   |
              +---------> PostgreSQL <----------------+
                            ^     ^
        scheduler: retention, drift  read API --> dashboard

### 1.1 Inventory

| Component | State | Operations | What is hard | What makes it correct |
|---|---|---|---|---|
| Tracer and context `S/tracer.py`, `S/context.py` | trace and span in context variables | trace, span, scope | threads and tasks that copy a context; blocks pinned to another trace | context restored, spans form a tree, each starts and ends once |
| LangChain callbacks `S/langchain.py` | run table, bounded; roll-ups of open traces | hooks of start and end | threads; a lock let go before the event is published; a run that never ends | trees stay whole, every trace closes |
| Event publisher `S/publisher.py` | bounded queue, batch, `_in_flight`, connection, stop and closed flags | publish, drain, flush, close, fork | any thread publishes while one drains; Redis fails in the middle of a pipeline; a child inherits the queue | every accepted event is counted once; order; own events only; what was accepted before close leaves, if its process lasts |
| Event schema `S/schema.py`, prices `P/pricing.py` | none | encode, decode, upgrade, validate, clip, price | producers of other versions; values that do not fit; what is cut off twice | facts keep their value or the event is refused, cost is that of the tokens |
| Stream consumer `P/workers/base.py` | in Redis: stream, group cursor, pending entries, delivery counts; each replica: its batch | tick: reclaim, dead-letter, claim, read, process, ack; stop; heartbeat | replicas claim each other's messages; a crash between commit and ack; any call fails | at least once, bounded, nothing lost silently, everything settled in the end |
| Storage writer `P/workers/storage_writer.py` | `spans`, `traces` | one transaction for a batch: insert starts, upsert ends, read and merge traces, recompute rollups | READ COMMITTED transactions of replicas on the halves of one trace; redelivery, reordering | rollups exact, ends final, order-independent trace rows |
| Guardrail scanner `P/workers/guardrail_scanner.py`, `P/guardrails/engine.py` | `guardrail_findings`, flags of a trace, alerts | scan, merge, upsert, alert | redelivery against counters; row locks shared with storage; the purge | flags cover findings, what is serious is alerted, no circle of waits |
| Detectors `P/guardrails/{injection,patterns,pii}.py` | none | checksums, overlaps, thresholds | order of a greedy choice; a cap on the hits | of the hits within the cap the strongest is reported |
| Eval scorer and budget `P/workers/eval_scorer.py`, `P/evals/budget.py` | buffer and held ids of a replica; `eval_scores`, `tenant_usage` | process, flush tenant by tenant, budget, readiness, judge, persist, ack | messages stay unacked for long; the parts of a trace are stored in any order; the judge is paid before anything is stored; replicas check one budget | nothing settled unanswered but what the code writes off, nothing stuck, cost accounted, cap binds |
| Judges and sampling `P/evals/{judge,sampling}.py` | none | score_batch, should_sample | a judge that skips or invents ids | a verdict is about its trace |
| Alerts `P/alerts.py` | `alerts` | raise, acknowledge, resolve | deduplication against status changes | an acknowledgement stays |
| Scheduler `P/workers/scheduler.py` | `job_runs`; position in the tick | tick, is_due, execute, record, heartbeat | two schedulers write a row; failures of the job and of the database | honest schedule, prompt stop, jobs run while some process still hosts them |
| Supervisor and CLI `P/workers/{supervisor,cli}.py` | tasks | start, stop, cancel, health check | a role that dies | a stopped process drains, a dead one is noticed |
| Retention and drift `P/jobs/retention.py`, `P/drift/monitor.py` | rows, baselines | purge, capture, evaluate | late writes during a purge, two captures | no orphan but of a late write; one active baseline, unless captures overlap |
| Redis and database access `P/redis_io.py`, `P/db.py` | connections | ensure_group, lag, upsert, insert_ignore, session | locks, deadlocks | rolled back or committed whole |
| Read API `P/api/` | alert rows, heartbeats read | pages, call tree, status changes, health | rows move between two pages; a parent that is not there | no row shown twice whose time only grows, no span hidden, health honest |
| Security `P/security/` | rate limit buckets, users | limits, tokens, redaction, audit | window edges, Redis away | quotas hold |
| Models, settings, migrations; dashboard; load tests, scripts | declarations | - | - | - |

### 1.2 Hazards

PROJECT.json lists them with their lines and the properties that would catch
each. The ones that shaped the models: a crash between a commit and its ack; a
count read before another replica's claim; a page of the pending list that hides
what is behind it; a merge computed from a row read before a lock was granted; a
message held unacked in memory; a budget read before a call that is charged
after it; an emptied queue whose batch is not yet "in flight"; a fork with events
queued; a record of a failure that fails itself; a context whose trace changes
and whose open span does not; a run pushed out of a full table; a purge that
deletes children of a trace while one is written; a row that says "running" of a
process that is gone. Some are real and no property rules them out, because the
code lets them happen or because the model stops short of them: their entries
have a note that says which, and section 4 names the ones the code lets happen.

## 2. Modules

| Module | Role | Proofs |
|---|---|---|
| `EventDelivery` | abstract: what a consumer group promises about events | used by `StreamConsumer_proofs` |
| `StreamConsumer` | the loop of `P/workers/base.py`, refines `EventDelivery` | `StreamConsumer_proofs` |
| `StorageWriter` | the transactions of the storage role | `StorageWriter_proofs` |
| `Publisher` | the SDK's background publisher | `Publisher_proofs` |
| `EvalScorer` | the eval role, its budget, and storage as it sees it | `EvalScorer_proofs` |
| `Scheduler` | the scheduler with the supervisor, CLI and API around it | `Scheduler_proofs` |
| `SpanTree` | abstract: the spans the SDK publishes, one start, one end, a parent that is known | used by `LangChain_proofs` |
| `Tracer` | blocks of `S/tracer.py` and `S/context.py`, and SupportPilot's use of them | `LangChain_proofs` |
| `LangChain` | the callback handler over the contexts of `Tracer`; refines `SpanTree` | `LangChain_proofs` |
| `Detectors` | what is made of the hits of patterns, rules and the analyzer | `Guardrail_proofs` |
| `Checksums` | the validators of the patterns | `Parts_proofs` |
| `GuardrailEngine` | findings of an event, risk, flags and their merge | `Guardrail_proofs` |
| `Guardrail` | the scanner's transactions beside storage, retention and the alert API | `Guardrail_proofs` |
| `Judging` | which trace an answer is about; the heuristic judge | `Parts_proofs` |
| `EventSchema` | wire format, upgrade, validation, clipping, cost | `Parts_proofs` |
| `ModelUsage` | the token counts and the model of an LLM's answer, as the LangChain handler reads them | `Parts_proofs` |
| `RateLimit` | two buckets a caller, in Redis or in a process | `Parts_proofs` |
| `Paging` | keyset pages over rows that change | `Parts_proofs` |
| `DriftBaseline` | captures of a baseline and the monitor | `Parts_proofs` |
| `TraceView` | the call tree of a trace | `Parts_proofs` |
| `Heartbeats` | heartbeats, `/health/meta`, the health check of a container | `Parts_proofs` |
| `MC...` | small instances for TLC; `MCParts` puts the small parts side by side, with the texts and prompts of `MCDetectors` | - |

Definitions under a comment that begins with `MUTANT` or `Mutant` are wrong
variants of the definition below them; no specification uses them. PROJECT.json
pairs each property with a variant that violates it.

### 2.1 StreamConsumer

*State.* Redis is `published`, `trimmed` (the stream is what lies between),
`group`, `cursor` (last-delivered id), `pel`, `times` (times-delivered) and
`idle`. Postgres is `done` (work committed) and `deadLetters`. Each replica has
its program counter `pc` and the local values that survive an await: `poison`,
`claimable`, `batch`, `dead`, `attempt`, `claimSupported`, `stopping`. `acked`
is a history variable.

*Actions.* One per stretch of code between two awaits that touch shared state.
`_tick` is `LookAtPending` (XPENDING, the ceiling, the idle time),
`DeadLetterPoison`, `AckPoison`, `Claim`, `ReadNew`, `Handle`, `DeadLetter`,
`Ack`; every call has its failing form (`LookFails`, `ClaimFails`, ...) with
what the code does then. A lock conflict is retried in place
(`RetryLockConflict`), any other failure leaves the batch pending
(`HandleFails`, which also covers a COMMIT whose answer is lost). NOGROUP
recreates the group at id 0. `Crash`, `RequestStop`, `Start` and `FlushRedis`
may come at any moment, up to `MaxOutages`.

*Left out.* The owner of a pending entry (the code never asks), logs, the
length of back-offs. The heartbeat is in `Heartbeats`.

### 2.2 StorageWriter

`process()` is one READ COMMITTED transaction; each of its statements is an
action, so the transactions of two replicas interleave at each. `own` is what a
transaction has written to `spans` and not committed; `Visible` is what its
statements see. A write waits for the holder of a row (`SpansFree`, `Holds`). A
span's row is the event that supplied it, and a rollup is the set of span rows
it was computed from, so all eight aggregates are compared at once. `Merge` is
`_merge_trace`: status by rank, earliest and latest times, the input's
precedence, the sampling decision. `Begin` delivers any batch at any moment:
what `StreamConsumer` allows. `Abort` rolls back.

A batch takes its locks at once: the code sorts its rows so that replicas take
them in the same order. That order, with the guardrail's, is in `Guardrail` (`NoLockCycle`).

### 2.3 Publisher

One process is a queue, a drain thread (`drain`: take, connect, execute,
backoff), at most one thread in `flush()` and one in `close()`; a second
process may be forked. A pipeline that fails may have appended any prefix, and
`retry_on_timeout` may send it again. `close()` is three steps (flush, stop
draining, drop the client) whose waits may time out at any moment.

`ProcessEnds` is the end of a process, after `close()` (which `atexit` calls) or by
a kill. The drain thread is a daemon: if `close()` gave up its join, the thread dies
in the middle of what it does, with what is in the queue and in its hands (`lost`;
`cut` are the processes that ended so). `EarlyEventsLeave` therefore promises of
what was accepted before `close()` that it is published, counted as dropped, or lost
with a process that ended before its drain thread did.

### 2.4 EvalScorer

The flush goes tenant by tenant: `SkipTenant` or `AllowTenant` (budget check and
readiness in one session), `MarkHopeless`, `Judge`, `Persist`, then `Ack`.
`CheckFails`, `JudgeFails` and `WriteFails` take the `except` of `_flush`: the
tenant's entries leave the buffer and the held set unacked. A buffer entry is
one delivery of one message, so that a message in hand twice would show.
`StorageReads` and `StorageWrites` are the read and the upsert of a trace row by
the storage writer, so verdicts and merges interleave. A row has its parts, the
question (`trace.input`) and the answer, as the events that bring them are stored,
in any order; the traces of `AskedAtEnd` have their question in their `trace.end`
too, those of the LangChain handler in their start only. `_readiness` takes a row
whose end is stored for complete, so a trace whose start comes later is written off
as not scorable (`Unasked`); it counts as `missed`, which `SettledIsGraded` exempts,
as it does a trace abandoned after `eval_ready_timeout_seconds`. What is left to it:
a trace with its question in its end is never written off by the order in which
storage works, and nothing else is acked before it has an answer. Redelivery is any
delivery of an unsettled message to any replica, up to `MaxDeliveries`.
Grading one trace costs 1; prompts and the text of verdicts are data. Messages
that are not the end of a sampled trace are acked at once and not modelled.

### 2.5 Scheduler

Time is the age of each row of `job_runs`, capped at the job's interval, where
the job is due; `Tick` is the clock. A process walks through the jobs
(`NextJob`, `IsDue`, `RunOk` or `RunFails`, `ReadRecord`, `WriteRecord`), sleeps,
and is stopped, cancelled after its grace period, or killed. `host` says which processes
run the role and what they are, one of the `Deployments`: a worker, the API
(`render.yaml` with `OBS_EMBED_WORKERS_IN_API`), or several. An exception that
leaves `run()` ends the task: the worker CLI then exits and its host restarts it
(`docker-compose.yml`: `restart: unless-stopped`), while in the API nobody waits
for the task and it stays dead as long as the process lives (`Dies`). One database
error in `_is_due` or `_record` is such an exception, so `DueJobsRun` ends where the
task of every host is dead: with the API as the only host, after one such error. What the
jobs do to their tables is not here.

### 2.6 Tracer, LangChain and SpanTree

A thread is a stack of blocks (`blocks`) and the values of its context variables
(`context`); a block remembers the values outside of it and which of them it set.
`OpenTrace`, `OpenSpan`, `CloseTrace`, `CloseSpan` are the two context managers of
`S/tracer.py`; `ObserveAgentRun`, `OpenOperation` and `RecordUsage` are
SupportPilot's use of them, which scopes a trace (`trace_context`) without a
span. A thread starts with an empty context or with a copy of another's.

The handler's run table is `table`, its open traces `rollups`. A hook is two
steps or three: what it does under the lock (`StartRun`, `EndRun`), and the
events it publishes after it let the lock go (`EmitStart`, `EmitEnd`, `CloseRun`),
between which hooks of other threads come. `began`, `over` are the host's view of
its runs, `evicted` what the full table pushed out, `shared` the traces that two
roots held at once. A run that is `bad` has a field the schema refuses, so its
events raise and `_guard` swallows them.

`SpanTree` is what the platform may rely on: a span starts once, below none or
below a span that has started, and ends at most once. `tree` is the refinement
mapping; spans opened by hand and by hooks share one numbering.

### 2.7 Guardrail, GuardrailEngine, Detectors and Checksums

`Checksums` are the validators, `Detectors` what is reported of one text (overlaps,
thresholds, the combination of rules and similarity), `GuardrailEngine` what is
reported of one event and how its summary merges with a row. Texts are the hits
the expressions and models would find in them. `Found` stops a pattern at `max_matches`
hits in all, after it has taken one; `ReportedIsStrongest` compares what is reported with
every valid hit of the text, and exempts those that this cut off, whatever their severity.

`Guardrail` is the scanner's transaction: `Begin`, then for each trace `Read`
(findings inserted with ON CONFLICT DO NOTHING, row read without a lock) and
`Upsert` (row locked until the end), then `Commit` with or without its acks, or
`Abort`. Beside it are the storage writer as far as it locks the same rows, the
purge (`PurgeChildren`, `PurgeTraces`, `PurgeAbort`) and an operator
(`Acknowledge`). A write waits for the transaction that holds its row or its key,
and for the purge that deletes it, so that circles of waits between replicas would
show (`NoLockCycle`; not in it are the purge, which takes its locks in no order, see 4, the
rows of spans, and the eval scorer's UPDATE of several traces). `raced` marks the traces
whose row was written between another transaction's read and its lock: the code
merges into what it read, and the summary may lose an update then.

### 2.8 The parts

* `Judging`: which samples a prompt shows, how an answer's items become verdicts,
  the heuristic judge. Which traces are sampled and how scores are stored is not here.
* `EventSchema`: `Encode`, `Decode`, `Upgrade` and `Parse` of an event on the wire,
  of which any producer may have left out or spoilt fields; price lookup and cost.
  `Accepts` is the validation: required fields, null where none is allowed, a value
  of another type (`Garbage`), a type, kind or status that is not in its enumeration.
  A text is its length and the number in its mark, so that an error which was clipped
  is clipped again when it is read again. Left out: the event id and the time made
  afresh, time stamps without a zone read as UTC, the clipping of inputs and outputs
  by the tracer, the numbers that pydantic takes from strings.
* `ModelUsage`: `ExtractUsage` and `ModelOf` find the counts and the model in the
  answer of any provider; `LlmEnd` is the event, which the other module then reads.
* `TraceView`: the call tree the API builds of the spans that are there.
* `RateLimit`: requests that read the clock, and later count; Redis goes away, or
  counts and its answer is lost.
* `Paging`: a reader between whose pages rows are added, deleted and raised again.
  The time of a row is read from a clock before its row is locked, so a raise may set
  any time, an earlier one too (`sunk` has the rows this befell).
* `DriftBaseline`: captures that overlap, and the monitor that compares. Its z score,
  `FarBelow` and `alerted` are what the handler computes; no property reads them.
* `Heartbeats`: roles that stop, hang or are killed, a database that goes away,
  and what the three readers of the table say of it. That `/health/meta` also names
  the lag and a Redis that is away is in `Problems`; no property reads it.

## 3. Runs

Exhaustive; none takes more than three minutes with two workers.

| Run | Instance | Checks |
|---|---|---|
| `consumer_safety` | 2 replicas, 2 events (one malformed), batches of 2, ceiling 1, 1 outage, all faults but a failing dead-letter write | `TypeOK`, `NoSilentLoss`, `NothingForgotten`, `BoundedDelivery`, and the refinement `DeliverySpec` |
| `consumer_liveness` | 1 replica, 2 events, pages of 1, ceiling 2, 2 outages, also failing dead-letter writes | `EventuallySettled`, `HealthyEventsSurvive` |
| `consumer_lookup_fault` | as above, one event, XPENDING may fail | violates `EventuallySettled` |
| `storage_replicas` | 2 replicas, 4 events of 2 traces, batches of 2 | `RollupExact`, `SpansComplete`, `EndedStaysEnded`, `TraceConverges` |
| `storage_two_halves` | 2 replicas, one trace whose span failed | violates `ReplicasAgree` |
| `publisher` | a process and its child, 2 events, queue of 1, all faults, processes that end or are killed | `Accounted`, `InOrder`, `OwnEventsOnly`, `EarlyEventsLeave` |
| `eval_scorer` | 2 interchangeable replicas, 2 messages of one tenant, one with its question in its end and one without, cap 1, all faults | `HeldIsInHand`, `SettledIsGraded`, `ScoresArePaidFor`, `OneLateCall` |
| `scheduler` | 4 deployments: a worker, the API, both, two APIs; 3 jobs of which the first always fails, 2 outages | `ScheduleIsHonest`, `StopIsPrompt`, `DueJobsRun` |
| `langchain` | 2 interchangeable threads, a graph of 3 runs, a run table of 2, 3 spans, 3 blocks or runs opened, a named agent run and a minted trace | `ContextMatchesBlocks`, `TreesStayWhole`, `TracesClose`, and the refinement `TreeSpec` |
| `langchain_parent` | the same | violates `ParentInTrace` |
| `guardrail` | 2 interchangeable scanners, a storage writer, the purge, an operator; 2 traces, one expired; 4 events, one that cannot be scanned; 4 deliveries, batches of 2 | `FlagsCoverFindings`, `SeriousAlerted`, `NoLockCycle`, `NothingStranded`, `AcknowledgedStays` |
| `parts` | one scene a behaviour; see 3.1 | `ChecksumsCatch`, `ReportedIsStrongest`, `VerdictsFindTheirTrace`, `FactsSurvive`, `EverySpanShown`, `QuotaHolds`, `EachOnce`, `OneBaseline`, `HealthHonest` |

### 3.1 Why the bounds are enough

* *Two replicas* are what every race here needs: one that decides and one that
  changes what was decided upon. `BoundedDelivery` is stated in the number of
  replicas and proved for any number.
* *Two events or messages*: one healthy and one malformed; or two that share a
  batch, a trace or a tenant. A page or a queue of 1 makes the second event one
  that is hidden behind the first, or refused.
* *A ceiling of 1 or 2* is reached by one redelivery and passed by the next.
* *Outages* (crashes, stops, flushes, lost connections of the scheduler) are
  bounded because a system that is killed for ever settles nothing; errors that
  the code catches (handler, XACK, XCLAIM, judge, database) are not bounded.
* `Rewrites = FALSE` in `EvalScorer` keeps storage from writing a row to which a
  batch brings nothing new: such a write can only put back a status that it read
  before, and without the bound the run does not end in time. The theorems have no
  such bound.
* *Scheduler*: the four deployments are those of `docker-compose.yml` and `render.yaml`,
  the two together, and an API that is replaced by another. Two outages let the
  task of the only host die, or those of both.
* *LangChain*: three runs are a root, a node that may be skipped and a leaf; a
  table of two evicts the root or the node. A second minted trace would only be
  a third trace beside the named and the minted one.
* *Guardrail*: two traces are the fewest whose locks can form a circle; four
  deliveries let one event be delivered three times, or all of them once. The
  writer's batch names the traces in the order that is not theirs.
* *Parts.* `ChecksumsCatch` varies two neighbouring digits at every place of a
  number of `Digits` digits and compares with every single change and every swap: the
  other digits only shift the sum, so they are zeros; the theorems of `Parts_proofs`
  are about any digits. Texts have up to four hits
  at four places, which is where three hits overlap in a chain; payloads have
  up to four fields beside the trace, enough for any one rule of the upgrade and one
  value that does not fit; `ErrorLimit = 4` lets an error be shorter than the limit, as
  long, or longer; the answer of a model
  tells its counts in up to two of eleven places; call trees up
  to four spans, a circle below a top span included. `StaleBeats = 4` is the
  code's own number. Two buckets and a half of time, a quota of 2 and four
  requests fill the window across a boundary. Two overlapping captures, of four. Three
  rows at two times have a tie, a page boundary inside it, and a row that moves past it.
* *Symmetry* over replicas or threads is used with invariants and refinements
  whose mapping does not name them, never with fairness.
* CHECK_DEADLOCK FALSE is said by `publisher` (all closed, all published: the
  program has ended) and by `langchain`, `guardrail` and `parts`, whose bounded
  histories end.

### 3.2 Fairness

* `StreamConsumer`: a replica that can take a step does (weak fairness of its
  `Step`: an asyncio loop with `while not stopping`), a process that is down is
  restarted, pending entries grow idle. Strong fairness of the claim timer, of
  XCLAIM, XREADGROUP, XACK: each may fail any number of times, not for ever.
  Nothing is assumed of the handler: an event whose work never succeeds is
  settled by the ceiling.
* `Publisher`: weak fairness of the drain thread only, while its process lives. Redis
  may refuse all, and the process may end at any moment after `close()`.
* `Scheduler`: time passes, a worker is restarted, a job that runs ends. Nothing
  restarts the task of an API.

The other modules state no liveness: the host of the LangChain runs may abandon
them, and the scanner's progress is that of the `StreamConsumer` it runs in.

## 4. Findings

1. `consumer_lookup_fault`. Any error of XPENDING that is not a reply of the
   server, a lost connection included, is taken for a server that cannot claim
   (`P/workers/base.py:311`), and the replica never reclaims again. The events
   of a failed batch then stay pending.
2. `storage_two_halves`. The trace row is read before the lock and merged into
   after it: of two replicas that store halves of one trace the second to write
   drops what the first merged (`P/workers/storage_writer.py:168`), although the
   docstring says they agree. `TraceConverges` says when they do: when no merge
   of the trace raced.
3. `langchain_parent`. `trace_context` changes the trace of the context and leaves
   the open span (`S/context.py:102`), so an operation of a named agent run opened
   inside a span of another trace gets that span as its parent
   (`integrations/supportpilot/observability.py:291`). `Tracer.span` has a check
   for exactly this (`S/tracer.py:254`), which then compares the trace with the
   one that was just set. The platform's tree shows such a span at the top
   (`EverySpanShown`), not where it belongs.

Seen while reading, with no run of its own:

* The dead-letter write that fails is logged and its event acked all the same
  (`P/workers/base.py:524`): it is then neither worked nor recorded.
  `consumer_safety` leaves that fault out, the theorems assume it away.
* `flush()` can return True while the drain thread holds the events it has taken
  and not yet counted as in flight (`S/publisher.py:314`); `publish()` after
  `close()` returns True and nobody drains the queue (`S/publisher.py:188`).
* A message that waits unacked longer than the claim's idle time is graded by
  another replica too, as each has its own held set (`P/workers/eval_scorer.py:151`).
* One database error while `_is_due` or `_record` reads or writes `job_runs`, both
  outside the `try` (`P/workers/scheduler.py:148`, `:206`), ends the loop. A worker is
  restarted; in the default `render.yaml` the API is the only host, and no job runs
  again until somebody restarts it, although the comment says that the next tick
  tries again (`P/workers/scheduler.py:192`). `DueJobsRun` says so.
* A `trace.end` of the LangChain handler has no input (`S/langchain.py:676`). If it is
  stored before its start and the scorer looks in between, the trace is marked
  `not_scorable` for good and its message acked, although the comment says that it
  "genuinely has nothing to grade" (`P/workers/eval_scorer.py:327`).
* The drain thread is a daemon (`S/publisher.py:155`): when `close()` gave up waiting
  at exit (`S/publisher.py:254`), the events in its hands are gone and not counted.
* Once `max_matches` hits are found each later pattern adds its first hit only
  (`P/guardrails/patterns.py:393`), and the cap looks at no severity: a critical hit
  may be missing from a text in which `scan_text` says it finds "every validated
  match" (`P/guardrails/patterns.py:370`).
* A blank `tenant_id` becomes "default" without an error, where the comment says
  "Fail loud instead" (`S/schema.py:272`).
* An error that was clipped is longer than its limit by its mark, so each further
  reading clips the mark and writes another; the number that said how much was cut
  off is lost (`S/schema.py:204`).
* The delivery ceiling is `>`: one delivery more than `README.md:50` says
  (`P/workers/base.py:326`).
* A redelivered `trace.start` overwrites the input of the row
  (`P/workers/storage_writer.py:354`); `eval_status` is written back as it was
  read (`P/workers/storage_writer.py:96`); `skipped_budget` and `not_scorable` are
  set by an UPDATE that matches no row before storage has written one
  (`P/workers/eval_scorer.py:239`).
* The scanner merges into the row it read before its lock, so of two scanners on
  one trace one summary may be lost (`P/workers/guardrail_scanner.py:114`); the
  findings themselves are all stored.
* The purge deletes the children of its traces first and their rows last, in no
  order (`P/jobs/retention.py:103`), so it and a replica that writes to an expired
  trace may wait for each other; PostgreSQL aborts one, and both are tried again.
* A resolved alert is refreshed, not reopened, when its condition returns
  (`P/alerts.py:70`); its `created_at` moves, so a reader of the list may miss it
  between two pages. It is the clock of the raiser before it waits for the row
  (`P/alerts.py:67`), so of two raisers the later write may set the earlier time, and
  the reader then sees the row twice.
* The in-process counter evicts expired keys only, so its bound can be exceeded
  (`P/security/ratelimit.py:54`). The quota assumes that Redis answers or fails
  within a window; the client has no read timeout (`P/redis_io.py:34`).
* A place that tells only a total hides a later one that tells prompt and completion
  (`S/langchain.py:803`): the call then costs nothing.
* With `OBS_EVAL_BACKEND=ragas` the judge tells no tokens, so no cap binds; the code
  says so (`P/evals/judge.py:520`). `EvalScorer` is about the other backends.
* Prices are looked up by substring where the comment says prefix
  (`P/pricing.py:107`); the longest match wins.
* `order_spans` says orphans come at the end (`P/api/serializers.py:146`); they
  are sorted among the top spans by their start (`P/api/serializers.py:151`).
* `/health/meta` counts the row of a role that stopped in good order, or whose
  host was replaced, as stale for ever, while the container's check reads rows
  that say "running" only and calls it the same rule (`P/api/routers/health.py:165`,
  `P/workers/cli.py:59`). With Redis away the check of write freshness is skipped
  (`P/api/routers/health.py:176`), and a lag the server does not tell is 0
  (`P/redis_io.py:93`).

## 5. Proofs

TLAPS proves, for every value of the constants that satisfies the assumptions
named in each module:

| Theorem | Says | Inductive invariant |
|---|---|---|
| `StreamConsumer_proofs` | | |
| `TypeCorrect` | `TypeOK` | itself |
| `NeverForgets` | `NothingForgotten` | without a group the cursor is 0 and nothing pends; what pends lies at or below the cursor; what lies above it was never counted as delivered |
| `AtLeastOnce` | `NoSilentLoss`, if dead letters can be written | what each replica has decided and not yet told Redis (`OutcomeInv`): a batch about to be acked is worked but for its dead letters, dead letters about to be acked are recorded |
| `HealthySurvive` | `HealthyEventsSurvive`, whatever fails | the same, with: only malformed events are rejected by a handler, only exhausted ones by the reclaim, and counts and work only grow |
| `NeverInfinitely` | `BoundedDelivery` | beyond the ceiling an event's count plus the replicas that have decided to claim it is at most the ceiling plus the number of replicas (`CeilingInv`) |
| `ImplementsDelivery` | `DeliverySpec`, if dead letters can be written | initial states map to initial states, every step to a step of `EventDelivery` or a stutter, under the invariant of `AtLeastOnce` |
| `StorageWriter_proofs` | | |
| `TypeCorrect` | `TypeOK` | itself |
| `RollupsAreExact` | `RollupExact` | a trace row is held, and a span row written, by one transaction at a time (`TraceLocks`, `SpanLocks`); who holds a trace keeps its rollups until it commits, and its aggregate stays what its transaction sees, because committing a span of the trace takes the trace row (`Held`) |
| `TracesConverge` | `TraceConverges` | a row, and the merge a transaction has in hand of a trace it holds, is what the merge of the events applied so far comes to in any order (`ConvergeInv`), because one merge more of a folded row is a folded row |
| `SpansAreComplete` | `SpansComplete` | what the statements done so far have put in the table or found there (`Stored`), and an uncommitted row is an end or the first row of its span (`Written`) |
| `EndsAreFinal` | `EndedStaysEnded` | the same |
| `Scheduler_proofs` | | |
| `TypeCorrect` | `TypeOK` | a process that holds a job is at a position of the list, and what it read is an age of that job |
| `HonestSchedule` | `ScheduleIsHonest` | what `_record` read and may write back is no younger than the last success, whatever others have written since |
| `PromptStop` | `StopIsPrompt` | a process that began a job after the request is still asked to stop, and is not looking at another |
| `Publisher_proofs` | | |
| `NothingUncounted` | `Accounted` | an accepted event is in the queue, in the batch, counted or gone with its process, and in one of them (`PlaceInv`); what a flush covers has left the queue once the queue was seen empty (`CoverInv`) |
| `OwnOnly` | `OwnEventsOnly` | a queue that is drained holds what its own process published; a closed copy of a publisher keeps its parent's queue, and nobody drains it (`OwnInv`) |
| `StreamInOrder` | `InOrder` | the batch is ahead of the queue, and both are later than what the process has in the stream (`LineInv`), so a batch sent once or sent again can only append |
| `EvalScorer_proofs` | | |
| `HeldExactly` | `HeldIsInHand` | each entry is in one of a replica's hands, and what is to be acked is not (`HandInv`) |
| `CapBinds` | `OneLateCall` | a replica that has called past the cap has nothing more of that tenant to grade (`LateInv`), and the totals only grow |
| `AcksAreEarned` | `SettledIsGraded`, for traces with their question in their end or not | a status that a row, a read of storage or a replica holds before the trace ended was put there with its reason (`StatusInv`), so what is marked or acked has one (`AckInv`) |
| `EveryScoreIsPaid` | `ScoresArePaidFor` | a delivery is in the hands of one replica (`ApartInv`); calls made and deliveries still to be graded are together no more than deliveries (`BillInv`, by counting finite sets); the total covers what is stored (`SpendInv`) |
| `Guardrail_proofs` | | |
| `NoCircle` | `NoLockCycle` | a transaction has locked the lowest of its traces (`OrderInv`) and inserted keys of these and of the next only (`KeyInv`); so who is waited for is further along the order of the traces, and the traces left above the next one count down along every chain of waits |
| `PurgeIsWhole` | `NothingStranded` | the rows a scanner has locked are among those it will commit (`RowInv`) |
| `AcknowledgementStays` | `AcknowledgedStays` | an alert is a record of three fields (`AlertInv`) |
| `SeriousIsAlerted` | `SeriousAlerted` | what a transaction is past of is in the table or in its hands, and it raises an alert for each trace of which it has a serious finding (`ReadOf`, `RaiseOf`); what is acked was stored (`AckInv`), and each serious finding in the table has its alert (`RaisedInv`) |
| `FlagsAreComplete` | `FlagsCoverFindings` | no two transactions hold one trace (`MutexInv`); a committed row covers the findings of its trace, and an uncommitted one those its transaction has inserted besides (`CoverInv`) |
| `ReportsTheStrongest`, `TellsTheStrongest` | `StrongestReported` (a valid hit is left out for one at least as strong that it overlaps, or by the cap, which takes the first of no pattern), `StrongestTold`, for any hits, rules and similarity | none: about `Detectors`, by induction along the loop that keeps hits and the one that finds the best rule |
| `DetectorsReport` | `ReportedIsStrongest`, of `DetectorSpec` | the hits and the signals have their fields (`ShownInv`); then the two above |
| `LangChain_proofs` | | |
| `TypeCorrect` | `TypeInv`, the types of `Tracer` and `LangChain` | itself |
| `ContextsRestored` | `ContextMatchesBlocks` | each block remembers the context of the blocks around it (`ContextInv`) |
| `TreesWhole` | `TreesStayWhole` | the table, the hooks and the host agree on a run (`RunInv`); a hook works for a run that began and for which no other does (`HookInv`) |
| `TracesClosed` | `TracesClose` | a roll-up is of a root that began in its trace and that somebody will still close, unless it was pushed out or could not be published (`RollupInv`); of a trace that roots did not share, the starts less the ends published are the blocks and the good roll-ups open on it (`BracketInv`, by counting finite sets) |
| `ImplementsTree` | `TreeSpec`, every step a step of `SpanTree` or a stutter | a span that a thread finds in its context, or in one it will return to, has started (`ParentInv`); a block or a run has its span to itself, in the state that its hooks have brought it to (`BlockSpanInv`, `RunSpanInv`) |
| `Parts_proofs` | | |
| `HonestHealth` | `HealthHonest`, of `HealthSpec` | what is gone is gone for at least as long as its last beat is old (`GoneInv`), and the beat of a role that runs is as old as its last calm round but for one (`CalmInv`) |
| `BaselineStays` | `OneBaseline`, of `DriftSpec` | who captures alone retires all that are active, and what another leaves active was captured at the same time (`CaptureInv`); a baseline that is active was captured at the same time as each later one (`LaterInv`) |
| `QuotaBinds` | `QuotaHolds`, of `LimiterSpec` | while a counter matters it has counted all that were let through (`CountInv`); the bound itself for all pairs of buckets (`PairInv`) |
| `EveryRowOnce` | `EachOnce`, of `PagingSpec` | what was shown and is still there is not below the cursor, unless a raise set its time back, and what was left alone was shown or is below it (`WalkInv`) |
| `WrongDigitsCaught`, `SwappedDigitsCaught`, `WrongCharactersCaught` | what the three checksums notice, in numbers of any length | none |
| `ChecksumsNotice` | `ChecksumsCatch`, of the whole of `MCParts` | the digits that vary lie in the number (`NumberInv`); then the three above, and that an account number with its right check digits is an IBAN |
| `ContextsFillBudget`, `UsableInOrder`, `VerdictsKeepTheLast`, `HeuristicIsFair` | what a judge is shown, what becomes of any answer of it, and what the heuristic says, for any batch | none |
| `VerdictsFound` | `VerdictsFindTheirTrace`, of the whole of `MCParts` | an answer is about the trace its id stood for (`ItemInv`), and the texts are sets of words (`TextInv`); then the four above |
| `EverySpanIsShown` | `EverySpanShown`, of the whole of `MCParts` | spans name parents and moments, or none (`SpanInv`). Siblings are in a total order, so each place in a list of children has one span; call by call the walk shows the children of one span more right behind it, and no span twice; what it does not reach runs in a circle |
| `ReadAgain` | an event that is encoded and read back is the same, but for the number in the mark of an error that was cut off | none |
| `ReadsWhatWasSaid` | of any payload: an error exactly where its version cannot be read, its trace or its type is missing, or a known field has what does not fit it, else each field under the name of its version, a blank tenant excepted (`PayloadSurvives`) | none |
| `CostsTheLongestKey` | for any prices: a cost is a natural number, nearest to the exact one, at the price of the longest key in the name | none; that half of a millionth rounds to the even one does not matter |
| `FactsAreKept` | `FactsSurvive`, of the whole of `MCParts` | a payload has fields that JSON can bring (`Readable`), an answer tells counts and names where its provider does (`ReplyInv`); then the two above, and that of the places of an answer the first that tells something is taken |

Each module proves that the initial states satisfy its invariant, that each
action preserves it (one step per action), and that it implies the property. The
strengthenings are needed because the properties speak of shared state only,
while what breaks them is a local value that has become stale; the invariants
say how stale it may be.

*Assumptions.* The constants are what the code takes them for: finite sets of
threads, rows and traces, positive limits, values that stand for "nothing" or
"not a number" outside of the numbers (`None \notin Runs`, `NotANumber \notin Int`,
`Nonsense \notin Int`; null and `Garbage` differ and are no number, no text, no name of a
model and no table of these), a log of
events of the types of the schema, names of models that are sequences of `Letters`,
price tables of natural numbers. A few are about an instance only, and only the
theorems about the whole of `MCParts` rest on them: `Digits \in 11 .. 30`, which is
what an IBAN has room for; `MaxContextChars \in 1 .. 8`, which makes the contexts of
its batch too long; `SchemaVersion = 2`, as in the code, which has one upgrade;
`Letters` and `Details` that contain the ones the instance uses; and
finitely many `SpanIds` that are numbers, with which the walk of a tree breaks ties.
TLC evaluates each assumption in a run.

*Recursive functions.* The library's induction theorems cannot be used here, as
they take an operator. Two lemmas take their place: a set of natural numbers
that is not empty has a least element, and so a function that is defined by
recursion on `0 .. n` exists and satisfies its equation (`Recursion`). The loops of
the code are such functions (`Found`, `ResolveOverlaps`, `BestRule`, the sums of the
checksums, the budget of the contexts, the walk of a tree), and what they return is
proved from there.

*Model-checked only.* Liveness (`EventuallySettled`, `EarlyEventsLeave`,
`DueJobsRun`): fairness and ENABLED are out of the prover's reach. Every other
property of a run that passes is a theorem, of the whole specification of the run or
(`HealthHonest`, `OneBaseline`, `QuotaHolds`, `EachOnce`, `ReportedIsStrongest`) of the
scene that it is about; the three runs that find a violation show
what cannot be one.

## 6. Plan

1. Core (`EventDelivery`, `StreamConsumer`, `StorageWriter`, `Publisher`,
   `EvalScorer`, `Scheduler`): modelled and checked.
2. Guardrails with alerts, retention and lock order; tracer and LangChain; the
   parts: modelled and checked.
3. Proofs: of every safety and action property that a passing run checks, and of
   both refinements.

## 7. What is not modelled, and why

Matching of text, prompts, rendering and cryptography are data without state.
Settings, migrations, the table definitions, the dashboard, load tests and scripts
are declarations or I/O; what they declare appears as CONSTANTS and as the fields
of records. Users, tokens and the audit log are rows written once by one request.
Of PostgreSQL only row locks, unique keys, READ COMMITTED visibility and rollback are
modelled, and of Redis streams, groups and counters, as the code uses them. Clocks
are abstract: no run measures a time-out, each may come at any moment, which
covers every setting; where a duration matters (`RateLimit`, `Scheduler`,
`Heartbeats`) time goes in ticks of it.

## 8. Running

    tlc -workers 2 -config consumer_safety.cfg MCStreamConsumer
    tlc -workers 2 -config parts.cfg MCParts
    tlapm StreamConsumer_proofs.tla    # and the other seven *_proofs.tla
