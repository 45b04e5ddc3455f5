# TLA+ models of Dunetrace

Dunetrace watches AI agents.  An SDK inside the agent's process records what a
run does and enforces policies on it; an ingest service stores the events; a
detector worker looks for failures in finished and stalled runs; other workers
judge transcripts with a model, pull results of external tools and correlate
costs; an alert worker tells people; an API lets people decide.  Every part
makes promises that only show under failure: events may be dropped but must be
counted; a batch is retried until someone takes responsibility for it; a run is
analysed exactly as often as its events require; a failure is alerted, once; a
guarded tool runs on a grant only.  These models state those promises, check
them on small instances and prove some of them for all.

    agent's process                                    server
    ---------------                                    ------
    framework hooks ─> run record ─> ring buffer ─> drain ─> emitters ═══> ingest API ──> events
     TraceRuns          RunRecord     RingBuffer    SdkRuns   HttpEmitter   IngestPersist    │
     ChainRuns          Detectors     TsBuffer      TsSdk     DurableQueue  Otlp             │
                        DetectorRuns                          (Delivery)                     v
     PolicyRun  <── engine <═══ PolicySync ═══ policies                     detector worker: DetectorPoll,
     Approvals  <═════════════ (ToolGate) ════ approvals <── people          RunProcessing, CrossRun,
                                                 ^                           DetectorRuns, Grounding
                                                 └── alert worker <── signals, issues ──┘
                                                        Alerts    <── Semantic, ExternalSignals, VoiceCost

The modules meet at what one hands to the next: batches drained by `SdkRuns`
are those of `HttpEmitter`; a batch the SDK re-sends is one of `IngestPersist`;
the runs a poll of `DetectorPoll` finds are processed as `RunProcessing` says;
its signals are those of `Alerts`.  `SdkRuns` extends `RingBuffer`, `TsSdk`
extends `TsBuffer`, `DetectorRuns` applies `Detectors` to the two records of
`RunRecord`; the others are separate because their processes share nothing but
a table or a request.

## Contents

1. Inventory of the system
2. Modules and how they correspond to the code
3. Runs, bounds, fairness
4. Proofs
5. What the models say against the documentation
6. What is not modelled
7. Plan

## 1. Inventory

**SDK ring buffer** (`packages/sdk-py/dunetrace/buffer.py`).  State: a deque of
`(seq, item)`, the count of live items, the set of tombstoned numbers, an index
of a run's ordinary items, one of items without a run, the numbers of forced
items, and the drop records of shed runs.  Operations: `push`,
`reserve_terminal`, `drain`, each under one lock.  When the buffer is full it
sheds the oldest *run*, and everything the run emits later; terminals are
protected until only terminals are left.  Hard: five indexes kept up
incrementally, tombstones, two caps, and a count that must be right on the wire
although shedding goes on after it was stamped.
*Correct when* the cap and the memory bound hold, the indexes agree with the
deque, and every lost event is counted on its run's terminal.

**SDK client** (`client.py`).  State: the buffer, the open runs' threads, the
drain thread and its stop and flush events.  A run's end is a reservation, a
stamp and a push, with other threads in between.  *Correct when* what a run
emitted was shipped, is buffered, or is in its `dropped_events`.

**HTTP emitter** (`HttpBatchingEmitter` in `emitters.py`).  State: an in-memory
queue of failed batches with attempts and due times, an event counter.  Resends
happen outside its lock, from the head; a wrapper may take retry over.
*Correct when* a batch has one owner until it is settled, the oldest goes first,
the cap holds, and nothing waits for ever.

**Durable queue** (`DurableRetryEmitter`).  State: a SQLite file shared by the
user's processes, and per process a due time.  A whole retry round is one
transaction around HTTP calls.  *Correct when* a queued batch survives crashes
and other processes and is delivered in order.

**TypeScript SDK** (`packages/sdk-ts/src`).  The buffer and client again, on an
event loop: nothing waits for a `ship()` the timer started.  Tombstones are told
from live events by a count per run.  *Correct when* as above.

**Run record and detectors** (`run_context.py`, `run_builder.py`,
`detectors.py`).  The hooks keep a run's state in the agent, the server rebuilds
it from events; some thirty detectors read either.  Calls overlap.  *Correct
when* both sides say the same and what they say is what happened, in the order
it happened.

**Policies: evaluation** (`run_context.py`, `policies/`).  Per run: what acted,
counters, what of the signals it needs, cached by the engine's generation, while
other threads reload the engine.  *Correct when* a policy acts once and a new
one is heeded.

**Policies: remote fetch** (`remote_fetch.py`, `client.py`, ingest API).  Per
agent: in-flight slot, TTL, backoff, cache file, bucket in the engine; at the
server rows with revisions and signatures.  *Correct when* no load goes
backwards or disarms another agent, and none stays stale for ever.

**Approvals** (`run_context.py`, API, alert worker).  One row per guarded call,
decided by people, by the SDK's deadline or by the server's expiry.  *Correct
when* a tool runs on a grant only and the report is what the row says.

**Integrations for OpenAI Agents and LangChain**
(`integrations/openai_agents.py`, `integrations/langchain.py`).  Per trace or
invocation a context; hooks race in tasks and threads, nodes nest and outlive
their roots, stale ones are swept and come back.  *Correct when* each run has its own calls, each paired,
and one true terminal.

**Ingest API** (`services/ingest`).  State: `events`, `policy_evaluations`, the
handlers in flight.  The key is looked up in the same database.  *Correct when*
202 means stored, a re-send is neither stored again nor refused for ever, and an
SDK lets go of a batch for a reason that can be named.

**OTLP receiver** (`routers/otlp.py`, `otlp_limits.py`, `otel.py`).  State: the
kill switch and its cache, token bucket, in-flight guard, circuit breaker, retry
buffer, counters.  The answer precedes the insert, and the store that is shipped
reports a failed insert as no rows, which nobody reads.  *Correct when* what was
accepted is stored, held, or gone in one of a few ways: the oldest of a full
buffer, unmappable, with a restart, or with such an insert.

**Detector worker** (`services/detector`).  State: `processed_runs`,
`run_processing_failures`, `detector_watermarks`, `failure_signals`, `issues`,
`conversations`; per poll the runs found.  A stalled run is processed without its
terminal, which alone tells whether events were dropped.  *Correct when* every
ended run is analysed with all its events although the scan is bounded by a
watermark, no signal is written twice, and issue counters count runs.

**Alert worker** (`services/alerts`).  State: `alerted` and the claim of each
signal, `alert_dedup` per group; per poll the decision taken.  Replicas share a
shard.  *Correct when* a signal is sent once and the dedup window holds.

**Semantic worker** (`services/semantic`).  State: decisions, quota and budget
usage, tasks.  *Correct when* every evaluation is charged for and every run is
decided on.

**Integrations worker** (`services/integrations`).  State: per integration the
last success and marks of what was taken; the ElevenLabs history with a
correlation pass.  A cycle gathers its polls, and the first error ends it while
the others go on beside the next one's.  *Correct when* a result becomes one
signal but for faults that explain more, no result falls between two windows and an
exact match wins when it is there.

**Others**: auth and rate limits, risk engine, custom detectors, migrations,
retention, explainer templates, dashboard and MCP server, further integrations.
`PROJECT.json` lists each with its sources and status, and under `hazards` what
is hard to test in this code, at the line where it bites, with the property that
covers it.

## 2. Modules and the code

Every definition that models code is in `PROJECT.json`'s `map` with the lines it
stands for.  An action stands for the code between two points where something
else can happen: a critical section, a database statement or transaction, an
HTTP call, an `await`.  A definition named `X_Something` with a comment that
begins "Mutant:" is a deliberately wrong version of `X`; no specification uses
it.  It shows that the property it is paired with can be broken by a plausible
bug.

| module | code | state | actions |
|---|---|---|---|
| `RingBuffer` | `buffer.py` | `rb`, a record with a field per attribute | `Push`, `ReserveTerminal`, `Drain`, `DrainAll`, `Forget`, by arbitrary callers |
| `SdkRuns` | `client.py` | `rb`, and per run: phase, stamp, emitted, shipped, terminal | start, emit, reserve, push terminal, abandon, drain |
| `HttpEmitter` | `emitters.py`, drain loop of `client.py` | queue, counter, hand, stage of the loop | ship, idle turn, resend, post, backoff, delegation, stop, exit |
| `DurableQueue` | `emitters.py` | disk, write lock; per process place, rows, deletions | ship, round (select, send, discard, delete, commit), enqueue, crash, restart |
| `Delivery` | - (abstract) | where each batch is, tries | accept, try, lose |
| `TsBuffer`, `TsSdk` | `buffer.ts`; `client.ts`, `run.ts`, `emitters.ts` | buffer, runs, ships in flight, durable rows, stage | a callback, or what runs between two awaits |
| `IngestPersist` | `routers/ingest.py`, `db/postgres.py` | SDK, handlers, copies stored | send, timeout, authenticate, evals, check, insert, verify, reply, crash, outage |
| `Otlp` | `routers/otlp.py`, `otlp_limits.py`, `otel.py`, `otel_stats.py` | the store's kind, requests, switch and cache, tokens, guard, circuit, buffer, table | export, authorisation and admission step by step, background persist, maintenance loop, admin, restart |
| `RunRecord` | `run_context.py`, `run_builder.py`, `models.py` | the SDK's record, the events, calls under way | one per hook |
| `Detectors`, `DetectorRuns` | `detectors.py` | none | the detectors as operators on a record; both records judged |
| `Grounding` | `detectors.py` | record with provenance and taint | the hooks that matter to two detectors |
| `CrossRun` | `worker.py`, `run_graph.py`, `db.py` | runs, their events in and out of the store, what was learned | start, do, ingest, process |
| `DetectorPoll` | `worker.py`, `db.py` of the detector | clock, runs, records, watermark, poll | events, fetch completed/stalled, advance, begin, process, fail, stop, crash |
| `RunProcessing` | `process_run` and its statements | events, terminals, signals, issues, records, a job per run | late event or terminal, begin, write, upsert, advance, side steps, mark, finish, failures |
| `Alerts` | `_poll_once` and its statements | alerted, claims, windows, a poll per replica | detect, claim, decide, count, mark, deliver, stamp, release, die |
| `Semantic` | `semantic_svc/worker.py`, `db.py`, `sampling.py` | usage, decisions, tasks | poll, sample, quota, budget, evaluate, write, converse, mark, fail |
| `ExternalSignals` | `integrations_svc/worker.py`, `routers/external_signals.py` | clock, results, marks, signals, polls, the one awaited, requests | fetch, check, look up, mark, succeed, fail, alert, abandon, push |
| `VoiceCost` | `elevenlabs_worker.py`, `correlation.py`, the provider | clock, generations, events, rows, mark, the pass | poll, start pass, correlate, fail |
| `PolicyRun` | `run_context.py`, `policies/` | engine, run, cached needs and signals, the check under way | hooks, steps of a check, reload, gate |
| `PolicySync` | `remote_fetch.py`, `client.py`, `policies/`, server | rows, cache, buckets, slots, threads | edits, run start, steps of a fetch, time, restart, outage |
| `Approvals` | `run_context.py`, API, `alerts_svc/worker.py` | rows, threads, deadlines, deliveries | request, poll, decide, expire, mark, reread, notify |
| `ToolGate` | - (abstract) | verdict and outcome of each call | rule, end |
| `TraceRuns`, `ChainRuns` | the two integrations | contexts, spans or nodes, what was emitted | one per hook and per step of a hook outside its lock |

`MC*` modules instantiate these for TLC; `RecordMenus`, `GroundingMenus` and
`CrossRunMenus` hold the inputs of the detector models; `*Proofs` hold theorems.

Abstractions shared by all: payloads, names and wording are left out; an item is
its run and kind, a batch its number and size, a text the set of the marks or
words a detector looks for.  Clocks are ages or "due" flags wherever only a
comparison matters; where several times are compared with each other
(`DetectorPoll`, `ExternalSignals`, `VoiceCost`) there is a clock.  Metrics and
logging are left out.  Ghost variables record the past for the properties and
are never read by a guard.

Choices worth knowing:

- `RingBuffer` keeps the deque as a set of entries that carry their sequence
  number; `popleft` takes the smallest.  That is what makes it provable.
- `HttpEmitter` and `DurableQueue` treat one POST as one step with any of its
  outcomes, a timeout after the server stored the batch among them.
- `DurableQueue` gives SQLite's locking its real shape: reads take no lock, the
  first DELETE of a round does, and an INSERT elsewhere waits 5 seconds at most.
- `IngestPersist`: the SDK's timeout does not cancel the handler.  Batches differ
  in whether their events have ids, whether they hold events or evaluations, and
  whether their key is looked up.
- `Otlp`: `raises` says whether the event store lets an error through, as the
  retry code expects, or swallows it, as the one that is shipped does.
- `ExternalSignals` is one integration; what its siblings do to it is the end of
  the cycle (`Abandon`), after which a second poll of it may start.
- `RunRecord`: a response fills in the newest call, answered or not, and carries
  that call's id, unless the caller names another.
- `RunProcessing` takes which types fire as input, and one org's one agent;
  `DetectorRuns`, `Grounding` and `CrossRun` say what fires.
- `Alerts` takes policies, overrides and floors as an input of each poll.
- `TraceRuns` and `PolicyRun` cut a hook where its lock is released; `ChainRuns`,
  whose handler has no lock, cuts the one hook that reads a run's step back.

## 3. Runs, bounds, fairness

A run that names several machines has them side by side in one instance: the
initial state chooses which machine runs, the others rest in an initial state of
theirs, and no step touches two.  They do not interact; sharing a run costs the
sum of their state spaces, not the product.  Where the machines are also proved
about, the `MC` module extends their modules and the cfg gives the constants;
others are instances whose constants the `MC` module gives.

| run | module, cfg | machines | what it shows |
|---|---|---|---|
| Sdk | `MCSdk` | buffer under arbitrary callers; runs over it; two processes on one queue file; TypeScript SDK | indexes exact, every event accounted for, `dropped_events` exact, nothing queued is lost, first deliveries in order |
| Retry | `MCRetry` | queue in memory; durable queue of one process | `HttpEmitter` implements `Delivery`; nothing is held for ever; the backlog drains |
| Ingest | `MCIngest` | SDK batches; OTLP spans | 202 kept, one copy unless overlapped, accepted spans kept, every batch accepted or dropped for its key, accepted spans settle |
| Runs | `MCRuns` | processing of runs; alert replicas | one signal per type, none missed, issue counters exact, sent once, window honoured |
| DetectorPoll | `DetectorPoll`, `MCDetectorPoll.cfg` | | no run that never failed leaves the window; every ended run is detected |
| Semantic | `MCSemantic` | | evaluations are paid for; every run is decided on |
| ExternalSignals | `ExternalSignals`, `MCExternalSignals.cfg` | | repeats need a fault; results reach their runs |
| VoiceCost | `MCVoiceCost` | voice generations; pushed results | a captured id decides; every generation is decided on |
| Control | `MCControl` | approvals; policies of two agents | reports agree, `Approvals` implements `ToolGate`; guardrails kept, never backwards, refreshed |
| DetectorRules | `MCDetectors` | run records; grounding; several runs | agent and server agree, destinations and refusals judged by what was known, handoffs likewise |
| Agent | `MCAgent` | policies of a run; OpenAI Agents traces; LangChain invocations | a policy acts once, a new one is heeded, terminals and pairings exact |
| PolicyOutage | `MCControl`, `PolicyOutage.cfg` | | violation, see section 5 |

A run lists the properties it is for.  Type invariants (`TypeOK`, `RunTypeOK`,
...) and lesser properties are stated in the modules as well and hold in the same
instances; to check one, add its name to the cfg.

Bounds, and why they suffice:

- *Sdk*: two slots are the fewest in which a protected and an ordinary item
  compete.  Under arbitrary callers there is one drop record, so that its
  eviction happens, and four pushes; the proofs remove these bounds.  Over the
  buffer, three runs with two events each force sheds before, between and after
  a reservation and its push, and the eviction of a terminal by another's;
  `MaxShedRuns = 3` on purpose: with fewer, a record is lost and the account
  fails, which is a finding.  On the file, two batches are enough for order, two
  builds of the SDK for a row that does not decode; two rows and bytes make both
  limits evict; one crash, one outage.  In TypeScript, two runs of two events,
  two ships in flight, a durable queue of two rows, one failed answer.
- *Retry*: three batches of one or two events against a cap of three and two
  retries: one that fits, one that evicts, one that gives up, with any
  interleaving of backoffs, shutdown and delegation.  The durable queue has
  three batches, two rows and three bytes, and a file that may be unwritable.
- *Ingest*: two handlers per batch (the third must wait for one of them), two
  faults: a timeout, a crash, an outage and its end.  Three batches, two of them
  to be sent: one with ids and a key to look up, one without ids that carries
  events and evaluations through a trusted gateway, and one of evaluations only.
  Two spans, of which the second maps to nothing, in two requests, a burst, an
  in-flight slot and a buffer of one each, so that every limit refuses; a circuit
  that opens at two failures, one fault, one restart.  The store that raises is
  paired with a key lookup, the one that does not with a trusted gateway.
- *Runs*: three runs two at a time, threshold two, one late event and one fault
  at any step; any of them cut, or one stalled beside whole ones, whose terminal
  the late event may be.  Three signals, batches of two: groups span polls; a claim lives
  one tick, a window two, one poll may die or fail to send.
- *DetectorPoll*: two runs share batches of one and two, so that a batch is full
  and not; the clock of three ticks reaches beyond grace + stall timeout; four
  events allow a late one for each; one failure and one stop of any length.
- *Semantic*: three runs, one task each, batches of two; quota two, budget one,
  so that each refuses after the other accepted; one error or restart anywhere.
- *ExternalSignals*: one result and two polls, overlap two, lag and poll one each:
  the smallest in which lag plus the duration of a poll reach the overlap; one
  lost mark and one cycle given up, after which both polls look the result up.
- *VoiceCost*: two generations of one text, one with a captured id, one whose
  text is hidden: each kind of evidence decides once; one failed poll or row.
  Beside them one pushed result, two handlers, one that dies.
- *Control*: one call, two replicas, two faults: a lost answer and a crash.  Two
  agents and one policy for both, two threads, two edits, one outage or restart.
- *DetectorRules*: each menu is a family of hook calls of three to four steps
  with thresholds lowered to two or three, so that every detector fires.
- *Agent*: three steps, one reload, eight policies: each action and trigger, in
  dry run and enforced.  Two traces on two threads, two spans, one pruned trace.
  Eight LangChain nodes: two invocations of one task, a chain in a chain, a
  retriever that ends late, an announced tool that calls a model.

Symmetry is used over interchangeable runs and spans, in runs without liveness
only; the action properties checked beside it (`BacklogInOrder`,
`OneAlertPerWindow`) mention none of the permuted values.  `CHECK_DEADLOCK FALSE`
appears where the system may really stop: the process exits, the client is done,
the inputs are spent or the clock's bound is reached.

Fairness is stated where a liveness property is checked and only for what the
code drives itself: the drain thread (every wait in it has a timeout, and every
POST one), backoffs and the 30 s cadence elapse, handlers run, SDKs re-send, the
OTLP maintenance loop ticks and an outage ends, worker loops poll, time passes, a
process that went down is started again, the gate polls and its deadline passes,
a fetch thread goes on.  Never for faults, never for an event's arrival.  It is
weak per driver; strong where something else switches the step off and on: a run
of an agent starts again and again (`KeptRefreshed` is about agents that are
used), the steps of a poll that other polls' failures cut short
(`ExternalSignals`), and the two halves of the ElevenLabs worker, which alternate
(`VoiceCost`).  `HeldSettles` assumes nothing of the backend;
`BacklogDrains` and `EveryBatchAccepted` ask for an outage to end (`<>[]`), and
`CompletedDetected` leaves out runs whose own processing failed.

To run one by hand: `tlc -workers 2 -config MCRetry.cfg MCRetry`.

## 4. Proofs

Eight modules hold theorems; `tlapm SdkProofs.tla` and so on checks them.
Each component's argument has the same form: an inductive invariant, a lemma per
action that keeps it, a theorem that it always holds, and the checked property
as a consequence of it.  A theorem holds for every value of the constants that
satisfies the named assumption of its module; what it assumes beyond that is in
its statement and in this table.

| module | about | proved | assumed |
|---|---|---|---|
| `SdkProofs` | `RingBuffer` | `BookkeepingExact`, `CapacityBound`, `MemoryBound`, `ShedRunsCutWhole`, type, `ProtectedEvictedLast` | `RunsAssumption` (finitely many runs), `SizeAssumption` (limits at least 1) |
| | `SdkRuns` | `BookkeepingExact`, `EveryEventAccounted`, `DroppedEventsExact` | as above, `EventsAssumption`, and `EnoughRecords` |
| | `DurableQueue` | `QueuedNotLost`, `BacklogInOrder` | `QueueAssumption` |
| `HttpEmitterProofs` | `HttpEmitter` | `ImplementsDelivery` | `EmitterAssumption` |
| `IngestProofs` | `IngestPersist` | `PromiseKept`, `OneCopyUnlessOverlapped`, type | `IngestAssumption` |
| | `Otlp` | `AcceptedKept` | `OtlpAssumption` |
| `RunsProofs` | `RunProcessing` | `OneSignalPerType`, `DetectionComplete`, `IssueCountsExact` | `ProcessingAssumption` (finitely many runs) |
| | `Alerts` | `SentOnce` | `PollsEndInTime` |
| | | `OneAlertPerWindow` | `AlertsAssumption` |
| `PollingProofs` | `DetectorPoll` | `WorkVisible` | `PollAssumption` |
| | `Semantic` | `EvaluationsPaid` | `SemanticAssumption` (finitely many tasks) |
| `IntegrationsProofs` | `VoiceCost` | `CapturedIdDecides` | `VoiceAssumption`, `MaxLatency <= Window` |
| | `ExternalSignals` | `RepeatNeedsFault` | `ExternalAssumption` (finitely many polls at once) |
| `ControlProofs` | `Approvals` | `ReportAgrees`, `RunsOnlyIfGranted`, `ImplementsToolGate` | `ApprovalsAssumption` |
| | `PolicySync` | `GuardrailsKept`, `NeverBackwards` | `PolicySyncAssumption` |
| `AgentProofs` | `PolicyRun` | `ActsOnce`, `NewPolicyHeeded` | `PolicyAssumption` |
| | `TraceRuns` | `TracesExact` | `TraceRunsAssumption` (finitely many spans) |

**The buffer.**  `IInv == Sound(rb) /\ WithinMemory(rb)`.  None of the checked
invariants is inductive alone: that the live count is right when a run is shed
needs that the run's index holds exactly its live events, that needs that a
tombstone names one entry, and that needs that numbers are unique and below the
counter.  `MakesRoom` says that the making-room loop frees a slot; it rests on
`CutWhole` (a run with a record has nothing left to shed).

**The client.**  Each buffer operation is first described by what its callers can
see: which entries it takes out (`gone`), puts in (`new`), whom it refuses, and
that each drop record grows by what its run lost (`Changed`, and `ChangesCompose`
for operations made of several).  What goes is events only, or one terminal for
another (`Sheds`).  Upon this `SdkSound` says, per run: the stamp a thread holds
is no more than its record; a terminal in the buffer comes after everything else
of its run, carries no more than the record, and the drain puts the record's
value on it; what was emitted is shipped, buffered or recorded; and of a drained
run nothing is left, so the difference of emitted and shipped stands.  The
reservation, the stamp, the push and the drain are separate steps of the proof
as they are separate critical sections of the code.

`EnoughRecords` (as many drop records as runs) is needed and is not a technical
convenience: with fewer, the oldest record is evicted, the run's later events
enter the buffer again, and the account is wrong.  This is the finding
`WholeOrMarked`; the code's default is 10 000 records.

**The queue file.**  `QueueInv`: a queued batch is on the file, once, or accounted
for (`Settled`: stored, refused, undecodable, evicted), and a round is about to
delete only what is accounted for.  That is `QueuedNotLost`.  For the order,
`AheadIn`: whatever lies on the file ahead of a row that a round has in hand is
accounted for or is in hand ahead of it.  It is what survives the others'
appends, evictions and commits between two steps of a round; that evicting and
deleting select a subsequence of the file is proved of the folds of the model by
a least counterexample (`Chain`, `Selects`).

**The queue in memory.**  `EmitterInv`: a batch the emitter has is in the queue, in
the hand of a resend or about to be posted, in one of the three (`Placed`); what
it counts is what was posted, and the queue is in the order of the drain.  The
refinement is a step simulation: a batch of `ship` or of the last drain is
`Accept` in `Delivery`, an answer of 2xx `Deliver`, a batch put back into the
queue is `Keep`, with the ones that fell off for lack of room given up, a batch
out of tries `GiveUp`, and the process's exit `Lose`.

**Ingest.**  `Backed`: every 202 to a batch of events, in flight or received, has a
copy in the table, and 401 is met by batches only whose key is looked up.
`OneHandler` and `Deduplicated`: while handlers of a batch have never overlapped,
what the one at work read about stored ids still holds when it inserts.  The
proof shows that nothing else is needed, in particular nothing about which
statement fails.

**Accepted spans.**  `OtlpInv`: a request that is `buffered` waits in the buffer or
in the hands of the maintenance loop, once (`BufferSound`); the in-flight guard
is the number of requests at work; an answer of 200 is given only past the
admission, a request is done when its spans are stored or held no event, and one
is `swallowed` only by a store that does not raise (`Fate`).

**Run processing.**  `AttemptSound`: what an attempt still has to write is not in the
table, all else it found is, and it found what the run fires unless events came
later.  `MarkSound`: a record never claims more events than are stored, and a run
marked with all of them is signalled in full.  `OneEach`: a signal is written
once.
For the counters, `CountInv`: `AffectedSound` (counted are the runs that carry
the signal and are past the issue step), `CleanSound` (a run counted as clean is
past that step, was taken for whole by the attempt that counted it and, if it has
the signal by now, is about to take the count back),
`FirstAttempt` and `TodoNew` (only the first attempt at a run counts, and what it
still writes is new).  Concurrent jobs are arbitrary many; `failed` excludes
writes of the issue step that fail, which is the finding `IssueForEverySignal`.

**Alerts.**  For `SentOnce`, `ClaimsApart`: live polls hold disjoint signals, each
claim younger than its poll; `PollsSound` and `SentBound` account for each send by
a mark, a poll about to mark, or a poll that died.  `PollsEndInTime` says that a
poll is over within the claim timeout (`MaxPoll <= ClaimTimeout`); without it two
replicas send the same signal, so a deployment has to see to it.  For
`OneAlertPerWindow`, `WindowSound` holds without that assumption: while polls
neither overlap nor fail at most one is under way, a group's window is at least
as recent as its last alert or the alert still waits for its stamp, and what a
poll is about to send is one signal for each group whose window is closed.

**Detector poll.**  `PollInv`, of `PhaseSound`, `HeldSound` and `InReach`: the
watermark stays below each run that waits, that stalled while short, or that the
poll under way holds, although it is written before they are processed.

**Semantic worker.**  `SemanticInv` balances two books.  `AgentPaid`: the calls made
of an evaluator (`Called`, one element per call) and those that tasks have paid
for and still owe (`Paid`) are together no more than the agent was charged.
`OrgPaid`: what the organization was charged is what the agents were charged,
what the budget refused (`waived`), what waits before the budget (`Budgeting`),
and at most one charge per task for each failure or restart (`Died`).  Tasks that
outlive a failed cycle overlap with the next one's, which is why the books are
kept over tasks and not over runs.

**Voice costs.**  The event of a generation is among its candidates because it is
emitted within `MaxLatency` of it; then the first rule, by id, finds it, and the
other rules are not reached.  `MaxLatency <= Window` is what the correlation
window is for; a later event falls out of the candidates.

**External signals.**  `SignalsPaid`, per result: until it is marked, each of its
signals has a poll that will mark it or lost its mark (`torn`); once it is marked
the only signals to come are those of polls that looked it up before.
`StraysGivenUp` bounds these: a poll that no cycle waits for was left behind by
one that was given up, so at most `1 + givenUp` polls are alive.
`BusyWithResult` and `PushesOnly` keep polled results and pushed ones apart.

**Approvals.**  `GateTypes` and `RowFollowsCall` tie the thread's place to the row
and the row to the decision.  `GateImplemented` is a step simulation: a call's
`Verdict` and `Outcome` are functions of the row and the thread, each action of
`Approvals` rules, ends or leaves each call alone, and initial states map to
initial states.

**Policy fetch.**  `SyncInv`: a claimed slot lets one thread of an agent through
(`OneFetch`), and therefore the answer it is about to load is no older than the
bucket it replaces (`AnswersNewer`), whatever edits, lost answers and expired
caches come between; nothing in a bucket, an answer or a cache file is ahead of
the server's row, or another agent's (`OfAgent`).  `GuardrailsKept` follows
because an agent has one bucket (`Keyed`) and the merge takes a policy from every
bucket that has it.

**Policies of a run.**  `ActedRemembered`: what was executed is in the fired set
under its id, which a reload does not clear.  `KeptUnderGeneration`: nothing
kept is from a later generation, and what is kept under the one in force is what
its bundle names, unless a reload came between the two halves of a check.

**Traces.**  `TracesInv` is per trace and per span.  For a trace: where its hooks
can be (`TraceSites`), that it is active or pruned and has nothing open when
pruned (`Placed`), that the open and tool counters are right (`Counted`), that at
most one hook is between setting the started flag and emitting the start
(`StartedOnce`), and what the end hook is about to say (`EndedOnce`,
`TerminalKnows`).  For a span: its call is about to be emitted or emitted, never
both (`CalledOnce`), it is registered under the step of its call until it is
answered, as long as the trace is known (`Registered`), and a failure is in the
context before its hook returns (`FailureKept`).  `StepsApart` is the only part
about two spans.  A step of a hook concerns one trace (`ActsOn`); every other
trace is calm (`TraceCalm`): unchanged, or pruned with nothing open, which is why
a context brought back has lost nothing (`FoundIsKept`).  `TraceRuns` picks the
swept traces by rank (`Among`) and not by `SelectSeq`, since what a recursive
definition computes needs induction over data; `RankReached` shows that every
rank is reached.

Before a proof, each of these invariants was model-checked.

*Model-checked only:*

- all liveness (`HeldSettles`, `BacklogDrains`, `EveryBatchAccepted`,
  `AcceptedSettles`, `CompletedDetected`, `EveryRunDecided`, `ResultReachesRun`,
  `GenerationsDecided`, `KeptRefreshed`): fairness and `ENABLED` are outside
  what the prover handles;
- `VerdictsAgree`, `RefusedCallsExact`, `DestinationsHeldToWhatWasTold` and
  `HandoffFromWhatWasKnown`: the detectors are folds and recursive definitions
  over records, and what they compute needs induction over data;
- `TsRunsAccounted` and `ChainsExact`: their modules filter and fold sequences
  with operators the prover keeps opaque (`SelectSeq`, `FoldLeft`), and
  `ChainsExact` walks the tree of nodes recursively.

## 5. What the models say against the documentation

The run PolicyOutage shows one disagreement on its own: TLC finds a behaviour in
which an agent loses a loaded guardrail because the server's query of policies
failed.  It needs that failure alone: with the database gone altogether and a key
to look up, the answer is 401 and the bundle is kept.
The others are kept as definitions in the modules, each with a comment that
quotes the sentence; to see one, write a cfg with the module's constants and the
definition as its only INVARIANT or PROPERTY.

| definition | in | the sentence that does not hold |
|---|---|---|
| `KeptThroughOutage` | `PolicySync`, run PolicyOutage | docs/policies.md:116: whatever bundle was last loaded for that agent stays in memory and keeps being enforced |
| `DryRunOnlyRecords` | `PolicySync` | docs/policies/dry-run.md:3-4: executes nothing |
| `OwnBundleInForce` | `PolicySync` | docs/policies.md:103: fetches policies from the backend at run start and caches them for 60 seconds per agent |
| `InForceNeverBackwards` | `PolicySync` | docs/policies.md:116: whatever bundle was last loaded for that agent stays in memory and keeps being enforced |
| `HeededEvenIfRaced` | `PolicyRun` | docs/policies.md:112: adding a new signal policy via add_policy() mid-run takes effect on the next policy-checked event |
| `DryRunExecutesNothing` | `PolicyRun` | docs/policies/dry-run.md:3-4: records what it would have done, and executes nothing |
| `DryRunCountedOnce` | `PolicyRun` | docs/policies/dry-run.md:78: Counted once per run. |
| `LateDecisionRejected` | `Approvals` | docs/approvals.md:142: A decision that arrives after the SDK has already timed out is rejected |
| `SkippedCostsNothing` | `Semantic` | docs/semantic-evaluation.md:187: a skipped evaluation writes no signal and costs nothing |
| `FlaggedEvaluated` | `Semantic` | docs/semantic-evaluation.md:76: a structural detector already fired on this run |
| `EvaluatedOnce` | `Semantic` | semantic_svc/db.py:647: Prevents re-deciding on every poll cycle |
| `RetryIsNoOp` | `ExternalSignals` | docs/integrations/external-evaluation.md:138-140: retrying the same (provider, external_id) pair after a timeout is a no-op, never a duplicate signal |
| `ResultOnce` | `ExternalSignals` | integrations_svc/worker.py:202-203: Re-fetching a few already-processed evaluations is cheap (has_processed() skips them) |
| `ExactWhenCaptured` | `VoiceCost` | docs/integrations/elevenlabs.md:101-102: when your code captures the id ElevenLabs returns, the match is exact |
| `EveryGenerationStored` | `VoiceCost` | providers/elevenlabs.py:119: Every generation with date_unix >= since_unix |
| `RefusedNeverReported` | `Grounding` | detectors.py:3248-3253: the agent doing the thing the approval gate stopped it from doing |
| `WarrantPrecedes` | `Grounding` | detectors.py:4489-4490: A reply that arrives afterwards cannot justify a choice already committed to |
| `NovelWasUnknown` | `CrossRun` | docs/detectors.md:1276: where history genuinely defines normal |
| `PlantedIsCritical` | `CrossRun` | detectors.py:3610-3616: a destination planted in one run and read back two runs later is escalated |
| `UnreadMeansOverlooked` | `DetectorRuns` | detectors.py:1955-1957: very next action |
| `StormReported` | `DetectorRuns` | detectors.py:1204: Same tool called THRESHOLD or more times in a row, all returning success=False |
| `TruncationTakenOver` | `DetectorRuns` | detectors.py:894-895: takes over |
| `FirstStepAgrees` | `DetectorRuns` | run_builder.py:97-98: exactly what the SDK's own RunState holds |
| `RebuildAgrees` | `DetectorRuns` | run_builder.py:97-98: reconstructs exactly what the SDK's own RunState holds |
| `TsShutdownFlushes` | `TsSdk` | docs/integrate-typescript-agent.md:160: Always call await dt.shutdown() before your process exits - this flushes any buffered events. |
| `TsCountsExact` | `TsSdk` | buffer.ts:262-264: tombstones stay identified by _dead |
| `SwitchImmediate` | `Otlp` | routers/otlp.py:393: Takes effect immediately (the per-org cache entry is dropped here) |
| `FailureBuffered` | `Otlp` | routers/otlp.py:367-368: DB failures go through the circuit breaker + retry buffer |
| `CountedOrKept` | `Otlp` | db/postgres.py:1222-1224: tolerates failure and retries next tick |
| `StartedFirst` | `TraceRuns` | openai_agents.py:199: run.started is always the run's first event |
| `FailureNotRaced` | `TraceRuns` | openai_agents.py:632-634: otherwise on_trace_end can race and record a failed run as completed |
| `CompletedIsReported` | `ChainRuns` | docs/integrate-langchain-agent.md:183: Stale runs (never completed after 30 minutes) are pruned |
| `OutermostOnly` | `ChainRuns` | langchain.py:109: Only the outermost chain per invocation is treated as the Dunetrace run boundary |
| `PairedInThreads` | `ChainRuns` | langchain.py:89: step_index at call time |
| `NeverSteppedOver` | `DetectorPoll` | docs/architecture.md:496-498: would step over runs that were never processed |
| `StallVisible` | `DetectorPoll` | db.py:1360-1369: it is always caught while still visible |
| `IssueForEverySignal` | `RunProcessing` | docs/architecture.md:470: UPSERTs an issue row for each live signal fired |
| `ResolvedByDistinctRuns` | `RunProcessing` | docs/architecture.md:470: An issue auto-resolves after 5 consecutive clean runs |
| `CleanRunsWhole` | `RunProcessing` | worker.py:775-778: An incomplete run is "unknown", not clean and not fired; it must not advance the clean counter |
| `CustomSignalOnce` | `RunProcessing` | worker.py:812-813: is already deduped by the type-filter above |
| `UnwrittenKept` | `IngestPersist` | routers/ingest.py:140-142: a batch that cannot be written comes back as 503 + Retry-After, and the SDK keeps (and re-sends) it |
| `StoredOnce` | `IngestPersist` | db/postgres.py:751-756: don't race, which is the case this protects |
| `FailedBatchPersisted` | `DurableQueue` | emitters.py:784-785: On ship() failure, the batch is persisted to a local SQLite queue instead of dropped |
| `WholeOrMarked` | `SdkRuns` | buffer.py:9-12: Shedding by run keeps every run that does reach the detector whole, and the runs that were cut carry a visible dropped_events count |
| `EventsBounded` | `DurableQueue` | docs/architecture.md:1097: bounded (100k events / 100MB by default, oldest evicted first) |
| `FailedBatchDropped` | `HttpEmitter` | docs/architecture.md:1097: With the default emitter, a failed batch is dropped - no retry, no persistence |

`PROJECT.json` quotes the lines and sketches the behaviour.  `FailureBuffered` is
taken for a bug of the code: the retry buffer and the circuit breaker of the OTLP
receiver wait for an exception that the shipped store never raises, and a batch
that was answered with 200 is lost.

## 6. What is not modelled

- *Ingest: limits, rate limiter, keys*: request validation and per-process counters
  that refuse a request before anything is written.  Of authentication the models
  have what it does to stored data: a lookup that fails answers 401, and the
  sender drops the batch.  Keys that are unknown or revoked are left out.
- *Risk engine, custom detectors, explainer*: pure functions of a run or a
  signal; what they feed is an input of `RunProcessing` and `Alerts`.
- *Of the detectors*, those whose verdict is one comparison of a counter are
  taken together in `Detectors`; text matching is reduced to sets of marks.
- *Alert destinations*: each takes the alert or not; formats are left out.
- *API service, dashboard, MCP server*: reads, and writes of rows nothing else
  races with, except approvals, policies and external signals.
- *Migrations, retention, partitions*: run by an operator or a schedule, against
  rows the models do not return to.
- *Langfuse, LangSmith and further integrations*: the shape of their polls is
  that of `ExternalSignals`; their payloads are not.
- *Instrumentation by monkey-patching* (`auto.py`): which hook is called is an
  input of `TraceRuns`, `ChainRuns` and `RunRecord`.

## 7. Plan

The models cover the components whose state changes under concurrency or
failure, and every safety property a run checks is proved but for the six
named at the end of section 4.  What is left, in this order:

1. `TsRunsAccounted`, along the lines of `SdkSound`;
2. `ChainsExact`, along the lines of `TracesInv`, with `Above` as a function on
   nodes.
