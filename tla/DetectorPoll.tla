----------------------------- MODULE DetectorPoll -----------------------------
(***************************************************************************)
(* The detector worker's poll loop (services/detector: worker.py, db.py):  *)
(* which runs a poll finds, the watermark that bounds its scan, and what   *)
(* becomes of a run whose processing fails.                                *)
(*                                                                         *)
(* One worker per shard; shards share no runs and no watermark, so one is  *)
(* modelled.  The database's clock is `now`.  Run ids are numbers because  *)
(* the completed runs are fetched in their order.  What process_run does   *)
(* with the events it fetched is the subject of RunProcessing; here it     *)
(* ends well, fails, or is cut short by a crash.                           *)
(***************************************************************************)
EXTENDS Integers, FiniteSets, FiniteSetsExt, Functions

CONSTANTS
    Runs,           \* run ids
    Grace,          \* WATERMARK_GRACE_SECS
    StallTimeout,   \* STALL_TIMEOUT_SECS
    BatchSizes,     \* what BATCH_SIZE may be set to
    MaxAttempts,    \* MAX_PROCESSING_ATTEMPTS
    MaxEvents,      \* bound on the events stored
    MaxTime,        \* bound on the clock
    MaxLag,         \* a running worker polls at least this often
    MaxDown,        \* a worker that is down is started within this time
    MaxFailures,    \* bound on failures, crashes included
    MaxStops        \* bound on orderly stops of the worker

ASSUME PollAssumption ==
    /\ Runs \subseteq Nat /\ IsFiniteSet(Runs)
    /\ StallTimeout \in Nat \ {0}
    /\ Grace \in Nat /\ Grace >= StallTimeout   \* else it refuses to start
    /\ BatchSizes \subseteq Nat \ {0} /\ MaxAttempts \in Nat \ {0}
    /\ MaxEvents \in Nat /\ MaxTime \in Nat
    /\ MaxLag \in Nat /\ MaxDown \in Nat
    /\ MaxFailures \in Nat /\ MaxStops \in Nat

NoMark == -1     \* the watermark is NULL until a poll drained its backlog

VARIABLES
    batchSize,   \* BATCH_SIZE, read when the worker is deployed
    now,
    started,     \* received_at of run.started; 0 = no event yet
    last,        \* received_at of the run's newest event
    ended,       \* the run has a terminal event
    count,       \* its events
    processed,   \* processed_runs: [done, count, failed]
    attempts,    \* run_processing_failures
    mark,        \* detector_watermarks
    pc,          \* where the poll is
    completed,   \* what its first query returned
    stalled,     \* what its second query returned
    todo,        \* the runs it found that are not done with yet
    working,     \* runs being processed, with the count of events fetched
    lag,         \* since the last poll began, or the worker stopped or started
    failures, stops,
    struck       \* runs whose processing ever failed or was cut short

frame  == <<batchSize, now>>      \* only Tick changes any of it
events == <<started, last, ended, count>>
tables == <<processed, attempts, mark>>
poll   == <<pc, completed, stalled, todo, working, lag>>
bounds == <<failures, stops>>
vars   == <<frame, events, tables, poll, bounds, struck>>

Init ==
    /\ batchSize \in BatchSizes /\ now = 1
    /\ started = [r \in Runs |-> 0] /\ last = [r \in Runs |-> 0]
    /\ ended = [r \in Runs |-> FALSE] /\ count = [r \in Runs |-> 0]
    /\ processed = [r \in Runs |-> [done |-> FALSE, count |-> 0, failed |-> FALSE]]
    /\ attempts = [r \in Runs |-> 0]
    /\ mark = NoMark
    /\ pc = "sleep" /\ completed = {} /\ stalled = {} /\ todo = {}
    /\ working = [r \in Runs |-> 0]
    /\ lag = 0 /\ failures = 0 /\ stops = 0 /\ struck = {}
-----------------------------------------------------------------------------
(* The ingest service stores events; time passes.                          *)

(* The bound on the events stored.                                         *)
HasRoom == FoldFunction(+, 0, count) < MaxEvents

Arrive(r) ==
    /\ HasRoom
    /\ count' = [count EXCEPT ![r] = @ + 1]
    /\ last' = [last EXCEPT ![r] = now]
    /\ UNCHANGED <<frame, tables, poll, bounds, struck>>

StartRun(r) ==
    /\ count[r] = 0 /\ Arrive(r)
    /\ started' = [started EXCEPT ![r] = now]
    /\ UNCHANGED ended

(* An ordinary event, before or after the terminal one.                    *)
MoreEvents(r) == count[r] > 0 /\ Arrive(r) /\ UNCHANGED <<started, ended>>

EndRun(r) ==
    /\ count[r] > 0 /\ ~ended[r] /\ Arrive(r)
    /\ ended' = [ended EXCEPT ![r] = TRUE]
    /\ UNCHANGED started

(* A tick is longer than the queries of a poll (they time out), and        *)
(* POLL_INTERVAL and one round of processing take at most MaxLag ticks.    *)
Tick ==
    /\ now < MaxTime /\ now' = now + 1
    /\ pc \notin {"completed", "stalled"}
    /\ lag < IF pc = "down" THEN MaxDown ELSE MaxLag
    /\ lag' = lag + 1
    /\ UNCHANGED <<batchSize, events, tables, pc, completed, stalled, todo,
                   working, bounds, struck>>
-----------------------------------------------------------------------------
(* What the two queries select.                                            *)

After(time, bound) == bound = NoMark \/ time > bound

(* Mutant: a run is looked at once.                                        *)
Pending_Once(r) == ~processed[r].done

(* Not processed, or processed when it had fewer events.                   *)
Pending(r) == ~processed[r].done \/ count[r] > processed[r].count

CompletedRuns(bound) ==
    {r \in Runs : ended[r] /\ After(last[r], bound) /\ Pending(r)}

Silent(r) == last[r] =< now - StallTimeout

StalledRuns(bound) ==
    {r \in Runs : /\ count[r] > 0 /\ After(started[r], bound)
                  /\ ~ended[r] /\ ~processed[r].done /\ Silent(r)}

(* ORDER BY run_id LIMIT, and LIMIT without an order.                      *)
FirstOf(S) == {r \in S : Cardinality({s \in S : s < r}) < batchSize}
SomeOf(S)  == IF Cardinality(S) =< batchSize THEN {S} ELSE kSubset(batchSize, S)

(* The watermark is read once; nothing else moves it before Advance.       *)
FetchCompleted ==
    /\ pc = "sleep" /\ pc' = "completed" /\ lag' = 0
    /\ completed' = FirstOf(CompletedRuns(mark))
    /\ UNCHANGED <<frame, events, tables, stalled, todo, working, bounds, struck>>

FetchStalled ==
    /\ pc = "completed" /\ pc' = "stalled"
    /\ stalled' \in SomeOf(StalledRuns(mark))
    /\ UNCHANGED <<frame, events, tables, completed, todo, working, lag, bounds,
                   struck>>

(* Mutant: a batch exactly full counts as drained.                         *)
WasDrained_FullBatch ==
    Cardinality(completed) =< batchSize /\ Cardinality(stalled) =< batchSize

WasDrained ==
    Cardinality(completed) < batchSize /\ Cardinality(stalled) < batchSize

Max2(a, b) == IF a >= b THEN a ELSE b

NewMark == Max2(mark, now - Grace)

(* advance_watermark, before the runs found are processed.                 *)
Advance ==
    /\ pc = "stalled" /\ pc' = "process"
    /\ mark' = IF WasDrained THEN NewMark ELSE mark
    /\ todo' = completed \cup stalled /\ completed' = {} /\ stalled' = {}
    /\ UNCHANGED <<frame, events, processed, attempts, working, lag, bounds, struck>>
-----------------------------------------------------------------------------
(* process_run, for all the runs of the poll concurrently.                 *)

Begin(r) ==
    /\ pc = "process" /\ r \in todo /\ working[r] = 0
    /\ working' = [working EXCEPT ![r] = count[r]]
    /\ UNCHANGED <<frame, events, tables, pc, completed, stalled, todo, lag, bounds,
                   struck>>

Leave(r) ==
    /\ todo' = todo \ {r} /\ working' = [working EXCEPT ![r] = 0]
    /\ UNCHANGED <<frame, events, mark, pc, completed, stalled, lag, stops>>

(* mark_run_processed, then clear_processing_failures.                     *)
Record(r, failed) ==
    /\ processed' = [processed EXCEPT ![r] =
           [done |-> TRUE, count |-> working[r], failed |-> failed]]
    /\ attempts' = [attempts EXCEPT ![r] = 0]

Process(r) ==
    /\ pc = "process" /\ working[r] > 0
    /\ Record(r, FALSE) /\ Leave(r)
    /\ UNCHANGED <<failures, struck>>

Failure(S) ==
    /\ failures < MaxFailures /\ failures' = failures + 1
    /\ struck' = struck \cup S

GivesUp(r) == attempts[r] + 1 >= MaxAttempts

(* _handle_processing_failure.                                             *)
Fail(r) ==
    /\ pc = "process" /\ working[r] > 0 /\ Failure({r})
    /\ IF GivesUp(r) THEN Record(r, TRUE)
       ELSE attempts' = [attempts EXCEPT ![r] = @ + 1] /\ UNCHANGED processed
    /\ Leave(r)

(* The failure could not even be counted: gather collects the exception.   *)
FailUnrecorded(r) ==
    /\ pc = "process" /\ working[r] > 0 /\ Failure({r})
    /\ Leave(r) /\ UNCHANGED <<processed, attempts>>

EndPoll ==
    /\ pc = "process" /\ todo = {} /\ pc' = "sleep"
    /\ UNCHANGED <<frame, events, tables, completed, stalled, todo, working, lag,
                   bounds, struck>>

(* A query of the poll raised: _poll_cycle logs it and sleeps.             *)
PollFails ==
    /\ pc \in {"completed", "stalled"} /\ Failure({})
    /\ pc' = "sleep" /\ completed' = {} /\ stalled' = {}
    /\ UNCHANGED <<frame, events, tables, todo, working, lag, stops>>

Down ==
    /\ pc' = "down" /\ lag' = 0
    /\ completed' = {} /\ stalled' = {} /\ todo' = {}
    /\ working' = [r \in Runs |-> 0]
    /\ UNCHANGED <<frame, events, tables>>

Stop ==
    /\ pc = "sleep" /\ stops < MaxStops
    /\ stops' = stops + 1 /\ Down /\ UNCHANGED <<failures, struck>>

Crash == pc # "down" /\ Failure(todo) /\ Down /\ UNCHANGED stops

Restart ==
    /\ pc = "down" /\ pc' = "sleep" /\ lag' = 0
    /\ UNCHANGED <<frame, events, tables, completed, stalled, todo, working, bounds,
                   struck>>

Worker ==
    \/ FetchCompleted \/ FetchStalled \/ Advance \/ EndPoll
    \/ \E r \in Runs : Begin(r) \/ Process(r)

Next ==
    \/ \E r \in Runs : StartRun(r) \/ MoreEvents(r) \/ EndRun(r)
    \/ Tick \/ Worker \/ Stop \/ Crash \/ Restart \/ PollFails
    \/ \E r \in Runs : Fail(r) \/ FailUnrecorded(r)

(* The loop polls every POLL_INTERVAL and queries time out; a worker that  *)
(* is down is started again.                                               *)
Spec == Init /\ [][Next]_vars /\ WF_vars(Worker) /\ WF_vars(Restart)
-----------------------------------------------------------------------------
PollTypeOK ==
    /\ batchSize \in BatchSizes /\ now \in 1..MaxTime
    /\ started \in [Runs -> 0..MaxTime] /\ last \in [Runs -> 0..MaxTime]
    /\ ended \in [Runs -> BOOLEAN] /\ count \in [Runs -> 0..MaxEvents]
    /\ processed \in [Runs -> [done: BOOLEAN, count: Nat, failed: BOOLEAN]]
    /\ attempts \in [Runs -> 0..(MaxAttempts - 1)]
    /\ mark \in Int
    /\ pc \in {"sleep", "completed", "stalled", "process", "down"}
    /\ completed \subseteq Runs /\ stalled \subseteq Runs /\ todo \subseteq Runs
    /\ working \in [Runs -> 0..MaxEvents]
    /\ lag \in Nat /\ failures \in 0..MaxFailures /\ stops \in 0..MaxStops
    /\ struck \subseteq Runs

(* A completed run with events nobody has analysed is in the poll under    *)
(* way or visible to the next one, after stops of any length and whatever  *)
(* happens to the runs beside it.  Only a failure of its own processing    *)
(* can hide it: the watermark has moved by then.                           *)
Found == completed \cup stalled \cup todo
Seen(r, time) == r \in Found \/ After(time, mark)
Waiting(r) == ended[r] /\ Pending(r)

PendingVisible == \A r \in Runs \ struck : Waiting(r) => Seen(r, last[r])

(* The same of a stalled run, for a run short enough that its run.started  *)
(* is still in the window when it has been silent for the stall timeout.   *)
Stuck(r) == count[r] > 0 /\ ~ended[r] /\ ~processed[r].done /\ Silent(r)

ShortStallVisible ==
    \A r \in Runs \ struck :
        Stuck(r) /\ last[r] - started[r] =< Grace - StallTimeout =>
            Seen(r, started[r])

(* Nothing a running worker owes is out of reach of its next poll.         *)
WorkVisible == PendingVisible /\ ShortStallVisible

(* The event count recorded for a run never goes back, whatever arrives    *)
(* while it is being processed and however that ends: a smaller one would  *)
(* have the run analysed again at every poll.                              *)
RecordNeverShrinks ==
    [][\A r \in Runs : processed[r].done =>
           processed'[r].done /\ processed'[r].count >= processed[r].count]_vars

(* Every completed run is detected, late events included, through stops of *)
(* any length between polls, unless its processing failed.                 *)
Detected(r) == processed[r].done /\ processed[r].count = count[r]

CompletedDetected ==
    \A r \in Runs : ended[r] ~> (Detected(r) \/ r \in struck)

(* "Moving the window forward would step over runs that were never         *)
(* processed" (docs/architecture.md), so it waits for the backlog: no      *)
(* unprocessed run, one whose processing failed included, is stepped over. *)
NeverSteppedOver == \A r \in Runs : Waiting(r) => Seen(r, last[r])

(* "It is always caught while still visible" (fetch_stalled_runs).         *)
StallVisible == \A r \in Runs : Stuck(r) => Seen(r, started[r])
=============================================================================
