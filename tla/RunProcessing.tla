---------------------------- MODULE RunProcessing ----------------------------
(***************************************************************************)
(* What the detector worker writes for a run (services/detector:           *)
(* process_run in worker.py and the statements of db.py it calls).         *)
(*                                                                         *)
(* The runs of a poll are processed concurrently, each by a coroutine of   *)
(* its own; a run is processed again when an attempt failed and when late  *)
(* events arrived.  Every write is a transaction of its own, so an attempt *)
(* can fail, or the worker crash, between any two of them.                 *)
(*                                                                         *)
(* All runs are of one agent of one org: issues, the only rows that runs   *)
(* share, are kept per agent.  Which failure types a run's events give     *)
(* rise to is an input.                                                    *)
(***************************************************************************)
EXTENDS Naturals, FiniteSets

CONSTANTS
    Runs,
    Types,          \* failure types of the built-in detectors
    Live,           \* LIVE_DETECTORS; the others are in shadow
    Custom,         \* runs the agent's custom detector fires on
    MayShed,        \* runs the SDK may have shed events of
    Concurrency,    \* DETECTOR_CONCURRENCY
    Threshold,      \* CLEAN_RUNS_THRESHOLD
    MaxAttempts,    \* MAX_PROCESSING_ATTEMPTS
    MaxLate,        \* bound on late events
    MaxTrouble      \* bound on failed writes, crashes and manual resolutions

ASSUME ProcessingAssumption ==
    /\ IsFiniteSet(Runs) /\ Live \subseteq Types
    /\ Custom \subseteq Runs /\ MayShed \subseteq Runs
    /\ Concurrency \in Nat \ {0}
    /\ Threshold \in Nat \ {0} /\ MaxAttempts \in Nat \ {0}
    /\ MaxLate \in Nat /\ MaxTrouble \in Nat

VARIABLES
    fires,      \* the types the run's events so far give rise to
    count,      \* events stored
    terminal,   \* the terminal stored: none, or one that tells of a whole run
                \* or of a cut one, with dropped_events > 0
    processed,  \* processed_runs: [done, count, failed]
    attempts,   \* run_processing_failures
    signals,    \* rows of failure_signals per run and type
    held,       \* types whose row was put in shadow, the run being incomplete
    customRows, \* rows of it for the custom detector
    issues,     \* per type: [status, affected, clean]
    runCount,   \* how often the run was counted in its conversation
    pc,         \* where process_run is for the run
    job,        \* what it read: [found, existing, todo, seen, reprocess, incomplete]
    cleanRuns,  \* runs counted as clean of the type since it last fired
    budget,     \* what is left of the bounds
    failed      \* a write failed, or the worker crashed

input  == <<fires, count, terminal>>
tables == <<processed, attempts, signals, held, customRows, issues, runCount>>
vars   == <<input, tables, pc, job, cleanRuns, budget, failed>>

Places   == {"idle", "write", "clean", "side", "mark", "clear"}
Statuses == {"none", "open", "reopened", "resolved"}
Terminals == {"none", "whole", "cut"}

NoJob == [found |-> {}, existing |-> {}, todo |-> {}, seen |-> 0,
          reprocess |-> FALSE, incomplete |-> FALSE]

(* A terminal tells of dropped events only if the SDK shed some.           *)
MayEnd(r, end) == end \in Terminals /\ (end = "cut" => r \in MayShed)

Init ==
    /\ fires \in [Runs -> SUBSET Types]
    /\ terminal \in [Runs -> Terminals]
    /\ \A r \in Runs : MayEnd(r, terminal[r])
    /\ count = [r \in Runs |-> 1]
    /\ processed = [r \in Runs |-> [done |-> FALSE, count |-> 0, failed |-> FALSE]]
    /\ attempts = [r \in Runs |-> 0]
    /\ signals = [r \in Runs |-> [t \in Types |-> 0]]
    /\ held = [r \in Runs |-> {}]
    /\ customRows = [r \in Runs |-> 0]
    /\ issues = [t \in Types |-> [status |-> "none", affected |-> 0, clean |-> 0]]
    /\ runCount = [r \in Runs |-> 0]
    /\ pc = [r \in Runs |-> "idle"] /\ job = [r \in Runs |-> NoJob]
    /\ cleanRuns = [t \in Types |-> {}]
    /\ budget = [late |-> MaxLate, trouble |-> MaxTrouble] /\ failed = FALSE

Spend(what) == /\ budget[what] > 0
               /\ budget' = [budget EXCEPT ![what] = @ - 1]
Fault == Spend("trouble") /\ failed' = TRUE
Calm  == UNCHANGED <<budget, failed>>

Goto(r, place) == pc' = [pc EXCEPT ![r] = place]

(* A late event: the run may fire other types now, and if the run stalled  *)
(* it may be the terminal, the first to tell whether the run was cut.      *)
LateEvent(r) ==
    /\ Spend("late")
    /\ count' = [count EXCEPT ![r] = @ + 1]
    /\ \E S \in SUBSET Types : fires' = [fires EXCEPT ![r] = S]
    /\ \E end \in Terminals :
           /\ IF terminal[r] = "none" THEN MayEnd(r, end) ELSE end = terminal[r]
           /\ terminal' = [terminal EXCEPT ![r] = end]
    /\ UNCHANGED <<tables, pc, job, cleanRuns, failed>>
-----------------------------------------------------------------------------
(* Mutant: a run is looked at once.                                        *)
Pending_Once(r) == ~processed[r].done

(* fetch_completed_runs and fetch_stalled_runs: what was processed is      *)
(* processed again only if a terminal is stored.                           *)
Pending(r) ==
    \/ ~processed[r].done
    \/ terminal[r] # "none" /\ count[r] > processed[r].count

AtWork == {r \in Runs : pc[r] # "idle"}

HasSlot == Cardinality(AtWork) < Concurrency

(* Mutant: what an earlier attempt wrote is not read.                      *)
Existing_Unread(r) == {}

Existing(r) == {t \in Types : signals[r][t] > 0}

(* fetch_run_events, fetch_run_state and the detectors.                    *)
Begin(r) ==
    /\ pc[r] = "idle" /\ Pending(r) /\ HasSlot /\ Goto(r, "write")
    /\ job' = [job EXCEPT ![r] =
           [found |-> fires[r], existing |-> Existing(r),
            todo |-> fires[r] \ Existing(r), seen |-> count[r],
            reprocess |-> processed[r].done, incomplete |-> terminal[r] = "cut"]]
    /\ UNCHANGED <<input, tables, cleanRuns, budget, failed>>

WriteSignal(r, t) ==
    /\ pc[r] = "write" /\ t \in job[r].todo
    /\ signals' = [signals EXCEPT ![r][t] = @ + 1]
    /\ held' = [held EXCEPT ![r] = IF job[r].incomplete THEN @ \cup {t} ELSE @ \ {t}]
    /\ job' = [job EXCEPT ![r].todo = @ \ {t}]
    /\ UNCHANGED <<input, processed, attempts, customRows, issues, runCount, pc,
                   cleanRuns, budget, failed>>

SignalsWritten(r) == pc[r] = "write" /\ job[r].todo = {}

(* fired_types: an incomplete run is neither fired nor clean.              *)
Fired(r) == IF job[r].incomplete THEN {}
            ELSE (job[r].found \cap Live) \ job[r].existing

IsOpen(t) == issues[t].status \in {"open", "reopened"}

Opened(i) == [ status   |-> CASE i.status = "none"     -> "open"
                              [] i.status = "resolved" -> "reopened"
                              [] OTHER                 -> i.status,
               affected |-> i.affected + 1,
               clean    |-> 0 ]

(* upsert_fired_issues.                                                    *)
UpsertFired(r) ==
    /\ SignalsWritten(r) /\ Goto(r, "clean")
    /\ issues' = [t \in Types |->
           IF t \in Fired(r) THEN Opened(issues[t]) ELSE issues[t]]
    /\ cleanRuns' = [t \in Types |->
           IF t \in Fired(r) THEN {} ELSE cleanRuns[t]]
    /\ UNCHANGED <<input, processed, attempts, signals, held, customRows, runCount, job,
                   budget, failed>>

Cleaner(i) == [i EXCEPT !.clean  = @ + 1,
                        !.status = IF i.clean + 1 >= Threshold
                                   THEN "resolved" ELSE @]

(* Mutant: on every processing.                                            *)
CleanOf_Again(r) ==
    IF job[r].incomplete THEN {} ELSE {t \in Types \ Fired(r) : IsOpen(t)}

(* The types a run is counted as clean of: on its first processing only.   *)
CleanOf(r) == IF job[r].reprocess \/ job[r].incomplete THEN {}
              ELSE {t \in Types \ Fired(r) : IsOpen(t)}

(* advance_clean_runs.                                                     *)
AdvanceClean(r) ==
    /\ pc[r] = "clean" /\ Goto(r, "side")
    /\ issues' = [t \in Types |->
           IF t \in CleanOf(r) THEN Cleaner(issues[t]) ELSE issues[t]]
    /\ cleanRuns' = [t \in Types |->
           IF t \in CleanOf(r) THEN cleanRuns[t] \cup {r} ELSE cleanRuns[t]]
    /\ UNCHANGED <<input, processed, attempts, signals, held, customRows, runCount, job,
                   budget, failed>>

(* An issue step failed: logged, and the run goes on without the others.   *)
IssuesFail(r) ==
    /\ pc[r] = "clean" \/ SignalsWritten(r)
    /\ Fault /\ Goto(r, "side")
    /\ UNCHANGED <<input, tables, job, cleanRuns>>

(* upsert_run_and_conversation, then the custom detector on the first      *)
(* processing only; the errors of each are logged and the run goes on.     *)
SideSteps(r, registered, evaluated) ==
    /\ pc[r] = "side" /\ Goto(r, "mark")
    /\ runCount' = [runCount EXCEPT ![r] = IF registered THEN @ + 1 ELSE @]
    /\ customRows' = [customRows EXCEPT ![r] =
           IF evaluated /\ r \in Custom /\ ~job[r].reprocess THEN @ + 1 ELSE @]
    /\ \/ registered /\ evaluated /\ Calm
       \/ ~(registered /\ evaluated) /\ Fault
    /\ UNCHANGED <<input, processed, attempts, signals, held, issues, job, cleanRuns>>

(* mark_run_processed.                                                     *)
Record(r, asFailed) ==
    processed' = [processed EXCEPT ![r] =
        [done |-> TRUE, count |-> job[r].seen, failed |-> asFailed]]

ClearFailures(r) == attempts' = [attempts EXCEPT ![r] = 0]

Leave(r) ==
    /\ Goto(r, "idle") /\ job' = [job EXCEPT ![r] = NoJob]
    /\ UNCHANGED <<input, signals, held, customRows, issues, runCount, cleanRuns>>

MarkProcessed(r) ==
    /\ pc[r] = "mark" /\ Goto(r, "clear") /\ Record(r, FALSE)
    /\ UNCHANGED <<input, attempts, signals, held, customRows, issues, runCount, job,
                   cleanRuns, budget, failed>>

(* clear_processing_failures, and process_run returns.                     *)
Finish(r) ==
    /\ pc[r] = "clear" /\ ClearFailures(r) /\ Leave(r)
    /\ UNCHANGED <<processed, budget, failed>>

(* _handle_processing_failure: a write of signals, the mark or the         *)
(* clearing raised.                                                        *)
HandleFailure(r) ==
    /\ pc[r] \in {"write", "mark", "clear"}
    /\ Fault
    /\ IF attempts[r] + 1 < MaxAttempts
       THEN attempts' = [attempts EXCEPT ![r] = @ + 1] /\ UNCHANGED processed
       ELSE Record(r, TRUE) /\ ClearFailures(r)
    /\ Leave(r)

(* ... and counting the failure raised too: the exception leaves           *)
(* process_run and the poll only logs it.                                  *)
Escape(r) ==
    /\ pc[r] \in {"write", "mark", "clear"} /\ Fault
    /\ Leave(r)
    /\ UNCHANGED <<processed, attempts>>

(* The worker crashes in the middle of a batch.                            *)
Crash ==
    /\ Fault
    /\ pc' = [r \in Runs |-> "idle"] /\ job' = [r \in Runs |-> NoJob]
    /\ UNCHANGED <<input, tables, cleanRuns>>

(* resolve_issue_manually (services/api).                                  *)
ResolveManually(t) ==
    /\ issues[t].status # "none"
    /\ Spend("trouble") /\ UNCHANGED failed
    /\ issues' = [issues EXCEPT ![t].status = "resolved"]
    /\ UNCHANGED <<input, processed, attempts, signals, held, customRows, runCount, pc,
                   job, cleanRuns>>

Next ==
    \/ \E r \in Runs :
         \/ Begin(r) \/ UpsertFired(r) \/ AdvanceClean(r)
         \/ MarkProcessed(r) \/ Finish(r)
         \/ LateEvent(r) \/ HandleFailure(r) \/ Escape(r) \/ IssuesFail(r)
         \/ \E t \in Types : WriteSignal(r, t)
         \/ \E registered, evaluated \in BOOLEAN :
               SideSteps(r, registered, evaluated)
    \/ \E t \in Types : ResolveManually(t)
    \/ Crash

Spec == Init /\ [][Next]_vars
-----------------------------------------------------------------------------
(* Beside the types: the semaphore holds.                                  *)
RunTypeOK ==
    /\ fires \in [Runs -> SUBSET Types] /\ count \in [Runs -> Nat]
    /\ terminal \in [Runs -> Terminals] /\ held \in [Runs -> SUBSET Types]
    /\ processed \in [Runs -> [done: BOOLEAN, count: Nat, failed: BOOLEAN]]
    /\ attempts \in [Runs -> 0 .. MaxAttempts - 1]
    /\ signals \in [Runs -> [Types -> Nat]] /\ customRows \in [Runs -> Nat]
    /\ issues \in [Types -> [status: Statuses, affected: Nat, clean: Nat]]
    /\ runCount \in [Runs -> Nat]
    /\ pc \in [Runs -> Places] /\ cleanRuns \in [Types -> SUBSET Runs]
    /\ job \in [Runs -> [found: SUBSET Types, existing: SUBSET Types,
                         todo: SUBSET Types, seen: Nat, reprocess: BOOLEAN,
                         incomplete: BOOLEAN]]
    /\ budget \in [late: 0 .. MaxLate, trouble: 0 .. MaxTrouble]
    /\ failed \in BOOLEAN
    /\ Cardinality(AtWork) =< Concurrency

(* No run is signalled twice for one failure type, however its attempts    *)
(* fail, the worker crashes and late events make it be processed again:    *)
(* nothing in the database forbids the second row, only what process_run   *)
(* reads first does.                                                       *)
OneSignalPerType ==
    \A r \in Runs, t \in Types : signals[r][t] <= 1

(* A run that rests as processed carries a signal for every type its       *)
(* events, late ones included, give rise to; of a run without a terminal,  *)
(* the events it had when it was taken for stalled.                        *)
Rests(r) == pc[r] = "idle" /\ processed[r].done /\ ~Pending(r)
DetectionComplete ==
    \A r \in Runs :
        /\ Rests(r) /\ ~processed[r].failed
        /\ terminal[r] # "none" \/ count[r] = processed[r].count
        => \A t \in fires[r] : signals[r][t] > 0

(* An issue never counts more runs than carry its signal, and exactly them *)
(* (not the ones in which it is held in shadow) while no write has failed: *)
(* late events that make a run be processed again do not count it again,   *)
(* nor does the terminal that tells of a cut run take it back.             *)
SignalledRuns(t) == {r \in Runs : signals[r][t] > 0 /\ t \notin held[r]}
AffectedRunsExact ==
    \A t \in Types :
        /\ issues[t].affected <= Cardinality(SignalledRuns(t))
        /\ ~failed /\ t \in Live /\ (\A r \in Runs : pc[r] = "idle")
           => issues[t].affected = Cardinality(SignalledRuns(t))

(* While no write has failed, the counter that resolves an issue counts    *)
(* distinct runs, each without a live signal of it and taken for whole by  *)
(* the attempt that counted it; a stalled run may turn out to be cut later *)
(* (CleanRunsWhole).                                                       *)
CleanCountExact ==
    ~failed => \A t \in Types :
        /\ issues[t].clean = Cardinality(cleanRuns[t])
        /\ \A r \in cleanRuns[t] :
               /\ processed[r].done \/ ~job[r].incomplete
               /\ pc[r] = "idle" => r \notin SignalledRuns(t)

(* Both counts of an issue are right, the one shown and the one that       *)
(* closes it.                                                              *)
IssueCountsExact == AffectedRunsExact /\ CleanCountExact

(* docs/architecture.md: an issue row for each live signal fired.          *)
IssueForEverySignal ==
    (\A r \in Runs : Rests(r)) =>
        \A t \in Live : SignalledRuns(t) # {} => issues[t].status # "none"

(* docs/architecture.md: an issue auto-resolves after consecutive clean    *)
(* runs, as many as the threshold says - runs, not attempts at one.        *)
ResolvedByDistinctRuns ==
    [][\A t \in Types :
          /\ issues[t].status # "resolved" /\ issues'[t].status = "resolved"
          /\ pc' # pc
          => Cardinality(cleanRuns'[t]) >= Threshold]_vars

(* process_run: an incomplete run is neither fired nor clean, and must not *)
(* advance the counter that resolves an issue.                             *)
CleanRunsWhole ==
    \A t \in Types : \A r \in cleanRuns[t] : terminal[r] # "cut"

(* process_run: a retry after a partial write does not duplicate the       *)
(* signals already written, the custom detector's among them.              *)
CustomSignalOnce == \A r \in Runs : customRows[r] <= 1

(* upsert_run_and_conversation: called once per processed run.             *)
CountedOnce == \A r \in Runs : runCount[r] <= 1
=============================================================================
