--------------------------- MODULE ExternalSignals ---------------------------
(***************************************************************************)
(* Results of external evaluation tools become signals in two ways: the    *)
(* integrations worker polls the provider (Langfuse, LangSmith,            *)
(* Braintrust) for what is newer than its last success less an overlap,    *)
(* and a customer pushes a result over HTTP and repeats the call after a   *)
(* timeout.  Both look the result up in external_evaluation_processed,     *)
(* write the signal and mark the result, as three statements.              *)
(*                                                                         *)
(* The polls are those of one integration.  A cycle gathers them with      *)
(* those of its siblings, and an error a sibling raises ends the cycle     *)
(* while this poll goes on: the next cycle finds the integration due still *)
(* and polls it a second time at once.                                     *)
(***************************************************************************)
EXTENDS Naturals, FiniteSets

CONSTANTS
    Pulled, Pushed,  \* external ids the provider makes, and those pushed
    Polls,           \* polls of the integration alive at once
    NoPoll,          \* no poll
    Requests,        \* HTTP handlers alive at once
    PollOverlap,     \* _OVERLAP_SECS
    MaxListLag,      \* a result is listed at most so long after its timestamp
    MaxPoll,         \* a poll's duration
    DownThreshold, AlertLimit,  \* _FAILURE_ALERT_THRESHOLD_SECS, _ALERT_RATE_LIMIT_SECS
    MaxClock, MaxTorn, MaxGivenUp \* bounds on the clock and on faults

ASSUME ExternalAssumption ==
    /\ {PollOverlap, MaxListLag, MaxPoll, DownThreshold, AlertLimit, MaxClock,
        MaxTorn, MaxGivenUp} \subseteq Nat
    /\ Pulled \cap Pushed = {}
    /\ IsFiniteSet(Polls) /\ NoPoll \notin Polls

Results == Pulled \cup Pushed
NotYet  == MaxClock + 1

VARIABLES
    clock,
    stamped,   \* timestamp of each pulled result
    offered,   \* results the provider lists
    known,     \* results whose run has events in the store
    processed, \* external_evaluation_processed
    signals,   \* signals written for each result
    integration, \* its last success, first failure and last alert
    poll,      \* what each poll is doing
    awaited,   \* the poll the present cycle waits for
    request,   \* what each handler is doing
    torn,      \* per result, signals written whose mark never came
    givenUp    \* cycles a sibling's error ended while the poll went on

provider == <<stamped, offered, known>>
store    == <<processed, signals>>
worker   == <<integration, poll, awaited>>
mishaps   == <<torn, givenUp>>
externalVars == <<clock, provider, store, worker, request, mishaps>>

Idle == [at |-> "idle", began |-> 0, todo |-> {}, result |-> "none"]
Free == [at |-> "idle", result |-> "none"]

At(p, at) == poll[p].at = at

ExternalInit ==
    /\ clock = 0
    /\ stamped = [e \in Pulled |-> NotYet] /\ offered = {} /\ known = {}
    /\ processed = {} /\ signals = [e \in Results |-> 0]
    /\ integration = [success |-> 0, failure |-> NotYet, alerted |-> NotYet]
    /\ poll = [p \in Polls |-> Idle] /\ awaited = NoPoll
    /\ request = [q \in Requests |-> Free]
    /\ torn = [e \in Results |-> 0] /\ givenUp = 0
-----------------------------------------------------------------------------
(* The provider, the customer's agent and the clock.                       *)
MakeResult(e) ==
    /\ stamped[e] = NotYet
    /\ stamped' = [stamped EXCEPT ![e] = clock]
    /\ UNCHANGED <<clock, offered, known, store, worker, request, mishaps>>

ListResult(e) ==
    /\ e \notin offered /\ stamped[e] # NotYet
    /\ offered' = offered \cup {e}
    /\ UNCHANGED <<clock, stamped, known, store, worker, request, mishaps>>

Ingest(e) ==
    /\ e \notin known
    /\ known' = known \cup {e}
    /\ UNCHANGED <<clock, stamped, offered, store, worker, request, mishaps>>

ClockTick ==
    /\ clock < MaxClock
    /\ \A e \in Pulled \ offered : stamped[e] = NotYet \/ clock < stamped[e] + MaxListLag
    /\ \A p \in Polls : At(p, "idle") \/ clock < poll[p].began + MaxPoll
    /\ clock' = clock + 1
    /\ UNCHANGED <<provider, store, worker, request, mishaps>>
-----------------------------------------------------------------------------
(* The window starts an overlap before the last success.  Mutant: at it.   *)
Overlapping_Nothing(e) == stamped[e] >= integration.success

Overlapping(e) == stamped[e] + PollOverlap >= integration.success

Now(p, state) == poll' = [poll EXCEPT ![p] = state]

(* The poll is over, and its cycle if that waited for it.                  *)
Over(p) == Now(p, Idle) /\ awaited' = IF awaited = p THEN NoPoll ELSE awaited

(* poll_once and the start of _poll_one.  The integration is due whenever  *)
(* no poll has ended since: the interval is shorter than a tick.  Every    *)
(* page is fetched before anything is written.                             *)
Fetch(p) ==
    /\ awaited = NoPoll /\ At(p, "idle")
    /\ Now(p, [at |-> "check", began |-> clock,
               todo |-> {e \in offered : Overlapping(e)}, result |-> "none"])
    /\ awaited' = p
    /\ UNCHANGED <<clock, provider, store, integration, request, mishaps>>

(* Mutant: a result is looked up among the signals of this poll only.      *)
Seen_Never(e) == FALSE

(* has_processed.                                                          *)
Seen(e) == e \in processed

Check(p, e) ==
    /\ At(p, "check") /\ e \in poll[p].todo
    /\ Now(p, IF Seen(e)
              THEN [poll[p] EXCEPT !.todo = @ \ {e}]
              ELSE [poll[p] EXCEPT !.todo = @ \ {e}, !.at = "lookup", !.result = e])
    /\ UNCHANGED <<clock, provider, store, integration, awaited, request, mishaps>>

(* fetch_run_by_trace_id, then write_external_signal.  A result without a  *)
(* run is only marked, and never looked at again.                          *)
LookUp(p, e) ==
    /\ At(p, "lookup") /\ poll[p].result = e
    /\ IF e \in known
       THEN /\ signals' = [signals EXCEPT ![e] = @ + 1]
            /\ Now(p, [poll[p] EXCEPT !.at = "mark"])
       ELSE /\ Now(p, [poll[p] EXCEPT !.at = "skip"])
            /\ UNCHANGED signals
    /\ UNCHANGED <<clock, provider, processed, integration, awaited, request, mishaps>>

(* mark_processed.                                                         *)
Mark(p) ==
    /\ poll[p].at \in {"mark", "skip"}
    /\ processed' = processed \cup {poll[p].result}
    /\ Now(p, [poll[p] EXCEPT !.at = "check", !.result = "none"])
    /\ UNCHANGED <<clock, provider, signals, integration, awaited, request, mishaps>>

(* record_poll_success stamps the end of the poll, not its fetch.          *)
Succeed(p) ==
    /\ At(p, "check") /\ poll[p].todo = {}
    /\ integration' = [integration EXCEPT !.success = clock, !.failure = NotYet]
    /\ Over(p)
    /\ UNCHANGED <<clock, provider, store, request, mishaps>>

AlertDue(first) ==
    /\ clock > first + DownThreshold
    /\ integration.alerted = NotYet \/ clock >= integration.alerted + AlertLimit

(* A poll that dies between the signal and its mark leaves it unmarked.    *)
Tears(p) ==
    IF At(p, "mark")
    THEN /\ torn[poll[p].result] < MaxTorn
         /\ torn' = [torn EXCEPT ![poll[p].result] = @ + 1]
    ELSE UNCHANGED torn

Working == {"check", "lookup", "skip", "mark"}

(* The provider does not answer, or a statement fails: the streak goes on, *)
(* and a long one is written down as a signal, once in a while.            *)
Fail(p) ==
    /\ poll[p].at \in Working /\ Tears(p)
    /\ LET first == IF integration.failure = NotYet THEN clock ELSE integration.failure
       IN /\ integration' = [integration EXCEPT !.failure = first]
          /\ IF AlertDue(first)
             THEN Now(p, [Idle EXCEPT !.at = "alert", !.began = clock]) /\ UNCHANGED awaited
             ELSE Over(p)
    /\ UNCHANGED <<clock, provider, store, request, givenUp>>

(* write_integration_down_signal, then record_alert_sent.                  *)
Alert(p) ==
    /\ At(p, "alert")
    /\ Now(p, [poll[p] EXCEPT !.at = "stamp"])
    /\ UNCHANGED <<clock, provider, store, integration, awaited, request, mishaps>>

StampAlert(p) ==
    /\ At(p, "stamp")
    /\ integration' = [integration EXCEPT !.alerted = clock]
    /\ Over(p)
    /\ UNCHANGED <<clock, provider, store, request, mishaps>>

(* The handler of a failure fails itself.                                  *)
HandlerFails(p) ==
    /\ ~At(p, "idle") /\ Tears(p) /\ Over(p)
    /\ UNCHANGED <<clock, provider, store, integration, request, givenUp>>

(* The handler of a sibling fails: gather raises, the cycle is over and    *)
(* this poll is left to itself.                                            *)
Abandon ==
    /\ awaited # NoPoll /\ givenUp < MaxGivenUp
    /\ awaited' = NoPoll /\ givenUp' = givenUp + 1
    /\ UNCHANGED <<clock, provider, store, integration, poll, request, torn>>

Marking(e) == {p \in Polls : At(p, "mark") /\ poll[p].result = e}

(* The worker stops, with every poll.                                      *)
Crash ==
    /\ \E p \in Polls : ~At(p, "idle")
    /\ torn' = [e \in Results |-> torn[e] + Cardinality(Marking(e))]
    /\ \A e \in Results : torn'[e] <= MaxTorn
    /\ poll' = [p \in Polls |-> Idle] /\ awaited' = NoPoll
    /\ UNCHANGED <<clock, provider, store, integration, request, givenUp>>
-----------------------------------------------------------------------------
(* push_external_signal: the same three statements in an HTTP handler.     *)
Push(q, e) ==
    /\ request[q] = Free /\ e \in Pushed
    /\ IF Seen(e) \/ e \notin known
       THEN UNCHANGED request
       ELSE request' = [request EXCEPT ![q] = [at |-> "write", result |-> e]]
    /\ UNCHANGED <<clock, provider, store, worker, mishaps>>

PushWrites(q) ==
    /\ request[q].at = "write"
    /\ signals' = [signals EXCEPT ![request[q].result] = @ + 1]
    /\ request' = [request EXCEPT ![q].at = "mark"]
    /\ UNCHANGED <<clock, provider, processed, worker, mishaps>>

PushMarks(q) ==
    /\ request[q].at = "mark"
    /\ processed' = processed \cup {request[q].result}
    /\ request' = [request EXCEPT ![q] = Free]
    /\ UNCHANGED <<clock, provider, signals, worker, mishaps>>

PushDies(q) ==
    /\ request[q] # Free
    /\ IF request[q].at = "mark"
       THEN /\ torn[request[q].result] < MaxTorn
            /\ torn' = [torn EXCEPT ![request[q].result] = @ + 1]
       ELSE UNCHANGED torn
    /\ request' = [request EXCEPT ![q] = Free]
    /\ UNCHANGED <<clock, provider, store, worker, givenUp>>

Work(p) == \/ Fetch(p) \/ Mark(p) \/ Succeed(p) \/ Alert(p) \/ StampAlert(p)
           \/ \E e \in Pulled : Check(p, e) \/ LookUp(p, e)

(* Polled results and pushed ones have no row in common.                   *)
PollNext ==
    \/ ClockTick \/ Abandon \/ Crash
    \/ \E p \in Polls : Work(p) \/ Fail(p) \/ HandlerFails(p)
    \/ \E e \in Pulled : MakeResult(e) \/ ListResult(e) \/ Ingest(e)

PushNext ==
    \/ \E e \in Pushed : Ingest(e)
    \/ \E q \in Requests : PushWrites(q) \/ PushMarks(q) \/ PushDies(q) \/ \E e \in Pushed : Push(q, e)

ExternalNext == PollNext \/ PushNext

(* Every poll is scheduled, a provider lists what was made, and however    *)
(* often polls fail, a step that keeps being possible comes through.       *)
ExternalFairness ==
    /\ \A p \in Polls : WF_externalVars(Work(p))
    /\ SF_externalVars(\E p \in Polls : Fetch(p))
    /\ SF_externalVars(\E p \in Polls : Mark(p))
    /\ SF_externalVars(\E p \in Polls : Succeed(p))
    /\ \A e \in Pulled : /\ WF_externalVars(ListResult(e))
                         /\ SF_externalVars(\E p \in Polls : Check(p, e))
                         /\ SF_externalVars(\E p \in Polls : LookUp(p, e))

ExternalSpec == ExternalInit /\ [][ExternalNext]_externalVars /\ ExternalFairness
-----------------------------------------------------------------------------
(* A result becomes one signal, and one more at most for each time its     *)
(* mark was lost with the poll that wrote it and for each cycle that was   *)
(* given up while the poll went on: overlapping windows, polls after       *)
(* failures and a run that is known late repeat nothing.                   *)
RepeatNeedsFault == \A e \in Pulled : signals[e] <= 1 + torn[e] + givenUp

(* A result of a run that is known when the result is made reaches it,     *)
(* however late the provider lists it and however many polls fail: the     *)
(* overlap covers the lag and the length of a poll together.               *)
ResultReachesRun ==
    \A e \in Pulled :
        [](e \in known /\ stamped[e] = NotYet => [](stamped[e] = NotYet) \/ <>(signals[e] > 0))
-----------------------------------------------------------------------------
(* A comment in integrations_svc/worker.py: fetching a processed           *)
(* evaluation again is cheap, has_processed() skips it.  Two polls at once *)
(* both look it up before either marks it.                                 *)
ResultOnce ==
    \A e \in Pulled : torn[e] = 0 => signals[e] <= 1

(* docs/integrations/external-evaluation.md: a push that is retried after  *)
(* a timeout is never a duplicate signal.                                  *)
RetryIsNoOp ==
    \A e \in Pushed : torn[e] = 0 => signals[e] <= 1

(* docs/integrations/external-evaluation.md: each result is correlated to  *)
(* its run.                                                                *)
EveryResultCorrelated ==
    \A e \in Pulled : [](e \in known /\ stamped[e] # NotYet => <>(signals[e] > 0))
=============================================================================
