------------------------------ MODULE Approvals ------------------------------
(***************************************************************************)
(* Human approval of guarded tool calls: the SDK thread that blocks on the *)
(* gate (run_context.py), the approvals table behind the Customer API      *)
(* (routers/approvals.py, routers/slack.py, db/queries.py), the humans who *)
(* decide, and the alert workers that notify them (alerts_svc/worker.py).  *)
(*                                                                         *)
(* Each guarded call asks for an approval of its own.  Two clocks run: the *)
(* SDK's deadline, from the answer to its request, and the row's           *)
(* expires_at, clamped by the server; either may pass first.               *)
(***************************************************************************)
EXTENDS Naturals, FiniteSets

CONSTANTS
    Calls,      \* guarded tool calls
    Replicas,   \* alert workers
    MaxFaults   \* bound on failed requests, failed sends and worker crashes

ASSUME ApprovalsAssumption == MaxFaults \in Nat

VARIABLES
    mayDecide,  \* the SDK's key carries the 'approve' scope
    sdk,        \* where the thread of each call is
    deadline,   \* calls whose deadline has passed
    rows,       \* the approvals table, by call
    reported,   \* the approval event the SDK emitted
    ran,        \* calls whose tool ran
    worker,     \* per replica: the batch it fetched, the one it is sending
    told,       \* how often humans were notified of a call
    history     \* failed calls, late decisions, contested notifications

gate   == <<sdk, reported, ran>>
notify == <<worker, told>>
vars   == <<mayDecide, gate, deadline, rows, notify, history>>

Decisions == {"granted", "denied", "timeout"}
NoRow     == [status |-> "none", delivered |-> FALSE, expired |-> FALSE]
NewRow    == [NoRow EXCEPT !.status = "pending"]
NoCall    == "none"
Free      == [batch |-> {}, sending |-> NoCall]

Init ==
    /\ mayDecide \in BOOLEAN
    /\ sdk = [c \in Calls |-> "idle"] /\ deadline = {}
    /\ rows = [c \in Calls |-> NoRow]
    /\ reported = [c \in Calls |-> "none"] /\ ran = {}
    /\ worker = [r \in Replicas |-> Free] /\ told = [c \in Calls |-> 0]
    /\ history = [faults |-> 0, failed |-> {}, marked |-> {}, late |-> {},
                  contested |-> {}]

Pending(c) == rows[c].status = "pending"

Fault == history.faults < MaxFaults
-----------------------------------------------------------------------------
(* set_approval_decision: one UPDATE guarded by status = 'pending'.        *)

(* Mutant: the UPDATE has no guard on the status.                          *)
Undecided_AnyRow(c) == rows[c].status # "none"

Undecided(c) == Pending(c)

(* A human decides over Slack or the dashboard; a decided row answers      *)
(* "already resolved".                                                     *)
Decide(c, d) ==
    /\ Undecided(c)
    /\ rows' = [rows EXCEPT ![c].status = d]
    /\ history' = [history EXCEPT
                      !.late = IF sdk[c] = "over" THEN @ \union {c} ELSE @]
    /\ UNCHANGED <<mayDecide, gate, deadline, notify>>

Expire(c) ==
    /\ rows[c].status # "none" /\ ~ rows[c].expired
    /\ rows' = [rows EXCEPT ![c].expired = TRUE]
    /\ UNCHANGED <<mayDecide, gate, deadline, notify, history>>
-----------------------------------------------------------------------------
(* The SDK: request_approval and _resolve_timeout.                         *)

Goto(c, place) ==
    /\ sdk' = [sdk EXCEPT ![c] = place]
    /\ UNCHANGED <<reported, ran>>

(* A request that fails raises out of the gate: the tool does not run.     *)
Raise(c) ==
    /\ Fault
    /\ Goto(c, "over")
    /\ history' = [history EXCEPT !.faults = @ + 1, !.failed = @ \union {c}]

Ask(c) ==
    /\ sdk[c] = "idle" /\ Goto(c, "create")
    /\ UNCHANGED <<mayDecide, deadline, rows, notify, history>>

Create(c) ==
    /\ sdk[c] = "create" /\ Goto(c, "poll")
    /\ rows' = [rows EXCEPT ![c] = NewRow]
    /\ UNCHANGED <<mayDecide, deadline, notify, history>>

(* The request fails before or after the row was inserted.                 *)
CreateFails(c, inserted) ==
    /\ sdk[c] = "create" /\ Raise(c)
    /\ rows' = IF inserted THEN [rows EXCEPT ![c] = NewRow] ELSE rows
    /\ UNCHANGED <<mayDecide, deadline, notify>>

DeadlinePasses(c) ==
    /\ sdk[c] = "poll" /\ c \notin deadline
    /\ deadline' = deadline \union {c}
    /\ UNCHANGED <<mayDecide, gate, rows, notify, history>>

(* _finish_approval: only "granted" returns, so that the tool runs.        *)
Finish(c, status) ==
    /\ sdk' = [sdk EXCEPT ![c] = "over"]
    /\ reported' = [reported EXCEPT ![c] = status]
    /\ ran' = IF status = "granted" THEN ran \union {c} ELSE ran

(* A decision read is honoured even past the deadline.                     *)
AfterPending(c) == IF c \in deadline THEN "mark" ELSE "poll"

Poll(c) ==
    /\ sdk[c] = "poll"
    /\ IF Pending(c) THEN Goto(c, AfterPending(c))
       ELSE Finish(c, rows[c].status)
    /\ UNCHANGED <<mayDecide, deadline, rows, notify, history>>

PollFails(c) ==
    /\ sdk[c] \in {"poll", "reread"} /\ Raise(c)
    /\ UNCHANGED <<mayDecide, deadline, rows, notify>>

Marked(c) == history' = [history EXCEPT !.marked = @ \union {c}]

(* The endpoint wants the 'approve' scope; a 403 raises out of the gate.   *)
MarkForbidden(c) ==
    /\ sdk[c] = "mark" /\ ~ mayDecide
    /\ Goto(c, "over") /\ Marked(c)
    /\ UNCHANGED <<mayDecide, deadline, rows, notify>>

TimedOut(c) == [rows EXCEPT ![c].status = "timeout"]

MarkTimeout(c) ==
    /\ sdk[c] = "mark" /\ mayDecide /\ Undecided(c)
    /\ rows' = TimedOut(c)
    /\ Finish(c, "timeout") /\ Marked(c)
    /\ UNCHANGED <<mayDecide, deadline, notify>>

(* Mutant: a timeout that lost the race is reported all the same.          *)
MarkTooLate_Forces(c) ==
    /\ sdk[c] = "mark" /\ mayDecide /\ ~ Undecided(c)
    /\ Finish(c, "timeout")
    /\ UNCHANGED <<mayDecide, deadline, rows, notify, history>>

(* 409: a human's decision won, and is read back.                          *)
MarkTooLate(c) ==
    /\ sdk[c] = "mark" /\ mayDecide /\ ~ Undecided(c)
    /\ Goto(c, "reread")
    /\ UNCHANGED <<mayDecide, deadline, rows, notify, history>>

MarkFails(c, stored) ==
    /\ sdk[c] = "mark" /\ Raise(c)
    /\ rows' = IF stored /\ mayDecide /\ Undecided(c)
               THEN TimedOut(c) ELSE rows
    /\ UNCHANGED <<mayDecide, deadline, notify>>

Reread(c) ==
    /\ sdk[c] = "reread" /\ Finish(c, rows[c].status)
    /\ UNCHANGED <<mayDecide, deadline, rows, notify, history>>
-----------------------------------------------------------------------------
(* The alert workers: deliver_pending_approvals.                           *)

Undelivered == {c \in Calls :
                 Pending(c) /\ ~ rows[c].delivered /\ ~ rows[c].expired}

Holding(c) == {r \in Replicas : c \in worker[r].batch}

Fetch(r) ==
    /\ worker[r] = Free /\ Undelivered # {}
    /\ worker' = [worker EXCEPT ![r].batch = Undelivered]
    /\ history' = [history EXCEPT !.contested =
                      @ \union {c \in Undelivered : Holding(c) # {}}]
    /\ UNCHANGED <<mayDecide, gate, deadline, rows, told>>

(* A failed send is logged and treated like one that went out.             *)
Send(r, c, works) ==
    /\ worker[r].sending = NoCall /\ c \in worker[r].batch
    /\ worker' = [worker EXCEPT ![r].sending = c]
    /\ told' = IF works THEN [told EXCEPT ![c] = @ + 1] ELSE told
    /\ history' = [history EXCEPT !.faults = IF works THEN @ ELSE @ + 1]
    /\ works \/ Fault
    /\ UNCHANGED <<mayDecide, gate, deadline, rows>>

Delivered(c) == [rows EXCEPT ![c].delivered = TRUE]

MarkDelivered(r) ==
    /\ worker[r].sending # NoCall
    /\ rows' = Delivered(worker[r].sending)
    /\ worker' = [worker EXCEPT
                     ![r] = [batch |-> @.batch \ {@.sending}, sending |-> NoCall]]
    /\ UNCHANGED <<mayDecide, gate, deadline, told, history>>

Crash(r) ==
    /\ worker[r] # Free /\ Fault
    /\ worker' = [worker EXCEPT ![r] = Free]
    /\ history' = [history EXCEPT !.faults = @ + 1]
    /\ UNCHANGED <<mayDecide, gate, deadline, rows, told>>
-----------------------------------------------------------------------------
Gate(c) ==
    \/ Create(c) \/ Poll(c) \/ MarkForbidden(c) \/ MarkTimeout(c)
    \/ MarkTooLate(c) \/ Reread(c)

Notify(r) ==
    \/ Fetch(r) \/ MarkDelivered(r)
    \/ \E c \in Calls, works \in BOOLEAN : Send(r, c, works)

Next ==
    \/ \E c \in Calls :
        \/ Ask(c) \/ Gate(c) \/ DeadlinePasses(c) \/ Expire(c)
        \/ PollFails(c)
        \/ \E b \in BOOLEAN : CreateFails(c, b) \/ MarkFails(c, b)
        \/ \E d \in {"granted", "denied"} : Decide(c, d)
    \/ \E r \in Replicas : Notify(r) \/ Crash(r)

(* The thread runs and its deadline passes; humans, clocks of rows and     *)
(* workers owe nothing.                                                    *)
Fairness == \A c \in Calls : WF_vars(Gate(c)) /\ WF_vars(DeadlinePasses(c))

Spec == Init /\ [][Next]_vars /\ Fairness
-----------------------------------------------------------------------------
ApprovalsTypeOK ==
    /\ mayDecide \in BOOLEAN /\ ran \subseteq Calls /\ deadline \subseteq Calls
    /\ sdk \in [Calls -> {"idle", "create", "poll", "mark", "reread", "over"}]
    /\ rows \in [Calls -> [status: {"none", "pending"} \union Decisions,
                           delivered: BOOLEAN, expired: BOOLEAN]]
    /\ reported \in [Calls -> {"none"} \union Decisions]
    /\ worker \in [Replicas -> [batch: SUBSET Calls,
                                sending: Calls \union {NoCall}]]
    /\ told \in [Calls -> Nat]

(* A guarded tool runs only if its own approval was granted, and stays     *)
(* granted: no race of humans, timeout and failures lets a call through,   *)
(* nor turns the recorded grant of one that ran into something else.       *)
RunsOnlyIfGranted == \A c \in ran : rows[c].status = "granted"

(* What the SDK reports of an approval, in the event stream and to the     *)
(* agent, is what the row says for ever: a human who won the race against  *)
(* the timeout is believed.                                                *)
ReportAgrees ==
    \A c \in Calls : reported[c] # "none" => rows[c].status = reported[c]

(* The gate, for a reader who sees of each call the verdict on record and  *)
(* what became of it.                                                      *)
Verdict == [c \in Calls |->
    IF rows[c].status \in Decisions THEN rows[c].status ELSE "none"]
Outcome == [c \in Calls |->
    IF c \in ran THEN "ran" ELSE IF sdk[c] = "over" THEN "stopped" ELSE "waiting"]

Promise == INSTANCE ToolGate WITH verdict <- Verdict, outcome <- Outcome

(* Every step of humans, SDK, clocks and workers is one the owner of the   *)
(* tool was promised, or none that he sees.                                *)
ImplementsToolGate == Promise!Spec

(* With a key that may record the timeout, a call that ended without a     *)
(* failed request leaves no pending row behind for a human to grant.       *)
ClosedWithCall ==
    \A c \in Calls :
        mayDecide /\ sdk[c] = "over" /\ c \notin history.failed => ~ Pending(c)

(* A human is notified of a request once, unless two workers fetched it    *)
(* at the same time or something failed.                                   *)
ToldOnce ==
    \A c \in Calls :
        told[c] > 1 => c \in history.contested \/ history.faults > 0

(* A call that reached the gate leaves it, whatever humans do.             *)
GateEnds == \A c \in Calls : sdk[c] = "create" ~> sdk[c] = "over"

(* "A decision that arrives after the SDK has already timed out is         *)
(* rejected" (docs/approvals.md:142): refuted with an agent's key, which   *)
(* may not record the timeout.                                             *)
LateDecisionRejected == history.late \intersect history.marked = {}
=============================================================================
