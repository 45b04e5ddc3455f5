------------------------------ MODULE Semantic ------------------------------
(***************************************************************************)
(* The semantic worker (semantic_svc): each poll takes the first finished  *)
(* runs without a sampling decision and processes them concurrently, one   *)
(* task per run: sample, charge the organization's quota and the agent's   *)
(* budget, call the evaluators, write their findings, evaluate the run's   *)
(* conversation, record the decision.  asyncio.gather reports the first    *)
(* exception at once and leaves the other tasks running.                   *)
(***************************************************************************)
EXTENDS Naturals, Sequences, FiniteSets, FiniteSetsExt, Functions

CONSTANTS
    RunIds,        \* run ids, numbers in the order of ORDER BY run_id
    Tasks,         \* tasks alive at once
    Evaluators,    \* run-level evaluators the agent has
    BucketOf,      \* stable_bucket of each run
    BaseRate,      \* rate for runs without a structural signal
    Flagged,       \* runs the detector worker will write a signal for
    Conversation,  \* runs of one sampled conversation
    MinConversationRuns,
    BatchSize, Quota, Budget, ConvQuota,
    MaxFaults      \* bound on database errors and restarts

ASSUME SemanticAssumption ==
    /\ RunIds \subseteq Nat /\ BucketOf \in [RunIds -> 0..99]
    /\ IsFiniteSet(Tasks) /\ Flagged \subseteq RunIds /\ Conversation \subseteq RunIds
    /\ {BaseRate, MinConversationRuns, BatchSize, Quota, Budget, ConvQuota, MaxFaults} \subseteq Nat

VARIABLES
    finished,   \* runs with a terminal event
    structural, \* runs with a structural signal
    usage,      \* evaluations charged: to the organization, agent, conversation
    decided,    \* semantic_processed_runs
    tried,      \* how often each evaluator was called for each run
    found,      \* how many findings each evaluator has written on each run
    waived,     \* runs' quota slots spent and then refused by the budget
    cycle,      \* the tasks the poll loop waits for
    task,       \* what each task is doing
    failed      \* per database error or restart, the runs whose tasks died of it

books == <<usage, waived>>
notes == <<decided, tried, found>>
semanticVars == <<finished, structural, books, notes, cycle, task, failed>>

Undecided == [row |-> FALSE]
Idle      == [at |-> "idle"]
NoCycle   == {}

SemanticInit ==
    /\ finished = {} /\ structural = {}
    /\ usage = [org |-> 0, agent |-> 0, conv |-> 0] /\ waived = 0
    /\ decided = [r \in RunIds |-> Undecided]
    /\ tried = [r \in RunIds |-> [e \in Evaluators |-> 0]]
    /\ found = [r \in RunIds |-> [e \in Evaluators |-> 0]]
    /\ cycle = NoCycle /\ task = [t \in Tasks |-> Idle] /\ failed = <<>>

At(t, at)   == task[t].at = at
Goto(t, at) == task' = [task EXCEPT ![t].at = at]
Alive       == {t \in Tasks : task[t] # Idle}
-----------------------------------------------------------------------------
(* The agent and the detector worker.                                      *)
Finish(r) ==
    /\ r \notin finished
    /\ finished' = finished \cup {r}
    /\ UNCHANGED <<structural, books, notes, cycle, task, failed>>

Detect(r) ==
    /\ r \in (finished \cap Flagged) \ structural
    /\ structural' = structural \cup {r}
    /\ UNCHANGED <<finished, books, notes, cycle, task, failed>>
-----------------------------------------------------------------------------
(* fetch_unevaluated_runs, first ids first.                                *)
Unevaluated == {r \in finished : decided[r] = Undecided}

Batch == {r \in Unevaluated : Cardinality({q \in Unevaluated : q < r}) < BatchSize}

(* poll_once: one task per run of the batch.                               *)
Poll ==
    /\ cycle = NoCycle /\ Batch # {}
    /\ Cardinality(Batch) <= Cardinality(Tasks \ Alive)
    /\ LET free == CHOOSE f \in kSubset(Cardinality(Batch), Tasks \ Alive) : TRUE
           run  == CHOOSE f \in [free -> Batch] : IsInjective(f)
       IN /\ cycle' = free
          /\ task' = [t \in Tasks |->
                IF t \in free
                THEN [at |-> "sample", run |-> run[t], todo |-> Evaluators,
                      sampled |-> FALSE, finding |-> "none"]
                ELSE task[t]]
    /\ UNCHANGED <<finished, structural, books, notes, failed>>

(* decide_sampling: 100% of structurally flagged runs, else the rate of    *)
(* the agent's configuration, of retrieval or of the baseline.             *)
Rate(flagged) == IF flagged THEN 100 ELSE BaseRate

Sample(t) ==
    LET r       == task[t].run
        flagged == r \in structural
        sampled == BucketOf[r] < Rate(flagged)
    IN /\ At(t, "sample")
       /\ task' = [task EXCEPT
             ![t].at = IF sampled THEN "quota" ELSE "converse",
             ![t].sampled = sampled]
       /\ UNCHANGED <<finished, structural, books, notes, cycle, failed>>

(* Either ceiling turns the decision into "not sampled".                   *)
Refused(t) == task' = [task EXCEPT ![t].at = "converse", ![t].sampled = FALSE]

(* The UPDATE's guard, with overage not allowed.                           *)
UnderQuota == usage.org < Quota

ConsumeQuota(t) ==
    /\ At(t, "quota")
    /\ IF UnderQuota
       THEN usage' = [usage EXCEPT !.org = @ + 1] /\ Goto(t, "budget")
       ELSE UNCHANGED usage /\ Refused(t)
    /\ UNCHANGED <<finished, structural, waived, notes, cycle, failed>>

(* Mutant: the budget counter is only read.                                *)
ChargeAgent_Nothing == usage

ChargeAgent == [usage EXCEPT !.agent = @ + 1]

ConsumeBudget(t) ==
    /\ At(t, "budget")
    /\ IF usage.agent < Budget
       THEN usage' = ChargeAgent /\ UNCHANGED waived /\ Goto(t, "evaluate")
       ELSE UNCHANGED usage /\ waived' = waived + 1 /\ Refused(t)
    /\ UNCHANGED <<finished, structural, notes, cycle, failed>>

(* An evaluator of _run_evaluators: it raises and is skipped, finds        *)
(* nothing, or fires; its finding is written in a step of its own.         *)
Evaluate(t, e) ==
    LET r == task[t].run
    IN /\ At(t, "evaluate") /\ e \in task[t].todo
       /\ tried' = [tried EXCEPT ![r][e] = @ + 1]
       /\ \E fired \in BOOLEAN :
             task' = [task EXCEPT ![t].todo = @ \ {e},
                                  ![t].at = IF fired THEN "write" ELSE "evaluate",
                                  ![t].finding = IF fired THEN e ELSE @]
       /\ UNCHANGED <<finished, structural, books, decided, found, cycle, failed>>

Write(t) ==
    /\ At(t, "write")
    /\ found' = [found EXCEPT ![task[t].run][task[t].finding] = @ + 1]
    /\ Goto(t, "evaluate")
    /\ UNCHANGED <<finished, structural, books, decided, tried, cycle, failed>>

Evaluated(t) ==
    /\ At(t, "evaluate") /\ task[t].todo = {}
    /\ Goto(t, "converse")
    /\ UNCHANGED <<finished, structural, books, notes, cycle, failed>>

(* _maybe_run_conversation_evaluator: it has a quota of its own, and an    *)
(* error in it does not fail the run.                                      *)
Converse(t) ==
    /\ At(t, "converse")
    /\ usage' = IF /\ task[t].run \in Conversation
                   /\ Cardinality(Conversation \cap finished) >= MinConversationRuns
                   /\ usage.conv < ConvQuota
                THEN [usage EXCEPT !.conv = @ + 1] ELSE usage
    /\ Goto(t, "mark")
    /\ UNCHANGED <<finished, structural, waived, notes, cycle, failed>>

(* Mutant: a run that was not sampled gets no row.                         *)
Recorded_SampledOnly(t) == task[t].sampled

(* Every decision is recorded.                                             *)
Recorded(t) == TRUE

(* mark_run_processed, ON CONFLICT DO NOTHING, and the end of the task.    *)
Mark(t) ==
    LET r == task[t].run
    IN /\ At(t, "mark")
       /\ decided' = IF decided[r] = Undecided /\ Recorded(t)
                     THEN [decided EXCEPT ![r] = [row |-> TRUE, sampled |-> task[t].sampled]]
                     ELSE decided
       /\ task' = [task EXCEPT ![t] = Idle]
       /\ cycle' = cycle \ {t}
       /\ UNCHANGED <<finished, structural, books, tried, found, failed>>
-----------------------------------------------------------------------------
(* A database error ends the task; when the poll loop waits for it, gather *)
(* raises, the cycle is over and its other tasks run on.                   *)
TaskFails(t) ==
    /\ Len(failed) < MaxFaults
    /\ task[t].at \in {"sample", "quota", "budget", "evaluate", "write", "mark"}
    /\ task' = [task EXCEPT ![t] = Idle]
    /\ cycle' = IF t \in cycle THEN NoCycle ELSE cycle
    /\ failed' = Append(failed, {task[t].run})
    /\ UNCHANGED <<finished, structural, books, notes>>

WorkerRestarts ==
    /\ Len(failed) < MaxFaults /\ Alive # {}
    /\ task' = [t \in Tasks |-> Idle] /\ cycle' = NoCycle
    /\ failed' = Append(failed, {task[t].run : t \in Alive})
    /\ UNCHANGED <<finished, structural, books, notes>>

Step(t) ==
    \/ Sample(t) \/ ConsumeQuota(t) \/ ConsumeBudget(t)
    \/ \E e \in Evaluators : Evaluate(t, e)
    \/ Write(t) \/ Evaluated(t) \/ Converse(t) \/ Mark(t)

SemanticNext ==
    \/ \E r \in RunIds : Finish(r) \/ Detect(r)
    \/ Poll \/ WorkerRestarts
    \/ \E t \in Tasks : Step(t) \/ TaskFails(t)

(* The loop polls again after every cycle, and a task is scheduled.        *)
Fairness == WF_semanticVars(Poll) /\ \A t \in Tasks : WF_semanticVars(Step(t))

SemanticSpec == SemanticInit /\ [][SemanticNext]_semanticVars /\ Fairness
-----------------------------------------------------------------------------
(* The calls of an evaluator, numbered by run.                              *)
Called(e) == UNION {{r} \X (1..tried[r][e]) : r \in RunIds}

Budgeting == {t \in Tasks : At(t, "budget")}

(* No evaluation goes unpaid, however tasks interleave, fail and repeat:   *)
(* the agent's counter bounds the calls of each evaluator, and whatever    *)
(* the organization was charged beyond it was refused by the budget or     *)
(* died on the way there.                                                  *)
EvaluationsPaid ==
    /\ \A e \in Evaluators : Cardinality(Called(e)) <= usage.agent
    /\ usage.org <= Quota
    /\ usage.agent + waived + Cardinality(Budgeting) <= usage.org
    /\ usage.org <= usage.agent + waived + Len(failed) * Cardinality(Tasks)
                    + Cardinality(Budgeting)

(* Without database errors or restarts, a run is processed once: each      *)
(* evaluator is called at most once for it, and the row says what          *)
(* happened, evaluated by all of them or by none.                          *)
DecisionTrue ==
    failed = <<>> =>
        \A r \in RunIds :
            /\ \A e \in Evaluators : tried[r][e] <= 1 /\ found[r][e] <= tried[r][e]
            /\ decided[r] # Undecided =>
                  {e \in Evaluators : tried[r][e] > 0} =
                      IF decided[r].sampled THEN Evaluators ELSE {}

(* Every finished run gets its decision, whatever fails on the way, so the *)
(* first BatchSize runs never block the ones behind them.                  *)
EveryRunDecided ==
    \A r \in RunIds : r \in finished ~> decided[r] # Undecided
-----------------------------------------------------------------------------
(* docs/semantic-evaluation.md: 100% of structurally flagged runs get      *)
(* semantic context, while quota and budget last.                          *)
FlaggedEvaluated ==
    \A r \in structural :
        decided[r] # Undecided /\ usage.org < Quota /\ usage.agent < Budget
        => decided[r].sampled

(* docs/semantic-evaluation.md: a skipped evaluation costs nothing.        *)
SkippedCostsNothing ==
    failed = <<>> /\ Alive = {} =>
        usage.org = Cardinality({r \in RunIds : decided[r] # Undecided /\ decided[r].sampled})

(* db.py, mark_run_processed: the row prevents deciding again.  A run none *)
(* of whose own steps failed is evaluated once.                            *)
EvaluatedOnce ==
    \A r \in RunIds, e \in Evaluators :
        (\A i \in DOMAIN failed : r \notin failed[i]) => tried[r][e] <= 1
=============================================================================
