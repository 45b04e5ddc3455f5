------------------------------ MODULE PolicyRun ------------------------------
(***************************************************************************)
(* Policies in a running agent: RunContext._emit, _check_policies and the  *)
(* approval gate (packages/sdk-py/dunetrace/run_context.py) over the       *)
(* engine shared by the client's runs (policies/__init__.py).              *)
(*                                                                         *)
(* The run has one agent thread, which may overlap tool calls (async       *)
(* tools).  The engine is reloaded by the fetch thread and by add_policy   *)
(* at any moment, also between the steps of a check: each action below     *)
(* that reads the engine reads it once, under its lock.                    *)
(***************************************************************************)
EXTENDS Integers, Sequences, FiniteSets

CONSTANTS
    Policies,    \* [id, priority, action, dryRun, trigger, value]
    Bundles,     \* the sets of policies the engine may hold
    Tools,       \* tool names
    MaxSteps,    \* bound on the run's steps
    MaxReloads   \* bound on engine reloads

Actions  == {"stop", "soft", "log", "approve"}
Triggers == {"tool_call_count", "error_count", "signal", "before_tool_call"}

(* An approval policy and the gate's trigger go together: any other        *)
(* pairing is refused at registration (validate_policy_semantics).         *)
ASSUME PolicyAssumption ==
    /\ \A p \in Policies :
        /\ p.action \in Actions /\ p.trigger \in Triggers
        /\ p.action = "approve" <=> p.trigger = "before_tool_call"
    /\ Bundles \subseteq SUBSET Policies
    /\ \A b \in Bundles :
        /\ \A p, q \in b : p.id = q.id \/ p.priority = q.priority => p = q
        /\ \A S \in SUBSET b : S # {} => \E p \in S : \A q \in S : p.priority <= q.priority

VARIABLES
    engine,    \* _policies and _generation
    calls,     \* state.tool_calls, with what became of each
    step,      \* step
    llm,       \* LLM calls without a response
    errors,    \* _error_count
    triggered, \* _triggered_policies
    needs,     \* _needs_signal, its generation, _needed_signal_types
    detectors, \* _policy_detectors and the generation they are kept under
    cache,     \* _detector_cache_step and _detector_cache_signals
    check,     \* the check under way
    acted,     \* how often each policy's action was executed
    raced,     \* the last reload fell inside a check
    ledger     \* what else the policies did, for the properties

run  == <<calls, step, llm, errors>>
memo == <<needs, detectors, cache>>
past == <<acted, raced, ledger>>
vars == <<engine, run, triggered, memo, check, past>>

Ids       == {p.id : p \in Policies}
NoCheck   == [at |-> "idle", event |-> "none", tool |-> CHOOSE t \in Tools : TRUE]

Init ==
    /\ engine \in [loaded: Bundles, generation: {0}]
    /\ calls = <<>> /\ step = 0 /\ llm = 0 /\ errors = 0
    /\ triggered = {}
    /\ needs = [generation |-> -1, signal |-> FALSE, types |-> {}]
    /\ detectors = [generation |-> -1, types |-> {}]
    /\ cache = [step |-> -1, signals |-> {}]
    /\ check = NoCheck
    /\ acted = [p \in Policies |-> 0] /\ raced = FALSE
    /\ ledger = [verdict |-> [i \in Ids |-> 0],   \* dry-run firings recorded
                 passed  |-> [i \in Ids |-> 0],   \* matched, another one won
                 failed  |-> 0]                   \* failed tool responses
-----------------------------------------------------------------------------
(* What a check reads.                                                     *)

Failures == Cardinality({i \in DOMAIN calls : calls[i].success = "failed"})

(* The detectors, standing for the battery: a type raised by the calls and *)
(* one raised by their outcomes.                                           *)
Raised(type) == IF type = "TOOL_LOOP" THEN Len(calls) >= 2 ELSE Failures >= 1

Matches(p, signals) ==
    CASE p.trigger = "tool_call_count" -> Len(calls) > p.value
      [] p.trigger = "error_count"     -> errors > p.value
      [] p.trigger = "signal"          -> p.value \in signals
      [] OTHER                         -> FALSE

First(ps) == CHOOSE p \in ps : \A q \in ps : p.priority <= q.priority

NamedTypes == {p.value : p \in {q \in engine.loaded : q.trigger = "signal"}}
-----------------------------------------------------------------------------
(* The engine: load by the fetch thread, add by the program.               *)

Reload(bundle) ==
    /\ engine.generation < MaxReloads
    /\ engine' = [loaded |-> bundle, generation |-> engine.generation + 1]
    /\ raced' = (check.at = "detect")
    /\ UNCHANGED <<run, triggered, memo, check, acted, ledger>>
-----------------------------------------------------------------------------
(* The agent thread's events.                                              *)

Start(event, tool) ==
    check' = [at |-> "needs", event |-> event, tool |-> tool]

ToolCalled(tool) ==
    /\ check.at = "idle" /\ step < MaxSteps
    /\ calls' = Append(calls, [tool |-> tool, success |-> "none",
                               status |-> "starting"])
    /\ step' = step + 1
    /\ Start("tool_called", tool)
    /\ UNCHANGED <<engine, llm, errors, triggered, memo, past>>

Unanswered(tool) ==
    {i \in DOMAIN calls : calls[i].tool = tool /\ calls[i].success = "none"}

(* The most recent call of that name without an answer.                    *)
BackFilled(tool) ==
    CHOOSE i \in Unanswered(tool) : \A j \in Unanswered(tool) : j <= i

(* A running call returns or raises; its wrapper reports it by name.       *)
ToolResponded(i, success) ==
    /\ check.at = "idle" /\ calls[i].status = "running"
    /\ calls' = [[calls EXCEPT ![i].status = "over"]
                  EXCEPT ![BackFilled(calls[i].tool)].success = success]
    /\ errors' = IF success = "failed" THEN errors + 1 ELSE errors
    /\ ledger' = IF success = "failed"
                 THEN [ledger EXCEPT !.failed = @ + 1] ELSE ledger
    /\ Start("tool_responded", calls[i].tool)
    /\ UNCHANGED <<engine, step, llm, triggered, memo, acted, raced>>

(* llm_called advances the step without a check, llm_responded checks.     *)
LlmCalled ==
    /\ check.at = "idle" /\ step < MaxSteps
    /\ step' = step + 1 /\ llm' = llm + 1
    /\ UNCHANGED <<engine, calls, errors, triggered, memo, check, past>>

LlmResponded ==
    /\ check.at = "idle" /\ llm > 0
    /\ llm' = llm - 1
    /\ Start("llm_responded", NoCheck.tool)
    /\ UNCHANGED <<engine, calls, step, errors, triggered, memo, past>>
-----------------------------------------------------------------------------
(* _check_policies.                                                        *)

EndOfCheck(event) == IF event = "tool_called" THEN "gate" ELSE "idle"

NothingLoaded ==
    /\ check.at = "needs" /\ engine.loaded = {}
    /\ check' = [check EXCEPT !.at = EndOfCheck(check.event)]
    /\ UNCHANGED <<engine, run, triggered, memo, past>>

CheckNeeds ==
    /\ check.at = "needs" /\ engine.loaded # {}
    /\ needs' = IF needs.generation # engine.generation
                THEN [generation |-> engine.generation,
                      signal |-> NamedTypes # {}, types |-> NamedTypes]
                ELSE needs
    /\ check' = [check EXCEPT !.at = "detect"]
    /\ UNCHANGED <<engine, run, triggered, detectors, cache, past>>

(* Mutant: the detectors are chosen once per run.                          *)
Rebuild_Once == detectors.generation = -1

Rebuild == detectors.generation # engine.generation

CacheStale == Rebuild \/ cache.step # step

(* The detectors are kept under the generation read here, the types under  *)
(* the one read by CheckNeeds.                                             *)
CheckDetect ==
    /\ check.at = "detect"
    /\ check' = [check EXCEPT !.at = "evaluate"]
    /\ IF ~ needs.signal
       THEN UNCHANGED <<detectors, cache>>
       ELSE /\ detectors' = IF Rebuild
                            THEN [generation |-> engine.generation,
                                  types |-> needs.types]
                            ELSE detectors
            /\ cache' = IF CacheStale
                        THEN [step |-> step,
                              signals |-> {t \in detectors'.types : Raised(t)}]
                        ELSE cache
    /\ UNCHANGED <<engine, run, triggered, needs, past>>

SignalsSeen == IF needs.signal THEN cache.signals ELSE {}
Matching    == {p \in engine.loaded : Matches(p, SignalsSeen)}
Fresh       == {p \in Matching : p.id \notin triggered}

(* Mutant: only a stop is remembered.                                      *)
Remembered_StopOnly(p) ==
    IF p.action = "stop" \/ p.dryRun THEN triggered \union {p.id} ELSE triggered

(* Log policies fire every time; every other one once per run.             *)
Remembered(p) == IF p.action = "log" THEN triggered ELSE triggered \union {p.id}

(* The observed path records the firing of every dry-run policy that has   *)
(* not triggered yet, whether or not it is the one chosen.                 *)
Record(winner) ==
    [ledger EXCEPT
        !.verdict = [i \in Ids |->
            @[i] + Cardinality({p \in Fresh : p.id = i /\ p.dryRun})],
        !.passed  = [i \in Ids |->
            @[i] + Cardinality({p \in Fresh \ {winner} : p.id = i})]]

(* An enforced stop raises PolicyViolation out of the event: the tool does *)
(* not start and no gate is reached.  The agent's code may catch it.       *)
Stops(p) == p.action = "stop" /\ ~ p.dryRun

Block(i) == calls' = [calls EXCEPT ![i].status = "over"]

CheckEvaluate ==
    /\ check.at = "evaluate"
    /\ IF Fresh = {}
       THEN /\ check' = [check EXCEPT !.at = EndOfCheck(check.event)]
            /\ UNCHANGED <<calls, triggered, acted, ledger>>
       ELSE LET winner == First(Fresh) IN
            /\ triggered' = Remembered(winner)
            /\ acted' = [acted EXCEPT ![winner] = IF winner.dryRun THEN @ ELSE @ + 1]
            /\ ledger' = Record(winner)
            /\ IF Stops(winner)
               THEN /\ check' = NoCheck
                    /\ IF check.event = "tool_called" THEN Block(Len(calls))
                       ELSE UNCHANGED calls
               ELSE /\ check' = [check EXCEPT !.at = EndOfCheck(check.event)]
                    /\ UNCHANGED calls
    /\ UNCHANGED <<engine, step, llm, errors, memo, raced>>
-----------------------------------------------------------------------------
(* The gate after tool_called: find_approval_policy, then the approval,    *)
(* whose exchange with the human is module Approvals.                      *)

Guards == {p \in engine.loaded :
            p.trigger = "before_tool_call" /\ p.value = check.tool}

Unguarded ==
    /\ check.at = "gate" /\ Guards = {}
    /\ calls' = [calls EXCEPT ![Len(calls)].status = "running"]
    /\ check' = NoCheck
    /\ UNCHANGED <<engine, step, llm, errors, triggered, memo, past>>

Guarded(granted) ==
    /\ check.at = "gate" /\ Guards # {}
    /\ acted' = [acted EXCEPT ![First(Guards)] = @ + 1]
    /\ IF granted THEN calls' = [calls EXCEPT ![Len(calls)].status = "running"]
       ELSE Block(Len(calls))
    /\ check' = NoCheck
    /\ UNCHANGED <<engine, step, llm, errors, triggered, memo, raced, ledger>>
-----------------------------------------------------------------------------
Next ==
    \/ \E b \in Bundles : Reload(b)
    \/ \E t \in Tools : ToolCalled(t)
    \/ \E i \in DOMAIN calls, s \in {"ok", "failed"} : ToolResponded(i, s)
    \/ LlmCalled \/ LlmResponded
    \/ NothingLoaded \/ CheckNeeds \/ CheckDetect \/ CheckEvaluate
    \/ Unguarded
    \/ \E g \in BOOLEAN : Guarded(g)

Spec == Init /\ [][Next]_vars
-----------------------------------------------------------------------------
(* A policy acts at most once in a run, log and approval policies          *)
(* excepted, however often it matches, whatever bundles are loaded         *)
(* meanwhile, and even if it was edited (same id) after it acted.          *)
ActsOnce ==
    \A p, q \in {x \in Policies : x.action \in {"stop", "soft"} /\ acted[x] > 0} :
        acted[p] = 1 /\ (p.id = q.id => p = q)

(* Only one policy fires per event, so a matching one may be passed over;  *)
(* where no log policy stands before it, at most once for each policy that *)
(* does: a dry-run winner, too, steps aside for the next check.            *)
PassedOverBounded ==
    \A p \in Policies :
        LET ahead == {q \in Policies : q.priority < p.priority} IN
        (\A q \in ahead : q.action # "log")
            => ledger.passed[p.id] <= Cardinality({q.id : q \in ahead})

(* The signals a check after tool_called sees are those of the run as it   *)
(* is: what was kept from an earlier step, or from detectors chosen for    *)
(* another bundle, is not reused.                                          *)
SignalsFresh ==
    check.at = "evaluate" /\ check.event = "tool_called" /\ needs.signal
        => cache.signals = {t \in detectors.types : Raised(t)}

(* A signal policy that arrived in a reload is heeded by the next check:   *)
(* its type is among those evaluated, unless the reload fell between the   *)
(* two reads of the generation in one check.                               *)
NewPolicyHeeded ==
    /\ check.at = "evaluate" /\ needs.generation = engine.generation
    /\ ~ raced
    => NamedTypes \subseteq (IF needs.signal THEN detectors.types ELSE {})

(* error_count, kept as a running total, is what a scan of the calls would *)
(* find and what the tools reported, with overlapping calls of one tool.   *)
ErrorsExact == errors = Failures /\ errors = ledger.failed

(* "adding a new signal policy via add_policy() mid-run takes effect on    *)
(* the next policy-checked event" (docs/policies.md:112): refuted, the     *)
(* reload may fall between the two reads of the generation.                *)
HeededEvenIfRaced ==
    check.at = "evaluate" /\ needs.generation = engine.generation
        => NamedTypes \subseteq (IF needs.signal THEN detectors.types ELSE {})

(* "Action executed: no" (docs/policies/dry-run.md:71): refuted, the gate  *)
(* does not look at the mode.                                              *)
DryRunExecutesNothing ==
    \A p \in Policies : p.dryRun => acted[p] = 0

(* A dry-run firing is counted once per run (docs/policies/dry-run.md:73): *)
(* refuted, one that matches without being chosen is recorded each time.   *)
DryRunCountedOnce ==
    \A p \in Policies : p.dryRun /\ p.action # "log" => ledger.verdict[p.id] <= 1
=============================================================================
