----------------------------- MODULE Detectors -----------------------------
(***************************************************************************)
(* The built-in failure detectors of the SDK (detectors.py), as operators  *)
(* over a run record s: the one the SDK keeps, or the one the server       *)
(* rebuilds (module RunRecord).  A detector whose severity depends on the  *)
(* run returns it, with "none" for no signal; the others are Boolean.      *)
(*                                                                         *)
(* Ratios are compared without division; a baseline is NoNumber until the  *)
(* server has learned it.                                                  *)
(***************************************************************************)
EXTENDS Integers, Sequences, FiniteSets, SequencesExt

CONSTANTS
    T,          \* the thresholds, by detector attribute
    Learned,    \* the per-agent P75 baselines the server fills in
    Tier,       \* model -> capability tier, NoNumber for an unknown model
    Entities,   \* the marks that are identifiers
    NoNumber    \* a number nobody knows

(* The word lists: an apology, a report of an error, an error in a tool's  *)
(* own words ("error" and "failed" are in both lists).                     *)
ErrorMarkers     == {"error", "exception"}
Acknowledgments  == {"error", "sorry"}

Window(q, n)  == SubSeq(q, IF Len(q) > n THEN Len(q) - n + 1 ELSE 1, Len(q))
Names(calls)  == {calls[i].name : i \in DOMAIN calls}
Times(calls, name) == Cardinality({i \in DOMAIN calls : calls[i].name = name})
Sum(f)        == FoldLeft(LAMBDA a, b : a + b, 0, f)
Known(n)      == IF n = NoNumber THEN 0 ELSE n
AtLeast(a, b) == IF a < b THEN b ELSE a
-----------------------------------------------------------------------------
(* Tools.                                                                  *)

OversizedToolArguments(s) ==
    \E i \in DOMAIN s.tools : "oversized" \in s.tools[i].args

ToolLoop(s) ==
    /\ Len(s.tools) >= T.loopWindow
    /\ LET last == Window(s.tools, T.loopWindow)
       IN  \E name \in Names(last) : Times(last, name) >= T.loopThreshold

ToolThrashing(s) ==
    /\ Len(s.tools) >= T.thrashWindow
    /\ LET last == Window(s.tools, T.thrashWindow)
       IN  /\ Cardinality(Names(last)) = 2
           /\ \A i \in 1..(Len(last) - 1) : last[i].name # last[i + 1].name

ScattershotToolUse(s) ==
    LET scanned  == Window(s.tools, T.scanLimit)
        distinct == Cardinality(Names(scanned))
    IN  /\ Len(s.tools) >= T.minTotalCalls /\ s.exit # "final_answer"
        /\ distinct >= T.minDistinctTools
        /\ 10 * Len(scanned) >= T.repeatTenths * distinct

ToolAvoidance(s) ==
    /\ s.exit = "final_answer" /\ s.offered /\ s.tools = <<>>
    /\ Len(s.llms) >= T.avoidanceCalls

GoalAbandonment(s) ==
    /\ s.exit = "none" /\ s.tools # <<>> /\ Len(s.events) >= T.stallSteps
    /\ \A i \in (Len(s.events) - T.stallSteps + 1)..Len(s.events) :
          s.events[i].type \in {"llm.called", "llm.responded"}

Failed(call) == call.ok = "failed"

(* The failures of one tool that end at call i, without a break.           *)
Streak(calls, i) ==
    LET unlike == {j \in 1..i : ~ Failed(calls[j]) \/ calls[j].name # calls[i].name}
    IN  IF unlike = {} THEN 1..i
        ELSE ((CHOOSE j \in unlike : \A k \in unlike : k <= j) + 1)..i

(* The scan goes back from the end, and past one call after each streak.   *)
StreakEnds(calls) ==
    LET f[i \in (-1)..Len(calls)] ==
            IF i <= 0 THEN {}
            ELSE IF ~ Failed(calls[i]) THEN f[i - 1]
            ELSE {i} \union f[i - Cardinality(Streak(calls, i)) - 1]
    IN  f[Len(calls)]

(* Only the longest streak is asked whether its tool recovered; the newest *)
(* of the longest.                                                         *)
RetryStorm(s) ==
    LET long == {i \in StreakEnds(s.tools) :
                    Cardinality(Streak(s.tools, i)) >= T.stormThreshold}
        best == CHOOSE i \in long : \A j \in long \ {i} :
                    LET a == Cardinality(Streak(s.tools, i))
                        b == Cardinality(Streak(s.tools, j))
                    IN  a > b \/ (a = b /\ i > j)
    IN  /\ long # {}
        /\ ~ \E j \in DOMAIN s.tools : /\ s.tools[j].name = s.tools[best].name
                                       /\ s.tools[j].ok = "ok"
                                       /\ s.tools[j].step > s.tools[best].step

CascadingToolFailure(s) ==
    LET ok   == {i \in DOMAIN s.tools : ~ Failed(s.tools[i])}
        tail == {i \in DOMAIN s.tools : \A j \in ok : j < i}
    IN  /\ Cardinality(tail) >= T.cascadeThreshold
        /\ Cardinality({s.tools[i].name : i \in tail}) >= 2

Unmeasurable(call) == call.degraded
EmptyReply(call)   == call.finish = "stop" /\ call.out = 0 /\ ~ Unmeasurable(call)

FirstStepFailure(s) ==
    \/ s.exit = "error" /\ s.current <= T.firstSteps
    \/ \E i \in DOMAIN s.llms : s.llms[i].step <= T.firstSteps /\ EmptyReply(s.llms[i])
    \/ \E i \in DOMAIN s.tools : s.tools[i].step <= T.firstSteps /\ Failed(s.tools[i])

(* A handoff tool failed, or returned next to nothing.                     *)
AgentHandoffFailure(s) ==
    \E i \in DOMAIN s.tools :
        /\ s.tools[i].name \in T.handoffTools
        /\ Failed(s.tools[i]) \/ (s.tools[i].ok = "ok" /\ "long" \notin s.tools[i].text)
-----------------------------------------------------------------------------
(* LLM calls.                                                              *)

Truncated(s, reasons) ==
    {i \in DOMAIN s.llms : s.llms[i].finish \in reasons /\ ~ Unmeasurable(s.llms[i])}

LlmTruncationLoop(s) ==
    Cardinality(Truncated(s, {"length"})) >= T.truncationThreshold

SilentTruncation(s) ==
    LET cut  == Truncated(s, {"length", "max_tokens"})
        call == s.llms[CHOOSE i \in cut : \A j \in cut : i <= j]
    IN  IF \/ cut = {} \/ Cardinality(cut) >= T.truncationThreshold
           \/ call.out = 0
           \/ \E i \in DOMAIN s.llms : s.llms[i].step > call.step
        THEN "none"
        ELSE IF \E i \in DOMAIN s.tools : s.tools[i].step > call.step
             THEN "MEDIUM" ELSE "HIGH"

EmptyLlmResponse(s) == \E i \in DOMAIN s.llms : EmptyReply(s.llms[i])

ContextBloat(s) ==
    LET counted == SelectSeq(s.llms, LAMBDA c : Known(c.tokens) > 0)
        first   == Head(counted).tokens
        latest  == Last(counted).tokens
        factor  == IF Learned.growth # NoNumber THEN 2 * Learned.growth ELSE T.growthFactor
    IN  /\ Len(counted) >= T.bloatCalls
        /\ first >= T.minFirstTokens /\ latest >= T.minLastTokens
        /\ latest >= factor * first

ReasoningStall(s) ==
    LET tools  == AtLeast(Len(s.tools), 1)
        factor == IF Learned.ratio # NoNumber THEN AtLeast(2 * Learned.ratio, T.minRatio)
                  ELSE T.ratioThreshold
    IN  IF \/ s.exit = "error" \/ Len(s.llms) < T.spinCalls
           \/ Len(s.llms) < factor * tools
        THEN "none"
        ELSE IF s.exit = "final_answer" THEN "MEDIUM" ELSE "HIGH"

Tokens(s) == Sum([i \in DOMAIN s.llms |-> Known(s.llms[i].tokens)])

CostSpike(s) ==
    LET limit == IF Learned.tokens # NoNumber THEN AtLeast(3 * Learned.tokens, T.minSpike)
                 ELSE T.staticSpike
    IN  s.llms # <<>> /\ Tokens(s) > 0 /\ Tokens(s) >= limit

(* Adjacent calls to two models of known tiers, the second lower.          *)
ModelFallbackDrift(s) ==
    \E i \in 1..(Len(s.llms) - 1) :
        LET a == Tier[s.llms[i].model]
            b == Tier[s.llms[i + 1].model]
        IN  a # NoNumber /\ b # NoNumber /\ b < a

BlankCall(call) == /\ Known(call.out) = 0 /\ call.finish \in {"none", "stop"}
               /\ call.answered

InstrumentationDegraded(s) ==
    \/ \E i \in DOMAIN s.llms : Unmeasurable(s.llms[i])
    \/ /\ Len(s.llms) >= T.degradedCalls
       /\ \A i \in DOMAIN s.llms : BlankCall(s.llms[i])
-----------------------------------------------------------------------------
(* Steps and time.                                                         *)

StepCountInflation(s) ==
    Learned.steps # NoNumber /\ s.current > 2 * Learned.steps

(* The limit for a step, by its first event other than an external signal. *)
StepLimit(s, step) ==
    LET agents == {i \in DOMAIN s.events : /\ s.events[i].step = step
                                           /\ s.events[i].type # "external.signal"}
        type   == IF agents = {} THEN "step"
                  ELSE s.events[CHOOSE i \in agents : \A j \in agents : i <= j].type
        learned == IF type = "tool.called" THEN Learned.toolMs
                   ELSE IF type = "llm.called" THEN Learned.llmMs ELSE NoNumber
    IN  IF learned # NoNumber THEN AtLeast(2 * learned, T.minSlow)
        ELSE IF type = "tool.called" THEN T.slowTool
        ELSE IF type = "llm.called" THEN T.slowLlm ELSE T.slowStep

SlowStep(s) ==
    LET slow == {n \in DOMAIN s.durations : s.durations[n] > StepLimit(s, n)}
    IN  IF slow = {} THEN "none"
        ELSE IF \E n \in slow : s.durations[n] >= 5 * StepLimit(s, n) THEN "HIGH" ELSE "MEDIUM"

SessionLatency(s) ==
    LET length == IF s.events = <<>> THEN 0 ELSE Last(s.events).at - Head(s.events).at
        limit  == IF Learned.seconds # NoNumber THEN AtLeast(3 * Learned.seconds, T.minSession)
                  ELSE T.staticSession
    IN  Len(s.events) >= 2 /\ length > 0 /\ length >= limit

Responses(s)  == SelectSeq(s.events, LAMBDA e : e.type = "llm.responded")
WithOutput(s) == SelectSeq(Responses(s), LAMBDA e : e.body.text # {})

RunawayIteration(s) ==
    LET steps   == s.current > T.stepCeiling
        cost    == Tokens(s) > T.costCeiling
        outputs == Window(WithOutput(s), T.lookback)
    IN  IF \/ ~ (steps \/ cost) \/ s.exit = "final_answer"
           \/ Responses(s) # <<>> /\ WithOutput(s) = <<>>
           \/ \E i \in DOMAIN outputs : "final" \in outputs[i].body.text
        THEN "none" ELSE IF steps /\ cost THEN "CRITICAL" ELSE "HIGH"
-----------------------------------------------------------------------------
(* What texts say.                                                         *)

ProblemCalls(s) ==
    SelectSeq(s.tools, LAMBDA c : Failed(c) \/ c.text \cap ErrorMarkers # {})

(* The events es at a later step than the call.                            *)
NextAfter(es, call) == SelectSeq(es, LAMBDA e : e.step > call.step)

(* The first response with output after the problem claims success.        *)
Claims(s, call) ==
    LET next == NextAfter(WithOutput(s), call)
    IN  /\ next # <<>>
        /\ {"long", "done"} \subseteq Head(next).body.text
        /\ Head(next).body.text \cap Acknowledgments = {}

PrematureTermination(s) ==
    LET problems == ProblemCalls(s)
        claimed  == SelectSeq(problems, LAMBDA c : Claims(s, c))
        step     == Head(NextAfter(WithOutput(s), Head(claimed))).step
    IN  IF claimed = <<>> THEN "none"
        ELSE IF step >= Last(WithOutput(s)).step THEN "CRITICAL" ELSE "HIGH"

Actionable(s) ==
    SelectSeq(s.events, LAMBDA e : e.type \in {"tool.called", "llm.responded"})

(* The very next action is another tool call, or says nothing of it.       *)
Unread(s, call) ==
    LET next == NextAfter(Actionable(s), call)
    IN  /\ next # <<>>
        /\ \/ Head(next).type = "tool.called"
           \/ Head(next).body.text \cap Acknowledgments = {}

UnreadToolError(s) ==
    LET unread == SelectSeq(ProblemCalls(s), LAMBDA c : Unread(s, c))
    IN  IF unread = <<>> THEN "none" ELSE IF Len(unread) >= 2 THEN "HIGH" ELSE "MEDIUM"

(* Entities of call i found in no text the agent had; judged while every   *)
(* earlier answer was visible.                                             *)
Fabricated(s, i) ==
    LET prior == UNION {s.tools[j].text : j \in 1..(i - 1)}
    IN  IF \E j \in 1..(i - 1) : s.tools[j].ok # "pending" /\ s.tools[j].text = {}
        THEN {} ELSE (s.tools[i].args \cap Entities) \ (s.input \union prior)

ToolArgumentFabrication(s) ==
    LET invented == {i \in DOMAIN s.tools : Fabricated(s, i) # {}}
    IN  IF invented = {} THEN "none"
        ELSE IF s.tools[CHOOSE i \in invented : \A j \in invented : i <= j].name
                    \in T.destructiveTools
             THEN "CRITICAL" ELSE "HIGH"

(* A tool used after the step, neither before it nor named by the user.    *)
BehaviourDeviates(s, step) ==
    LET before == {s.tools[i].name : i \in {j \in DOMAIN s.tools : s.tools[j].step <= step}}
    IN  \E i \in DOMAIN s.tools : /\ s.tools[i].step > step
                                  /\ s.tools[i].name \notin before \union s.input

RetrievedContentInjection(s) ==
    LET steps == {s.finds[i].step : i \in {j \in DOMAIN s.finds : "inject" \in s.finds[j].text}}
                 \union
                 {s.tools[i].step : i \in {j \in DOMAIN s.tools : "inject" \in s.tools[j].text}}
    IN  IF steps = {} THEN "none"
        ELSE IF BehaviourDeviates(s, CHOOSE n \in steps : \A m \in steps : n <= m)
             THEN "CRITICAL" ELSE "HIGH"

(* The first poisoned write, from an untrusted source or read back.        *)
MemoryPoisoning(s) ==
    LET writes == SelectSeq(s.memory, LAMBDA m : m.op = "written" /\ "inject" \in m.text)
        write  == Head(writes)
    IN  IF writes = <<>> THEN "none"
        ELSE IF \/ write.source \in {"retrieval", "tool_output", "external"}
                \/ \E i \in DOMAIN s.memory : /\ s.memory[i].op = "read"
                                               /\ s.memory[i].key = write.key
                                               /\ s.memory[i].step >= write.step
             THEN "CRITICAL" ELSE "HIGH"

RagEmptyRetrieval(s) ==
    /\ s.exit = "final_answer"
    /\ \E i \in DOMAIN s.finds : s.finds[i].hits < T.minResults \/ s.finds[i].low

ExcessiveRetrieval(s) == Len(s.finds) >= T.maxRetrievals
=============================================================================
