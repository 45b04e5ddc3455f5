---------------------------- MODULE DetectorRuns ----------------------------
(***************************************************************************)
(* The detectors over the two records of a run: what the server says of    *)
(* the rebuilt run, what the agent says of its own, and what happened, as  *)
(* the order of the events tells it.                                       *)
(***************************************************************************)
EXTENDS RunRecord

CONSTANTS T, Learned, Tier, Entities

D == INSTANCE Detectors

Server == BuildRunState

Stepless(calls) == [i \in DOMAIN calls |-> [calls[i] EXCEPT !.step = 0]]

(* No two responses were taken for the same call's: true of calls that     *)
(* stream, and of those that do not overlap.                               *)
AnsweredOnce ==
    \A p, q \in DOMAIN events :
        /\ events[p].type = "llm.responded" /\ events[q].type = "llm.responded"
        /\ events[p].body.id = events[q].body.id
        => p = q

(* The detectors that read no position of an event against a call's step.  *)
Verdicts(s) ==
    [oversized  |-> D!OversizedToolArguments(s), loop    |-> D!ToolLoop(s),
     thrashing  |-> D!ToolThrashing(s),          scatter |-> D!ScattershotToolUse(s),
     avoidance  |-> D!ToolAvoidance(s),          storm   |-> D!RetryStorm(s),
     cascade    |-> D!CascadingToolFailure(s),   handoff |-> D!AgentHandoffFailure(s),
     truncation |-> D!LlmTruncationLoop(s),      silent  |-> D!SilentTruncation(s),
     empty      |-> D!EmptyLlmResponse(s),       bloat   |-> D!ContextBloat(s),
     spin       |-> D!ReasoningStall(s),         cost    |-> D!CostSpike(s),
     drift      |-> D!ModelFallbackDrift(s),     blind   |-> D!InstrumentationDegraded(s),
     inflation  |-> D!StepCountInflation(s),     runaway |-> D!RunawayIteration(s),
     invented   |-> D!ToolArgumentFabrication(s), poison |-> D!MemoryPoisoning(s),
     empties    |-> D!RagEmptyRetrieval(s),      excess  |-> D!ExcessiveRetrieval(s)]

(* A run is judged alike in the agent and on the server by all of these    *)
(* detectors, with the same severity, once it ended otherwise than by a    *)
(* policy (whose exit the server reads as an error), if no response was    *)
(* taken for that of a call already answered.  While it stalls they agree  *)
(* that it is abandoned, and the agent, which does not see the run start,  *)
(* never finds it longer than the server does.                             *)
VerdictsAgree ==
    /\ Over /\ sdk.exit # "policy_violation" /\ AnsweredOnce
         => Verdicts(Server) = Verdicts(InPath)
    /\ ~ Over /\ sdk.exit = "none" => D!GoalAbandonment(Server) = D!GoalAbandonment(InPath)
    /\ D!SessionLatency(InPath) => D!SessionLatency(Server)
-----------------------------------------------------------------------------
(* The order of the events: the reference.                                 *)

(* One tool call at a time, and no response that outlives its call.        *)
Sequential ==
    \A i \in DOMAIN events :
        events[i].type = "tool.called" =>
            /\ \A j \in (i + 1)..Len(events) :
                  events[j].type \in {"tool.called", "llm.called", "llm.responded",
                                      "retrieval.called", "retrieval.responded"} =>
                      \E k \in (i + 1)..(j - 1) : events[k].type = "tool.responded"
            /\ Cardinality({j \in 1..i : events[j].type = "llm.called"})
                 = Cardinality({j \in 1..i : events[j].type = "llm.responded"})

Problem(e) == /\ e.type = "tool.responded"
              /\ e.body.ok = "failed" \/ e.body.text \cap D!ErrorMarkers # {}

First(p, types) ==
    LET later == {j \in (p + 1)..Len(events) : events[j].type \in types}
    IN  IF later = {} THEN 0 ELSE CHOOSE j \in later : \A k \in later : j <= k

Apologises(i) == events[i].body.text \cap D!Acknowledgments # {}

(* The next thing the agent does after a problem is to call a tool, or to  *)
(* answer without a word about it.                                         *)
Overlooked(p) ==
    LET next == First(p, {"tool.called", "llm.responded"})
    IN  Problem(events[p]) /\ next # 0 /\ (events[next].type = "tool.called" \/ ~ Apologises(next))

Spoken(p) == {j \in (p + 1)..Len(events) :
                 events[j].type = "llm.responded" /\ events[j].body.text # {}}

ClaimsSuccess(p) ==
    /\ Problem(events[p]) /\ Spoken(p) # {}
    /\ LET j == CHOOSE j \in Spoken(p) : \A k \in Spoken(p) : j <= k
       IN  {"long", "done"} \subseteq events[j].body.text /\ ~ Apologises(j)

(* On a run without parallel calls the server reports UNREAD_TOOL_ERROR    *)
(* and PREMATURE_TERMINATION exactly for what the agent did after a tool's *)
(* problem, though it sees steps and not the order of events.              *)
SequentialErrorsExact ==
    Sequential =>
        /\ (D!UnreadToolError(Server) # "none") = (\E p \in DOMAIN events : Overlooked(p))
        /\ (D!PrematureTermination(Server) # "none") = (\E p \in DOMAIN events : ClaimsSuccess(p))

(* A run that claims success over a problem never reads it either: the     *)
(* "leading indicator" of the docstring, on either record, in any order.   *)
ClaimImpliesUnread ==
    \A s \in {Server, InPath} :
        D!PrematureTermination(s) # "none" => D!UnreadToolError(s) # "none"

Poisoned(e) == e.type \in {"retrieval.responded", "tool.responded"} /\ "inject" \in e.body.text

(* A tool the agent had not used, and the user had not named, is used      *)
(* after marked content arrived.                                           *)
Deviates(p) ==
    \E j \in (p + 1)..Len(events) :
        /\ events[j].type = "tool.called" /\ events[j].body.name \notin sdk.input
        /\ \A k \in 1..p : events[k].type = "tool.called" => events[k].body.name # events[j].body.name

(* What the content detectors claim happened: the first marked content     *)
(* changed what a sequential agent did; an invented identifier had been in *)
(* no text the agent had been given; a poisoned memory read back later is  *)
(* CRITICAL.                                                               *)
ContentVerdictsTrue ==
    LET marked == {p \in DOMAIN events : Poisoned(events[p])}
    IN  /\ Sequential /\ marked # {} =>
              (D!RetrievedContentInjection(Server) = "CRITICAL")
                = Deviates(CHOOSE p \in marked : \A q \in marked : p <= q)
        /\ D!ToolArgumentFabrication(Server) # "none" =>
              \E p \in DOMAIN events :
                 /\ events[p].type = "tool.called"
                 /\ \E e \in events[p].body.args \cap Entities :
                       e \notin sdk.input \union
                           UNION {events[q].body.text : q \in {q \in 1..p :
                                     events[q].type = "tool.responded"}}
        /\ \A p, q \in DOMAIN events :
              /\ p < q /\ events[p].type = "memory.written" /\ "inject" \in events[p].body.text
              /\ events[q].type = "memory.read" /\ events[q].body.key = events[p].body.key
              /\ \A r \in 1..(p - 1) : events[r].type = "memory.written"
                                         => "inject" \notin events[r].body.text
              => D!MemoryPoisoning(Server) = "CRITICAL"

(* Truncation is reported once: never by both detectors, and by one of     *)
(* them when the run's last word was cut for want of tokens ("length").    *)
TruncationReportedOnce ==
    LET silent == D!SilentTruncation(Server) # "none"
        loop   == D!LlmTruncationLoop(Server)
        calls  == Server.llms
    IN  /\ ~ (silent /\ loop)
        /\ /\ calls # <<>> /\ Last(calls).finish = "length" /\ Last(calls).out > 0
           /\ \A i \in DOMAIN calls : calls[i].finish # "max_tokens" /\ ~ calls[i].degraded
           => silent \/ loop
-----------------------------------------------------------------------------
(* What the documentation says and the code does not do.                   *)

(* run_builder.py: the rebuilt record is "exactly what the SDK's own       *)
(* RunState holds"; every response, tool result and annotation is on the   *)
(* call it is on in the agent, only the step differs, and by one.          *)
RebuildAgrees ==
    LET b == Server
    IN  /\ Stepless(b.llms) = Stepless(sdk.llms)
        /\ Stepless(b.tools) = Stepless(sdk.tools)
        /\ \A i \in DOMAIN sdk.tools : b.tools[i].step = sdk.tools[i].step + 1
        /\ \A i \in DOMAIN sdk.llms : b.llms[i].step = sdk.llms[i].step + 1
        /\ b.finds = sdk.finds /\ b.memory = sdk.memory /\ b.limits = sdk.limits

(* The docstring of SILENT_TRUNCATION: LOOP_THRESHOLD is "the truncation   *)
(* count at/above which LLM_TRUNCATION_LOOP takes over".                   *)
TruncationTakenOver ==
    Cardinality(D!Truncated(Server, {"length", "max_tokens"})) >= T.truncationThreshold
        => D!LlmTruncationLoop(Server)

(* The docstring of RETRY_STORM: the same tool THRESHOLD times in a row,   *)
(* all failed; nothing has succeeded since.                                *)
StormReported ==
    (\E i \in DOMAIN Server.tools :
        /\ Cardinality(D!Streak(Server.tools, i)) >= T.stormThreshold
        /\ D!Failed(Server.tools[i])
        /\ \A j \in (i + 1)..Len(Server.tools) : Server.tools[j].ok # "ok")
      => D!RetryStorm(Server)

(* The docstring of UNREAD_TOOL_ERROR: it is about the agent's very next   *)
(* action after the failure.                                               *)
UnreadMeansOverlooked ==
    D!UnreadToolError(Server) # "none" => \E p \in DOMAIN events : Overlooked(p)

(* The same of the in-path check, where nothing ran in parallel.           *)
UnreadInPath ==
    Sequential /\ D!UnreadToolError(InPath) # "none" => \E p \in DOMAIN events : Overlooked(p)

(* run_builder.py: the rebuilt record is "exactly what the SDK's own       *)
(* RunState holds", so a first-step failure is one on either side.         *)
FirstStepAgrees ==
    Over => D!FirstStepFailure(Server) = D!FirstStepFailure(InPath)

(* The docstring of external_signal: it annotates the step, so that a slow *)
(* tool is explained by it.                                                *)
SlowCallSeen ==
    \A i, j \in DOMAIN events :
        /\ i < j /\ events[i].type = "tool.called" /\ events[j].type = "tool.responded"
        /\ events[i].step = events[j].step /\ events[j].at - events[i].at > T.slowTool
        => D!SlowStep(Server) # "none"
=============================================================================
