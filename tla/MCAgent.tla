------------------------------ MODULE MCAgent -------------------------------
(* What runs in the agent's process, side by side: the policies of a run,    *)
(* the trace processor for the OpenAI Agents SDK and the callback handler    *)
(* for LangChain.                                                            *)
EXTENDS PolicyRun, TraceRuns, TLC

VARIABLES
    machine,      \* the machine that runs
    node, ctxs, parent, lcCurrent, lcRuns, lcStale, gone, lcHook, overlapped

chainsVars == <<node, ctxs, parent, lcCurrent, lcRuns, lcStale, gone, lcHook, overlapped>>
allVars == <<machine, vars, tracesVars, chainsVars>>

(* Two tools and eight policies: each action and each trigger, a dry-run     *)
(* stop between enforced policies, a log policy before a stop, a policy that *)
(* the second bundle holds edited, and two approval policies, one in dry run.*)
P(id, priority, action, dryRun, trigger, value) ==
    [id |-> id, priority |-> priority, action |-> action, dryRun |-> dryRun,
     trigger |-> trigger, value |-> value]

nudge  == P("nudge",  1, "soft", FALSE, "tool_call_count", 0)
dryCap == P("dryCap", 2, "stop", TRUE, "tool_call_count", 0)
storm  == P("storm",  3, "soft", FALSE, "signal", "RETRY_STORM")
loop   == P("loop",   4, "stop", FALSE, "signal", "TOOL_LOOP")
note   == P("note",   5, "log",  FALSE, "error_count", 0)
halt   == P("nudge",  6, "stop", FALSE, "error_count", 0)
ask    == P("ask",    7, "approve", FALSE, "before_tool_call", "refund")
dryAsk == P("dryAsk", 8, "approve", TRUE, "before_tool_call", "search")

MCPolicies == {dryCap, nudge, storm, loop, note, halt, ask, dryAsk}
MCBundles  == {{}, {nudge, dryCap, storm, ask}, {loop, note, halt, dryAsk}}

Nodes == {"root", "root2", "tool", "sub", "ret", "ret2", "llm"}

NodeParent == [n \in Nodes |-> CASE n \in {"root", "root2"} -> "none"
                 [] n = "tool" -> "root" [] n = "sub" -> "tool"
                 [] n \in {"ret", "ret2"} -> "sub" [] n = "llm" -> "root2"]
NodeKind   == [n \in Nodes |-> CASE n \in {"root", "root2", "sub"} -> "chain"
                 [] n \in {"ret", "ret2"} -> "retriever" [] OTHER -> n]

(* Each trace in a task of its own; the spans are all of the one that ends,  *)
(* and the start of the other sweeps.                                        *)
MCTraceOf == [s \in Spans |-> CHOOSE t \in Ending : TRUE]
MCTracesTaskOf == [t \in Traces |-> t]

(* Two invocations of one task: a chain with an announced tool that runs a   *)
(* chain and retrieves twice, once in a pool and late; and one with a model. *)
Lc == INSTANCE ChainRuns
    WITH Nodes <- Nodes, ParentOf <- NodeParent, KindOf <- NodeKind,
         TaskOf <- [n \in Nodes |-> "task"], Pooled <- {"ret"}, Late <- {"ret"},
         Announced <- {"tool"}, current <- lcCurrent, runs <- lcRuns, stale <- lcStale,
         hook <- lcHook

(* The machine that does not run rests in one of its initial states.         *)
GroupInit ==
    /\ machine \in {"policies", "traces", "chains"}
    /\ Init
    /\ TracesInit
    /\ Lc!Init
    /\ machine # "policies" => engine.loaded = {}

GroupNext ==
    \/ machine = "policies" /\ Next    /\ UNCHANGED <<machine, tracesVars, chainsVars>>
    \/ machine = "traces"   /\ TracesNext /\ UNCHANGED <<machine, vars, chainsVars>>
    \/ machine = "chains"   /\ Lc!Next /\ UNCHANGED <<machine, vars, tracesVars>>

GroupSpec == GroupInit /\ [][GroupNext]_allVars

(* The properties of the instance, as its module states them.                *)
ChainsExact == machine = "chains" =>
    Lc!OwnCallsOnly /\ Lc!RetrievalsPaired /\ Lc!NothingKept

(* The spans differ in what they do only.                                    *)
Symmetry == Permutations(Spans)
=============================================================================
