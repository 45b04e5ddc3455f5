------------------------------ MODULE ChainRuns ------------------------------
(***************************************************************************)
(* The callback handler for LangChain (integrations/langchain.py): the     *)
(* tree of chains, model calls, tools and retrievers of an invocation      *)
(* becomes the events of one run, opened by the handler or by the user's   *)
(* dt.run() around the invocation.                                         *)
(*                                                                         *)
(* LangChain calls a hook for the start and the end of every node, in the  *)
(* node's task or, where a pool runs it (batch, a synchronous parallel     *)
(* branch), in a thread beside the others.  Nodes of different invocations *)
(* and parallel branches interleave, a branch may outlive its root, and a  *)
(* root older than half an hour is pruned by the next one.  The handler's  *)
(* maps have a lock; the RunContext has none.  A hook is cut where what it *)
(* reads may have changed since it wrote it: one increment of the step is  *)
(* a single action, as it is under the interpreter's lock.                 *)
(*                                                                         *)
(* A run is named by the root that opened it or, for dt.run(), by its      *)
(* task; `runs' holds what reached its RunContext.                         *)
(***************************************************************************)
EXTENDS Naturals, Sequences, FiniteSets, SequencesExt

CONSTANTS
    Nodes,      \* LangChain run ids
    ParentOf,   \* [Nodes -> Nodes \union {NoNode}]
    KindOf,     \* "chain", "llm", "tool" or "retriever"
    TaskOf,     \* the task a node's hooks are called in
    Pooled,     \* the nodes whose hooks are called in a pool's thread
    Late,       \* bound: the nodes that may start after their parent's end
    Announced   \* tools whose agent reports them in on_agent_action first

NoNode == "none"
NoRun  == "none"
Tasks  == {TaskOf[n] : n \in Nodes}

VARIABLES
    node,       \* where each node is
    ctxs,       \* _runs: by root, the context of its invocation
    parent,     \* _lc_parent: the root of each registered node
    current,    \* the _current_run ContextVar of each task
    runs,       \* by run: its state, its step and its calls
    stale,      \* roots that started before the cutoff
    gone,       \* roots that ended or were pruned
    hook,       \* the start hooks of retrievers that are under way
    overlapped  \* retrievers whose start hook was not alone in its run

vars == <<node, ctxs, parent, current, runs, stale, gone, hook, overlapped>>
hooks == <<hook, overlapped>>

RunIds == Nodes \union Tasks
Empty  == [n \in {} |-> 0]
NewRun == [state |-> "none", step |-> 0, calls |-> <<>>]

Init ==
    /\ node = [n \in Nodes |-> "idle"]
    /\ ctxs = Empty /\ parent = Empty
    /\ current = [k \in Tasks |-> NoRun]
    /\ runs = [r \in RunIds |-> NewRun]
    /\ stale = {} /\ gone = {}
    /\ hook = Empty /\ overlapped = {}

Set(f, x, v)   == [y \in DOMAIN f \union {x} |-> IF y = x THEN v ELSE f[y]]
Without(f, X)  == [y \in DOMAIN f \ X |-> f[y]]
-----------------------------------------------------------------------------
(* The user's dt.run() around invocations of a task; it may be left while  *)
(* one still goes on.                                                      *)
DtOpen(k) ==
    /\ runs[k].state = "none" /\ current[k] = NoRun
    /\ runs' = [runs EXCEPT ![k].state = "open"]
    /\ current' = [current EXCEPT ![k] = k]
    /\ UNCHANGED <<node, ctxs, parent, stale, gone, hooks>>

DtClose(k) ==
    /\ runs[k].state = "open"
    /\ runs' = [runs EXCEPT ![k].state = "ended"]
    /\ current' = [current EXCEPT ![k] = NoRun]
    /\ UNCHANGED <<node, ctxs, parent, stale, gone, hooks>>

(* The ambient run, unless this handler opened it.                         *)
Ambient(k) == IF current[k] \in Tasks THEN current[k] ELSE NoRun

(* The root a node's id or its parent's leads to.                          *)
RootOf(id) == IF id \in DOMAIN parent THEN parent[id] ELSE id

(* _ctx: the invocation of the node's parent or of the node, else the      *)
(* ambient run.                                                            *)
RunFor(n) ==
    LET of(id) == RootOf(id) \in DOMAIN ctxs
    IN IF of(ParentOf[n]) THEN ctxs[RootOf(ParentOf[n])].run
       ELSE IF of(n) THEN ctxs[RootOf(n)].run
       ELSE Ambient(TaskOf[n])

(* _register_child.                                                        *)
Registered(n) ==
    LET root == RootOf(ParentOf[n])
    IN IF root \notin DOMAIN ctxs THEN <<parent, ctxs>>
       ELSE <<Set(parent, n, root), [ctxs EXCEPT ![root].children = @ \union {n}]>>

Register(n) == parent' = Registered(n)[1] /\ ctxs' = Registered(n)[2]
-----------------------------------------------------------------------------
(* _reset_ctx_token in task k for a root's context.                        *)
Reset(cur, root) ==
    IF ctxs[root].token[1] = "set" /\ cur = root THEN ctxs[root].token[2] ELSE cur

(* What _cleanup removes of the roots R.                                   *)
Forgotten(R) == R \union UNION {ctxs[r].children : r \in R}

(* A hook comes between the steps of another if one of them has a thread.  *)
MayRun(n) == \A m \in DOMAIN hook \ {n} : {m, n} \cap Pooled # {}

Started(n) ==
    /\ node[n] = "idle" /\ MayRun(n)
    /\ ParentOf[n] # NoNode =>
          node[ParentOf[n]] \in {"open"} \union (IF n \in Late THEN {"done"} ELSE {})
    /\ node' = [node EXCEPT ![n] = "open"]

Ended(n) ==
    /\ node[n] = "open" /\ MayRun(n) /\ n \notin DOMAIN hook
    /\ \A m \in Nodes \ Late : ParentOf[m] = n => node[m] \notin {"announced", "open"}
    /\ node' = [node EXCEPT ![n] = "done"]

(* Mutant: only roots are known as parents.                                *)
Tracked_Roots(id) == id \in DOMAIN ctxs

(* The ids by which on_chain_start tells a sub-chain from a root.          *)
Tracked(id) == id \in DOMAIN ctxs \union DOMAIN parent

(* on_chain_start of a chain whose parent is known.                        *)
SubChainStart(n) ==
    /\ KindOf[n] = "chain" /\ Started(n)
    /\ Tracked(ParentOf[n])
    /\ Register(n)
    /\ UNCHANGED <<current, runs, stale, gone, hooks>>

(* on_chain_start of any other chain: sweeps, then joins the ambient run   *)
(* or opens one and makes it current.                                      *)
RootStart(n) ==
    LET k     == TaskOf[n]
        cur   == FoldLeft(Reset, current[k], SetToSeq(stale))
        kept  == Without(ctxs, stale)
        joins == cur \in Tasks
        c     == [run |-> IF joins THEN cur ELSE n, owns |-> ~joins, children |-> {},
                  token |-> IF joins THEN <<"none", NoRun>> ELSE <<"set", cur>>,
                  steps |-> Empty, names |-> {}]
    IN /\ KindOf[n] = "chain" /\ Started(n)
       /\ ~Tracked(ParentOf[n])
       /\ ctxs' = Set(kept, n, c)
       /\ parent' = Set(Without(parent, Forgotten(stale)), n, n)
       /\ current' = [current EXCEPT ![k] = IF joins THEN cur ELSE n]
       /\ runs' = IF joins THEN runs ELSE [runs EXCEPT ![n].state = "open"]
       /\ stale' = {} /\ gone' = gone \union stale /\ UNCHANGED hooks

(* on_chain_end, on_chain_error: only a root's does something.             *)
ChainEnd(n) ==
    /\ KindOf[n] = "chain" /\ Ended(n) /\ UNCHANGED hooks
    /\ IF n \notin DOMAIN ctxs THEN UNCHANGED <<ctxs, parent, current, runs, stale, gone>>
       ELSE /\ runs' = IF ctxs[n].owns THEN [runs EXCEPT ![n].state = "ended"] ELSE runs
            /\ ctxs' = Without(ctxs, {n})
            /\ parent' = Without(parent, Forgotten({n}))
            /\ current' = [current EXCEPT ![TaskOf[n]] = Reset(@, n)]
            /\ stale' = stale \ {n} /\ gone' = gone \union {n}

TimePasses ==
    /\ stale # DOMAIN ctxs /\ stale' = DOMAIN ctxs
    /\ UNCHANGED <<node, ctxs, parent, current, runs, gone, hooks>>
-----------------------------------------------------------------------------
(* What RunContext keeps of a call, by the node that made it and the node  *)
(* whose response was recorded on it.                                      *)
Open(kind, n, step) == [kind |-> kind, by |-> n, answer |-> NoNode, step |-> step,
                        late |-> FALSE]

Recorded(r, kind, n, step) ==
    Append(runs[r].calls, [Open(kind, n, step) EXCEPT !.late = runs[r].state = "ended"])

(* The start hooks of retrievers under way in a run.                       *)
UnderWay(r) == {m \in DOMAIN hook : hook[m].run = r}

(* llm_called, tool_called.                                                *)
Calling(r, kind, n) ==
    /\ runs' = [runs EXCEPT ![r].step = @ + 1,
                            ![r].calls = Recorded(r, kind, n, runs[r].step + 1)]
    /\ overlapped' = overlapped \union UnderWay(r)
    /\ UNCHANGED hook

(* llm_responded without a call index: the most recent call.               *)
LastOf(r, kind) == {i \in DOMAIN runs[r].calls : runs[r].calls[i].kind = kind}

Answered(r, i, n) == [runs EXCEPT ![r].calls[i].answer = n]

Largest(I) == CHOOSE i \in I : \A j \in I : j <= i

(* on_llm_start, on_chat_model_start.                                      *)
LlmStart(n) ==
    /\ KindOf[n] = "llm" /\ Started(n)
    /\ IF RunFor(n) = NoRun THEN UNCHANGED <<runs, hooks>> ELSE Calling(RunFor(n), "llm", n)
    /\ UNCHANGED <<ctxs, parent, current, stale, gone>>

(* on_llm_end, on_llm_error.                                               *)
LlmEnd(n) ==
    LET r == RunFor(n)
        I == IF r = NoRun THEN {} ELSE LastOf(r, "llm")
    IN /\ KindOf[n] = "llm" /\ Ended(n)
       /\ runs' = IF I = {} THEN runs ELSE Answered(r, Largest(I), n)
       /\ UNCHANGED <<ctxs, parent, current, stale, gone, hooks>>

(* on_agent_action: the agent's executor reports the tool it is about to   *)
(* call.                                                                   *)
AgentAction(n) ==
    /\ n \in Announced /\ node[n] = "idle" /\ node[ParentOf[n]] = "open" /\ MayRun(n)
    /\ node' = [node EXCEPT ![n] = "announced"]
    /\ IF RunFor(n) = NoRun THEN UNCHANGED <<runs, hooks>> ELSE Calling(RunFor(n), "tool", n)
    /\ UNCHANGED <<ctxs, parent, current, stale, gone>>

ToolStart(n) ==
    LET r    == RunFor(n)
        root == RootOf(ParentOf[n])
    IN /\ KindOf[n] = "tool"
       /\ \/ n \notin Announced /\ Started(n)
          \/ node[n] = "announced" /\ MayRun(n) /\ node' = [node EXCEPT ![n] = "open"]
       /\ IF r = NoRun THEN UNCHANGED <<runs, parent, ctxs, hooks>>
          ELSE /\ Calling(r, "tool", n)
               /\ parent' = Registered(n)[1]
               /\ ctxs' = IF root \notin DOMAIN ctxs THEN ctxs
                          ELSE [Registered(n)[2] EXCEPT ![root].names = @ \union {n}]
       /\ UNCHANGED <<current, stale, gone>>

(* on_tool_end, on_tool_error: the most recent open call of that name.     *)
(* LangChain passes the name with an end but not with an error: then it is *)
(* the one kept in the invocation's context.  All tools have one name.     *)
ToolEnd(n, named) ==
    LET r     == RunFor(n)
        root  == RootOf(ParentOf[n])
        known == root \in DOMAIN ctxs
        name  == named \/ (known /\ n \in ctxs[root].names)
        I     == IF r = NoRun \/ ~name THEN {}
                 ELSE {i \in LastOf(r, "tool") : runs[r].calls[i].answer = NoNode}
    IN /\ KindOf[n] = "tool" /\ Ended(n)
       /\ runs' = IF I = {} THEN runs ELSE Answered(r, Largest(I), n)
       /\ ctxs' = IF named \/ ~known THEN ctxs
                  ELSE [ctxs EXCEPT ![root].names = @ \ {n}]
       /\ UNCHANGED <<parent, current, stale, gone, hooks>>

(* on_retriever_start: it advances the step, keeps it by node, and sends   *)
(* the event to the client directly, with the step as it then is.          *)
RetrieverStart(n) ==
    LET r    == RunFor(n)
        root == RootOf(ParentOf[n])
    IN /\ KindOf[n] = "retriever" /\ Started(n)
       /\ IF r = NoRun THEN UNCHANGED <<runs, parent, ctxs, hooks>>
          ELSE /\ runs' = [runs EXCEPT ![r].step = @ + 1]
               /\ Register(n)
               /\ hook' = Set(hook, n, [run |-> r, root |-> root, kept |-> FALSE])
               /\ overlapped' = overlapped \union UnderWay(r)
                                 \union (IF UnderWay(r) = {} THEN {} ELSE {n})
       /\ UNCHANGED <<current, stale, gone>>

StepKept(n) ==
    /\ n \in DOMAIN hook /\ ~ hook[n].kept /\ MayRun(n)
    /\ hook' = [hook EXCEPT ![n].kept = TRUE]
    /\ LET root == hook[n].root
       IN ctxs' = IF root \notin DOMAIN ctxs THEN ctxs
                  ELSE [ctxs EXCEPT ![root].steps = Set(@, n, runs[hook[n].run].step)]
    /\ UNCHANGED <<node, parent, current, runs, stale, gone, overlapped>>

RetrievalCalled(n) ==
    /\ n \in DOMAIN hook /\ hook[n].kept /\ MayRun(n)
    /\ LET r == hook[n].run
       IN runs' = [runs EXCEPT ![r].calls = Recorded(r, "retriever", n, runs[r].step)]
    /\ hook' = Without(hook, {n})
    /\ UNCHANGED <<node, ctxs, parent, current, stale, gone, overlapped>>

(* The step of a retriever's response: the kept one, else the run's.       *)
StepOf(n) ==
    LET root == RootOf(ParentOf[n])
    IN IF root \in DOMAIN ctxs /\ n \in DOMAIN ctxs[root].steps
       THEN ctxs[root].steps[n] ELSE runs[RunFor(n)].step

(* on_retriever_end, on_retriever_error: the event is given the step, and  *)
(* the detector pairs it with the call at that step.                       *)
RetrieverEnd(n) ==
    LET r    == RunFor(n)
        root == RootOf(ParentOf[n])
        I    == IF r = NoRun THEN {} ELSE
                {i \in LastOf(r, "retriever") : runs[r].calls[i].step = StepOf(n)}
    IN /\ KindOf[n] = "retriever" /\ Ended(n)
       /\ runs' = IF I = {} THEN runs ELSE Answered(r, Largest(I), n)
       /\ ctxs' = IF root \notin DOMAIN ctxs THEN ctxs
                  ELSE [ctxs EXCEPT ![root].steps = Without(@, {n})]
       /\ UNCHANGED <<parent, current, stale, gone, hooks>>

Next ==
    \/ \E k \in Tasks : DtOpen(k) \/ DtClose(k)
    \/ \E n \in Nodes :
         \/ SubChainStart(n) \/ RootStart(n) \/ ChainEnd(n) \/ AgentAction(n)
         \/ LlmStart(n) \/ LlmEnd(n) \/ ToolStart(n)
         \/ \E named \in BOOLEAN : ToolEnd(n, named)
         \/ RetrieverStart(n) \/ StepKept(n) \/ RetrievalCalled(n) \/ RetrieverEnd(n)
    \/ TimePasses

Spec == Init /\ [][Next]_vars
-----------------------------------------------------------------------------
RECURSIVE Above(_)
Above(n) == IF n = NoNode THEN {} ELSE {n} \union Above(ParentOf[n])

Calls(r, kind) == {i \in DOMAIN runs[r].calls : runs[r].calls[i].kind = kind}

(* A run the handler opens holds calls of its own invocation only, and     *)
(* dt.run() those of its task; and a chain with a parent is taken for a    *)
(* run's boundary only after a root above it ended or was pruned, however  *)
(* invocations, branches and dt.run() blocks interleave.                   *)
OwnCallsOnly == \A r \in RunIds :
    /\ \A i \in DOMAIN runs[r].calls :
         LET n == runs[r].calls[i].by
         IN IF r \in Tasks THEN TaskOf[n] = r ELSE r \in Above(n)
    /\ r \in Nodes /\ runs[r].state # "none" /\ ParentOf[r] # NoNode
         => Above(ParentOf[r]) \cap gone # {}

(* Nothing is kept of an invocation that is over: the map of nodes leads   *)
(* to active roots only.                                                   *)
NothingKept == \A n \in DOMAIN parent : parent[n] \in DOMAIN ctxs

PairedIn(r, kind) == \A i \in Calls(r, kind) :
    runs[r].calls[i].answer \in {NoNode, runs[r].calls[i].by}

(* In a run the handler opened, the response of a retriever whose start    *)
(* hook no other hook of the run came into stands at the step of its own   *)
(* call, whatever else runs in parallel, in tasks or in threads.           *)
RetrievalsPaired == \A r \in Nodes : \A i \in Calls(r, "retriever") :
    runs[r].calls[i].answer \in {NoNode, runs[r].calls[i].by} \union overlapped

(* The docstring of _ctx: for calls that reach the ambient run without a   *)
(* root "no root-tracking bookkeeping is needed".                          *)
AmbientPaired == \A r \in Tasks : PairedIn(r, "retriever")

(* The comment on _RunCtx.child_steps: it maps a node to the "step_index   *)
(* at call time", at which its response is then sent.                      *)
PairedInThreads == \A r \in Nodes : PairedIn(r, "retriever")

(* The handler's docstring: "Only the outermost chain per invocation is    *)
(* treated as the Dunetrace run boundary".                                 *)
OutermostOnly == \A r \in Nodes : runs[r].state # "none" => ParentOf[r] = NoNode

(* docs/integrate-langchain-agent.md: the handler captures "every LLM call *)
(* (model, tokens, latency, raw prompt/completion)".                       *)
LlmPaired == \A r \in RunIds : PairedIn(r, "llm")

(* docs/integrate-langchain-agent.md: it captures "every tool call": once. *)
ToolsOnce == \A r \in RunIds : \A i, j \in Calls(r, "tool") :
    runs[r].calls[i].by = runs[r].calls[j].by => i = j

(* docs/integrate-langchain-agent.md: "Stale runs (never completed after   *)
(* 30 minutes) are pruned": one that completes is not.                     *)
CompletedIsReported == \A n \in Nodes :
    /\ ParentOf[n] = NoNode /\ node[n] = "done" /\ runs[n].state # "none"
    => runs[n].state = "ended"

(* The comment on _reset_ctx_token: a value left in place "is harmless".   *)
NoEndedAmbient == \A k \in Tasks :
    current[k] # NoRun => runs[current[k]].state = "open"
=============================================================================
