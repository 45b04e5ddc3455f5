------------------------------ MODULE CrossRun ------------------------------
(***************************************************************************)
(* What the detector worker reads beyond the run it processes (worker.py,  *)
(* run_graph.py): the parent's events, for HANDOFF_CONTEXT_LOSS; the chain *)
(* of parents, for DELEGATION_LOOP; the agent's earlier memory writes and  *)
(* its known destinations, for UNGROUNDED_DESTINATION.  The other runs are *)
(* still running or on their way into the store when this one is processed.*)
(*                                                                         *)
(* A text is a set of words, its length the number of them.                *)
(***************************************************************************)
EXTENDS Integers, Sequences, FiniteSets, SequencesExt

CONSTANTS
    Menus,          \* what agents do: alphabets of runs and events
    Dests,          \* words that are destinations (and entities)
    Domain,         \* destination -> its registrable domain, or itself
    Tools,          \* tool names
    MinLoopRuns,    \* DelegationLoopDetector.MIN_LOOP_RUNS
    MaxDepth,       \* DEFAULT_MAX_DEPTH of the ancestor walk
    MinBaseline     \* MIN_BASELINE_RUNS

VARIABLES
    menu,
    runs,       \* the runs in the order they start, each with its events
    stored,     \* how many of a run's events have been ingested
    seen,       \* how many of them its last pass had read
    signals,    \* the failure signals of each run
    baseline    \* agent -> the destinations recorded as normal

vars == <<menu, runs, stored, seen, signals, baseline>>

G == INSTANCE Grounding WITH menu <- menu, rec <- runs, step <- seen, fate <- signals,
        Menus <- Menus, IdLike <- {}, Allowlisted <- {}, SendTools <- Tools,
        Irreversible <- {}, Cap <- 50, InPathSurface <- 1000,
        ServerSurface <- 1000

Init ==
    /\ menu \in Menus
    /\ runs = <<>> /\ stored = <<>> /\ seen = <<>> /\ signals = <<>>
    /\ baseline = [a \in menu.agents |-> {}]

Clock == FoldLeft(LAMBDA n, run : n + Len(run.log), 0, runs)

(* dt.run in the context of another run, or of none.                       *)
Start(agent, parent, input) ==
    /\ Len(runs) < menu.runs
    /\ parent \in 0..Len(runs)
    /\ parent # 0 => Last(runs[parent].log).type # "run.completed"
    /\ runs' = Append(runs, [agent |-> agent, parent |-> parent, input |-> input,
                             log |-> <<[type |-> "run.started", at |-> Clock]>>])
    /\ stored' = Append(stored, 0) /\ seen' = Append(seen, 0) /\ signals' = Append(signals, {})
    /\ UNCHANGED <<menu, baseline>>

(* A call, its answer, a model's response (its call is of no account here),*)
(* a memory write or read, the end of the run.                             *)
Do(r, event) ==
    /\ Last(runs[r].log).type # "run.completed"
    /\ Len(runs[r].log) < menu.length
    /\ event.type = "tool.responded" => Last(runs[r].log).type = "tool.called"
    /\ runs' = [runs EXCEPT ![r].log = Append(@, event @@ [at |-> Clock])]
    /\ UNCHANGED <<menu, stored, seen, signals, baseline>>

Ingest(r) ==
    /\ stored[r] < Len(runs[r].log)
    /\ stored' = [stored EXCEPT ![r] = @ + 1]
    /\ UNCHANGED <<menu, runs, seen, signals, baseline>>
-----------------------------------------------------------------------------
(* What the pass over run r reads.                                         *)

Events(r) == SubSeq(runs[r].log, 1, stored[r])

(* The rebuilt record: the position of an event stands for its step.       *)
RunState(r) ==
    LET es == Events(r)
        at(types) == SetToSortSeq({p \in DOMAIN es : es[p].type \in types}, <)
        calls  == at({"tool.called"})
        memory == at({"memory.written", "memory.read"})
        answer(p) == IF p < Len(es) /\ es[p + 1].type = "tool.responded"
                     THEN [ok |-> "ok", text |-> es[p + 1].text] ELSE [ok |-> "pending", text |-> {}]
    IN  [input |-> runs[r].input, prompt |-> {}, finds |-> <<>>, events |-> <<>>, injected |-> FALSE,
         tools |-> [i \in DOMAIN calls |->
                       [name |-> es[calls[i]].name, args |-> es[calls[i]].args, step |-> calls[i]]
                           @@ answer(calls[i])],
         memory |-> [i \in DOMAIN memory |->
                        [op |-> IF es[memory[i]].type = "memory.read" THEN "read" ELSE "written",
                         step |-> memory[i], key |-> es[memory[i]].key,
                         text |-> es[memory[i]].text, source |-> es[memory[i]].source]]]

Size(texts) == FoldLeft(LAMBDA n, text : n + Cardinality(text), 0, texts)

Outputs == {"llm.responded", "tool.responded"}

(* Mutant: the parent's events are not cut at the child's start.           *)
Context_Whole(r) ==
    LET es == SelectSeq(Events(runs[r].parent), LAMBDA e : e.type \in Outputs)
    IN  (IF stored[runs[r].parent] = 0 THEN <<>> ELSE <<runs[runs[r].parent].input>>)
            \o [i \in DOMAIN es |-> es[i].text]

(* _accumulated_context_text, of what the parent had emitted when the      *)
(* child started: its input, and what its models and tools put out.        *)
Context(r) ==
    LET es == SelectSeq(Events(runs[r].parent), LAMBDA e :
                    e.type \in Outputs /\ e.at <= Head(runs[r].log).at)
    IN  (IF stored[runs[r].parent] = 0 THEN <<>> ELSE <<runs[runs[r].parent].input>>)
            \o [i \in DOMAIN es |-> es[i].text]

Missing(r) == (UNION ToSet(Context(r)) \cap Dests) \ runs[r].input

(* evaluate_handoff: over half of the text is gone, and an entity with it. *)
HandoffContextLoss(r) ==
    IF runs[r].parent # 0 /\ Missing(r) # {}
       /\ 2 * (Size(Context(r)) - Cardinality(runs[r].input)) > Size(Context(r))
    THEN {[type |-> "HANDOFF_CONTEXT_LOSS", severity |-> "HIGH", about |-> Missing(r)]} ELSE {}

(* build_ancestor_chain: it ends at a parent whose start is not stored.    *)
Chain(r) ==
    LET f[n \in 0..MaxDepth] ==
            IF n = 0 THEN <<r>>
            ELSE LET p == runs[Last(f[n - 1])].parent
                 IN  IF Len(f[n - 1]) < n \/ p = 0 \/ stored[IF p = 0 THEN r ELSE p] = 0
                     THEN f[n - 1] ELSE Append(f[n - 1], p)
    IN  f[MaxDepth]

Agents(chain)  == [i \in DOMAIN chain |-> runs[chain[i]].agent]

(* parent agent -> child agent, in the order the walk goes up.             *)
Edges(chain) == {<<Agents(chain)[i + 1], Agents(chain)[i]>> : i \in 1..(Len(chain) - 1)}

(* The agents of a cycle the search from a may close.  The successors of   *)
(* an agent are a set of strings, so the search takes them in any order.   *)
CyclesFrom(a, E) ==
    LET nodes == {e[1] : e \in E} \union {e[2] : e \in E}
        paths == {p \in SeqOf(nodes, Cardinality(nodes)) :
                    /\ p # <<>> /\ Head(p) = a /\ IsInjective(p)
                    /\ \A i \in 1..(Len(p) - 1) : <<p[i], p[i + 1]>> \in E}
    IN  {ToSet(SubSeq(p, i, Len(p))) : <<p, i>> \in
            {<<p, i>> \in paths \X (1..Cardinality(nodes)) :
                 i <= Len(p) /\ <<Last(p), p[i]>> \in E}}

(* find_cycle: the search starts with the agents nearest to the leaf.      *)
FoundCycles(chain) ==
    LET E == Edges(chain)
        order == FoldLeft(LAMBDA q, i : q \o <<Agents(chain)[i + 1], Agents(chain)[i]>>, <<>>,
                          [i \in 1..(Len(chain) - 1) |-> i])
        hits == SelectSeq(order, LAMBDA a : CyclesFrom(a, E) # {})
    IN  IF hits = <<>> THEN {} ELSE CyclesFrom(Head(hits), E)

Caught(chain, cycle) == Cardinality({i \in DOMAIN chain : Agents(chain)[i] \in cycle})

DelegationLoop(r, cycle) ==
    IF Caught(Chain(r), cycle) < MinLoopRuns THEN {}
    ELSE {[type |-> "DELEGATION_LOOP", about |-> cycle,
           severity |-> IF Caught(Chain(r), cycle) >= MinLoopRuns + 2 THEN "CRITICAL" ELSE "HIGH"]}

(* fetch_memory_writes: by the same agent, in its other runs.              *)
PriorWrites(r, keys) ==
    {e \in UNION {ToSet(Events(q)) : q \in {q \in DOMAIN runs \ {r} : runs[q].agent = runs[r].agent}} :
        e.type = "memory.written" /\ e.key \in keys}

KeysRead(s) == {m.key : m \in {m \in ToSet(s.memory) : m.op = "read"}}

(* Only the destination that was reported is looked for.                   *)
Escalated(r, v) ==
    IF v.taint = "none" /\ \E w \in PriorWrites(r, KeysRead(RunState(r))) :
            w.source \in G!Untrusted /\ v.dest \in w.text
    THEN "CRITICAL" ELSE v.severity

(* collect_destinations.                                                   *)
GroundedDests(s) == SelectSeq(G!Sent(s, DOMAIN s.tools), LAMBDA c : c.dest \in G!Grounded(s))

Processed(agent) == Cardinality({q \in DOMAIN runs : runs[q].agent = agent /\ seen[q] > 0})

(* What is known is looked up by destination, and compared by domain.      *)
Novel(r) ==
    LET sent  == GroundedDests(RunState(r))
        known == baseline[runs[r].agent] \cap {c.dest : c \in ToSet(sent)}
        new   == SelectSeq(sent, LAMBDA c : Domain[c.dest] \notin known)
    IN  IF Processed(runs[r].agent) < MinBaseline \/ new = <<>> THEN {} ELSE {Head(new).dest}

UngroundedDestination(r) ==
    LET found == G!UngroundedDestination(RunState(r), Tools, 1000)
    IN  IF found # {}
        THEN {[type |-> "UNGROUNDED_DESTINATION", severity |-> Escalated(r, v), about |-> {v.dest}] :
                 v \in found}
        ELSE {[type |-> "UNGROUNDED_DESTINATION", severity |-> "MEDIUM", about |-> {d}] : d \in Novel(r)}

Recorded(s) == {c.dest : c \in ToSet(GroundedDests(s))}
-----------------------------------------------------------------------------
(* process_run, for a run that has ended or stalled.  A type of signal the *)
(* run already has is not written again.                                   *)
Process(r, cycle) ==
    /\ seen[r] < stored[r]
    /\ IF FoundCycles(Chain(r)) = {} THEN cycle = {} ELSE cycle \in FoundCycles(Chain(r))
    /\ LET found == HandoffContextLoss(r) \union DelegationLoop(r, cycle) \union UngroundedDestination(r)
           types == {s.type : s \in signals[r]}
       IN  signals' = [signals EXCEPT ![r] = @ \union {s \in found : s.type \notin types}]
    /\ baseline' = [baseline EXCEPT ![runs[r].agent] = @ \union Recorded(RunState(r))]
    /\ seen' = [seen EXCEPT ![r] = stored[r]]
    /\ UNCHANGED <<menu, runs, stored>>

Next ==
    \/ \E agent \in menu.agents, parent \in menu.parents, input \in menu.inputs :
          Start(agent, IF parent = "latest" THEN Len(runs) ELSE 0, input)
    \/ \E r \in DOMAIN runs, event \in menu.events : Do(r, event)
    \/ \E r \in DOMAIN runs : Ingest(r)
    \/ \E r \in DOMAIN runs, cycle \in SUBSET menu.agents : Process(r, cycle)

Spec == Init /\ [][Next]_vars
-----------------------------------------------------------------------------
About(r, type) == UNION {s.about : s \in {s \in signals[r] : s.type = type}}

(* A lost entity was known to the parent when it started the child: what   *)
(* the parent learns while the child runs, or while its events travel, is  *)
(* never held against the handoff (the docstring of HANDOFF_CONTEXT_LOSS). *)
HandoffFromWhatWasKnown ==
    \A r \in DOMAIN runs : \A w \in About(r, "HANDOFF_CONTEXT_LOSS") :
        \/ w \in runs[runs[r].parent].input
        \/ \E p \in DOMAIN runs[runs[r].parent].log :
              LET e == runs[runs[r].parent].log[p]
              IN  e.type \in Outputs /\ w \in e.text /\ e.at < Head(runs[r].log).at

Ancestors(r) ==
    LET f[n \in 1..r] == IF n = r THEN <<r>>
                         ELSE LET q == f[n + 1]
                              IN  IF runs[Last(q)].parent = 0 THEN q
                                  ELSE Append(q, runs[Last(q)].parent)
    IN  f[1]

(* A delegation loop is one: MinLoopRuns runs of agents that delegated to  *)
(* each other, in the chain of the run it is reported on, whatever part of *)
(* the chain had been stored.                                              *)
LoopsAreSustained ==
    \A r \in DOMAIN runs : \A s \in {s \in signals[r] : s.type = "DELEGATION_LOOP"} :
        /\ Caught(Ancestors(r), s.about) >= MinLoopRuns
        /\ s.about \in UNION {CyclesFrom(a, Edges(Ancestors(r))) : a \in s.about}

(* No destination enters an agent's baseline while nothing trusted in any  *)
(* of its runs contains it: the first exfiltration never becomes normal.   *)
BaselineOnlyTold ==
    \A a \in DOMAIN baseline : \A d \in baseline[a] :
        \E r \in DOMAIN runs :
            /\ runs[r].agent = a
            /\ \/ d \in runs[r].input
               \/ \E e \in ToSet(runs[r].log) :
                     \/ e.type = "tool.responded" /\ d \in e.text
                     \/ e.type = "memory.written" /\ d \in e.text /\ e.source \notin G!Untrusted
-----------------------------------------------------------------------------
(* What the documentation says and the code does not do.                   *)

(* docs/detectors.md: novelty mode reports what history does not contain.  *)
NovelWasUnknown ==
    [][\A r \in DOMAIN runs : \A s \in signals'[r] \ (IF r \in DOMAIN signals THEN signals[r] ELSE {}) :
          s.severity = "MEDIUM" => s.about \cap baseline[runs[r].agent] = {}]_vars

(* The docstring of UNGROUNDED_DESTINATION: a destination planted in one   *)
(* run's memory and read back in a later one is CRITICAL.                  *)
PlantedIsCritical ==
    \A r, q \in DOMAIN runs :
        /\ q < r /\ runs[q].agent = runs[r].agent /\ seen[q] = Len(runs[q].log)
        /\ \E d \in Dests, w \in ToSet(Events(q)), e \in ToSet(RunState(r).memory) :
              /\ w.type = "memory.written" /\ w.source \in G!Untrusted /\ d \in w.text
              /\ e.op = "read" /\ e.key = w.key
              /\ d \in {c.dest : c \in ToSet(G!Sent(RunState(r), DOMAIN RunState(r).tools))}
              /\ d \notin G!Grounded(RunState(r))
        /\ seen[r] = Len(runs[r].log)
        => \E s \in signals[r] : s.severity = "CRITICAL"

(* docs/detectors.md: MIN_LOOP_RUNS runs caught in a loop are reported.    *)
LoopReported ==
    [][\A r \in DOMAIN runs :
          /\ seen[r] # seen'[r] /\ Ancestors(r) = Chain(r)
          /\ \E a \in menu.agents, cycle \in SUBSET menu.agents :
                cycle \in CyclesFrom(a, Edges(Chain(r))) /\ Caught(Chain(r), cycle) >= MinLoopRuns
          => \E s \in signals'[r] : s.type = "DELEGATION_LOOP"]_vars
=============================================================================
