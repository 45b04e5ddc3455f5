---------------------------- MODULE AgentProofs ----------------------------
(***************************************************************************)
(* Proofs about what runs inside an agent's process.                       *)
(*                                                                         *)
(* Module PolicyRun: a policy acts once in a run, and a check heeds the    *)
(* signal policies of the bundle in force, for all policies, bundles and   *)
(* tools and any number of steps and reloads.                              *)
(*                                                                         *)
(* Module TraceRuns: TracesExact, for all traces and spans, any number of  *)
(* threads and any bound on the pruned contexts.                           *)
(***************************************************************************)
EXTENDS PolicyRun, TraceRuns, FiniteSetTheorems, TLAPS

Places == {"idle", "needs", "detect", "evaluate", "gate"}

(* The parts of the types the argument needs.                              *)
PolicyTypes ==
    /\ engine \in [loaded: Bundles, generation: Nat]
    /\ check = [at |-> check.at, event |-> check.event, tool |-> check.tool]
    /\ check.at \in Places
    /\ acted \in [Policies -> Nat]
    /\ needs.generation \in Int /\ detectors.generation \in Int

(* What acted and may do so once only is remembered, by its id.            *)
Lasting(p) == p.action \in {"stop", "soft"}

ActedRemembered ==
    \A p \in Policies : Lasting(p) /\ acted[p] > 0 => p.id \in triggered

(* Nothing kept is from the future; what is kept under the generation in   *)
(* force is what its bundle names, and the second half of a check follows  *)
(* the first.                                                              *)
KeptUnderGeneration ==
    /\ needs.generation <= engine.generation
    /\ needs.generation = engine.generation =>
          needs.types = NamedTypes /\ needs.signal = (NamedTypes # {})
    /\ detectors.generation <= engine.generation
    /\ ~ raced /\ detectors.generation = engine.generation =>
          detectors.types = NamedTypes
    /\ check.at = "detect" /\ ~ raced => needs.generation = engine.generation
    /\ /\ check.at = "evaluate" /\ ~ raced
       /\ needs.generation = engine.generation /\ needs.signal
       => detectors.generation = engine.generation

IInv == PolicyTypes /\ ActedRemembered /\ ActsOnce /\ KeptUnderGeneration
-----------------------------------------------------------------------------
LEMMA InitEstablishes == Init => IInv
<1> SUFFICES ASSUME Init PROVE IInv
    OBVIOUS
<1>1. PolicyTypes
    BY DEF Init, PolicyTypes, NoCheck, Places
<1>2. ActedRemembered /\ ActsOnce
    BY DEF Init, ActedRemembered, ActsOnce
<1>3. KeptUnderGeneration
    <2>1. engine.generation = 0 /\ needs.generation = -1 /\ detectors.generation = -1
          /\ check.at = "idle"
        BY DEF Init, NoCheck
    <2> QED BY <2>1 DEF KeptUnderGeneration
<1> QED BY <1>1, <1>2, <1>3 DEF IInv

(* Any nonempty part of a bundle has a first policy.                       *)
LEMMA FirstIsMember ==
    ASSUME NEW bundle \in Bundles, NEW ps \in SUBSET bundle, ps # {}
    PROVE  First(ps) \in ps /\ First(ps) \in Policies
<1>1. PICK p \in ps : \A q \in ps : p.priority <= q.priority
    BY PolicyAssumption
<1>2. First(ps) \in ps
    BY <1>1 DEF First
<1> QED BY <1>2, PolicyAssumption

(* A step that leaves the books of the policies alone keeps them.          *)
LEMMA BooksKept ==
    ASSUME ActedRemembered, ActsOnce, UNCHANGED <<triggered, acted>>
    PROVE  ActedRemembered' /\ ActsOnce'
BY DEF ActedRemembered, ActsOnce

(* One action's execution is counted; who was not to act again did not.    *)
LEMMA ActingKeeps ==
    ASSUME PolicyTypes, ActedRemembered, ActsOnce, NEW w \in Policies,
           acted' = [acted EXCEPT ![w] = @ + 1],
           triggered \subseteq triggered',
           Lasting(w) => w.id \notin triggered /\ w.id \in triggered'
    PROVE  ActedRemembered' /\ ActsOnce'
<1>1. \A p \in Policies : acted[p] \in Nat /\ acted'[p] = IF p = w THEN acted[p] + 1 ELSE acted[p]
    BY DEF PolicyTypes
<1>2. ActedRemembered'
    BY <1>1 DEF ActedRemembered
<1>3. \A p \in Policies : Lasting(w) /\ Lasting(p) /\ acted[p] > 0 => p.id # w.id
    BY DEF ActedRemembered
<1>4. Lasting(w) => acted[w] = 0
    BY <1>1, <1>3
<1>5. ASSUME NEW p \in Policies, NEW q \in Policies, Lasting(p), Lasting(q),
             acted'[p] > 0, acted'[q] > 0
      PROVE  acted'[p] = 1 /\ (p.id = q.id => p = q)
    <2>1. CASE p = w
        BY <2>1, <1>1, <1>3, <1>4, <1>5
    <2>2. CASE p # w
        <3>1. acted[p] > 0 /\ acted'[p] = acted[p]
            BY <2>2, <1>1, <1>5
        <3>2. CASE q = w
            BY <3>1, <3>2, <1>1, <1>3, <1>5 DEF ActsOnce, Lasting
        <3>3. CASE q # w
            BY <3>1, <3>3, <1>1, <1>5 DEF ActsOnce, Lasting
        <3> QED BY <3>2, <3>3
    <2> QED BY <2>1, <2>2
<1>6. ActsOnce'
    BY <1>5 DEF ActsOnce, Lasting
<1> QED BY <1>2, <1>6
-----------------------------------------------------------------------------
LEMMA ReloadKeeps ==
    ASSUME IInv, NEW b \in Bundles, Reload(b)
    PROVE  IInv'
<1>1. PolicyTypes'
    BY DEF Reload, IInv, PolicyTypes, memo
<1>2. KeptUnderGeneration'
    <2>1. /\ needs' = needs /\ detectors' = detectors
          /\ check' = check /\ (check.at = "detect" => raced')
        BY DEF Reload, memo
    <2>2. needs.generation < engine'.generation /\ detectors.generation < engine'.generation
        BY DEF Reload, IInv, PolicyTypes, KeptUnderGeneration
    <2>3. /\ needs'.generation <= engine'.generation
          /\ needs'.generation # engine'.generation
          /\ detectors'.generation <= engine'.generation
          /\ detectors'.generation # engine'.generation
        BY <1>1, <2>1, <2>2 DEF IInv, PolicyTypes
    <2>4. ~ (check'.at = "detect" /\ ~ raced')
        BY <2>1
    <2> QED BY <2>3, <2>4 DEF KeptUnderGeneration
<1>3. ActedRemembered' /\ ActsOnce'
    BY BooksKept DEF Reload, IInv
<1> QED BY <1>1, <1>2, <1>3 DEF IInv

(* The agent's events: a check begins, or the step advances without one.   *)
LEMMA EventsKeep ==
    ASSUME IInv, UNCHANGED <<engine, triggered, memo, acted, raced>>,
           \/ UNCHANGED check
           \/ \E e, t : Start(e, t)
           \/ check' = NoCheck
    PROVE  IInv'
<1>0. NamedTypes' = NamedTypes
    BY DEF NamedTypes
<1>1. PolicyTypes'
    BY DEF IInv, PolicyTypes, Start, NoCheck, Places, memo
<1>2. KeptUnderGeneration'
    <2>1. check'.at = check.at \/ check'.at \in {"needs", "idle"}
        BY DEF Start, NoCheck
    <2>2. engine' = engine /\ needs' = needs /\ detectors' = detectors /\ raced' = raced
        BY DEF memo
    <2> QED BY <1>0, <2>1, <2>2 DEF IInv, KeptUnderGeneration
<1>3. ActedRemembered' /\ ActsOnce'
    BY BooksKept DEF IInv
<1> QED BY <1>1, <1>2, <1>3 DEF IInv

LEMMA CheckBeginsKeeps ==
    ASSUME IInv, NothingLoaded \/ CheckNeeds
    PROVE  IInv'
<1>0. NamedTypes' = NamedTypes
    BY DEF NamedTypes, NothingLoaded, CheckNeeds
<1>1. PolicyTypes'
    BY DEF NothingLoaded, CheckNeeds, IInv, PolicyTypes, EndOfCheck, Places, memo, past
<1>2. KeptUnderGeneration'
    <2>1. CASE NothingLoaded
        BY <2>1, <1>0 DEF NothingLoaded, IInv, PolicyTypes, KeptUnderGeneration,
              EndOfCheck, Places, memo, past
    <2>2. CASE CheckNeeds
        BY <2>2, <1>0 DEF CheckNeeds, IInv, PolicyTypes, KeptUnderGeneration,
              Places, past
    <2> QED BY <2>1, <2>2
<1>3. ActedRemembered' /\ ActsOnce'
    BY BooksKept DEF NothingLoaded, CheckNeeds, IInv, past
<1> QED BY <1>1, <1>2, <1>3 DEF IInv

LEMMA CheckDetectKeeps ==
    ASSUME IInv, CheckDetect
    PROVE  IInv'
<1>0. NamedTypes' = NamedTypes /\ check'.at = "evaluate"
    BY DEF NamedTypes, CheckDetect, IInv, PolicyTypes
<1>1. detectors' = detectors
        \/ (/\ needs.signal
            /\ detectors' = [generation |-> engine.generation, types |-> needs.types])
    BY DEF CheckDetect
<1>2. PolicyTypes'
    BY <1>1 DEF CheckDetect, IInv, PolicyTypes, Places, past
<1>3. KeptUnderGeneration'
    <2>1. /\ detectors'.generation <= engine.generation
          /\ ~ raced /\ detectors'.generation = engine.generation =>
                detectors'.types = NamedTypes
        BY <1>1 DEF CheckDetect, IInv, PolicyTypes, KeptUnderGeneration
    <2>2. needs.signal => detectors'.generation = engine.generation
        BY DEF CheckDetect, Rebuild, IInv
    <2> QED BY <1>0, <2>1, <2>2 DEF CheckDetect, IInv, KeptUnderGeneration, past
<1>4. ActedRemembered' /\ ActsOnce'
    BY BooksKept DEF CheckDetect, IInv, past
<1> QED BY <1>2, <1>3, <1>4 DEF IInv

(* The policy chosen is one that has not triggered in this run.            *)
LEMMA CheckEvaluateKeeps ==
    ASSUME IInv, CheckEvaluate
    PROVE  IInv'
<1>0. NamedTypes' = NamedTypes
    BY DEF NamedTypes, CheckEvaluate
<1>1. /\ engine' = engine /\ needs' = needs /\ detectors' = detectors /\ raced' = raced
      /\ check' \in {NoCheck, [check EXCEPT !.at = EndOfCheck(check.event)]}
    BY DEF CheckEvaluate, memo
<1>2. /\ check' = [at |-> check'.at, event |-> check'.event, tool |-> check'.tool]
      /\ check'.at \in {"gate", "idle"}
    BY <1>1 DEF IInv, PolicyTypes, NoCheck, EndOfCheck, Places
<1>3. KeptUnderGeneration'
    BY <1>0, <1>1, <1>2 DEF IInv, KeptUnderGeneration
<1>4. CASE Fresh = {}
    <2>1. ActedRemembered' /\ ActsOnce'
        BY <1>4, BooksKept DEF CheckEvaluate, IInv
    <2>2. PolicyTypes'
        BY <1>1, <1>2, <1>4 DEF CheckEvaluate, IInv, PolicyTypes, Places
    <2> QED BY <1>3, <2>1, <2>2 DEF IInv
<1>5. CASE Fresh # {}
    <2> DEFINE w == First(Fresh)
    <2>1. Fresh \in SUBSET engine.loaded /\ engine.loaded \in Bundles
        BY DEF Fresh, Matching, IInv, PolicyTypes
    <2>2. w \in Fresh /\ w \in Policies
        BY <1>5, <2>1, FirstIsMember
    <2>3. w.id \notin triggered
        BY <2>2 DEF Fresh
    <2>4. /\ triggered' = Remembered(w)
          /\ acted' = [acted EXCEPT ![w] = IF w.dryRun THEN @ ELSE @ + 1]
        BY <1>5 DEF CheckEvaluate
    <2> HIDE DEF w
    <2>5. /\ triggered \subseteq triggered'
          /\ Lasting(w) => w.id \in triggered'
        BY <2>4 DEF Remembered, Lasting
    <2>6. PolicyTypes'
        BY <1>1, <1>2, <2>2, <2>4 DEF IInv, PolicyTypes, Places
    <2>7. CASE w.dryRun
        <3>1. acted' = acted
            BY <2>2, <2>4, <2>7 DEF IInv, PolicyTypes
        <3>2. ActedRemembered' /\ ActsOnce'
            BY <2>5, <3>1 DEF IInv, ActedRemembered, ActsOnce
        <3> QED BY <1>3, <2>6, <3>2 DEF IInv
    <2>8. CASE ~ w.dryRun
        <3>1. acted' = [acted EXCEPT ![w] = @ + 1]
            BY <2>2, <2>4, <2>8 DEF IInv, PolicyTypes
        <3>2. ActedRemembered' /\ ActsOnce'
            BY <2>2, <2>3, <2>5, <3>1, ActingKeeps DEF IInv
        <3> QED BY <1>3, <2>6, <3>2 DEF IInv
    <2> QED BY <2>7, <2>8
<1> QED BY <1>4, <1>5

(* Only approval policies guard a call.                                    *)
LEMMA GuardedKeeps ==
    ASSUME IInv, NEW g \in BOOLEAN, Guarded(g)
    PROVE  IInv'
<1> DEFINE w == First(Guards)
<1>1. Guards \in SUBSET engine.loaded /\ engine.loaded \in Bundles /\ Guards # {}
    BY DEF Guards, Guarded, IInv, PolicyTypes
<1>2. w \in Guards /\ w \in Policies
    BY <1>1, FirstIsMember
<1>3. ~ Lasting(w)
    BY <1>2, PolicyAssumption DEF Guards, Lasting
<1>4. acted' = [acted EXCEPT ![w] = @ + 1]
    BY DEF Guarded
<1> HIDE DEF w
<1>5. ActedRemembered' /\ ActsOnce'
    BY <1>2, <1>3, <1>4, ActingKeeps DEF Guarded, IInv
<1>6. PolicyTypes'
    BY <1>2, <1>4 DEF Guarded, IInv, PolicyTypes, NoCheck, Places, memo
<1>7. NamedTypes' = NamedTypes
    BY DEF NamedTypes, Guarded
<1>8. KeptUnderGeneration'
    BY <1>7 DEF Guarded, IInv, KeptUnderGeneration, NoCheck, memo
<1> QED BY <1>5, <1>6, <1>8 DEF IInv

LEMMA StepKeeps == IInv /\ [Next]_vars => IInv'
<1> SUFFICES ASSUME IInv, [Next]_vars PROVE IInv'
    OBVIOUS
<1>1. ASSUME NEW b \in Bundles, Reload(b) PROVE IInv'
    BY <1>1, ReloadKeeps
<1>2. ASSUME NEW t \in Tools, ToolCalled(t) PROVE IInv'
    <2>1. UNCHANGED <<engine, triggered, memo, acted, raced>> /\ Start("tool_called", t)
        BY <1>2 DEF ToolCalled, past
    <2> QED BY <2>1, EventsKeep
<1>3. ASSUME NEW i \in DOMAIN calls, NEW s \in {"ok", "failed"}, ToolResponded(i, s)
      PROVE  IInv'
    <2>1. UNCHANGED <<engine, triggered, memo, acted, raced>>
          /\ Start("tool_responded", calls[i].tool)
        BY <1>3 DEF ToolResponded
    <2> QED BY <2>1, EventsKeep
<1>4. CASE LlmCalled
    BY <1>4, EventsKeep DEF LlmCalled, past
<1>5. CASE LlmResponded
    <2>1. UNCHANGED <<engine, triggered, memo, acted, raced>>
          /\ Start("llm_responded", NoCheck.tool)
        BY <1>5 DEF LlmResponded, past
    <2> QED BY <2>1, EventsKeep
<1>6. CASE NothingLoaded \/ CheckNeeds
    BY <1>6, CheckBeginsKeeps
<1>7. CASE CheckDetect
    BY <1>7, CheckDetectKeeps
<1>8. CASE CheckEvaluate
    BY <1>8, CheckEvaluateKeeps
<1>9. CASE Unguarded
    BY <1>9, EventsKeep DEF Unguarded, past
<1>10. ASSUME NEW g \in BOOLEAN, Guarded(g) PROVE IInv'
    BY <1>10, GuardedKeeps
<1>11. CASE UNCHANGED vars
    BY <1>11, EventsKeep DEF vars, past
<1> QED BY <1>1, <1>2, <1>3, <1>4, <1>5, <1>6, <1>7, <1>8, <1>9, <1>10, <1>11 DEF Next
-----------------------------------------------------------------------------
(* The strengthened invariant holds in every reachable state.              *)
THEOREM InductiveInvariant == Spec => []IInv
BY InitEstablishes, StepKeeps, PTL DEF Spec

(* A stop or soft policy executes its action at most once in a run,        *)
(* whatever bundles are loaded meanwhile and even if it is edited after it *)
(* acted: Remembered, in CheckEvaluate.                                    *)
THEOREM ActsOnceHolds == Spec => []ActsOnce
<1>1. IInv => ActsOnce
    BY DEF IInv
<1> QED BY <1>1, InductiveInvariant, PTL

(* A signal policy of the bundle in force is heeded by a check that no     *)
(* reload cut in two: Rebuild, in CheckDetect.                             *)
THEOREM NewPolicyHeededHolds == Spec => []NewPolicyHeeded
<1>1. IInv => NewPolicyHeeded
    <2> SUFFICES ASSUME IInv, check.at = "evaluate", ~ raced,
                        needs.generation = engine.generation
                 PROVE  NamedTypes \subseteq (IF needs.signal THEN detectors.types ELSE {})
        BY DEF NewPolicyHeeded
    <2>1. CASE needs.signal
        BY <2>1 DEF IInv, KeptUnderGeneration
    <2>2. CASE ~ needs.signal
        BY <2>2 DEF IInv, KeptUnderGeneration
    <2> QED BY <2>1, <2>2
<1> QED BY <1>1, InductiveInvariant, PTL

-----------------------------------------------------------------------------
(***************************************************************************)
(* The traces.  The invariant says, for each trace and each span, how far  *)
(* its hooks have come, what they have said and are about to say, and what *)
(* the context holds meanwhile: a step of a hook concerns one trace, and a *)
(* sweep prunes only what has nothing open.                                *)
(***************************************************************************)
Where == {"idle", "ensure", "begin", "finish", "flag", "emit", "clean", "done"}

CallNames     == {"llm.called", "tool.called"}
ResponseNames == {"llm.responded", "tool.responded"}
EndNames      == {"run.completed", "run.errored"}

Events ==
    [what: CallNames \union ResponseNames, span: Spans, step: Nat]
    \union [what: {"run.started"}, step: Nat]
    \union [what: EndNames, step: Nat, tools: Nat]

Contexts ==
    [step: Nat, tools: Nat, started: BOOLEAN, hadError: BOOLEAN, skip: BOOLEAN,
     open: Nat, steps: UNION {[D -> Nat] : D \in SUBSET Spans}]

(* The parts of the types the argument needs.                              *)
TraceTypes ==
    /\ runs \in Seq(Traces) /\ pruned \in Seq(Traces)
    /\ ctx \in [Traces -> Contexts]
    /\ hook \in [Hooks -> Where]
    /\ say \in [Hooks -> Events \union {Nothing}]
    /\ log \in [Traces -> Seq(Events)]
    /\ kind \in [Spans -> Kinds \union {"none"}]
    /\ outcome \in [Spans -> {"none", "ok", "error", "failed"}]
    /\ before \in [Traces -> SUBSET Hooks]

SpansOf(t)   == {s \in Spans : TraceOf[s] = t}
HooksOf(t)   == {h \in Hooks : TraceHooked(h) = t}

(* Where each kind of hook can be, and that a trace's start, a span's      *)
(* start come first.                                                       *)
TraceSites(t) ==
    /\ hook[<<"start", t>>] \in {"idle", "ensure", "begin", "done"}
    /\ hook[<<"end", t>>] \in {"idle", "ensure", "begin", "finish", "emit", "clean", "done"}
    /\ hook[<<"end", t>>] # "idle" => hook[<<"start", t>>] = "done"

SpanSites(s) ==
    /\ hook[<<"open", s>>] \in {"idle", "ensure", "begin", "emit", "done"}
    /\ hook[<<"close", s>>] \in {"idle", "flag", "emit", "done"}
    /\ hook[<<"open", s>>] # "idle" => hook[<<"start", TraceOf[s]>>] = "done"
    /\ hook[<<"close", s>>] # "idle" => hook[<<"open", s>>] = "done"
    /\ hook[<<"open", s>>] = "idle" => kind[s] = "none"
    /\ hook[<<"close", s>>] = "idle" => outcome[s] = "none"

(* A trace is in one place at most, and has nothing open when pruned.      *)
Placed(t) ==
    /\ Known(t) => hook[<<"start", t>>] # "idle"
    /\ t \notin ToSet(runs) \/ t \notin ToSet(pruned)
    /\ t \in ToSet(pruned) => ctx[t].open = 0

Functions(t) == {s \in SpansOf(t) : kind[s] = "function"}

Counted(t) ==
    /\ DOMAIN ctx[t].steps \subseteq SpansOf(t)
    /\ ctx[t].open = Cardinality(DOMAIN ctx[t].steps)
    /\ Known(t) => ctx[t].tools >= Cardinality(Functions(t))

(* At most one hook of a trace is between setting the flag and emitting.   *)
Beginning(t) == {h \in HooksOf(t) : hook[h] = "begin"}

StartedOnce(t) ==
    /\ Logged(t, "run.started") # {} \/ Beginning(t) # {} => ctx[t].started
    /\ Beginning(t) # {} => Logged(t, "run.started") = {}
    /\ \A i, j \in Logged(t, "run.started") : i = j
    /\ \A g, h \in Beginning(t) : g = h

EndedOnce(t) ==
    /\ hook[<<"end", t>>] = "emit" => say[<<"end", t>>].what \in EndNames
    /\ Ends(t) # {} => hook[<<"end", t>>] \in {"clean", "done"}
    /\ hook[<<"end", t>>] = "clean" => Ends(t) # {}
    /\ hook[<<"end", t>>] = "done" => Ends(t) # {} \/ ~Known(t)
    /\ \A i, j \in Ends(t) : i = j

(* The spans whose failure, or whose tool call, the terminal must know.    *)
Failed(t) == {s \in Spans : /\ TraceOf[s] = t /\ <<"close", s>> \in before[t]
                            /\ \/ outcome[s] = "error"
                               \/ outcome[s] = "failed" /\ CallOf(s) # {}}
ToolsBefore(t) == {s \in Spans : /\ TraceOf[s] = t /\ kind[s] = "function"
                                 /\ <<"open", s>> \in before[t]}

Knows(t, e) ==
    /\ Failed(t) # {} => e.what = "run.errored"
    /\ e.tools >= Cardinality(ToolsBefore(t))

TerminalKnows(t) ==
    /\ \A h \in before[t] : Returned(h) /\ TraceHooked(h) = t
    /\ hook[<<"end", t>>] \in {"ensure", "begin", "finish"} =>
          ctx[t].tools >= Cardinality(ToolsBefore(t))
    /\ hook[<<"end", t>>] = "emit" => Knows(t, say[<<"end", t>>])
    /\ \A i \in Ends(t) : Knows(t, log[t][i])

TraceSound(t) ==
    TraceSites(t) /\ Placed(t) /\ Counted(t) /\ StartedOnce(t) /\ EndedOnce(t) /\ TerminalKnows(t)

(* The call of a span: about to be emitted, or emitted.                    *)
Calling(s) == hook[<<"open", s>>] \in {"ensure", "begin", "emit"}
IsCalled(s) == Calling(s) \/ CallOf(s) # {}
StepsOf(s) == (IF Calling(s) THEN {say[<<"open", s>>].step} ELSE {})
              \union {log[TraceOf[s]][i].step : i \in CallOf(s)}

CalledOnce(s) ==
    /\ Calling(s) => /\ CallOf(s) = {}
                     /\ say[<<"open", s>>].what \in CallNames
                     /\ say[<<"open", s>>].span = s
    /\ CallOf(s) # {} => hook[<<"open", s>>] = "done"
    /\ \A i, j \in CallOf(s) : i = j
    /\ StepsOf(s) \subseteq 1..ctx[TraceOf[s]].step

(* An unanswered call of a known trace is registered under its step.       *)
Registered(s) ==
    LET c == ctx[TraceOf[s]]
    IN /\ s \in DOMAIN c.steps => IsCalled(s) /\ \A n \in StepsOf(s) : n = c.steps[s]
       /\ Known(TraceOf[s]) /\ IsCalled(s) /\ hook[<<"close", s>>] = "idle"
             => s \in DOMAIN c.steps

Answering(s) == hook[<<"close", s>>] \in {"flag", "emit"}

AnsweredOnce(s) ==
    /\ Answering(s) => /\ ResponseOf(s) = {} /\ CallOf(s) # {}
                       /\ say[<<"close", s>>].what \in ResponseNames
                       /\ say[<<"close", s>>].span = s
                       /\ \A i \in CallOf(s) : log[TraceOf[s]][i].step = say[<<"close", s>>].step
    /\ ResponseOf(s) # {} => hook[<<"close", s>>] = "done"
    /\ \A i, j \in ResponseOf(s) : i = j
    /\ \A i \in CallOf(s), j \in ResponseOf(s) :
          i < j /\ log[TraceOf[s]][i].step = log[TraceOf[s]][j].step
    /\ hook[<<"close", s>>] = "done" =>
          ~Known(TraceOf[s]) \/ CallOf(s) = {} \/ ResponseOf(s) # {}

FailureKept(s) ==
    /\ outcome[s] = "error" => ctx[TraceOf[s]].hadError
    /\ outcome[s] = "failed" /\ CallOf(s) # {} /\ hook[<<"close", s>>] \in {"emit", "done"} =>
          ctx[TraceOf[s]].hadError

SpanSound(s) ==
    SpanSites(s) /\ CalledOnce(s) /\ Registered(s) /\ AnsweredOnce(s) /\ FailureKept(s)

StepsApart ==
    \A r, s \in Spans : r # s /\ TraceOf[r] = TraceOf[s] => StepsOf(r) \intersect StepsOf(s) = {}

TracesInv ==
    /\ TraceTypes
    /\ \A t \in Traces : TraceSound(t)
    /\ \A s \in Spans : SpanSound(s)
    /\ StepsApart
-----------------------------------------------------------------------------
(* The order of a trace's place among others is of no account: Among only  *)
(* keeps what it is asked for.  Each place in the result is the rank of    *)
(* one position that is kept.                                              *)
LEMMA RankReached ==
    ASSUME NEW m \in Nat, NEW I \in SUBSET (1..m), NEW n \in 1..Cardinality(I)
    PROVE  \E i \in I : Cardinality({j \in I : j <= i}) = n
<1> DEFINE Upto(i) == {j \in I : j <= i}
           r == [i \in I |-> Cardinality(Upto(i))]
           C == Cardinality(I)
<1>1. IsFiniteSet(I) /\ C \in Nat
    <2>1. IsFiniteSet(1..m)
        BY FS_Interval
    <2> QED BY <2>1, FS_Subset, FS_CardinalityType
<1>2. \A i \in I : /\ IsFiniteSet(Upto(i)) /\ Cardinality(Upto(i)) \in Nat
                   /\ Cardinality(Upto(i)) <= C
    <2>1. ASSUME NEW i \in I PROVE /\ IsFiniteSet(Upto(i)) /\ Cardinality(Upto(i)) <= C
        <3>1. Upto(i) \in SUBSET I
            OBVIOUS
        <3> QED BY <1>1, <3>1, FS_Subset
    <2> QED BY <2>1, FS_CardinalityType
<1>3. \A i \in I : r[i] \in 1..C
    <2>1. ASSUME NEW i \in I PROVE Cardinality(Upto(i)) # 0
        <3>1. i \in Upto(i)
            OBVIOUS
        <3> QED BY <1>2, <3>1, FS_EmptySet
    <2> QED BY <1>1, <1>2, <2>1
<1>4. ASSUME NEW i \in I, NEW j \in I, i < j PROVE r[i] # r[j]
    <2>0. \A k \in I : k \in Nat
        OBVIOUS
    <2>1. Upto(i) \in SUBSET Upto(j) /\ j \in Upto(j) /\ j \notin Upto(i)
        <3>1. \A k \in I : k <= i => k <= j
            BY <1>4, <2>0
        <3>2. ~(j <= i) /\ j <= j
            BY <1>4, <2>0
        <3> QED BY <3>1, <3>2
    <2>2. IsFiniteSet(Upto(j))
        BY <1>2
    <2> HIDE DEF Upto
    <2>3. Cardinality(Upto(j)) # Cardinality(Upto(i))
        BY <2>1, <2>2, FS_Subset
    <2> QED BY <2>3
<1> HIDE DEF Upto
<1>5. r \in Injection(I, 1..C)
    <2>1. r \in [I -> 1..C]
        BY <1>3
    <2>2. \A i, j \in I : r[i] = r[j] => i = j
        BY <1>4
    <2> HIDE DEF r
    <2> QED BY <2>1, <2>2 DEF Injection, IsInjective
<1>6. r \in Surjection(I, 1..C)
    <2>1. IsFiniteSet(1..C) /\ Cardinality(1..C) = C
        BY <1>1, FS_Interval
    <2> HIDE DEF r
    <2> QED BY <1>5, <2>1, FS_Injection
<1>7. PICK i \in I : r[i] = n
    <2> HIDE DEF r
    <2> QED BY <1>6 DEF Surjection
<1> QED BY <1>7 DEF Upto

LEMMA AmongIsPart ==
    ASSUME NEW S, NEW q \in Seq(S), NEW T
    PROVE  /\ Among(q, T) \in Seq(S)
           /\ \A u \in ToSet(Among(q, T)) : u \in ToSet(q) /\ u \in T
<1> DEFINE at == {i \in DOMAIN q : q[i] \in T}
           place(n) == CHOOSE i \in at : Cardinality({j \in at : j <= i}) = n
           w == [n \in 1..Cardinality(at) |-> q[place(n)]]
<1>1. at \in SUBSET (1..Len(q)) /\ Len(q) \in Nat /\ Cardinality(at) \in Nat
    <2>1. at \in SUBSET (1..Len(q)) /\ Len(q) \in Nat
        OBVIOUS
    <2>2. IsFiniteSet(1..Len(q))
        BY <2>1, FS_Interval
    <2> HIDE DEF at
    <2> QED BY <2>1, <2>2, FS_Subset, FS_CardinalityType
<1>2. ASSUME NEW n \in 1..Cardinality(at) PROVE place(n) \in at
    <2> HIDE DEF at
    <2>1. \E i \in at : Cardinality({j \in at : j <= i}) = n
        BY <1>1, RankReached
    <2> QED BY <2>1
<1>3. Among(q, T) = w
    BY DEF Among
<1> HIDE DEF place
<1>4. \A n \in 1..Cardinality(at) : q[place(n)] \in S /\ q[place(n)] \in ToSet(q) /\ q[place(n)] \in T
    BY <1>2 DEF ToSet
<1> HIDE DEF at
<1>5. w \in Seq(S) /\ DOMAIN w = 1..Cardinality(at)
    BY <1>1, <1>4
<1>6. \A u \in ToSet(w) : u \in ToSet(q) /\ u \in T
    BY <1>4, <1>5 DEF ToSet
<1> HIDE DEF w
<1> QED BY <1>3, <1>5, <1>6

LEMMA KeptIsPart ==
    ASSUME NEW S, NEW q \in Seq(S)
    PROVE  Kept(q) \in Seq(S) /\ ToSet(Kept(q)) \subseteq ToSet(q)
<1>1. MaxPruned \in Nat /\ Len(q) \in Nat
    BY TraceRunsAssumption
<1>2. CASE Len(q) > MaxPruned
    <2> DEFINE k == Len(q) - MaxPruned
               w == SubSeq(q, k + 1, Len(q))
    <2>1. k \in Nat /\ k + 1 <= Len(q) + 1
        BY <1>1, <1>2
    <2>2. w \in Seq(S) /\ Len(w) = MaxPruned /\ \A i \in 1..Len(w) : w[i] = q[i + k] /\ i + k \in 1..Len(q)
        BY <1>1, <1>2, <2>1
    <2>3. Kept(q) = w
        BY <1>2 DEF Kept
    <2> HIDE DEF w, k
    <2>4. ToSet(w) \subseteq ToSet(q)
        BY <2>2 DEF ToSet
    <2> QED BY <2>2, <2>3, <2>4
<1>3. CASE ~(Len(q) > MaxPruned)
    BY <1>3 DEF Kept
<1> QED BY <1>2, <1>3

-----------------------------------------------------------------------------
(* What hooks there are, and the trace each is a hook of.                  *)
LEMMA HookFacts ==
    /\ \A t \in Traces : /\ <<"start", t>> \in Hooks /\ TraceHooked(<<"start", t>>) = t
                         /\ <<"end", t>> \in Hooks /\ TraceHooked(<<"end", t>>) = t
    /\ \A s \in Spans : /\ TraceOf[s] \in Traces
                        /\ <<"open", s>> \in Hooks /\ TraceHooked(<<"open", s>>) = TraceOf[s]
                        /\ <<"close", s>> \in Hooks /\ TraceHooked(<<"close", s>>) = TraceOf[s]
    /\ \A h \in Hooks : /\ TraceHooked(h) \in Traces
                        /\ \/ \E t \in Traces : h = <<"start", t>> \/ h = <<"end", t>>
                           \/ \E s \in Spans : h = <<"open", s>> \/ h = <<"close", s>>
<1>1. \A s \in Spans : TraceOf[s] \in Traces
    BY TraceRunsAssumption
<1>2. \A h \in Hooks : \/ \E t \in Traces : h = <<"start", t>> \/ h = <<"end", t>>
                       \/ \E s \in Spans : h = <<"open", s>> \/ h = <<"close", s>>
    BY DEF Hooks
<1>3. \A t \in Traces : /\ <<"start", t>> \in Hooks /\ TraceHooked(<<"start", t>>) = t
                        /\ <<"end", t>> \in Hooks /\ TraceHooked(<<"end", t>>) = t
    BY DEF Hooks, TraceHooked
<1>4. \A s \in Spans : /\ <<"open", s>> \in Hooks /\ TraceHooked(<<"open", s>>) = TraceOf[s]
                       /\ <<"close", s>> \in Hooks /\ TraceHooked(<<"close", s>>) = TraceOf[s]
    BY DEF Hooks, TraceHooked
<1>5. \A h \in Hooks : TraceHooked(h) \in Traces
    BY <1>1, <1>2, <1>3, <1>4
<1> QED BY <1>1, <1>2, <1>3, <1>4, <1>5

(* An event appended to a trace's log is the only one that is new.         *)
AppendedTo(t, e) ==
    /\ \A u \in Traces \ {t} : log'[u] = log[u]
    /\ Len(log[t]) + 1 \notin DOMAIN log[t]
    /\ DOMAIN log'[t] = DOMAIN log[t] \union {Len(log[t]) + 1}
    /\ \A i \in DOMAIN log[t] : log'[t][i] = log[t][i] /\ i < Len(log[t]) + 1
    /\ log'[t][Len(log[t]) + 1] = e

LEMMA AppendKeeps ==
    ASSUME TraceTypes, NEW t \in Traces, NEW e \in Events,
           log' = [log EXCEPT ![t] = Append(@, e)]
    PROVE  AppendedTo(t, e)
<1>1. log[t] \in Seq(Events) /\ log'[t] = Append(log[t], e)
    BY DEF TraceTypes
<1>2. \A u \in Traces \ {t} : log'[u] = log[u]
    BY DEF TraceTypes
<1> QED BY <1>1, <1>2 DEF AppendedTo

LEMMA LoggedAfter ==
    ASSUME NEW t \in Traces, NEW e, AppendedTo(t, e), NEW what
    PROVE  Logged(t, what)' = Logged(t, what)
               \union (IF e.what = what THEN {Len(log[t]) + 1} ELSE {})
BY DEF AppendedTo, Logged

LEMMA CallsAfter ==
    ASSUME NEW t \in Traces, NEW e, AppendedTo(t, e), NEW s \in Spans
    PROVE  /\ CallOf(s)' = CallOf(s)
                \union (IF TraceOf[s] = t /\ e.what \in CallNames /\ e.span = s
                        THEN {Len(log[t]) + 1} ELSE {})
           /\ ResponseOf(s)' = ResponseOf(s)
                \union (IF TraceOf[s] = t /\ e.what \in ResponseNames /\ e.span = s
                        THEN {Len(log[t]) + 1} ELSE {})
<1>0. TraceOf[s] \in Traces
    BY HookFacts
<1>1. CASE TraceOf[s] = t
    BY <1>1 DEF AppendedTo, CallOf, ResponseOf, CallNames, ResponseNames
<1>2. CASE TraceOf[s] # t
    <2>1. log'[TraceOf[s]] = log[TraceOf[s]]
        BY <1>0, <1>2 DEF AppendedTo
    <2> QED BY <1>2, <2>1 DEF CallOf, ResponseOf
<1> QED BY <1>1, <1>2
-----------------------------------------------------------------------------
(* A step leaves alone what is known of a span: its own hooks did nothing, *)
(* and the context of its trace only learned.                              *)
SpanCalm(s) ==
    LET t == TraceOf[s]
    IN /\ \A h \in {<<"open", s>>, <<"close", s>>} : hook'[h] = hook[h] /\ say'[h] = say[h]
       /\ hook[<<"start", t>>] = "done" => hook'[<<"start", t>>] = "done"
       /\ kind'[s] = kind[s] /\ outcome'[s] = outcome[s]
       /\ CallOf(s)' = CallOf(s) /\ ResponseOf(s)' = ResponseOf(s)
       /\ \A i \in CallOf(s) \union ResponseOf(s) : log'[t][i] = log[t][i]
       /\ ctx[t].step \in Nat /\ ctx'[t].step \in Nat /\ ctx[t].step <= ctx'[t].step
       /\ ctx[t].hadError => ctx'[t].hadError
       /\ s \in DOMAIN ctx'[t].steps <=> s \in DOMAIN ctx[t].steps
       /\ s \in DOMAIN ctx[t].steps => ctx'[t].steps[s] = ctx[t].steps[s]
       /\ Known(t)' => Known(t) \/ hook[<<"open", s>>] = "idle"

LEMMA SpanCalmKeeps ==
    ASSUME NEW s \in Spans, SpanSound(s), SpanCalm(s)
    PROVE  SpanSound(s)' /\ StepsOf(s)' = StepsOf(s)
<1> DEFINE t == TraceOf[s]
<1>1. /\ hook'[<<"open", s>>] = hook[<<"open", s>>] /\ say'[<<"open", s>>] = say[<<"open", s>>]
      /\ hook'[<<"close", s>>] = hook[<<"close", s>>]
      /\ say'[<<"close", s>>] = say[<<"close", s>>]
    BY DEF SpanCalm
<1>2. SpanSites(s)'
    BY <1>1 DEF SpanCalm, SpanSound, SpanSites
<1>3. (Calling(s) <=> Calling(s)') /\ (Answering(s) <=> Answering(s)') /\ (IsCalled(s) <=> IsCalled(s)')
    BY <1>1 DEF Calling, Answering, IsCalled, SpanCalm
<1>4. StepsOf(s)' = StepsOf(s)
    <2>1. {log'[t][i].step : i \in CallOf(s)} = {log[t][i].step : i \in CallOf(s)}
        BY DEF SpanCalm
    <2> QED BY <1>1, <1>3, <2>1 DEF StepsOf, SpanCalm
<1>5. CalledOnce(s)'
    <2>1. StepsOf(s) \subseteq 1..ctx'[t].step
        BY DEF SpanSound, CalledOnce, SpanCalm
    <2> QED BY <1>1, <1>3, <1>4, <2>1 DEF CalledOnce, SpanSound, SpanCalm
<1>6. Registered(s)'
    <2>1. hook[<<"open", s>>] = "idle" => ~IsCalled(s)
        BY DEF SpanSound, IsCalled, Calling, CalledOnce
    <2> QED BY <1>1, <1>3, <1>4, <2>1 DEF Registered, SpanSound, SpanCalm
<1>7. AnsweredOnce(s)'
    <2>1. hook[<<"open", s>>] = "idle" => hook[<<"close", s>>] = "idle"
        BY DEF SpanSound, SpanSites
    <2> QED BY <1>1, <1>3, <2>1 DEF AnsweredOnce, SpanSound, SpanCalm
<1>8. FailureKept(s)'
    BY <1>1 DEF FailureKept, SpanSound, SpanCalm
<1> QED BY <1>2, <1>4, <1>5, <1>6, <1>7, <1>8 DEF SpanSound
-----------------------------------------------------------------------------
(* What a step may leave alone of a trace, part by part.                   *)
LEMMA CountedKept ==
    ASSUME NEW t \in Traces, Counted(t), TraceTypes, TraceTypes',
           ctx'[t].steps = ctx[t].steps, ctx'[t].open = ctx[t].open,
           ctx[t].tools <= ctx'[t].tools,
           \A s \in SpansOf(t) : kind'[s] = kind[s],
           Known(t)' => Known(t)
    PROVE  Counted(t)'
<1>1. Functions(t)' = Functions(t)
    BY DEF Functions, SpansOf
<1>2. Functions(t) \in SUBSET Spans
    BY DEF Functions, SpansOf
<1>3. Cardinality(Functions(t)) \in Nat
    BY <1>2, TraceRunsAssumption, FS_Subset, FS_CardinalityType
<1>4. ctx[t].tools \in Nat /\ ctx'[t].tools \in Nat
    BY DEF TraceTypes, Contexts
<1> HIDE DEF Functions
<1> QED BY <1>1, <1>3, <1>4 DEF Counted, SpansOf

LEMMA StartedKept ==
    ASSUME NEW t \in Traces, StartedOnce(t),
           Beginning(t)' = Beginning(t),
           Logged(t, "run.started")' = Logged(t, "run.started"),
           ctx[t].started => ctx'[t].started
    PROVE  StartedOnce(t)'
BY DEF StartedOnce

LEMMA EndedKept ==
    ASSUME NEW t \in Traces, EndedOnce(t),
           hook'[<<"end", t>>] = hook[<<"end", t>>], say'[<<"end", t>>] = say[<<"end", t>>],
           Ends(t)' = Ends(t), Known(t)' => Known(t)
    PROVE  EndedOnce(t)'
BY DEF EndedOnce

(* Of the hooks that had returned when the trace ended, nothing changes.   *)
PastFixed(t) ==
    /\ before'[t] = before[t]
    /\ \A h \in before[t] : hook'[h] = hook[h]
    /\ \A s \in SpansOf(t) :
         /\ <<"close", s>> \in before[t] => outcome'[s] = outcome[s] /\ CallOf(s)' = CallOf(s)
         /\ <<"open", s>> \in before[t] => kind'[s] = kind[s]

LEMMA PastFixedMeans ==
    ASSUME NEW t \in Traces, PastFixed(t)
    PROVE  Failed(t)' = Failed(t) /\ ToolsBefore(t)' = ToolsBefore(t)
BY DEF PastFixed, Failed, ToolsBefore, SpansOf

LEMMA ToolsBeforeNat ==
    ASSUME NEW t \in Traces
    PROVE  Cardinality(ToolsBefore(t)) \in Nat
<1>1. ToolsBefore(t) \in SUBSET Spans
    BY DEF ToolsBefore
<1> QED BY <1>1, TraceRunsAssumption, FS_Subset, FS_CardinalityType

LEMMA KnowsKept ==
    ASSUME NEW t \in Traces, TerminalKnows(t), PastFixed(t), TraceTypes, TraceTypes',
           hook'[<<"end", t>>] = hook[<<"end", t>>], say'[<<"end", t>>] = say[<<"end", t>>],
           Ends(t)' = Ends(t), \A i \in Ends(t) : log'[t][i] = log[t][i],
           ctx[t].tools <= ctx'[t].tools
    PROVE  TerminalKnows(t)'
<1>1. Failed(t)' = Failed(t) /\ ToolsBefore(t)' = ToolsBefore(t)
    BY PastFixedMeans
<1>2. Cardinality(ToolsBefore(t)) \in Nat
    BY ToolsBeforeNat
<1>3. ctx[t].tools \in Nat /\ ctx'[t].tools \in Nat
    BY DEF TraceTypes, Contexts
<1>4. ctx[t].tools >= Cardinality(ToolsBefore(t)) => ctx'[t].tools >= Cardinality(ToolsBefore(t))
    BY <1>2, <1>3
<1>5. \A h \in before'[t] : Returned(h)' /\ TraceHooked(h) = t
    BY DEF TerminalKnows, PastFixed, Returned
<1> QED BY <1>1, <1>4, <1>5 DEF TerminalKnows, Knows

-----------------------------------------------------------------------------
(* A step leaves a trace alone, but may prune it if nothing of it is open. *)
TraceCalm(u) ==
    /\ \A h \in HooksOf(u) : hook'[h] = hook[h] /\ say'[h] = say[h]
    /\ ctx'[u] = ctx[u] /\ log'[u] = log[u] /\ before'[u] = before[u]
    /\ \A s \in SpansOf(u) : kind'[s] = kind[s] /\ outcome'[s] = outcome[s]
    /\ Known(u)' => Known(u)
    /\ u \notin ToSet(runs') \/ u \notin ToSet(pruned')
    /\ u \in ToSet(pruned') => ctx[u].open = 0

LEMMA CalmSpans ==
    ASSUME NEW u \in Traces, TraceTypes, TraceTypes', TraceCalm(u), NEW s \in SpansOf(u)
    PROVE  SpanCalm(s)
<1>1. s \in Spans /\ TraceOf[s] = u
    BY DEF SpansOf
<1>2. <<"open", s>> \in HooksOf(u) /\ <<"close", s>> \in HooksOf(u) /\ <<"start", u>> \in HooksOf(u)
    BY <1>1, HookFacts DEF HooksOf
<1>3. ctx[u].step \in Nat
    BY DEF TraceTypes, Contexts
<1>4. CallOf(s)' = CallOf(s) /\ ResponseOf(s)' = ResponseOf(s)
    BY <1>1 DEF TraceCalm, CallOf, ResponseOf
<1> QED BY <1>1, <1>2, <1>3, <1>4 DEF TraceCalm, SpanCalm

LEMMA CalmKeeps ==
    ASSUME NEW u \in Traces, TraceTypes, TraceTypes', TraceSound(u), TraceCalm(u)
    PROVE  TraceSound(u)'
<1>1. /\ <<"start", u>> \in HooksOf(u) /\ <<"end", u>> \in HooksOf(u)
      /\ hook'[<<"start", u>>] = hook[<<"start", u>>]
      /\ hook'[<<"end", u>>] = hook[<<"end", u>>] /\ say'[<<"end", u>>] = say[<<"end", u>>]
    BY HookFacts DEF HooksOf, TraceCalm
<1>2. TraceSites(u)' /\ Placed(u)'
    BY <1>1 DEF TraceSound, TraceSites, Placed, TraceCalm
<1>3. Counted(u)'
    <2>1. ctx[u].tools <= ctx'[u].tools
        BY DEF TraceTypes, Contexts, TraceCalm
    <2> QED BY <2>1, CountedKept DEF TraceSound, TraceCalm
<1>4. StartedOnce(u)'
    <2>1. Beginning(u)' = Beginning(u)
        BY DEF Beginning, TraceCalm
    <2>2. Logged(u, "run.started")' = Logged(u, "run.started")
        BY DEF Logged, TraceCalm
    <2> QED BY <2>1, <2>2, StartedKept DEF TraceSound, TraceCalm
<1>5. Ends(u)' = Ends(u)
    BY DEF Ends, Logged, TraceCalm
<1>6. EndedOnce(u)'
    BY <1>1, <1>5, EndedKept DEF TraceSound, TraceCalm
<1>7. PastFixed(u)
    <2>1. \A h \in before[u] : h \in HooksOf(u)
        BY DEF TraceTypes, TraceSound, TerminalKnows, HooksOf
    <2>2. \A s \in SpansOf(u) : CallOf(s)' = CallOf(s)
        BY DEF CallOf, SpansOf, TraceCalm
    <2> QED BY <2>1, <2>2 DEF PastFixed, TraceCalm
<1>8. TerminalKnows(u)'
    <2>1. ctx[u].tools <= ctx'[u].tools
        BY DEF TraceTypes, Contexts, TraceCalm
    <2> QED BY <1>1, <1>5, <1>7, <2>1, KnowsKept DEF TraceSound, TraceCalm
<1> QED BY <1>2, <1>3, <1>4, <1>6, <1>8 DEF TraceSound

(* It is enough to look at the traces that a step is about.                *)
LEMMA TracesAct ==
    ASSUME TracesInv, TraceTypes', NEW A \in SUBSET Traces,
           \A u \in Traces \ A : TraceCalm(u),
           \A t \in A : TraceSound(t)' /\ \A s \in SpansOf(t) : SpanSound(s)',
           \A t \in A : \A r, s \in SpansOf(t) :
               r # s => StepsOf(r)' \intersect StepsOf(s)' = {}
    PROVE  TracesInv'
<1>1. \A u \in Traces : TraceSound(u)'
    BY CalmKeeps DEF TracesInv
<1>2. ASSUME NEW s \in Spans, TraceOf[s] \notin A PROVE SpanSound(s)' /\ StepsOf(s)' = StepsOf(s)
    <2>1. TraceOf[s] \in Traces \ A /\ s \in SpansOf(TraceOf[s])
        BY <1>2, HookFacts DEF SpansOf
    <2> QED BY <1>2, <2>1, CalmSpans, SpanCalmKeeps DEF TracesInv
<1>3. \A s \in Spans : SpanSound(s)'
    BY <1>2 DEF SpansOf
<1>4. StepsApart'
    <2>1. ASSUME NEW r \in Spans, NEW s \in Spans, r # s, TraceOf[r] = TraceOf[s]
          PROVE  StepsOf(r)' \intersect StepsOf(s)' = {}
        <3>1. CASE TraceOf[r] \in A
            BY <2>1, <3>1 DEF SpansOf
        <3>2. CASE TraceOf[r] \notin A
            BY <1>2, <2>1, <3>2 DEF TracesInv, StepsApart
        <3> QED BY <3>1, <3>2
    <2> QED BY <2>1 DEF StepsApart
<1> QED BY <1>1, <1>3, <1>4 DEF TracesInv

LEMMA OneTraceActs ==
    ASSUME TracesInv, TraceTypes', NEW t \in Traces,
           \A u \in Traces \ {t} : TraceCalm(u),
           TraceSound(t)',
           \A s \in SpansOf(t) : SpanSound(s)' /\ StepsOf(s)' \subseteq StepsOf(s)
    PROVE  TracesInv'
<1>1. \A r, s \in SpansOf(t) : r # s => StepsOf(r)' \intersect StepsOf(s)' = {}
    <2>1. ASSUME NEW r \in SpansOf(t), NEW s \in SpansOf(t), r # s
          PROVE  StepsOf(r)' \intersect StepsOf(s)' = {}
        <3>1. StepsOf(r) \intersect StepsOf(s) = {}
            BY <2>1 DEF TracesInv, StepsApart, SpansOf
        <3> QED BY <3>1
    <2> QED BY <2>1
<1> DEFINE A == {t}
<1>2. A \in SUBSET Traces /\ \A u \in A : u = t
    OBVIOUS
<1>3. \A u \in Traces \ A : TraceCalm(u)
    OBVIOUS
<1> HIDE DEF A
<1> QED BY <1>1, <1>2, <1>3, TracesAct
-----------------------------------------------------------------------------
(* A step of hook h, which takes it from where it is to w.                 *)
ActsOn(t, h, w) ==
    /\ h \in HooksOf(t) /\ hook[h] # "done"
    /\ hook' = [hook EXCEPT ![h] = w]
    /\ \A g \in Hooks \ {h} : say'[g] = say[g]
    /\ \A u \in Traces \ {t} : /\ ctx'[u] = ctx[u] /\ log'[u] = log[u] /\ before'[u] = before[u]
                               /\ u \in ToSet(runs') => u \in ToSet(runs)
                               /\ u \in ToSet(pruned') => u \in ToSet(pruned)
    /\ \A s \in Spans \ SpansOf(t) : kind'[s] = kind[s] /\ outcome'[s] = outcome[s]

LEMMA HookMoves ==
    ASSUME TraceTypes, NEW t \in Traces, NEW h, NEW w, ActsOn(t, h, w)
    PROVE  /\ h \in Hooks /\ TraceHooked(h) = t
           /\ hook'[h] = w /\ \A g \in Hooks \ {h} : hook'[g] = hook[g]
           /\ hook[h] # "begin" /\ w # "begin" => Beginning(t)' = Beginning(t)
<1>1. h \in Hooks /\ TraceHooked(h) = t
    BY DEF ActsOn, HooksOf
<1>2. hook'[h] = w /\ \A g \in Hooks \ {h} : hook'[g] = hook[g]
    BY <1>1 DEF ActsOn, TraceTypes
<1>3. HooksOf(t) \subseteq Hooks
    BY DEF HooksOf
<1>4. hook[h] # "begin" /\ w # "begin" => Beginning(t)' = Beginning(t)
    BY <1>2, <1>3 DEF Beginning
<1> QED BY <1>1, <1>2, <1>4

LEMMA OthersCalm ==
    ASSUME TracesInv, NEW t \in Traces, NEW h, NEW w, ActsOn(t, h, w)
    PROVE  \A u \in Traces \ {t} : TraceCalm(u)
<1> SUFFICES ASSUME NEW u \in Traces \ {t} PROVE TraceCalm(u)
    OBVIOUS
<1>1. TraceTypes /\ TraceSound(u)
    BY DEF TracesInv
<1>2. \A g \in HooksOf(u) : g \in Hooks \ {h}
    BY DEF HooksOf, ActsOn
<1>3. \A g \in HooksOf(u) : hook'[g] = hook[g] /\ say'[g] = say[g]
    BY <1>1, <1>2, HookMoves DEF ActsOn
<1>4. \A s \in SpansOf(u) : s \in Spans \ SpansOf(t)
    BY DEF SpansOf
<1>5. \A s \in SpansOf(u) : kind'[s] = kind[s] /\ outcome'[s] = outcome[s]
    BY <1>4 DEF ActsOn
<1>6. /\ Known(u)' => Known(u)
      /\ u \notin ToSet(runs') \/ u \notin ToSet(pruned')
      /\ u \in ToSet(pruned') => ctx[u].open = 0
    <2>1. u \in ToSet(runs') => u \in ToSet(runs)
        BY DEF ActsOn
    <2>2. u \in ToSet(pruned') => u \in ToSet(pruned)
        BY DEF ActsOn
    <2> QED BY <1>1, <2>1, <2>2 DEF Known, TraceSound, Placed
<1>7. ctx'[u] = ctx[u] /\ log'[u] = log[u] /\ before'[u] = before[u]
    BY DEF ActsOn
<1> QED BY <1>3, <1>5, <1>6, <1>7 DEF TraceCalm

(* The spans of the trace whose hook does not act.                         *)
ContextGrows(t) ==
    /\ ctx[t].step <= ctx'[t].step /\ ctx[t].tools <= ctx'[t].tools
    /\ ctx[t].started => ctx'[t].started
    /\ ctx[t].hadError => ctx'[t].hadError

NothingSaidOf(t, s) ==
    \/ log' = log
    \/ \E e : AppendedTo(t, e) /\ (e.what \in CallNames \union ResponseNames => e.span # s)

LEMMA SpanUntouched ==
    ASSUME TraceTypes, TraceTypes', NEW t \in Traces, NEW h, NEW w, ActsOn(t, h, w),
           NEW s \in SpansOf(t), h # <<"open", s>>, h # <<"close", s>>,
           NothingSaidOf(t, s), ContextGrows(t),
           kind'[s] = kind[s], outcome'[s] = outcome[s],
           s \in DOMAIN ctx'[t].steps <=> s \in DOMAIN ctx[t].steps,
           s \in DOMAIN ctx[t].steps => ctx'[t].steps[s] = ctx[t].steps[s],
           Known(t)' => Known(t) \/ hook[<<"open", s>>] = "idle"
    PROVE  SpanCalm(s)
<1>1. s \in Spans /\ TraceOf[s] = t
    BY DEF SpansOf
<1>2. \A g \in {<<"open", s>>, <<"close", s>>} : hook'[g] = hook[g] /\ say'[g] = say[g]
    <2>1. \A g \in {<<"open", s>>, <<"close", s>>} : g \in Hooks \ {h}
        BY <1>1, HookFacts
    <2> QED BY <2>1, HookMoves DEF ActsOn
<1>3. hook[<<"start", t>>] = "done" => hook'[<<"start", t>>] = "done"
    BY HookMoves, HookFacts DEF ActsOn
<1>4. /\ CallOf(s)' = CallOf(s) /\ ResponseOf(s)' = ResponseOf(s)
      /\ \A i \in CallOf(s) \union ResponseOf(s) : log'[t][i] = log[t][i]
    <2>1. CASE log' = log
        BY <2>1 DEF CallOf, ResponseOf
    <2>2. CASE log' # log
        <3>1. PICK e : AppendedTo(t, e) /\ (e.what \in CallNames \union ResponseNames => e.span # s)
            BY <2>2 DEF NothingSaidOf
        <3>2. CallOf(s)' = CallOf(s) /\ ResponseOf(s)' = ResponseOf(s)
            <4>1. /\ CallOf(s)' = CallOf(s)
                      \union (IF TraceOf[s] = t /\ e.what \in CallNames /\ e.span = s
                              THEN {Len(log[t]) + 1} ELSE {})
                  /\ ResponseOf(s)' = ResponseOf(s)
                      \union (IF TraceOf[s] = t /\ e.what \in ResponseNames /\ e.span = s
                              THEN {Len(log[t]) + 1} ELSE {})
                BY <1>1, <3>1, CallsAfter
            <4> QED BY <3>1, <4>1
        <3>3. \A i \in CallOf(s) \union ResponseOf(s) : i \in DOMAIN log[t]
            BY <1>1 DEF CallOf, ResponseOf
        <3> QED BY <3>1, <3>2, <3>3 DEF AppendedTo
    <2> QED BY <2>1, <2>2
<1>5. ctx[t].step \in Nat /\ ctx'[t].step \in Nat
    BY DEF TraceTypes, Contexts
<1> QED BY <1>1, <1>2, <1>3, <1>4, <1>5 DEF SpanCalm, ContextGrows

(* Of the trace, what was settled when it ended.                           *)
LEMMA PastStays ==
    ASSUME TracesInv, NEW t \in Traces, NEW h, NEW w, ActsOn(t, h, w),
           before'[t] = before[t],
           \A s \in SpansOf(t) :
               /\ hook[<<"close", s>>] = "done" => outcome'[s] = outcome[s] /\ CallOf(s)' = CallOf(s)
               /\ hook[<<"open", s>>] = "done" => kind'[s] = kind[s]
    PROVE  PastFixed(t)
<1>1. \A g \in before[t] : g \in Hooks /\ hook[g] = "done"
    BY DEF TracesInv, TraceTypes, TraceSound, TerminalKnows, Returned
<1>2. TraceTypes /\ hook[h] # "done"
    BY DEF TracesInv, ActsOn
<1>3. \A g \in before[t] : hook'[g] = hook[g]
    BY <1>1, <1>2, HookMoves
<1> QED BY <1>1, <1>3 DEF PastFixed
-----------------------------------------------------------------------------
(* The context that a hook finds is the trace's, active or pruned: nothing *)
(* of a pruned trace is open that bringing it back could forget.           *)
LEMMA FoundIsKept ==
    ASSUME TraceTypes, NEW t \in Traces, TraceSound(t), Known(t)
    PROVE  Found(t) = ctx[t]
<1>1. CASE t \in ToSet(runs)
    BY <1>1 DEF Found
<1>2. CASE t \notin ToSet(runs)
    <2>1. ctx[t].open = 0 /\ ctx[t] \in Contexts
        BY <1>2 DEF Known, TraceSound, Placed, TraceTypes
    <2>2. DOMAIN ctx[t].steps \in SUBSET Spans /\ Cardinality(DOMAIN ctx[t].steps) = 0
        BY <2>1 DEF TraceSound, Counted, SpansOf
    <2>3. DOMAIN ctx[t].steps = {}
        BY <2>2, TraceRunsAssumption, FS_Subset, FS_EmptySet
    <2>4. ctx[t].steps = [s \in {} |-> 0]
        <3>1. PICK D \in SUBSET Spans : ctx[t].steps \in [D -> Nat]
            BY <2>1 DEF Contexts
        <3> QED BY <2>3, <3>1
    <2>5. Resurrected(t) = ctx[t]
        BY <2>1, <2>4 DEF Resurrected, Contexts
    <2> QED BY <1>2, <2>5 DEF Found
<1> QED BY <1>1, <1>2

LEMMA LookupFinds ==
    ASSUME TraceTypes, NEW t \in Traces, TraceSound(t), Known(t), Lookup(t)
    PROVE  /\ runs' \in Seq(Traces) /\ pruned' \in Seq(Traces)
           /\ t \in ToSet(runs') /\ t \notin ToSet(pruned')
           /\ \A u \in Traces \ {t} : /\ u \in ToSet(runs') => u \in ToSet(runs)
                                      /\ u \in ToSet(pruned') => u \in ToSet(pruned)
<1>0. runs \in Seq(Traces) /\ pruned \in Seq(Traces)
    BY DEF TraceTypes
<1>1. CASE t \in ToSet(runs)
    BY <1>0, <1>1 DEF Lookup, TraceSound, Placed
<1>2. CASE t \notin ToSet(runs)
    <2>1. runs' = Append(runs, t) /\ pruned' = Among(pruned, Traces \ {t})
        BY <1>2 DEF Lookup
    <2>2. runs' \in Seq(Traces) /\ ToSet(runs') = ToSet(runs) \union {t}
        BY <1>0, <2>1 DEF ToSet
    <2>3. pruned' \in Seq(Traces) /\ \A u \in ToSet(pruned') : u \in ToSet(pruned) /\ u # t
        BY <1>0, <2>1, AmongIsPart
    <2> QED BY <2>2, <2>3
<1> QED BY <1>1, <1>2

-----------------------------------------------------------------------------
(* What is said of a span is neither a start nor an end.                   *)
LEMMA SpanEventsEndNothing ==
    ASSUME NEW t \in Traces,
           log' = log \/ \E e : AppendedTo(t, e) /\ e.what \in CallNames \union ResponseNames
    PROVE  /\ Logged(t, "run.started")' = Logged(t, "run.started")
           /\ Ends(t)' = Ends(t) /\ \A i \in Ends(t) : log'[t][i] = log[t][i]
<1>1. CASE log' = log
    BY <1>1 DEF Logged, Ends
<1>2. CASE log' # log
    <2>1. PICK e : AppendedTo(t, e) /\ e.what \in CallNames \union ResponseNames
        BY <1>2
    <2>2. e.what \notin {"run.started", "run.completed", "run.errored"}
        BY <2>1 DEF CallNames, ResponseNames
    <2>3. ASSUME NEW what \in {"run.started", "run.completed", "run.errored"}
          PROVE  Logged(t, what)' = Logged(t, what)
        <3>1. e.what # what
            BY <2>2
        <3>2. Logged(t, what)' = Logged(t, what)
                  \union (IF e.what = what THEN {Len(log[t]) + 1} ELSE {})
            BY <2>1, LoggedAfter
        <3> QED BY <3>1, <3>2
    <2>4. \A i \in Ends(t) : i \in DOMAIN log[t]
        BY DEF Ends, Logged
    <2> QED BY <2>1, <2>3, <2>4 DEF Ends, AppendedTo
<1> QED BY <1>1, <1>2

(* A step of a span's hook, as its trace sees it.                          *)
LEMMA SpanHookTrace ==
    ASSUME TracesInv, TraceTypes', NEW t \in Traces, NEW s \in SpansOf(t),
           NEW h \in {<<"open", s>>, <<"close", s>>}, NEW w, ActsOn(t, h, w),
           hook[h] # "begin", w # "begin", ContextGrows(t), before'[t] = before[t],
           Known(t)' => Known(t),
           log' = log \/ \E e : AppendedTo(t, e) /\ e.what \in CallNames \union ResponseNames,
           \A r \in SpansOf(t) :
               /\ hook[<<"close", r>>] = "done" => outcome'[r] = outcome[r] /\ CallOf(r)' = CallOf(r)
               /\ hook[<<"open", r>>] = "done" => kind'[r] = kind[r]
    PROVE  TraceSites(t)' /\ StartedOnce(t)' /\ EndedOnce(t)' /\ TerminalKnows(t)'
<1>1. TraceTypes /\ TraceSound(t)
    BY DEF TracesInv
<1>2. \A g \in {<<"start", t>>, <<"end", t>>} :
          g \in Hooks \ {h} /\ hook'[g] = hook[g] /\ say'[g] = say[g]
    <2>1. <<"start", t>> \in Hooks /\ <<"end", t>> \in Hooks
        BY HookFacts
    <2>2. <<"start", t>> # h /\ <<"end", t>> # h
        OBVIOUS
    <2> QED BY <1>1, <2>1, <2>2, HookMoves DEF ActsOn
<1>3. TraceSites(t)'
    BY <1>1, <1>2 DEF TraceSound, TraceSites
<1>4. /\ Logged(t, "run.started")' = Logged(t, "run.started")
      /\ Ends(t)' = Ends(t) /\ \A i \in Ends(t) : log'[t][i] = log[t][i]
    BY SpanEventsEndNothing
<1>5. StartedOnce(t)'
    BY <1>1, <1>4, HookMoves, StartedKept DEF TraceSound, ContextGrows
<1>6. EndedOnce(t)'
    BY <1>1, <1>2, <1>4, EndedKept DEF TraceSound
<1>7. PastFixed(t)
    BY PastStays
<1>8. TerminalKnows(t)'
    BY <1>1, <1>2, <1>4, <1>7, KnowsKept DEF TraceSound, ContextGrows
<1> QED BY <1>3, <1>5, <1>6, <1>8

(* A step of a trace's hook leaves each of its spans alone.                *)
LEMMA TraceHookSpans ==
    ASSUME TracesInv, TraceTypes', NEW t \in Traces,
           NEW h \in {<<"start", t>>, <<"end", t>>}, NEW w, ActsOn(t, h, w),
           log' = log \/ \E e : AppendedTo(t, e) /\ e.what \notin CallNames \union ResponseNames,
           ContextGrows(t), ctx'[t].steps = ctx[t].steps,
           UNCHANGED <<kind, outcome>>, Known(t)' => Known(t)
    PROVE  \A s \in SpansOf(t) : SpanSound(s)' /\ StepsOf(s)' = StepsOf(s)
<1> SUFFICES ASSUME NEW s \in SpansOf(t) PROVE SpanSound(s)' /\ StepsOf(s)' = StepsOf(s)
    OBVIOUS
<1>1. s \in Spans /\ h # <<"open", s>> /\ h # <<"close", s>>
    BY DEF SpansOf
<1>2. NothingSaidOf(t, s)
    BY DEF NothingSaidOf
<1>3. SpanCalm(s)
    BY <1>1, <1>2, SpanUntouched DEF TracesInv
<1> QED BY <1>1, <1>3, SpanCalmKeeps DEF TracesInv
-----------------------------------------------------------------------------
(* _emit_llm_responded marks the run.                                      *)
LEMMA FlagKeeps ==
    ASSUME TracesInv, NEW h \in Hooks, Flag(h)
    PROVE  TracesInv'
<1>0. hook[h] = "flag" /\ TraceTypes
    BY DEF Flag, TracesInv
<1>1. PICK s \in Spans : h = <<"close", s>>
    BY <1>0, HookFacts DEF TracesInv, TraceSound, TraceSites, SpanSound, SpanSites
<1> DEFINE t == TraceOf[s]
<1>2. t \in Traces /\ TraceHooked(h) = t /\ s \in SpansOf(t) /\ h \in HooksOf(t)
    BY <1>1, HookFacts DEF SpansOf, HooksOf
<1> HIDE DEF t
<1>3. ctx' = [ctx EXCEPT ![t].hadError = TRUE]
    BY <1>2 DEF Flag
<1>4. /\ ctx[t] \in Contexts /\ ctx'[t] = [ctx[t] EXCEPT !.hadError = TRUE]
      /\ \A u \in Traces \ {t} : ctx'[u] = ctx[u]
    BY <1>0, <1>2, <1>3 DEF TraceTypes
<1>5. /\ ctx'[t] \in Contexts /\ ctx'[t].hadError
      /\ ctx'[t].steps = ctx[t].steps /\ ctx'[t].open = ctx[t].open
      /\ ctx'[t].step = ctx[t].step /\ ctx'[t].tools = ctx[t].tools
      /\ ctx'[t].started = ctx[t].started
    BY <1>4 DEF Contexts
<1>6. TraceTypes'
    <2>1. ctx' \in [Traces -> Contexts]
        BY <1>0, <1>2, <1>3, <1>4, <1>5 DEF TraceTypes
    <2> QED BY <1>0, <2>1 DEF Flag, To, Where, TraceTypes, spans
<1>7. ActsOn(t, h, "emit") /\ UNCHANGED <<runs, pruned, say, log, kind, outcome, before>>
    BY <1>0, <1>2, <1>4 DEF ActsOn, Flag, To, spans
<1>8. ContextGrows(t)
    BY <1>4, <1>5 DEF ContextGrows, Contexts
<1>9. \A r \in Spans : CallOf(r)' = CallOf(r) /\ ResponseOf(r)' = ResponseOf(r)
    BY <1>7 DEF CallOf, ResponseOf
<1>10. Known(t)' = Known(t)
    BY <1>7 DEF Known
<1>11. \A g \in Hooks : g # h => hook'[g] = hook[g]
    BY <1>0, <1>2, <1>7, HookMoves
<1>12. hook'[h] = "emit"
    BY <1>0, <1>2, <1>7, HookMoves
<1>13. TraceSound(t)'
    <2>1. TraceSites(t)' /\ StartedOnce(t)' /\ EndedOnce(t)' /\ TerminalKnows(t)'
        <3>1. \A r \in SpansOf(t) : r \in Spans
            BY DEF SpansOf
        <3> QED BY <1>0, <1>1, <1>2, <1>6, <1>7, <1>8, <1>9, <1>10, <3>1, SpanHookTrace
    <2>2. Placed(t)'
        <3>1. hook'[<<"start", t>>] = hook[<<"start", t>>]
            BY <1>1, <1>2, <1>11, HookFacts
        <3> QED BY <1>2, <1>5, <1>7, <1>10, <3>1 DEF Placed, TracesInv, TraceSound
    <2>3. Counted(t)'
        <3>1. \A r \in SpansOf(t) : kind'[r] = kind[r]
            BY <1>7
        <3> QED BY <1>0, <1>2, <1>5, <1>6, <1>8, <1>10, <3>1, CountedKept
               DEF ContextGrows, TracesInv, TraceSound
    <2> QED BY <2>1, <2>2, <2>3 DEF TraceSound
<1>14. SpanSound(s)' /\ StepsOf(s)' = StepsOf(s)
    <2>0. SpanSound(s) /\ TraceOf[s] = t /\ hook[<<"close", s>>] = "flag" /\ hook'[<<"close", s>>] = "emit"
        BY <1>0, <1>1, <1>2, <1>12 DEF TracesInv, SpansOf
    <2>1. hook'[<<"open", s>>] = hook[<<"open", s>>] /\ hook'[<<"start", t>>] = hook[<<"start", t>>]
        BY <1>1, <1>2, <1>11, HookFacts
    <2>2. StepsOf(s)' = StepsOf(s) /\ (Calling(s)' <=> Calling(s)) /\ (IsCalled(s)' <=> IsCalled(s))
        BY <1>7, <1>9, <2>1 DEF StepsOf, Calling, IsCalled
    <2>3. SpanSites(s)'
        BY <1>7, <2>0, <2>1 DEF SpanSound, SpanSites
    <2>4. CalledOnce(s)'
        BY <1>5, <1>7, <1>9, <2>0, <2>1, <2>2 DEF SpanSound, CalledOnce
    <2>5. Registered(s)'
        BY <1>5, <1>10, <2>0, <2>2 DEF SpanSound, Registered
    <2>6. AnsweredOnce(s)'
        BY <1>7, <1>9, <1>10, <2>0 DEF SpanSound, AnsweredOnce, Answering
    <2>7. FailureKept(s)'
        BY <1>5, <2>0 DEF FailureKept
    <2> QED BY <2>2, <2>3, <2>4, <2>5, <2>6, <2>7 DEF SpanSound
<1>15. ASSUME NEW r \in SpansOf(t), r # s PROVE SpanSound(r)' /\ StepsOf(r)' = StepsOf(r)
    <2>1. NothingSaidOf(t, r)
        BY <1>7 DEF NothingSaidOf
    <2>2. SpanCalm(r)
        <3>1. r \in Spans /\ h # <<"open", r>> /\ h # <<"close", r>>
            BY <1>1, <1>15 DEF SpansOf
        <3>2. kind'[r] = kind[r] /\ outcome'[r] = outcome[r]
            BY <1>7
        <3> QED BY <1>0, <1>2, <1>5, <1>6, <1>7, <1>8, <1>10, <2>1, <3>1, <3>2, SpanUntouched
    <2> QED BY <2>2, SpanCalmKeeps DEF TracesInv, SpansOf
<1>16. \A r \in SpansOf(t) : SpanSound(r)' /\ StepsOf(r)' \subseteq StepsOf(r)
    BY <1>14, <1>15
<1>17. \A u \in Traces \ {t} : TraceCalm(u)
    BY <1>2, <1>7, OthersCalm
<1> QED BY <1>2, <1>6, <1>13, <1>16, <1>17, OneTraceActs

-----------------------------------------------------------------------------
(* _ensure_run_started, as everything but the start event itself sees it:  *)
(* the hook goes on, and nothing that it had to say is said yet.           *)
LEMMA StartStepKeeps ==
    ASSUME TracesInv, TraceTypes', NEW h \in Hooks, NEW t \in Traces, TraceHooked(h) = t,
           NEW w, hook[h] \in {"ensure", "begin"}, w \in {"begin", AfterStart(h)},
           ActsOn(t, h, w), UNCHANGED <<runs, pruned, say, kind, outcome, before>>,
           ContextGrows(t), ctx'[t].step = ctx[t].step,
           ctx'[t].steps = ctx[t].steps, ctx'[t].open = ctx[t].open,
           log' = log \/ \E e : AppendedTo(t, e) /\ e.what = "run.started",
           StartedOnce(t)'
    PROVE  TracesInv'
<1>0. TraceTypes /\ TraceSound(t) /\ \A s \in SpansOf(t) : SpanSound(s) /\ TraceOf[s] = t /\ s \in Spans
    BY DEF TracesInv, SpansOf
<1>1. \A g \in Hooks : g # h => hook'[g] = hook[g]
    BY <1>0, HookMoves
<1>2. hook'[h] = w
    BY <1>0, HookMoves
<1>3. Known(t)' = Known(t)
    BY DEF Known
<1>4. \/ h = <<"start", t>> /\ w \in {"begin", "done"}
      \/ h = <<"end", t>> /\ w \in {"begin", "finish"}
      \/ \E s \in SpansOf(t) : h = <<"open", s>> /\ w \in {"begin", "emit"}
    <2>1. CASE \E u \in Traces : h = <<"start", u>> \/ h = <<"end", u>>
        <3>1. PICK u \in Traces : h = <<"start", u>> \/ h = <<"end", u>>
            BY <2>1
        <3>2. u = t
            BY <3>1, HookFacts
        <3>3. h[1] = "start" \/ h[1] = "end"
            BY <3>1
        <3> QED BY <3>1, <3>2 DEF AfterStart
    <2>2. CASE \E s \in Spans : h = <<"open", s>> \/ h = <<"close", s>>
        <3>1. PICK s \in Spans : h = <<"open", s>> \/ h = <<"close", s>>
            BY <2>2
        <3>2. s \in SpansOf(t)
            BY <3>1, HookFacts DEF SpansOf
        <3>3. h # <<"close", s>>
            BY <1>0, <3>2 DEF SpanSound, SpanSites
        <3> QED BY <3>1, <3>2, <3>3 DEF AfterStart
    <2> QED BY <2>1, <2>2, HookFacts
<1>5. /\ <<"start", t>> \in Hooks /\ <<"end", t>> \in Hooks
      /\ h # <<"start", t>> => hook'[<<"start", t>>] = hook[<<"start", t>>]
      /\ h # <<"end", t>> => hook'[<<"end", t>>] = hook[<<"end", t>>]
    BY <1>1, HookFacts
<1>6. /\ Ends(t)' = Ends(t) /\ \A i \in Ends(t) : log'[t][i] = log[t][i]
      /\ \A s \in SpansOf(t) :
            /\ CallOf(s)' = CallOf(s) /\ ResponseOf(s)' = ResponseOf(s)
            /\ \A i \in CallOf(s) \union ResponseOf(s) : log'[t][i] = log[t][i]
    <2>1. CASE log' = log
        BY <2>1 DEF Ends, Logged, CallOf, ResponseOf
    <2>2. CASE log' # log
        <3>1. PICK e : AppendedTo(t, e) /\ e.what = "run.started"
            BY <2>2
        <3>2. Logged(t, "run.completed")' = Logged(t, "run.completed")
            <4>1. Logged(t, "run.completed")' = Logged(t, "run.completed")
                      \union (IF e.what = "run.completed" THEN {Len(log[t]) + 1} ELSE {})
                BY <3>1, LoggedAfter
            <4> QED BY <3>1, <4>1
        <3>3. Logged(t, "run.errored")' = Logged(t, "run.errored")
            <4>1. Logged(t, "run.errored")' = Logged(t, "run.errored")
                      \union (IF e.what = "run.errored" THEN {Len(log[t]) + 1} ELSE {})
                BY <3>1, LoggedAfter
            <4> QED BY <3>1, <4>1
        <3>4. ASSUME NEW s \in SpansOf(t)
              PROVE  CallOf(s)' = CallOf(s) /\ ResponseOf(s)' = ResponseOf(s)
            <4>1. e.what \notin CallNames /\ e.what \notin ResponseNames
                BY <3>1 DEF CallNames, ResponseNames
            <4>2. /\ CallOf(s)' = CallOf(s)
                      \union (IF TraceOf[s] = t /\ e.what \in CallNames /\ e.span = s
                              THEN {Len(log[t]) + 1} ELSE {})
                  /\ ResponseOf(s)' = ResponseOf(s)
                      \union (IF TraceOf[s] = t /\ e.what \in ResponseNames /\ e.span = s
                              THEN {Len(log[t]) + 1} ELSE {})
                BY <1>0, <3>1, CallsAfter
            <4> QED BY <4>1, <4>2
        <3>5. \A i \in Ends(t) : i \in DOMAIN log[t]
            BY DEF Ends, Logged
        <3>6. \A s \in SpansOf(t) : \A i \in CallOf(s) \union ResponseOf(s) : i \in DOMAIN log[t]
            BY <1>0 DEF CallOf, ResponseOf
        <3> QED BY <3>1, <3>2, <3>3, <3>4, <3>5, <3>6 DEF Ends, AppendedTo
    <2> QED BY <2>1, <2>2
<1>7. PastFixed(t)
    BY <1>6, PastStays
<1>8. TraceSound(t)'
    <2>1. TraceSites(t)'
        BY <1>0, <1>2, <1>4, <1>5 DEF TraceSound, TraceSites
    <2>2. Placed(t)'
        BY <1>0, <1>2, <1>3, <1>4, <1>5 DEF TraceSound, Placed
    <2>3. Counted(t)'
        BY <1>0, <1>3, CountedKept DEF ContextGrows, TraceSound
    <2>4. EndedOnce(t)'
        <3>1. CASE h = <<"end", t>>
            BY <1>0, <1>2, <1>3, <1>4, <1>6, <3>1 DEF TraceSound, EndedOnce
        <3>2. CASE h # <<"end", t>>
            BY <1>0, <1>3, <1>5, <1>6, <3>2, EndedKept DEF TraceSound
        <3> QED BY <3>1, <3>2
    <2>5. TerminalKnows(t)'
        <3>1. CASE h = <<"end", t>>
            <4>1. /\ hook[<<"end", t>>] \in {"ensure", "begin", "finish"}
                  /\ hook'[<<"end", t>>] \in {"ensure", "begin", "finish"}
                BY <1>2, <1>4, <3>1
            <4>2. Failed(t)' = Failed(t) /\ ToolsBefore(t)' = ToolsBefore(t)
                BY <1>7, PastFixedMeans
            <4>3. Cardinality(ToolsBefore(t)) \in Nat
                BY ToolsBeforeNat
            <4>4. ctx[t].tools \in Nat /\ ctx'[t].tools \in Nat
                BY <1>0 DEF TraceTypes, Contexts
            <4>5. ctx'[t].tools >= Cardinality(ToolsBefore(t))
                BY <1>0, <4>1, <4>3, <4>4 DEF TraceSound, TerminalKnows, ContextGrows
            <4>6. \A g \in before'[t] : Returned(g)' /\ TraceHooked(g) = t
                BY <1>0, <1>7 DEF TraceSound, TerminalKnows, PastFixed, Returned
            <4>7. Ends(t)' = {}
                BY <1>0, <1>6, <4>1 DEF TraceSound, EndedOnce
            <4> QED BY <4>1, <4>2, <4>5, <4>6, <4>7 DEF TerminalKnows
        <3>2. CASE h # <<"end", t>>
            BY <1>0, <1>5, <1>6, <1>7, <3>2, KnowsKept DEF TraceSound, ContextGrows
        <3> QED BY <3>1, <3>2
    <2> QED BY <2>1, <2>2, <2>3, <2>4, <2>5 DEF TraceSound
<1>9. ASSUME NEW s \in SpansOf(t) PROVE SpanSound(s)' /\ StepsOf(s)' \subseteq StepsOf(s)
    <2>1. h # <<"close", s>>
        BY <1>4
    <2>2. CASE h # <<"open", s>>
        <3>1. NothingSaidOf(t, s)
            BY DEF NothingSaidOf, CallNames, ResponseNames
        <3>2. SpanCalm(s)
            BY <1>0, <1>3, <2>1, <2>2, <3>1, SpanUntouched
        <3> QED BY <1>0, <3>2, SpanCalmKeeps
    <2>3. CASE h = <<"open", s>>
        <3>0. SpanSound(s) /\ TraceOf[s] = t /\ s \in Spans
            BY <1>0
        <3>1. /\ hook'[<<"close", s>>] = hook[<<"close", s>>]
              /\ hook'[<<"start", t>>] = hook[<<"start", t>>]
              /\ hook[<<"open", s>>] \in {"ensure", "begin"}
              /\ hook'[<<"open", s>>] \in {"begin", "emit"}
              /\ hook[<<"close", s>>] = "idle"
            BY <1>1, <1>2, <1>4, <1>5, <2>3, <3>0, HookFacts DEF SpanSound, SpanSites
        <3>2. Calling(s) /\ Calling(s)' /\ IsCalled(s) /\ IsCalled(s)'
            BY <3>1 DEF Calling, IsCalled
        <3>3. CallOf(s) = {} /\ CallOf(s)' = {} /\ ResponseOf(s)' = ResponseOf(s)
            BY <1>6, <3>0, <3>2 DEF SpanSound, CalledOnce
        <3>4. StepsOf(s)' = StepsOf(s)
            BY <3>2, <3>3 DEF StepsOf
        <3>5. SpanSites(s)'
            BY <3>0, <3>1 DEF SpanSound, SpanSites
        <3>6. CalledOnce(s)'
            BY <3>0, <3>1, <3>2, <3>3, <3>4 DEF SpanSound, CalledOnce
        <3>7. Registered(s)'
            BY <1>3, <3>0, <3>1, <3>2, <3>4 DEF SpanSound, Registered
        <3>8. AnsweredOnce(s)'
            BY <3>0, <3>1, <3>3 DEF SpanSound, AnsweredOnce, Answering
        <3>9. FailureKept(s)'
            BY <3>0, <3>3 DEF SpanSound, FailureKept, ContextGrows
        <3> QED BY <3>4, <3>5, <3>6, <3>7, <3>8, <3>9 DEF SpanSound
    <2> QED BY <2>2, <2>3
<1>10. \A u \in Traces \ {t} : TraceCalm(u)
    BY OthersCalm
<1> QED BY <1>8, <1>9, <1>10, OneTraceActs

LEMMA EnsureKeeps ==
    ASSUME TracesInv, NEW h \in Hooks, Ensure(h)
    PROVE  TracesInv'
<1> DEFINE t == TraceHooked(h)
           w == IF ctx[t].started THEN AfterStart(h) ELSE "begin"
<1>0. TraceTypes /\ t \in Traces /\ h \in HooksOf(t) /\ hook[h] = "ensure" /\ TraceSound(t)
    BY HookFacts DEF TracesInv, HooksOf, Ensure
<1>1. ctx' = [ctx EXCEPT ![t].started = TRUE] /\ hook' = [hook EXCEPT ![h] = w]
    BY DEF Ensure, To
<1>2. w \in {"begin", AfterStart(h)} /\ w \in Where /\ (w = "begin" <=> ~ctx[t].started)
    <2>1. ctx[t].started \in BOOLEAN
        BY <1>0 DEF TraceTypes, Contexts
    <2> QED BY <2>1 DEF AfterStart, Where
<1> HIDE DEF w, t
<1>3. /\ ctx[t] \in Contexts /\ ctx'[t] = [ctx[t] EXCEPT !.started = TRUE]
      /\ \A u \in Traces \ {t} : ctx'[u] = ctx[u]
    BY <1>0, <1>1 DEF TraceTypes
<1>4. /\ ctx'[t] \in Contexts /\ ctx'[t].started
      /\ ctx'[t].steps = ctx[t].steps /\ ctx'[t].open = ctx[t].open
      /\ ctx'[t].step = ctx[t].step /\ ctx'[t].tools = ctx[t].tools
      /\ ctx'[t].hadError = ctx[t].hadError
    BY <1>3 DEF Contexts
<1>5. UNCHANGED <<runs, pruned, say, log, kind, outcome, before>>
    BY DEF Ensure, spans
<1>6. TraceTypes'
    <2>1. ctx' \in [Traces -> Contexts]
        BY <1>0, <1>1, <1>3, <1>4 DEF TraceTypes
    <2> QED BY <1>0, <1>1, <1>2, <1>5, <2>1 DEF TraceTypes
<1>7. ActsOn(t, h, w)
    BY <1>0, <1>1, <1>3, <1>5 DEF ActsOn
<1>8. ContextGrows(t)
    BY <1>3, <1>4 DEF ContextGrows, Contexts
<1>9. StartedOnce(t)'
    <2>0. Logged(t, "run.started")' = Logged(t, "run.started")
        BY <1>5 DEF Logged
    <2>1. CASE w # "begin"
        <3>1. Beginning(t)' = Beginning(t)
            BY <1>0, <1>7, <2>1, HookMoves
        <3> QED BY <1>0, <1>4, <2>0, <3>1, StartedKept DEF TraceSound
    <2>2. CASE w = "begin"
        <3>1. Logged(t, "run.started") = {} /\ Beginning(t) = {}
            BY <1>0, <1>2, <2>2 DEF TraceSound, StartedOnce
        <3>2. Beginning(t)' = {h}
            BY <1>0, <1>7, <2>2, <3>1, HookMoves DEF Beginning, HooksOf
        <3> QED BY <1>4, <2>0, <3>1, <3>2 DEF StartedOnce
    <2> QED BY <2>1, <2>2
<1> QED BY <1>0, <1>2, <1>4, <1>5, <1>6, <1>7, <1>8, <1>9, StartStepKeeps DEF HooksOf

LEMMA BeginKeeps ==
    ASSUME TracesInv, NEW h \in Hooks, Begin(h)
    PROVE  TracesInv'
<1> DEFINE t == TraceHooked(h)
           w == AfterStart(h)
           e == [what |-> "run.started", step |-> 0]
<1>0. TraceTypes /\ t \in Traces /\ h \in HooksOf(t) /\ hook[h] = "begin" /\ TraceSound(t)
    BY HookFacts DEF TracesInv, HooksOf, Begin
<1>1. log' = [log EXCEPT ![t] = Append(@, e)] /\ hook' = [hook EXCEPT ![h] = w]
    BY DEF Begin, To
<1>2. w \in {"begin", AfterStart(h)} /\ w \in Where /\ w # "begin"
    BY DEF AfterStart, Where
<1>3. e \in Events /\ e.what = "run.started"
    BY DEF Events
<1> HIDE DEF w, t, e
<1>4. AppendedTo(t, e)
    BY <1>0, <1>1, <1>3, AppendKeeps
<1>5. UNCHANGED <<runs, pruned, ctx, say, kind, outcome, before>>
    BY DEF Begin, spans
<1>6. TraceTypes'
    <2>1. log' \in [Traces -> Seq(Events)]
        BY <1>0, <1>1, <1>3 DEF TraceTypes
    <2> QED BY <1>0, <1>1, <1>2, <1>5, <2>1 DEF TraceTypes
<1>7. ActsOn(t, h, w)
    BY <1>0, <1>1, <1>4, <1>5 DEF ActsOn, AppendedTo
<1>8. ContextGrows(t)
    BY <1>0, <1>5 DEF ContextGrows, Contexts, TraceTypes
<1>9. StartedOnce(t)'
    <2>1. h \in Beginning(t) /\ Logged(t, "run.started") = {} /\ ctx[t].started
          /\ \A g \in Beginning(t) : g = h
        BY <1>0 DEF Beginning, TraceSound, StartedOnce
    <2>2. Beginning(t)' = {}
        BY <1>0, <1>2, <1>7, <2>1, HookMoves DEF Beginning, HooksOf
    <2>3. Logged(t, "run.started")' = {Len(log[t]) + 1}
        BY <1>0, <1>3, <1>4, <2>1, LoggedAfter
    <2> QED BY <1>5, <2>1, <2>2, <2>3 DEF StartedOnce
<1> QED BY <1>0, <1>2, <1>3, <1>4, <1>5, <1>6, <1>7, <1>8, <1>9, StartStepKeeps DEF HooksOf

-----------------------------------------------------------------------------
(* on_trace_end and what follows it, between its start and its event.      *)
LEMMA EndStepKeeps ==
    ASSUME TracesInv, TraceTypes', NEW t \in Traces, NEW w, ActsOn(t, <<"end", t>>, w),
           hook[<<"end", t>>] # "begin", w # "begin",
           UNCHANGED <<log, ctx, kind, outcome>>, Known(t)' => Known(t),
           TraceSites(t)', Placed(t)', EndedOnce(t)', TerminalKnows(t)'
    PROVE  TracesInv'
<1>0. TraceTypes /\ TraceSound(t)
    BY DEF TracesInv
<1>1. ctx'[t] = ctx[t] /\ ctx[t].step \in Nat /\ ctx[t].tools \in Nat
    BY <1>0 DEF TraceTypes, Contexts
<1>2. ContextGrows(t)
    BY <1>1 DEF ContextGrows
<1>3. StartedOnce(t)'
    <2>1. Logged(t, "run.started")' = Logged(t, "run.started")
        BY DEF Logged
    <2> QED BY <1>0, <1>1, <2>1, HookMoves, StartedKept DEF TraceSound
<1>4. Counted(t)'
    BY <1>0, <1>1, <1>2, CountedKept DEF TraceSound, ContextGrows
<1>5. TraceSound(t)'
    BY <1>3, <1>4 DEF TraceSound
<1>6. \A s \in SpansOf(t) : SpanSound(s)' /\ StepsOf(s)' = StepsOf(s)
    BY <1>1, <1>2, TraceHookSpans
<1>7. \A u \in Traces \ {t} : TraceCalm(u)
    BY OthersCalm
<1> QED BY <1>5, <1>6, <1>7, OneTraceActs

(* The failures of the spans that had ended are all in the context.        *)
LEMMA FailuresAreKnown ==
    ASSUME TracesInv, NEW t \in Traces, Failed(t) # {}
    PROVE  ctx[t].hadError
<1>1. PICK s \in Spans : /\ TraceOf[s] = t /\ <<"close", s>> \in before[t]
                         /\ \/ outcome[s] = "error"
                            \/ outcome[s] = "failed" /\ CallOf(s) # {}
    BY DEF Failed
<1>2. hook[<<"close", s>>] = "done"
    BY <1>1 DEF TracesInv, TraceSound, TerminalKnows, Returned
<1> QED BY <1>1, <1>2 DEF TracesInv, SpanSound, FailureKept

LEMMA FinishKeeps ==
    ASSUME TracesInv, NEW h \in Hooks, Finish(h)
    PROVE  TracesInv'
<1>0. hook[h] = "finish" /\ TraceTypes
    BY DEF Finish, TracesInv
<1>1. PICK t \in Traces : h = <<"end", t>>
    BY <1>0, HookFacts DEF TracesInv, TraceSound, TraceSites, SpanSound, SpanSites
<1> DEFINE e == [what |-> IF ctx[t].hadError THEN "run.errored" ELSE "run.completed",
                 step |-> ctx[t].step, tools |-> ctx[t].tools]
<1>2. TraceHooked(h) = t /\ h \in HooksOf(t) /\ TraceSound(t)
    BY <1>1, HookFacts DEF HooksOf, TracesInv
<1>3. /\ hook' = [hook EXCEPT ![h] = "emit"] /\ say' = [say EXCEPT ![h] = e]
      /\ UNCHANGED <<runs, pruned, ctx, log, kind, outcome, before>>
    BY <1>2 DEF Finish, To, spans
<1>4. ctx[t].step \in Nat /\ ctx[t].tools \in Nat
    BY <1>0 DEF TraceTypes, Contexts
<1>5. e \in Events /\ e.what \in EndNames /\ e.tools = ctx[t].tools
      /\ (ctx[t].hadError => e.what = "run.errored")
    BY <1>4 DEF Events, EndNames
<1> HIDE DEF e
<1>6. TraceTypes'
    BY <1>0, <1>3, <1>5 DEF TraceTypes, Where
<1>7. ActsOn(t, <<"end", t>>, "emit")
    BY <1>0, <1>1, <1>2, <1>3 DEF ActsOn, TraceTypes
<1>8. hook'[h] = "emit" /\ say'[h] = e /\ hook'[<<"start", t>>] = hook[<<"start", t>>]
    BY <1>0, <1>1, <1>3, HookFacts DEF TraceTypes
<1>9. Known(t)' = Known(t) /\ Ends(t)' = Ends(t)
    BY <1>3 DEF Known, Ends, Logged
<1>10. Ends(t) = {}
    BY <1>0, <1>1, <1>2 DEF TraceSound, EndedOnce
<1>11. TraceSites(t)' /\ Placed(t)'
    BY <1>0, <1>1, <1>2, <1>3, <1>8, <1>9 DEF TraceSound, TraceSites, Placed
<1>12. EndedOnce(t)'
    BY <1>1, <1>5, <1>8, <1>9, <1>10 DEF EndedOnce
<1>13. PastFixed(t)
    <2>1. \A s \in Spans : CallOf(s)' = CallOf(s)
        BY <1>3 DEF CallOf
    <2> QED BY <1>3, <1>7, <2>1, PastStays DEF SpansOf
<1>14. Failed(t)' = Failed(t) /\ ToolsBefore(t)' = ToolsBefore(t)
    BY <1>13, PastFixedMeans
<1>15. TerminalKnows(t)'
    <2>1. Knows(t, say[h])'
        <3>1. Failed(t) # {} => e.what = "run.errored"
            BY <1>5, FailuresAreKnown
        <3>2. e.tools >= Cardinality(ToolsBefore(t))
            BY <1>0, <1>1, <1>2, <1>5 DEF TraceSound, TerminalKnows
        <3> QED BY <1>8, <1>14, <3>1, <3>2 DEF Knows
    <2>2. \A g \in before'[t] : Returned(g)' /\ TraceHooked(g) = t
        BY <1>2, <1>13 DEF TraceSound, TerminalKnows, PastFixed, Returned
    <2> QED BY <1>1, <1>8, <1>9, <1>10, <2>1, <2>2 DEF TerminalKnows
<1> QED BY <1>0, <1>1, <1>3, <1>6, <1>7, <1>9, <1>11, <1>12, <1>15, EndStepKeeps

(* _cleanup: a trace that was pruned meanwhile stays where it is.          *)
LEMMA CleanKeeps ==
    ASSUME TracesInv, NEW h \in Hooks, Clean(h)
    PROVE  TracesInv'
<1>0. hook[h] = "clean" /\ TraceTypes
    BY DEF Clean, TracesInv
<1>1. PICK t \in Traces : h = <<"end", t>>
    BY <1>0, HookFacts DEF TracesInv, TraceSound, TraceSites, SpanSound, SpanSites
<1>2. TraceHooked(h) = t /\ h \in HooksOf(t) /\ TraceSound(t) /\ h[2] = t
    BY <1>1, HookFacts DEF HooksOf, TracesInv
<1>3. /\ hook' = [hook EXCEPT ![h] = "done"] /\ runs' = Among(runs, Traces \ {t})
      /\ UNCHANGED <<pruned, ctx, say, log, kind, outcome, before>>
    BY <1>2 DEF Clean, To, spans
<1>4. runs' \in Seq(Traces) /\ \A u \in ToSet(runs') : u \in ToSet(runs)
    BY <1>0, <1>3, AmongIsPart DEF TraceTypes
<1>5. TraceTypes'
    BY <1>0, <1>3, <1>4 DEF TraceTypes, Where
<1>6. ActsOn(t, <<"end", t>>, "done")
    BY <1>0, <1>1, <1>2, <1>3, <1>4 DEF ActsOn, TraceTypes
<1>7. hook'[h] = "done" /\ hook'[<<"start", t>>] = hook[<<"start", t>>]
    BY <1>0, <1>1, <1>3, HookFacts DEF TraceTypes
<1>8. (Known(t)' => Known(t)) /\ Ends(t)' = Ends(t)
    BY <1>3, <1>4 DEF Known, Ends, Logged
<1>9. Ends(t) # {}
    BY <1>0, <1>1, <1>2 DEF TraceSound, EndedOnce
<1>10. TraceSites(t)' /\ Placed(t)'
    BY <1>0, <1>1, <1>2, <1>3, <1>4, <1>7, <1>8 DEF TraceSound, TraceSites, Placed
<1>11. EndedOnce(t)'
    BY <1>1, <1>2, <1>7, <1>8, <1>9 DEF TraceSound, EndedOnce
<1>12. PastFixed(t)
    <2>1. \A s \in Spans : CallOf(s)' = CallOf(s)
        BY <1>3 DEF CallOf
    <2> QED BY <1>3, <1>6, <2>1, PastStays DEF SpansOf
<1>13. TerminalKnows(t)'
    <2>1. Failed(t)' = Failed(t) /\ ToolsBefore(t)' = ToolsBefore(t)
        BY <1>12, PastFixedMeans
    <2>2. \A g \in before'[t] : Returned(g)' /\ TraceHooked(g) = t
        BY <1>2, <1>12 DEF TraceSound, TerminalKnows, PastFixed, Returned
    <2> QED BY <1>1, <1>2, <1>3, <1>7, <1>8, <2>1, <2>2 DEF TraceSound, TerminalKnows, Knows
<1> QED BY <1>0, <1>1, <1>3, <1>5, <1>6, <1>8, <1>10, <1>11, <1>13, EndStepKeeps

(* on_trace_end, of a trace that is known and of one that is not.          *)
LEMMA TraceEndKeeps ==
    ASSUME TracesInv, NEW t \in Traces, TraceEnd(t)
    PROVE  TracesInv'
<1> DEFINE h == <<"end", t>>
<1>0. TraceTypes /\ TraceSound(t) /\ h \in Hooks /\ h \in HooksOf(t) /\ TraceHooked(h) = t
    BY HookFacts DEF TracesInv, HooksOf
<1>1. hook[h] = "idle" /\ hook[<<"start", t>>] = "done"
    BY DEF TraceEnd, Called, Returned
<1>2. Ends(t) = {} /\ Ends(t)' = Ends(t) /\ log' = log /\ kind' = kind /\ outcome' = outcome
    BY <1>0, <1>1 DEF TraceEnd, TraceSound, EndedOnce, Ends, Logged, spans
<1>3. /\ before' = [before EXCEPT ![t] = {g \in Hooks : Returned(g) /\ TraceHooked(g) = t}]
      /\ before'[t] = {g \in Hooks : Returned(g) /\ TraceHooked(g) = t}
      /\ \A u \in Traces \ {t} : before'[u] = before[u]
      /\ before' \in [Traces -> SUBSET Hooks]
    BY <1>0 DEF TraceEnd, TraceTypes
<1>4. PICK w \in {"done", "ensure"} :
          /\ hook' = [hook EXCEPT ![h] = w] /\ say' = say /\ ctx' = ctx
          /\ runs' \in Seq(Traces) /\ pruned' \in Seq(Traces)
          /\ Known(t)' => Known(t)
          /\ t \notin ToSet(runs') \/ t \notin ToSet(pruned')
          /\ t \in ToSet(pruned') => t \in ToSet(pruned)
          /\ \A u \in Traces \ {t} : /\ u \in ToSet(runs') => u \in ToSet(runs)
                                     /\ u \in ToSet(pruned') => u \in ToSet(pruned)
          /\ w = "done" => ~Known(t)
          /\ w = "ensure" => Known(t)
    <2>1. CASE Ignored(h)
        <3>1. hook' = [hook EXCEPT ![h] = "done"] /\ UNCHANGED <<runs, pruned, ctx, say>> /\ ~Known(t)
            BY <1>0, <2>1 DEF Ignored, To
        <3> HIDE DEF h
        <3> QED BY <1>0, <3>1 DEF TraceTypes, Known
    <2>2. CASE ~Ignored(h)
        <3>1. /\ Known(t) /\ Lookup(t) /\ ctx' = [ctx EXCEPT ![t] = Found(t)]
              /\ hook' = [hook EXCEPT ![h] = "ensure"] /\ say' = say
            BY <2>2 DEF TraceEnd, To
        <3>2. ctx' = ctx
            BY <1>0, <3>1, FoundIsKept DEF TraceTypes
        <3>3. /\ runs' \in Seq(Traces) /\ pruned' \in Seq(Traces)
              /\ t \in ToSet(runs') /\ t \notin ToSet(pruned')
              /\ \A u \in Traces \ {t} : /\ u \in ToSet(runs') => u \in ToSet(runs)
                                         /\ u \in ToSet(pruned') => u \in ToSet(pruned)
            BY <1>0, <3>1, LookupFinds
        <3> HIDE DEF h
        <3> QED BY <3>1, <3>2, <3>3
    <2> QED BY <2>1, <2>2
<1> HIDE DEF h
<1>5. TraceTypes'
    BY <1>0, <1>2, <1>3, <1>4 DEF TraceTypes, Where
<1>6. ActsOn(t, h, w)
    BY <1>0, <1>1, <1>2, <1>3, <1>4 DEF ActsOn
<1>7. h = <<"end", t>> /\ <<"start", t>> # h /\ <<"start", t>> \in Hooks
    BY HookFacts DEF h
<1>8. hook'[h] = w /\ hook'[<<"start", t>>] = "done"
    BY <1>0, <1>1, <1>4, <1>7 DEF TraceTypes
<1>9. TraceSites(t)' /\ Placed(t)'
    <2>1. TraceSites(t)'
        BY <1>7, <1>8 DEF TraceSites
    <2>2. t \in ToSet(pruned') => ctx'[t].open = 0
        BY <1>0, <1>4 DEF TraceSound, Placed
    <2>3. t \notin ToSet(runs') \/ t \notin ToSet(pruned')
        BY <1>4
    <2>4. Placed(t)'
        BY <1>8, <2>2, <2>3 DEF Placed
    <2> QED BY <2>1, <2>4
<1>10. EndedOnce(t)'
    BY <1>2, <1>4, <1>7, <1>8 DEF EndedOnce
<1>11. TerminalKnows(t)'
    <2>1. \A g \in before'[t] : Returned(g)' /\ TraceHooked(g) = t
        <3>1. \A g \in before'[t] : g \in Hooks /\ g # h /\ hook[g] = "done" /\ TraceHooked(g) = t
            BY <1>1, <1>3 DEF Returned
        <3>2. \A g \in Hooks : g # h => hook'[g] = hook[g]
            BY <1>0, <1>4 DEF TraceTypes
        <3> QED BY <3>1, <3>2 DEF Returned
    <2>2. ASSUME w = "ensure" PROVE ctx'[t].tools >= Cardinality(ToolsBefore(t)')
        <3>1. ToolsBefore(t)' \in SUBSET Functions(t)
            BY <1>2 DEF ToolsBefore, Functions, SpansOf
        <3>2. IsFiniteSet(Functions(t)) /\ Cardinality(Functions(t)) \in Nat
            <4>1. Functions(t) \in SUBSET Spans
                BY DEF Functions, SpansOf
            <4> QED BY <4>1, TraceRunsAssumption, FS_Subset, FS_CardinalityType
        <3>3. /\ Cardinality(ToolsBefore(t)') <= Cardinality(Functions(t))
              /\ Cardinality(ToolsBefore(t)') \in Nat
            BY <3>1, <3>2, FS_Subset, FS_CardinalityType
        <3>4. ctx[t].tools >= Cardinality(Functions(t)) /\ ctx[t].tools \in Nat /\ ctx' = ctx
            BY <1>0, <1>4, <2>2 DEF TraceSound, Counted, TraceTypes, Contexts
        <3> QED BY <3>2, <3>3, <3>4
    <2> QED BY <1>2, <1>4, <1>7, <1>8, <2>1, <2>2 DEF TerminalKnows
<1> QED BY <1>1, <1>2, <1>4, <1>5, <1>6, <1>7, <1>9, <1>10, <1>11, EndStepKeeps

-----------------------------------------------------------------------------
(* A step of a span's hook, as the trace's other spans see it.             *)
LEMMA OtherSpansKept ==
    ASSUME TracesInv, TraceTypes', NEW t \in Traces, NEW s \in SpansOf(t),
           NEW h \in {<<"open", s>>, <<"close", s>>}, NEW w, ActsOn(t, h, w),
           log' = log \/ \E e : AppendedTo(t, e) /\ e.span = s, ContextGrows(t),
           \A r \in SpansOf(t) \ {s} :
               /\ kind'[r] = kind[r] /\ outcome'[r] = outcome[r]
               /\ r \in DOMAIN ctx'[t].steps <=> r \in DOMAIN ctx[t].steps
               /\ r \in DOMAIN ctx[t].steps => ctx'[t].steps[r] = ctx[t].steps[r],
           Known(t)' => Known(t)
    PROVE  \A r \in SpansOf(t) \ {s} : SpanSound(r)' /\ StepsOf(r)' = StepsOf(r)
<1> SUFFICES ASSUME NEW r \in SpansOf(t) \ {s} PROVE SpanSound(r)' /\ StepsOf(r)' = StepsOf(r)
    OBVIOUS
<1>1. r \in Spans /\ r \in SpansOf(t) /\ h # <<"open", r>> /\ h # <<"close", r>>
    BY DEF SpansOf
<1>2. NothingSaidOf(t, r)
    BY DEF NothingSaidOf
<1>3. TraceTypes /\ SpanSound(r)
    BY <1>1 DEF TracesInv
<1>4. SpanCalm(r)
    BY <1>1, <1>2, <1>3, SpanUntouched
<1> QED BY <1>1, <1>3, <1>4, SpanCalmKeeps

(* An event is emitted: a call, a response or the terminal.                *)
LEMMA EmitSteps ==
    ASSUME TracesInv, NEW h \in Hooks, Emit(h)
    PROVE  LET t == TraceHooked(h)
               w == IF h[1] = "end" THEN "clean" ELSE "done"
           IN /\ hook[h] = "emit" /\ ActsOn(t, h, w) /\ w \in {"clean", "done"}
              /\ say[h] \in Events => AppendedTo(t, say[h]) /\ TraceTypes'
              /\ UNCHANGED <<runs, pruned, ctx, kind, outcome, before>>
              /\ ContextGrows(t) /\ Known(t)' = Known(t)
<1> DEFINE t == TraceHooked(h)
           w == IF h[1] = "end" THEN "clean" ELSE "done"
<1>1. TraceTypes /\ t \in Traces /\ h \in HooksOf(t) /\ hook[h] = "emit" /\ w \in {"clean", "done"}
    BY HookFacts DEF TracesInv, HooksOf, Emit
<1>2. /\ hook' = [hook EXCEPT ![h] = w]
      /\ log' = [log EXCEPT ![t] = Append(@, say[h])]
      /\ say' = [say EXCEPT ![h] = Nothing]
      /\ UNCHANGED <<runs, pruned, ctx, kind, outcome, before>>
    BY DEF Emit, To, spans
<1> HIDE DEF t, w
<1>3. \A u \in Traces \ {t} : log'[u] = log[u] /\ ctx'[u] = ctx[u] /\ before'[u] = before[u]
    BY <1>1, <1>2 DEF TraceTypes
<1>4. ActsOn(t, h, w)
    <2>1. \A g \in Hooks \ {h} : say'[g] = say[g]
        BY <1>1, <1>2 DEF TraceTypes
    <2> QED BY <1>1, <1>2, <1>3, <2>1 DEF ActsOn
<1>5. ASSUME say[h] \in Events PROVE AppendedTo(t, say[h]) /\ TraceTypes'
    <2>1. AppendedTo(t, say[h])
        BY <1>1, <1>2, <1>5, AppendKeeps
    <2>2. log' \in [Traces -> Seq(Events)]
        BY <1>1, <1>2, <1>5 DEF TraceTypes
    <2> QED BY <1>1, <1>2, <2>1, <2>2 DEF TraceTypes, Where
<1>6. ContextGrows(t)
    BY <1>1, <1>2 DEF ContextGrows, TraceTypes, Contexts
<1>7. Known(t)' = Known(t)
    BY <1>2 DEF Known
<1> QED BY <1>1, <1>2, <1>4, <1>5, <1>6, <1>7 DEF t, w

LEMMA EmitCallKeeps ==
    ASSUME TracesInv, NEW s \in Spans, Emit(<<"open", s>>)
    PROVE  TracesInv'
<1> DEFINE t == TraceOf[s]
           h == <<"open", s>>
           e == say[h]
           n == Len(log[t]) + 1
<1>0. /\ h \in Hooks /\ TraceHooked(h) = t /\ t \in Traces /\ s \in SpansOf(t)
      /\ h \in {<<"open", s>>, <<"close", s>>} /\ h[1] # "end"
      /\ <<"start", t>> \in Hooks /\ <<"close", s>> \in Hooks
    BY HookFacts DEF SpansOf
<1>1. /\ hook[h] = "emit" /\ ActsOn(t, h, "done") /\ ContextGrows(t)
      /\ UNCHANGED <<runs, pruned, ctx, kind, outcome, before>> /\ Known(t)' = Known(t)
      /\ e \in Events => AppendedTo(t, e) /\ TraceTypes'
    BY <1>0, EmitSteps
<1>2. TraceTypes /\ TraceSound(t) /\ SpanSound(s) /\ hook[<<"close", s>>] = "idle" /\ Calling(s)
    BY <1>0, <1>1 DEF TracesInv, SpanSound, SpanSites, Calling
<1>3. e.what \in CallNames /\ e.span = s /\ CallOf(s) = {} /\ ResponseOf(s) = {}
    BY <1>2 DEF SpanSound, CalledOnce, AnsweredOnce
<1>4. e \in Events
    BY <1>0, <1>2, <1>3 DEF TraceTypes, Nothing, CallNames
<1>5. AppendedTo(t, e) /\ TraceTypes'
    BY <1>1, <1>4
<1>6. e.what \notin ResponseNames
    BY <1>3 DEF CallNames, ResponseNames
<1>7. /\ hook'[h] = "done" /\ hook'[<<"close", s>>] = "idle"
      /\ hook'[<<"start", t>>] = hook[<<"start", t>>]
    <2>1. h # <<"close", s>> /\ h # <<"start", t>>
        OBVIOUS
    <2> QED BY <1>0, <1>1, <1>2, <2>1, HookMoves
<1>8. CallOf(s)' = {n} /\ ResponseOf(s)' = {} /\ log'[t][n] = e
    <2>1. /\ CallOf(s)' = CallOf(s)
                \union (IF TraceOf[s] = t /\ e.what \in CallNames /\ e.span = s
                        THEN {Len(log[t]) + 1} ELSE {})
          /\ ResponseOf(s)' = ResponseOf(s)
                \union (IF TraceOf[s] = t /\ e.what \in ResponseNames /\ e.span = s
                        THEN {Len(log[t]) + 1} ELSE {})
        BY <1>0, <1>5, CallsAfter
    <2> QED BY <1>3, <1>5, <1>6, <2>1 DEF AppendedTo
<1>9. \A r \in SpansOf(t) \ {s} : CallOf(r)' = CallOf(r)
    <2>1. ASSUME NEW r \in SpansOf(t) \ {s} PROVE CallOf(r)' = CallOf(r)
        <3>1. CallOf(r)' = CallOf(r)
                \union (IF TraceOf[r] = t /\ e.what \in CallNames /\ e.span = r
                        THEN {Len(log[t]) + 1} ELSE {})
            BY <1>0, <1>5, CallsAfter DEF SpansOf
        <3> QED BY <1>3, <3>1
    <2> QED BY <2>1
<1> HIDE DEF e, n, t
<1>10. ~Calling(s)' /\ IsCalled(s) /\ IsCalled(s)'
    BY <1>2, <1>7, <1>8 DEF Calling, IsCalled
<1>11. StepsOf(s) = {e.step} /\ StepsOf(s)' = {e.step}
    <2>1. TraceOf[s] = t /\ say[<<"open", s>>] = e
        BY DEF t, e
    <2> QED BY <1>2, <1>3, <1>8, <1>10, <2>1 DEF StepsOf
<1>12. TraceSound(t)'
    <2>1. \A r \in SpansOf(t) :
               /\ hook[<<"close", r>>] = "done" => outcome'[r] = outcome[r] /\ CallOf(r)' = CallOf(r)
               /\ hook[<<"open", r>>] = "done" => kind'[r] = kind[r]
        BY <1>1, <1>2, <1>9
    <2>2. TraceSites(t)' /\ StartedOnce(t)' /\ EndedOnce(t)' /\ TerminalKnows(t)'
        BY <1>0, <1>1, <1>3, <1>5, <2>1, SpanHookTrace
    <2>3. Placed(t)'
        BY <1>1, <1>2, <1>7 DEF TraceSound, Placed
    <2>4. Counted(t)'
        BY <1>0, <1>1, <1>2, <1>5, CountedKept DEF TraceSound, ContextGrows
    <2> QED BY <2>2, <2>3, <2>4 DEF TraceSound
<1>13. SpanSound(s)'
    <2>0. TraceOf[s] = t
        BY DEF t
    <2>1. SpanSites(s)'
        BY <1>1, <1>2, <1>7, <2>0 DEF SpanSound, SpanSites
    <2>2. CalledOnce(s)'
        BY <1>1, <1>2, <1>7, <1>8, <1>10, <1>11, <2>0 DEF SpanSound, CalledOnce
    <2>3. Registered(s)'
        BY <1>1, <1>2, <1>7, <1>10, <1>11, <2>0 DEF SpanSound, Registered
    <2>4. AnsweredOnce(s)'
        BY <1>7, <1>8 DEF AnsweredOnce, Answering
    <2>5. FailureKept(s)'
        BY <1>1, <1>2, <2>0 DEF SpanSound, SpanSites, FailureKept
    <2> QED BY <2>1, <2>2, <2>3, <2>4, <2>5 DEF SpanSound
<1>14. \A r \in SpansOf(t) \ {s} : SpanSound(r)' /\ StepsOf(r)' = StepsOf(r)
    BY <1>0, <1>1, <1>3, <1>5, OtherSpansKept
<1>15. \A r \in SpansOf(t) : SpanSound(r)' /\ StepsOf(r)' \subseteq StepsOf(r)
    BY <1>11, <1>13, <1>14
<1>16. \A u \in Traces \ {t} : TraceCalm(u)
    BY <1>0, <1>1, OthersCalm
<1> QED BY <1>0, <1>5, <1>12, <1>15, <1>16, OneTraceActs

LEMMA EmitResponseKeeps ==
    ASSUME TracesInv, NEW s \in Spans, Emit(<<"close", s>>)
    PROVE  TracesInv'
<1> DEFINE t == TraceOf[s]
           h == <<"close", s>>
           e == say[h]
           n == Len(log[t]) + 1
<1>0. /\ h \in Hooks /\ TraceHooked(h) = t /\ t \in Traces /\ s \in SpansOf(t)
      /\ h \in {<<"open", s>>, <<"close", s>>} /\ h[1] # "end"
      /\ <<"start", t>> \in Hooks /\ <<"open", s>> \in Hooks
    BY HookFacts DEF SpansOf
<1>1. /\ hook[h] = "emit" /\ ActsOn(t, h, "done") /\ ContextGrows(t)
      /\ UNCHANGED <<runs, pruned, ctx, kind, outcome, before>> /\ Known(t)' = Known(t)
      /\ e \in Events => AppendedTo(t, e) /\ TraceTypes'
    BY <1>0, EmitSteps
<1>2. TraceTypes /\ TraceSound(t) /\ SpanSound(s) /\ hook[<<"open", s>>] = "done" /\ Answering(s)
    BY <1>0, <1>1 DEF TracesInv, SpanSound, SpanSites, Answering
<1>3. /\ e.what \in ResponseNames /\ e.span = s /\ ResponseOf(s) = {}
      /\ \A i \in CallOf(s) : log[t][i].step = e.step
    BY <1>2 DEF SpanSound, AnsweredOnce
<1>4. e \in Events
    BY <1>0, <1>2, <1>3 DEF TraceTypes, Nothing, ResponseNames
<1>5. AppendedTo(t, e) /\ TraceTypes'
    BY <1>1, <1>4
<1>6. e.what \notin CallNames
    BY <1>3 DEF CallNames, ResponseNames
<1>7. /\ hook'[h] = "done" /\ hook'[<<"open", s>>] = "done"
      /\ hook'[<<"start", t>>] = hook[<<"start", t>>] /\ say'[<<"open", s>>] = say[<<"open", s>>]
    <2>1. h # <<"open", s>> /\ h # <<"start", t>>
        OBVIOUS
    <2>2. \A g \in Hooks \ {h} : say'[g] = say[g]
        BY <1>1 DEF ActsOn
    <2>3. hook'[h] = "done" /\ \A g \in Hooks \ {h} : hook'[g] = hook[g]
        BY <1>0, <1>1, <1>2, HookMoves
    <2> QED BY <1>0, <1>2, <2>1, <2>2, <2>3
<1>8. CallOf(s)' = CallOf(s) /\ ResponseOf(s)' = {n} /\ log'[t][n] = e
    <2>1. /\ CallOf(s)' = CallOf(s)
                \union (IF TraceOf[s] = t /\ e.what \in CallNames /\ e.span = s
                        THEN {Len(log[t]) + 1} ELSE {})
          /\ ResponseOf(s)' = ResponseOf(s)
                \union (IF TraceOf[s] = t /\ e.what \in ResponseNames /\ e.span = s
                        THEN {Len(log[t]) + 1} ELSE {})
        BY <1>0, <1>5, CallsAfter
    <2> QED BY <1>3, <1>5, <1>6, <2>1 DEF AppendedTo
<1>9. /\ \A r \in SpansOf(t) : CallOf(r)' = CallOf(r)
      /\ \A i \in CallOf(s) : log'[t][i] = log[t][i] /\ i < n
    <2>1. ASSUME NEW r \in SpansOf(t) PROVE CallOf(r)' = CallOf(r)
        <3>1. CallOf(r)' = CallOf(r)
                \union (IF TraceOf[r] = t /\ e.what \in CallNames /\ e.span = r
                        THEN {Len(log[t]) + 1} ELSE {})
            BY <1>0, <1>5, CallsAfter DEF SpansOf
        <3> QED BY <1>6, <3>1
    <2>2. \A i \in CallOf(s) : i \in DOMAIN log[t]
        BY DEF CallOf
    <2> QED BY <1>5, <2>1, <2>2 DEF AppendedTo
<1>10. TraceOf[s] = t
    OBVIOUS
<1> HIDE DEF e, n, t
<1>11. ~Calling(s) /\ ~Calling(s)' /\ (IsCalled(s)' <=> IsCalled(s))
    BY <1>2, <1>7, <1>8 DEF Calling, IsCalled
<1>12. StepsOf(s)' = StepsOf(s)
    BY <1>8, <1>9, <1>10, <1>11 DEF StepsOf
<1>13. TraceSound(t)'
    <2>1. \A r \in SpansOf(t) :
               /\ hook[<<"close", r>>] = "done" => outcome'[r] = outcome[r] /\ CallOf(r)' = CallOf(r)
               /\ hook[<<"open", r>>] = "done" => kind'[r] = kind[r]
        BY <1>1, <1>9
    <2>2. TraceSites(t)' /\ StartedOnce(t)' /\ EndedOnce(t)' /\ TerminalKnows(t)'
        BY <1>0, <1>1, <1>3, <1>5, <2>1, SpanHookTrace
    <2>3. Placed(t)'
        BY <1>1, <1>2, <1>7 DEF TraceSound, Placed
    <2>4. Counted(t)'
        BY <1>0, <1>1, <1>2, <1>5, CountedKept DEF TraceSound, ContextGrows
    <2> QED BY <2>2, <2>3, <2>4 DEF TraceSound
<1>14. SpanSound(s)'
    <2>1. SpanSites(s)'
        BY <1>1, <1>2, <1>7, <1>10 DEF SpanSound, SpanSites
    <2>2. CalledOnce(s)'
        BY <1>1, <1>2, <1>7, <1>8, <1>10, <1>11, <1>12 DEF SpanSound, CalledOnce
    <2>3. Registered(s)'
        BY <1>1, <1>2, <1>7, <1>10, <1>11, <1>12 DEF SpanSound, Registered
    <2>4. AnsweredOnce(s)'
        BY <1>2, <1>3, <1>7, <1>8, <1>9, <1>10 DEF SpanSound, AnsweredOnce, Answering
    <2>5. FailureKept(s)'
        BY <1>1, <1>2, <1>8, <1>10 DEF SpanSound, FailureKept
    <2> QED BY <2>1, <2>2, <2>3, <2>4, <2>5 DEF SpanSound
<1>15. \A r \in SpansOf(t) \ {s} : SpanSound(r)' /\ StepsOf(r)' = StepsOf(r)
    BY <1>0, <1>1, <1>3, <1>5, OtherSpansKept
<1>16. \A r \in SpansOf(t) : SpanSound(r)' /\ StepsOf(r)' \subseteq StepsOf(r)
    BY <1>12, <1>14, <1>15
<1>17. \A u \in Traces \ {t} : TraceCalm(u)
    BY <1>0, <1>1, OthersCalm
<1> QED BY <1>0, <1>5, <1>13, <1>16, <1>17, OneTraceActs

LEMMA EmitTerminalKeeps ==
    ASSUME TracesInv, NEW t \in Traces, Emit(<<"end", t>>)
    PROVE  TracesInv'
<1> DEFINE h == <<"end", t>>
           e == say[h]
           n == Len(log[t]) + 1
<1>0. /\ h \in Hooks /\ TraceHooked(h) = t /\ h[1] = "end"
      /\ h \in {<<"start", t>>, <<"end", t>>} /\ <<"start", t>> \in Hooks
    BY HookFacts
<1>1. /\ hook[h] = "emit" /\ ActsOn(t, h, "clean") /\ ContextGrows(t)
      /\ UNCHANGED <<runs, pruned, ctx, kind, outcome, before>> /\ Known(t)' = Known(t)
      /\ e \in Events => AppendedTo(t, e) /\ TraceTypes'
    BY <1>0, EmitSteps
<1>2. TraceTypes /\ TraceSound(t)
    BY DEF TracesInv
<1>3. e.what \in EndNames /\ Ends(t) = {} /\ Knows(t, e)
    BY <1>1, <1>2 DEF TraceSound, EndedOnce, TerminalKnows
<1>4. e \in Events
    BY <1>0, <1>2, <1>3 DEF TraceTypes, Nothing, EndNames
<1>5. AppendedTo(t, e) /\ TraceTypes'
    BY <1>1, <1>4
<1>6. e.what \notin CallNames \union ResponseNames /\ e.what # "run.started"
    BY <1>3 DEF CallNames, ResponseNames, EndNames
<1>7. hook'[h] = "clean" /\ hook'[<<"start", t>>] = hook[<<"start", t>>]
    <2>1. h # <<"start", t>>
        OBVIOUS
    <2> QED BY <1>0, <1>1, <1>2, <2>1, HookMoves
<1>8. Ends(t)' = {n} /\ log'[t][n] = e /\ Logged(t, "run.started")' = Logged(t, "run.started")
    <2>1. Logged(t, "run.completed")' = Logged(t, "run.completed")
              \union (IF e.what = "run.completed" THEN {Len(log[t]) + 1} ELSE {})
        BY <1>5, LoggedAfter
    <2>2. Logged(t, "run.errored")' = Logged(t, "run.errored")
              \union (IF e.what = "run.errored" THEN {Len(log[t]) + 1} ELSE {})
        BY <1>5, LoggedAfter
    <2>3. Logged(t, "run.started")' = Logged(t, "run.started")
              \union (IF e.what = "run.started" THEN {Len(log[t]) + 1} ELSE {})
        BY <1>5, LoggedAfter
    <2> QED BY <1>3, <1>5, <1>6, <2>1, <2>2, <2>3 DEF Ends, EndNames, AppendedTo
<1>9. ASSUME NEW s \in SpansOf(t) PROVE CallOf(s)' = CallOf(s)
    <2>1. CallOf(s)' = CallOf(s)
              \union (IF TraceOf[s] = t /\ e.what \in CallNames /\ e.span = s
                      THEN {Len(log[t]) + 1} ELSE {})
        BY <1>5, CallsAfter DEF SpansOf
    <2> QED BY <1>6, <2>1
<1>10. PastFixed(t)
    BY <1>1, <1>9, PastStays
<1> HIDE DEF e, n
<1>11. TraceSites(t)' /\ Placed(t)'
    BY <1>1, <1>2, <1>7 DEF TraceSound, TraceSites, Placed
<1>12. Counted(t)'
    BY <1>1, <1>2, <1>5, CountedKept DEF TraceSound, ContextGrows
<1>13. StartedOnce(t)'
    BY <1>0, <1>1, <1>2, <1>8, HookMoves, StartedKept DEF TraceSound
<1>14. EndedOnce(t)'
    BY <1>7, <1>8 DEF EndedOnce
<1>15. TerminalKnows(t)'
    <2>1. Failed(t)' = Failed(t) /\ ToolsBefore(t)' = ToolsBefore(t)
        BY <1>10, PastFixedMeans
    <2>2. \A g \in before'[t] : Returned(g)' /\ TraceHooked(g) = t
        BY <1>2, <1>10 DEF TraceSound, TerminalKnows, PastFixed, Returned
    <2>3. \A i \in Ends(t)' : /\ Failed(t)' # {} => log'[t][i].what = "run.errored"
                              /\ log'[t][i].tools >= Cardinality(ToolsBefore(t)')
        BY <1>3, <1>8, <2>1 DEF Knows
    <2> QED BY <1>7, <2>2, <2>3 DEF TerminalKnows, Knows
<1>16. \A s \in SpansOf(t) : SpanSound(s)' /\ StepsOf(s)' = StepsOf(s)
    BY <1>0, <1>1, <1>5, <1>6, TraceHookSpans
<1>17. \A u \in Traces \ {t} : TraceCalm(u)
    BY <1>1, OthersCalm
<1>18. TraceSound(t)'
    BY <1>11, <1>12, <1>13, <1>14, <1>15 DEF TraceSound
<1> QED BY <1>5, <1>16, <1>17, <1>18, OneTraceActs

LEMMA EmitKeeps ==
    ASSUME TracesInv, NEW h \in Hooks, Emit(h)
    PROVE  TracesInv'
<1>1. \A t \in Traces : h # <<"start", t>>
    BY DEF Emit, TracesInv, TraceSound, TraceSites
<1> QED BY <1>1, HookFacts, EmitCallKeeps, EmitResponseKeeps, EmitTerminalKeeps

-----------------------------------------------------------------------------
(* What on_span_start and on_span_end make of a context.                   *)
LEMMA OpenedContext ==
    ASSUME NEW c \in Contexts, NEW s \in Spans, NEW k
    PROVE  LET d == Opened(c, s, k)
               more == IF k = "function" THEN 1 ELSE 0
           IN /\ d \in Contexts /\ d.started = c.started /\ d.hadError = c.hadError
              /\ ~Emits(c, k) => /\ d.step = c.step /\ d.tools = c.tools
                                 /\ d.open = c.open /\ d.steps = c.steps
              /\ Emits(c, k) => /\ d.step = c.step + 1 /\ d.tools = c.tools + more
                                /\ d.open = c.open + 1
                                /\ DOMAIN d.steps = DOMAIN c.steps \union {s}
                                /\ d.steps[s] = c.step + 1
                                /\ \A r \in DOMAIN c.steps : r # s => d.steps[r] = c.steps[r]
<1>1. PICK D \in SUBSET Spans : c.steps \in [D -> Nat]
    BY DEF Contexts
<1>2. /\ c.step \in Nat /\ c.tools \in Nat /\ c.open \in Nat
      /\ c.started \in BOOLEAN /\ c.hadError \in BOOLEAN /\ c.skip \in BOOLEAN
      /\ c = [step |-> c.step, tools |-> c.tools, started |-> c.started,
              hadError |-> c.hadError, skip |-> c.skip, open |-> c.open, steps |-> c.steps]
    BY DEF Contexts
<1>7. [c EXCEPT !.skip = FALSE] =
          [step |-> c.step, tools |-> c.tools, started |-> c.started,
           hadError |-> c.hadError, skip |-> FALSE, open |-> c.open, steps |-> c.steps]
    <2> DEFINE off == FALSE
    <2> HIDE DEF off
    <2>1. [c EXCEPT !.skip = off] =
              [step |-> c.step, tools |-> c.tools, started |-> c.started,
               hadError |-> c.hadError, skip |-> off, open |-> c.open, steps |-> c.steps]
        BY DEF Contexts
    <2> QED BY <2>1 DEF off
<1> DEFINE n == c.step + 1
           f == [r \in DOMAIN c.steps \union {s} |-> IF r = s THEN n ELSE c.steps[r]]
<1>3. f \in [D \union {s} -> Nat] /\ D \union {s} \in SUBSET Spans
    BY <1>1, <1>2
<1>4. /\ DOMAIN f = DOMAIN c.steps \union {s} /\ f[s] = n
      /\ \A r \in DOMAIN c.steps : r # s => f[r] = c.steps[r]
    OBVIOUS
<1>5. CASE ~Emits(c, k)
    <2>1. Opened(c, s, k) = [step |-> c.step, tools |-> c.tools, started |-> c.started,
              hadError |-> c.hadError, skip |-> FALSE, open |-> c.open, steps |-> c.steps]
        BY <1>2, <1>5 DEF Opened
    <2> QED BY <1>1, <1>2, <1>5, <2>1 DEF Contexts
<1>6. CASE Emits(c, k)
    <2>1. Opened(c, s, k) = [step |-> n, tools |-> c.tools + (IF k = "function" THEN 1 ELSE 0),
              started |-> c.started, hadError |-> c.hadError, skip |-> FALSE,
              open |-> c.open + 1, steps |-> f]
        <3> DEFINE b == [c EXCEPT !.skip = FALSE]
                   more == IF k = "function" THEN 1 ELSE 0
                   tools == IF k = "function" THEN c.tools + 1 ELSE c.tools
        <3>1. b = [step |-> c.step, tools |-> c.tools, started |-> c.started,
                   hadError |-> c.hadError, skip |-> FALSE, open |-> c.open, steps |-> c.steps]
            BY <1>7
        <3>2. b.open = c.open /\ b.tools = c.tools /\ b.steps = c.steps
            BY <3>1
        <3>3. Opened(c, s, k) = [b EXCEPT !.step = n, !.open = b.open + 1,
                  !.tools = IF k = "function" THEN b.tools + 1 ELSE b.tools,
                  !.steps = [r \in DOMAIN b.steps \union {s} |->
                                IF r = s THEN n ELSE b.steps[r]]]
            BY <1>6, <3>2 DEF Opened
        <3> HIDE DEF b
        <3>4. Opened(c, s, k) =
                  [b EXCEPT !.step = n, !.open = c.open + 1, !.tools = tools, !.steps = f]
            BY <3>2, <3>3
        <3>5. tools = c.tools + more
            BY <1>2
        <3> HIDE DEF f, tools, more, n
        <3>6. Opened(c, s, k) = [step |-> n, tools |-> tools,
                  started |-> c.started, hadError |-> c.hadError, skip |-> FALSE,
                  open |-> c.open + 1, steps |-> f]
            BY <3>1, <3>4
        <3> QED BY <3>5, <3>6 DEF more
    <2> HIDE DEF f
    <2>2. Opened(c, s, k) \in Contexts
        BY <1>2, <1>3, <2>1 DEF Contexts
    <2> QED BY <1>4, <1>6, <2>1, <2>2
<1> QED BY <1>5, <1>6

LEMMA ClosedContext ==
    ASSUME NEW c \in Contexts, NEW s \in Spans, NEW how,
           s \in DOMAIN c.steps => c.open # 0
    PROVE  LET d == Closed(c, s, how)
           IN /\ d \in Contexts /\ d.started = c.started /\ d.step = c.step /\ d.tools = c.tools
              /\ c.hadError \/ how = "error" => d.hadError
              /\ s \notin DOMAIN c.steps => d.open = c.open /\ d.steps = c.steps
              /\ s \in DOMAIN c.steps => /\ d.open = c.open - 1
                                         /\ DOMAIN d.steps = DOMAIN c.steps \ {s}
                                         /\ \A r \in DOMAIN c.steps : r # s => d.steps[r] = c.steps[r]
<1>1. PICK D \in SUBSET Spans : c.steps \in [D -> Nat]
    BY DEF Contexts
<1>2. /\ c.step \in Nat /\ c.tools \in Nat /\ c.open \in Nat
      /\ c.started \in BOOLEAN /\ c.hadError \in BOOLEAN /\ c.skip \in BOOLEAN
      /\ c = [step |-> c.step, tools |-> c.tools, started |-> c.started,
              hadError |-> c.hadError, skip |-> c.skip, open |-> c.open, steps |-> c.steps]
    BY DEF Contexts
<1> DEFINE f == [r \in DOMAIN c.steps \ {s} |-> c.steps[r]]
<1>3. f \in [D \ {s} -> Nat] /\ D \ {s} \in SUBSET Spans
    BY <1>1
<1>4. DOMAIN f = DOMAIN c.steps \ {s} /\ \A r \in DOMAIN c.steps : r # s => f[r] = c.steps[r]
    OBVIOUS
<1> DEFINE failed == c.hadError \/ how = "error"
           skipped == IF kind[s] = "generation" THEN TRUE ELSE c.skip
<1>5. failed \in BOOLEAN /\ skipped \in BOOLEAN /\ (c.hadError \/ how = "error" => failed)
    BY <1>2
<1>6. Closed(c, s, how) =
          LET b == [c EXCEPT !.hadError = failed]
          IN IF s \notin DOMAIN c.steps THEN b
             ELSE [b EXCEPT !.open = @ - 1, !.skip = skipped, !.steps = f]
    BY <1>2 DEF Closed
<1> HIDE DEF f, failed, skipped
<1>7. CASE s \notin DOMAIN c.steps
    <2>1. Closed(c, s, how) = [step |-> c.step, tools |-> c.tools, started |-> c.started,
              hadError |-> failed, skip |-> c.skip, open |-> c.open, steps |-> c.steps]
        BY <1>2, <1>6, <1>7
    <2> QED BY <1>1, <1>2, <1>5, <1>7, <2>1 DEF Contexts
<1>8. CASE s \in DOMAIN c.steps
    <2>1. Closed(c, s, how) = [step |-> c.step, tools |-> c.tools, started |-> c.started,
              hadError |-> failed, skip |-> skipped, open |-> c.open - 1, steps |-> f]
        BY <1>2, <1>6, <1>8
    <2>2. c.open - 1 \in Nat
        BY <1>2, <1>8
    <2>3. Closed(c, s, how) \in Contexts
        BY <1>2, <1>3, <1>5, <2>1, <2>2 DEF Contexts
    <2> QED BY <1>2, <1>4, <1>5, <1>8, <2>1, <2>3
<1> QED BY <1>7, <1>8

-----------------------------------------------------------------------------
(* on_span_start: the step a call is given is one that no other call has.  *)
LEMMA SpanOpenKeeps ==
    ASSUME TracesInv, NEW s \in Spans, NEW k \in Kinds, SpanOpen(s, k)
    PROVE  TracesInv'
<1> DEFINE t == TraceOf[s]
           h == <<"open", s>>
           c == ctx[t]
           more == IF k = "function" THEN 1 ELSE 0
<1>0. /\ h \in Hooks /\ h \in HooksOf(t) /\ TraceHooked(h) = t /\ t \in Traces /\ s \in SpansOf(t)
      /\ <<"start", t>> \in Hooks /\ <<"close", s>> \in Hooks
      /\ h \in {<<"open", s>>, <<"close", s>>} /\ h # <<"close", s>> /\ h # <<"start", t>>
    BY HookFacts DEF SpansOf, HooksOf
<1>1. TraceTypes /\ TraceSound(t) /\ SpanSound(s) /\ c \in Contexts
    BY <1>0 DEF TracesInv, TraceTypes
<1>2. /\ hook[h] = "idle" /\ hook[<<"start", t>>] = "done"
      /\ log' = log /\ outcome' = outcome /\ before' = before
      /\ kind' = [kind EXCEPT ![s] = k]
    BY DEF SpanOpen, Called, Returned
<1>3. /\ hook[<<"close", s>>] = "idle" /\ kind[s] = "none" /\ outcome[s] = "none"
      /\ CallOf(s) = {} /\ ResponseOf(s) = {} /\ s \notin DOMAIN c.steps
    BY <1>1, <1>2 DEF SpanSound, SpanSites, CalledOnce, AnsweredOnce, Registered, IsCalled, Calling
<1>4. PICK w \in {"done", "ensure"}, d \in Contexts, e \in Events \union {Nothing} :
          /\ hook' = [hook EXCEPT ![h] = w] /\ ctx' = [ctx EXCEPT ![t] = d]
          /\ say' = [say EXCEPT ![h] = e]
          /\ runs' \in Seq(Traces) /\ pruned' \in Seq(Traces)
          /\ Known(t)' => Known(t)
          /\ t \notin ToSet(runs') \/ t \notin ToSet(pruned')
          /\ t \in ToSet(pruned') => t \in ToSet(pruned) /\ w = "done"
          /\ \A u \in Traces \ {t} : /\ u \in ToSet(runs') => u \in ToSet(runs)
                                     /\ u \in ToSet(pruned') => u \in ToSet(pruned)
          /\ d.started = c.started /\ d.hadError = c.hadError
          /\ w = "done" => /\ d.step = c.step /\ d.tools = c.tools
                           /\ d.open = c.open /\ d.steps = c.steps
                           /\ Known(t) => k # "function"
          /\ w = "ensure" => /\ d.step = c.step + 1 /\ d.tools = c.tools + more
                             /\ d.open = c.open + 1
                             /\ DOMAIN d.steps = DOMAIN c.steps \union {s}
                             /\ d.steps[s] = c.step + 1
                             /\ \A r \in DOMAIN c.steps : r # s => d.steps[r] = c.steps[r]
                             /\ e.what \in CallNames /\ e.span = s /\ e.step = c.step + 1
    <2>1. CASE Ignored(h)
        <3>1. hook' = [hook EXCEPT ![h] = "done"] /\ UNCHANGED <<runs, pruned, ctx, say>> /\ ~Known(t)
            BY <1>0, <2>1 DEF Ignored, To
        <3>2. ctx' = [ctx EXCEPT ![t] = c] /\ say' = [say EXCEPT ![h] = say[h]]
            BY <1>0, <1>1, <3>1 DEF TraceTypes
        <3>3. say[h] \in Events \union {Nothing}
            BY <1>0, <1>1 DEF TraceTypes
        <3>4. runs \in Seq(Traces) /\ pruned \in Seq(Traces)
            BY <1>1 DEF TraceTypes
        <3> HIDE DEF h, t, c, more
        <3> QED BY <1>1, <3>1, <3>2, <3>3, <3>4 DEF Known
    <2>2. CASE ~Ignored(h)
        <3>1. /\ Known(t) /\ Lookup(t)
              /\ ctx' = [ctx EXCEPT ![t] = Opened(Found(t), s, k)]
              /\ say' = [say EXCEPT ![h] = IF ~Emits(Found(t), k) THEN Nothing ELSE
                           [what |-> CalledName(k), span |-> s, step |-> Found(t).step + 1]]
              /\ hook' = [hook EXCEPT ![h] = IF Emits(Found(t), k) THEN "ensure" ELSE "done"]
            BY <2>2 DEF SpanOpen, To
        <3>2. Found(t) = c
            BY <1>0, <1>1, <3>1, FoundIsKept
        <3>3. /\ runs' \in Seq(Traces) /\ pruned' \in Seq(Traces)
              /\ t \in ToSet(runs') /\ t \notin ToSet(pruned')
              /\ \A u \in Traces \ {t} : /\ u \in ToSet(runs') => u \in ToSet(runs)
                                         /\ u \in ToSet(pruned') => u \in ToSet(pruned)
            BY <1>0, <1>1, <3>1, LookupFinds
        <3> DEFINE d == Opened(c, s, k)
        <3>4. /\ d \in Contexts /\ d.started = c.started /\ d.hadError = c.hadError
              /\ ~Emits(c, k) => /\ d.step = c.step /\ d.tools = c.tools
                                 /\ d.open = c.open /\ d.steps = c.steps
              /\ Emits(c, k) => /\ d.step = c.step + 1 /\ d.tools = c.tools + more
                                /\ d.open = c.open + 1
                                /\ DOMAIN d.steps = DOMAIN c.steps \union {s}
                                /\ d.steps[s] = c.step + 1
                                /\ \A r \in DOMAIN c.steps : r # s => d.steps[r] = c.steps[r]
            BY <1>1, OpenedContext
        <3>5. ~Emits(c, k) => k # "function"
            BY DEF Emits
        <3>6. c.step + 1 \in Nat /\ CalledName(k) \in CallNames
            BY <1>1 DEF Contexts, CalledName, CallNames
        <3>7. CASE Emits(c, k)
            <4> DEFINE e == [what |-> CalledName(k), span |-> s, step |-> c.step + 1]
            <4>1. e \in Events /\ e.what \in CallNames /\ e.span = s /\ e.step = c.step + 1
                BY <3>6 DEF Events
            <4>2. /\ hook' = [hook EXCEPT ![h] = "ensure"] /\ ctx' = [ctx EXCEPT ![t] = d]
                  /\ say' = [say EXCEPT ![h] = e]
                BY <3>1, <3>2, <3>7
            <4>3. /\ d.step = c.step + 1 /\ d.tools = c.tools + more
                  /\ d.open = c.open + 1
                  /\ DOMAIN d.steps = DOMAIN c.steps \union {s}
                  /\ d.steps[s] = c.step + 1
                  /\ \A r \in DOMAIN c.steps : r # s => d.steps[r] = c.steps[r]
                  /\ d \in Contexts /\ d.started = c.started /\ d.hadError = c.hadError
                BY <3>4, <3>7
            <4> HIDE DEF d, e, h, t, c, more
            <4> USE <4>1, <4>3
            <4> WITNESS "ensure" \in {"done", "ensure"}, d \in Contexts, e \in Events \union {Nothing}
            <4> QED BY <3>1, <3>3, <4>1, <4>2, <4>3
        <3>8. CASE ~Emits(c, k)
            <4>1. /\ hook' = [hook EXCEPT ![h] = "done"] /\ ctx' = [ctx EXCEPT ![t] = d]
                  /\ say' = [say EXCEPT ![h] = Nothing]
                BY <3>1, <3>2, <3>8
            <4> HIDE DEF d, h, t, c, more
            <4> QED BY <3>1, <3>3, <3>4, <3>5, <3>8, <4>1
        <3> QED BY <3>7, <3>8
    <2> QED BY <2>1, <2>2
<1>5. h = <<"open", s>> /\ TraceOf[s] = t /\ ctx[t] = c
    OBVIOUS
<1>6. more \in {0, 1} /\ (more = 1 <=> k = "function")
    OBVIOUS
<1> HIDE DEF h, t, c, more
<1>7. ctx'[t] = d /\ \A u \in Traces \ {t} : ctx'[u] = ctx[u]
    BY <1>0, <1>1, <1>4 DEF TraceTypes
<1>8. /\ hook'[h] = w /\ say'[h] = e /\ kind'[s] = k
      /\ hook'[<<"close", s>>] = "idle" /\ hook'[<<"start", t>>] = "done"
      /\ \A r \in Spans : r # s => kind'[r] = kind[r]
      /\ \A g \in Hooks \ {h} : say'[g] = say[g]
    BY <1>0, <1>1, <1>2, <1>3, <1>4 DEF TraceTypes
<1>9. TraceTypes'
    <2>1. ctx' \in [Traces -> Contexts]
        BY <1>1, <1>4 DEF TraceTypes
    <2>2. hook' \in [Hooks -> Where] /\ say' \in [Hooks -> Events \union {Nothing}]
        BY <1>1, <1>4 DEF TraceTypes, Where
    <2>3. kind' \in [Spans -> Kinds \union {"none"}]
        BY <1>1, <1>2 DEF TraceTypes
    <2> QED BY <1>1, <1>2, <1>4, <2>1, <2>2, <2>3 DEF TraceTypes
<1>10. ActsOn(t, h, w)
    <2>1. \A r \in Spans \ SpansOf(t) : kind'[r] = kind[r] /\ outcome'[r] = outcome[r]
        BY <1>0, <1>2, <1>8
    <2> QED BY <1>0, <1>2, <1>4, <1>7, <1>8, <2>1 DEF ActsOn
<1>11. c.step \in Nat /\ c.tools \in Nat /\ c.open \in Nat /\ d.step \in Nat
    BY <1>1 DEF Contexts
<1>12. ContextGrows(t)
    BY <1>4, <1>5, <1>6, <1>7, <1>11 DEF ContextGrows
<1>13. CallOf(s)' = {} /\ ResponseOf(s)' = {} /\ \A r \in Spans : CallOf(r)' = CallOf(r)
    BY <1>2, <1>3 DEF CallOf, ResponseOf
<1>14. TraceSites(t)' /\ StartedOnce(t)' /\ EndedOnce(t)' /\ TerminalKnows(t)'
    <2>1. \A r \in SpansOf(t) :
               /\ hook[<<"close", r>>] = "done" => outcome'[r] = outcome[r] /\ CallOf(r)' = CallOf(r)
               /\ hook[<<"open", r>>] = "done" => kind'[r] = kind[r]
        BY <1>2, <1>5, <1>8, <1>13 DEF SpansOf
    <2>2. hook[h] # "begin" /\ w # "begin"
        BY <1>2, <1>4
    <2> QED BY <1>0, <1>2, <1>4, <1>9, <1>10, <1>12, <2>1, <2>2, SpanHookTrace
<1>15. Placed(t)'
    BY <1>1, <1>4, <1>5, <1>7, <1>8 DEF TraceSound, Placed
<1>16. Counted(t)'
    <2>1. /\ IsFiniteSet(DOMAIN c.steps) /\ Cardinality(DOMAIN c.steps) = c.open
          /\ DOMAIN c.steps \subseteq SpansOf(t)
        <3>1. DOMAIN c.steps \in SUBSET Spans
            BY <1>1, <1>5 DEF TraceSound, Counted, SpansOf
        <3> QED BY <1>1, <1>5, <3>1, TraceRunsAssumption, FS_Subset DEF TraceSound, Counted
    <2>2. /\ IsFiniteSet(Functions(t)) /\ Cardinality(Functions(t)) \in Nat /\ s \notin Functions(t)
        <3>1. Functions(t) \in SUBSET Spans /\ s \notin Functions(t)
            BY <1>3 DEF Functions, SpansOf
        <3> QED BY <3>1, TraceRunsAssumption, FS_Subset, FS_CardinalityType
    <2>3. Functions(t)' = IF k = "function" THEN Functions(t) \union {s} ELSE Functions(t)
        BY <1>0, <1>3, <1>8 DEF Functions, SpansOf
    <2>4. Cardinality(Functions(t)') = Cardinality(Functions(t)) + more
        <3>1. CASE k = "function"
            <4>1. Cardinality(Functions(t) \union {s}) = Cardinality(Functions(t)) + 1
                BY <2>2, FS_AddElement
            <4> QED BY <1>6, <2>3, <3>1, <4>1
        <3>2. CASE k # "function"
            BY <1>6, <2>2, <2>3, <3>2
        <3> QED BY <3>1, <3>2
    <2>5. Known(t) => c.tools >= Cardinality(Functions(t))
        BY <1>1, <1>5 DEF TraceSound, Counted
    <2>6. Known(t)' => d.tools >= Cardinality(Functions(t)')
        <3>1. CASE w = "ensure"
            BY <1>4, <1>6, <1>11, <2>2, <2>4, <2>5, <3>1
        <3>2. CASE w = "done"
            BY <1>4, <1>6, <1>11, <2>2, <2>4, <2>5, <3>2
        <3> QED BY <1>4, <3>1, <3>2
    <2>7. DOMAIN d.steps \subseteq SpansOf(t) /\ d.open = Cardinality(DOMAIN d.steps)
        <3>1. CASE w = "ensure"
            <4>1. Cardinality(DOMAIN c.steps \union {s}) = Cardinality(DOMAIN c.steps) + 1
                BY <1>3, <2>1, FS_AddElement
            <4> QED BY <1>0, <1>4, <2>1, <3>1, <4>1
        <3>2. CASE w = "done"
            BY <1>4, <2>1, <3>2
        <3> QED BY <1>4, <3>1, <3>2
    <2> QED BY <1>7, <2>6, <2>7 DEF Counted, SpansOf
<1>17. /\ Calling(s)' <=> w = "ensure"
       /\ IsCalled(s)' <=> w = "ensure"
       /\ StepsOf(s)' = IF w = "ensure" THEN {c.step + 1} ELSE {}
    <2>1. Calling(s)' <=> w = "ensure"
        BY <1>4, <1>5, <1>8 DEF Calling
    <2>2. w = "ensure" => say'[<<"open", s>>].step = c.step + 1
        BY <1>4, <1>5, <1>8
    <2> QED BY <1>13, <2>1, <2>2 DEF IsCalled, StepsOf
<1>18. SpanSound(s)'
    <2>1. SpanSites(s)'
        BY <1>2, <1>3, <1>4, <1>5, <1>8 DEF SpanSites
    <2>2. CalledOnce(s)'
        BY <1>4, <1>5, <1>7, <1>8, <1>11, <1>13, <1>17 DEF CalledOnce
    <2>3. Registered(s)'
        BY <1>3, <1>4, <1>5, <1>7, <1>17 DEF Registered
    <2>4. AnsweredOnce(s)'
        BY <1>8, <1>13 DEF AnsweredOnce, Answering
    <2>5. FailureKept(s)'
        BY <1>2, <1>3 DEF FailureKept
    <2> QED BY <2>1, <2>2, <2>3, <2>4, <2>5 DEF SpanSound
<1>19. \A r \in SpansOf(t) \ {s} : SpanSound(r)' /\ StepsOf(r)' = StepsOf(r)
    <2>1. ASSUME NEW r \in SpansOf(t) \ {s}
          PROVE  /\ kind'[r] = kind[r] /\ outcome'[r] = outcome[r]
                 /\ r \in DOMAIN ctx'[t].steps <=> r \in DOMAIN ctx[t].steps
                 /\ r \in DOMAIN ctx[t].steps => ctx'[t].steps[r] = ctx[t].steps[r]
        <3>1. r \in Spans /\ r # s
            BY DEF SpansOf
        <3>2. kind'[r] = kind[r] /\ outcome'[r] = outcome[r]
            BY <1>2, <1>8, <3>1
        <3>3. CASE w = "done"
            BY <1>4, <1>5, <1>7, <3>2, <3>3
        <3>4. CASE w = "ensure"
            <4>1. r \in DOMAIN d.steps <=> r \in DOMAIN c.steps
                BY <1>4, <3>1, <3>4
            <4>2. r \in DOMAIN c.steps => d.steps[r] = c.steps[r]
                BY <1>4, <3>1, <3>4
            <4> QED BY <1>5, <1>7, <3>2, <4>1, <4>2
        <3> QED BY <1>4, <3>3, <3>4
    <2>2. /\ s \in SpansOf(t) /\ h \in {<<"open", s>>, <<"close", s>>} /\ log' = log
          /\ Known(t)' => Known(t)
        BY <1>0, <1>2, <1>4
    <2>3. t \in Traces
        BY <1>0
    <2> QED BY <1>9, <1>10, <1>12, <2>1, <2>2, <2>3, OtherSpansKept
<1>20. \A r \in SpansOf(t) \ {s} : StepsOf(r)' \intersect StepsOf(s)' = {}
    <2>1. ASSUME NEW r \in SpansOf(t) \ {s} PROVE StepsOf(r)' \intersect StepsOf(s)' = {}
        <3>1. StepsOf(r)' \subseteq 1..c.step
            BY <1>5, <1>19 DEF TracesInv, SpanSound, CalledOnce, SpansOf
        <3>2. c.step + 1 \notin 1..c.step
            BY <1>11
        <3> QED BY <1>17, <3>1, <3>2
    <2> QED BY <2>1
<1>21. \A q, r \in SpansOf(t) : q # r => StepsOf(q)' \intersect StepsOf(r)' = {}
    <2>1. \A q, r \in SpansOf(t) : q # r => StepsOf(q) \intersect StepsOf(r) = {}
        BY DEF TracesInv, StepsApart, SpansOf
    <2>2. ASSUME NEW q \in SpansOf(t), NEW r \in SpansOf(t), q # r
          PROVE  StepsOf(q)' \intersect StepsOf(r)' = {}
        <3>1. CASE q = s
            BY <1>20, <2>2, <3>1
        <3>2. CASE r = s
            BY <1>20, <2>2, <3>2
        <3>3. CASE q # s /\ r # s
            BY <1>19, <2>1, <2>2, <3>3
        <3> QED BY <3>1, <3>2, <3>3
    <2> QED BY <2>2
<1>22. TraceSound(t)' /\ \A r \in SpansOf(t) : SpanSound(r)'
    BY <1>14, <1>15, <1>16, <1>18, <1>19 DEF TraceSound
<1>23. \A u \in Traces \ {t} : TraceCalm(u)
    BY <1>0, <1>10, OthersCalm
<1> DEFINE A == {t}
<1>24. A \in SUBSET Traces /\ (\A u \in A : u = t) /\ \A u \in Traces \ A : TraceCalm(u)
    BY <1>0, <1>23
<1> HIDE DEF A
<1> QED BY <1>9, <1>21, <1>22, <1>24, TracesAct

-----------------------------------------------------------------------------
(* on_span_end: a registered call is answered under its step.              *)
LEMMA SpanCloseKeeps ==
    ASSUME TracesInv, NEW s \in Spans, NEW how \in Ways(s), SpanClose(s, how)
    PROVE  TracesInv'
<1> DEFINE t == TraceOf[s]
           h == <<"close", s>>
           c == ctx[t]
<1>0. /\ h \in Hooks /\ h \in HooksOf(t) /\ TraceHooked(h) = t /\ t \in Traces /\ s \in SpansOf(t)
      /\ <<"start", t>> \in Hooks /\ <<"open", s>> \in Hooks
      /\ h \in {<<"open", s>>, <<"close", s>>} /\ h # <<"open", s>> /\ h # <<"start", t>>
    BY HookFacts DEF SpansOf, HooksOf
<1>1. TraceTypes /\ TraceSound(t) /\ SpanSound(s) /\ c \in Contexts
    BY <1>0 DEF TracesInv, TraceTypes
<1>2. /\ hook[h] = "idle" /\ hook[<<"open", s>>] = "done"
      /\ log' = log /\ kind' = kind /\ before' = before
    BY DEF SpanClose, Called, Returned
<1>3. /\ outcome[s] = "none" /\ ResponseOf(s) = {} /\ ~Calling(s)
      /\ hook[<<"start", t>>] = "done"
      /\ s \in DOMAIN c.steps => CallOf(s) # {} /\ \A n \in StepsOf(s) : n = c.steps[s]
      /\ Known(t) /\ s \notin DOMAIN c.steps => CallOf(s) = {}
    BY <1>1, <1>2 DEF SpanSound, SpanSites, AnsweredOnce, Registered, IsCalled, Calling
<1>4. /\ IsFiniteSet(DOMAIN c.steps) /\ Cardinality(DOMAIN c.steps) = c.open
      /\ DOMAIN c.steps \subseteq SpansOf(t)
    <2>1. DOMAIN c.steps \in SUBSET Spans
        BY <1>1 DEF TraceSound, Counted, SpansOf
    <2> QED BY <1>1, <2>1, TraceRunsAssumption, FS_Subset DEF TraceSound, Counted
<1>5. s \in DOMAIN c.steps => c.open \in Nat \ {0} /\ Cardinality(DOMAIN c.steps \ {s}) = c.open - 1
    <2>1. c.open \in Nat
        BY <1>1 DEF Contexts
    <2> HIDE DEF c
    <2>2. s \in DOMAIN c.steps => Cardinality(DOMAIN c.steps \ {s}) = c.open - 1 /\ c.open # 0
        BY <1>4, FS_RemoveElement, FS_EmptySet
    <2> QED BY <2>1, <2>2
<1>6. how \in {"ok", "error", "failed"}
    BY DEF Ways
<1>7. PICK w \in {"done", "flag", "emit"}, o \in {"none", "ok", "error", "failed"},
           d \in Contexts, e \in Events \union {Nothing} :
          /\ hook' = [hook EXCEPT ![h] = w] /\ ctx' = [ctx EXCEPT ![t] = d]
          /\ say' = [say EXCEPT ![h] = e] /\ outcome' = [outcome EXCEPT ![s] = o]
          /\ runs' \in Seq(Traces) /\ pruned' \in Seq(Traces)
          /\ (Known(t)' => Known(t)) /\ t \notin ToSet(pruned')
          /\ \A u \in Traces \ {t} : /\ u \in ToSet(runs') => u \in ToSet(runs)
                                     /\ u \in ToSet(pruned') => u \in ToSet(pruned)
          /\ d.started = c.started /\ d.step = c.step /\ d.tools = c.tools
          /\ c.hadError \/ o = "error" => d.hadError
          /\ o = "none" \/ Known(t)
          /\ w = "done" => /\ d.open = c.open /\ d.steps = c.steps
                           /\ Known(t) => s \notin DOMAIN c.steps
          /\ w # "done" => /\ s \in DOMAIN c.steps /\ (o = "failed" => w = "flag")
                           /\ d.open = c.open - 1 /\ DOMAIN d.steps = DOMAIN c.steps \ {s}
                           /\ \A r \in DOMAIN c.steps : r # s => d.steps[r] = c.steps[r]
                           /\ e.what \in ResponseNames /\ e.span = s /\ e.step = c.steps[s]
    <2>1. CASE Ignored(h)
        <3>1. hook' = [hook EXCEPT ![h] = "done"] /\ UNCHANGED <<runs, pruned, ctx, say>> /\ ~Known(t)
            BY <1>0, <2>1 DEF Ignored, To
        <3>2. ctx' = [ctx EXCEPT ![t] = c] /\ say' = [say EXCEPT ![h] = say[h]]
            BY <1>0, <1>1, <3>1 DEF TraceTypes
        <3>3. outcome' = [outcome EXCEPT ![s] = outcome[s]]
            BY <1>1, <2>1, <3>1 DEF SpanClose, TraceTypes
        <3>4. say[h] \in Events \union {Nothing} /\ runs \in Seq(Traces) /\ pruned \in Seq(Traces)
            BY <1>0, <1>1 DEF TraceTypes
        <3>5. t \notin ToSet(pruned') /\ (Known(t)' => Known(t))
            BY <3>1 DEF Known
        <3> HIDE DEF h, t, c
        <3> USE <1>1, <3>4
        <3> WITNESS "done" \in {"done", "flag", "emit"}, "none" \in {"none", "ok", "error", "failed"},
                    c \in Contexts, say[h] \in Events \union {Nothing}
        <3> QED BY <1>3, <3>1, <3>2, <3>3, <3>5
    <2>2. CASE ~Ignored(h)
        <3>1. /\ Known(t) /\ Lookup(t)
              /\ ctx' = [ctx EXCEPT ![t] = Closed(Found(t), s, how)]
              /\ outcome' = [outcome EXCEPT ![s] = how]
              /\ IF s \notin DOMAIN Found(t).steps
                 THEN hook' = [hook EXCEPT ![h] = "done"] /\ say' = say
                 ELSE /\ say' = [say EXCEPT ![h] = [what |-> RespondedName(s), span |-> s,
                                                    step |-> Found(t).steps[s]]]
                      /\ hook' = [hook EXCEPT ![h] = IF how = "failed" THEN "flag" ELSE "emit"]
            BY <2>2 DEF SpanClose, To
        <3>2. Found(t) = c
            BY <1>0, <1>1, <3>1, FoundIsKept
        <3>3. /\ runs' \in Seq(Traces) /\ pruned' \in Seq(Traces)
              /\ t \in ToSet(runs') /\ t \notin ToSet(pruned')
              /\ \A u \in Traces \ {t} : /\ u \in ToSet(runs') => u \in ToSet(runs)
                                         /\ u \in ToSet(pruned') => u \in ToSet(pruned)
            BY <1>0, <1>1, <3>1, LookupFinds
        <3> DEFINE d == Closed(c, s, how)
        <3>4. /\ d \in Contexts /\ d.started = c.started /\ d.step = c.step /\ d.tools = c.tools
              /\ c.hadError \/ how = "error" => d.hadError
              /\ s \notin DOMAIN c.steps => d.open = c.open /\ d.steps = c.steps
              /\ s \in DOMAIN c.steps => /\ d.open = c.open - 1
                                         /\ DOMAIN d.steps = DOMAIN c.steps \ {s}
                                         /\ \A r \in DOMAIN c.steps : r # s => d.steps[r] = c.steps[r]
            BY <1>1, <1>5, ClosedContext
        <3>5. ctx' = [ctx EXCEPT ![t] = d]
            BY <3>1, <3>2
        <3>6. how \in {"none", "ok", "error", "failed"}
            BY <1>6
        <3>7. CASE s \in DOMAIN c.steps
            <4> DEFINE e == [what |-> RespondedName(s), span |-> s, step |-> c.steps[s]]
                       w == IF how = "failed" THEN "flag" ELSE "emit"
            <4>1. e \in Events /\ e.what \in ResponseNames /\ e.span = s /\ e.step = c.steps[s]
                <5>1. c.steps[s] \in Nat
                    BY <1>1, <3>7 DEF Contexts
                <5>2. RespondedName(s) \in ResponseNames
                    BY DEF RespondedName, ResponseNames
                <5> QED BY <5>1, <5>2 DEF Events
            <4>2. hook' = [hook EXCEPT ![h] = w] /\ say' = [say EXCEPT ![h] = e]
                BY <3>1, <3>2, <3>7
            <4>3. w \in {"done", "flag", "emit"} /\ w # "done" /\ (how = "failed" => w = "flag")
                OBVIOUS
            <4> HIDE DEF d, e, w, h, t, c
            <4> USE <3>4, <3>6, <4>1, <4>3
            <4> WITNESS w \in {"done", "flag", "emit"}, how \in {"none", "ok", "error", "failed"},
                        d \in Contexts, e \in Events \union {Nothing}
            <4> QED BY <3>1, <3>3, <3>5, <3>7, <4>2
        <3>8. CASE s \notin DOMAIN c.steps
            <4>1. hook' = [hook EXCEPT ![h] = "done"] /\ say' = [say EXCEPT ![h] = say[h]]
                BY <1>0, <1>1, <3>1, <3>2, <3>8 DEF TraceTypes
            <4>2. say[h] \in Events \union {Nothing}
                BY <1>0, <1>1 DEF TraceTypes
            <4> HIDE DEF d, h, t, c
            <4> USE <3>4, <3>6, <4>2
            <4> WITNESS "done" \in {"done", "flag", "emit"}, how \in {"none", "ok", "error", "failed"},
                        d \in Contexts, say[h] \in Events \union {Nothing}
            <4> QED BY <3>1, <3>3, <3>5, <3>8, <4>1
        <3> QED BY <3>7, <3>8
    <2> QED BY <2>1, <2>2
<1>8. h = <<"close", s>> /\ TraceOf[s] = t /\ ctx[t] = c
    OBVIOUS
<1> HIDE DEF h, t, c
<1>9. ctx'[t] = d /\ \A u \in Traces \ {t} : ctx'[u] = ctx[u]
    BY <1>0, <1>1, <1>7 DEF TraceTypes
<1>10. /\ hook'[h] = w /\ say'[h] = e /\ outcome'[s] = o
       /\ hook'[<<"open", s>>] = "done" /\ hook'[<<"start", t>>] = "done"
       /\ \A r \in Spans : r # s => outcome'[r] = outcome[r]
       /\ \A g \in Hooks \ {h} : say'[g] = say[g]
    BY <1>0, <1>1, <1>2, <1>3, <1>7 DEF TraceTypes
<1>11. TraceTypes'
    <2>1. ctx' \in [Traces -> Contexts]
        BY <1>1, <1>7 DEF TraceTypes
    <2>2. hook' \in [Hooks -> Where] /\ say' \in [Hooks -> Events \union {Nothing}]
        BY <1>1, <1>7 DEF TraceTypes, Where
    <2>3. outcome' \in [Spans -> {"none", "ok", "error", "failed"}]
        BY <1>1, <1>7 DEF TraceTypes
    <2> QED BY <1>1, <1>2, <1>7, <2>1, <2>2, <2>3 DEF TraceTypes
<1>12. ActsOn(t, h, w)
    <2>1. \A r \in Spans \ SpansOf(t) : kind'[r] = kind[r] /\ outcome'[r] = outcome[r]
        BY <1>0, <1>2, <1>10
    <2> QED BY <1>0, <1>2, <1>7, <1>9, <1>10, <2>1 DEF ActsOn
<1>13. c.step \in Nat /\ c.tools \in Nat /\ c.open \in Nat
    BY <1>1 DEF Contexts
<1>14. ContextGrows(t)
    BY <1>7, <1>8, <1>9, <1>13 DEF ContextGrows
<1>15. \A r \in Spans : CallOf(r)' = CallOf(r) /\ ResponseOf(r)' = ResponseOf(r)
    BY <1>2 DEF CallOf, ResponseOf
<1>16. TraceSites(t)' /\ StartedOnce(t)' /\ EndedOnce(t)' /\ TerminalKnows(t)'
    <2>1. \A r \in SpansOf(t) :
               /\ hook[<<"close", r>>] = "done" => outcome'[r] = outcome[r] /\ CallOf(r)' = CallOf(r)
               /\ hook[<<"open", r>>] = "done" => kind'[r] = kind[r]
        BY <1>2, <1>8, <1>10, <1>15 DEF SpansOf
    <2>2. hook[h] # "begin" /\ w # "begin"
        BY <1>2, <1>7
    <2>3. s \in SpansOf(t) /\ h \in {<<"open", s>>, <<"close", s>>} /\ (Known(t)' => Known(t)) /\ t \in Traces
        BY <1>0, <1>7
    <2> QED BY <1>2, <1>11, <1>12, <1>14, <2>1, <2>2, <2>3, SpanHookTrace
<1>17. Placed(t)'
    BY <1>1, <1>7, <1>8, <1>9, <1>10 DEF TraceSound, Placed
<1>18. Counted(t)'
    <2>1. DOMAIN d.steps \subseteq SpansOf(t) /\ d.open = Cardinality(DOMAIN d.steps)
        <3>1. CASE w = "done"
            BY <1>4, <1>7, <3>1
        <3>2. CASE w # "done"
            BY <1>4, <1>5, <1>7, <3>2
        <3> QED BY <3>1, <3>2
    <2>2. Functions(t)' = Functions(t)
        BY <1>2 DEF Functions, SpansOf
    <2>3. Known(t)' => d.tools >= Cardinality(Functions(t)')
        BY <1>1, <1>7, <1>8, <2>2 DEF TraceSound, Counted
    <2> QED BY <1>9, <2>1, <2>3 DEF Counted, SpansOf
<1>19. /\ ~Calling(s)' /\ StepsOf(s)' = StepsOf(s)
       /\ IsCalled(s)' <=> IsCalled(s)
    BY <1>2, <1>3, <1>10, <1>15 DEF StepsOf, IsCalled, Calling
<1>20. SpanSound(s)'
    <2>1. SpanSites(s)'
        BY <1>1, <1>2, <1>7, <1>8, <1>10 DEF SpanSites, SpanSound
    <2>2. CalledOnce(s)'
        BY <1>1, <1>2, <1>7, <1>8, <1>9, <1>10, <1>15, <1>19 DEF CalledOnce, SpanSound
    <2>3. Registered(s)'
        <3>1. s \in DOMAIN d.steps => s \in DOMAIN c.steps /\ d.steps[s] = c.steps[s]
            BY <1>7
        <3>2. s \in DOMAIN c.steps => IsCalled(s) /\ \A n \in StepsOf(s) : n = c.steps[s]
            BY <1>1, <1>8 DEF SpanSound, Registered
        <3>3. hook'[<<"close", s>>] # "idle"
            BY <1>7, <1>8, <1>10
        <3> QED BY <1>8, <1>9, <1>19, <3>1, <3>2, <3>3 DEF Registered
    <2>4. AnsweredOnce(s)'
        <3>1. Answering(s)' => w # "done"
            BY <1>8, <1>10 DEF Answering
        <3>2. \A i \in CallOf(s) : log[t][i].step \in StepsOf(s)
            BY <1>8 DEF StepsOf
        <3>3. w # "done" => /\ CallOf(s) # {} /\ \A i \in CallOf(s) : log[t][i].step = e.step
                            /\ e.what \in ResponseNames /\ e.span = s
            BY <1>3, <1>7, <3>2
        <3>4. w = "done" => ~Known(t) \/ CallOf(s) = {}
            BY <1>3, <1>7
        <3>5. CallOf(s)' = CallOf(s) /\ ResponseOf(s)' = {}
            BY <1>3, <1>15
        <3>6. hook'[<<"close", s>>] = "done" => ~Known(t)' \/ CallOf(s)' = {}
            BY <1>7, <1>8, <1>10, <3>4, <3>5
        <3>7. Answering(s)' => /\ CallOf(s)' # {} /\ say'[<<"close", s>>].what \in ResponseNames
                               /\ say'[<<"close", s>>].span = s
                               /\ \A i \in CallOf(s)' : log'[t][i].step = say'[<<"close", s>>].step
            BY <1>2, <1>8, <1>10, <3>1, <3>3, <3>5
        <3> QED BY <1>8, <3>5, <3>6, <3>7 DEF AnsweredOnce
    <2>5. FailureKept(s)'
        <3>1. o = "failed" /\ w # "flag" => CallOf(s) = {}
            BY <1>3, <1>7
        <3> QED BY <1>7, <1>8, <1>9, <1>10, <1>15, <3>1 DEF FailureKept
    <2> QED BY <2>1, <2>2, <2>3, <2>4, <2>5 DEF SpanSound
<1>21. \A r \in SpansOf(t) \ {s} : SpanSound(r)' /\ StepsOf(r)' = StepsOf(r)
    <2>1. ASSUME NEW r \in SpansOf(t) \ {s}
          PROVE  /\ kind'[r] = kind[r] /\ outcome'[r] = outcome[r]
                 /\ r \in DOMAIN ctx'[t].steps <=> r \in DOMAIN ctx[t].steps
                 /\ r \in DOMAIN ctx[t].steps => ctx'[t].steps[r] = ctx[t].steps[r]
        <3>1. r \in Spans /\ r # s
            BY DEF SpansOf
        <3>2. kind'[r] = kind[r] /\ outcome'[r] = outcome[r]
            BY <1>2, <1>10, <3>1
        <3>3. CASE w = "done"
            BY <1>7, <1>8, <1>9, <3>2, <3>3
        <3>4. CASE w # "done"
            <4>1. /\ r \in DOMAIN d.steps <=> r \in DOMAIN c.steps
                  /\ r \in DOMAIN c.steps => d.steps[r] = c.steps[r]
                BY <1>7, <3>1, <3>4
            <4> QED BY <1>8, <1>9, <3>2, <4>1
        <3> QED BY <3>3, <3>4
    <2>2. /\ s \in SpansOf(t) /\ h \in {<<"open", s>>, <<"close", s>>} /\ log' = log
          /\ Known(t)' => Known(t)
        BY <1>0, <1>2, <1>7
    <2>3. t \in Traces
        BY <1>0
    <2> QED BY <1>11, <1>12, <1>14, <2>1, <2>2, <2>3, OtherSpansKept
<1>22. TraceSound(t)'
    BY <1>16, <1>17, <1>18 DEF TraceSound
<1>23. \A r \in SpansOf(t) : SpanSound(r)' /\ StepsOf(r)' \subseteq StepsOf(r)
    BY <1>19, <1>20, <1>21
<1>24. \A u \in Traces \ {t} : TraceCalm(u)
    BY <1>0, <1>12, OthersCalm
<1> QED BY <1>0, <1>11, <1>22, <1>23, <1>24, OneTraceActs

-----------------------------------------------------------------------------
(* on_trace_start: the sweep prunes traces with nothing open, and the new  *)
(* trace was not known before.                                             *)
LEMMA TraceStartKeeps ==
    ASSUME TracesInv, NEW t \in Traces, TraceStart(t)
    PROVE  TracesInv'
<1> DEFINE h == <<"start", t>>
           busy == Among(runs, Traces \ Idle)
           swept == Among(runs, Idle)
           w == IF t \in HasInput THEN "ensure" ELSE "done"
<1>0. TraceTypes /\ TraceSound(t) /\ h \in Hooks /\ h \in HooksOf(t) /\ TraceHooked(h) = t
    BY HookFacts DEF TracesInv, HooksOf
<1>1. /\ hook[h] = "idle" /\ runs' = Append(busy, t) /\ pruned' = Kept(pruned \o swept)
      /\ hook' = [hook EXCEPT ![h] = w]
      /\ UNCHANGED <<ctx, say, log, kind, outcome, before>>
    BY DEF TraceStart, To, spans
<1>2. w \in {"ensure", "done"}
    OBVIOUS
<1>3. /\ busy \in Seq(Traces) /\ swept \in Seq(Traces)
      /\ \A u \in ToSet(busy) : u \in ToSet(runs) /\ u \notin Idle
      /\ \A u \in ToSet(swept) : u \in ToSet(runs) /\ u \in Idle
    <2>1. runs \in Seq(Traces)
        BY <1>0 DEF TraceTypes
    <2>2. ASSUME NEW T PROVE /\ Among(runs, T) \in Seq(Traces)
                             /\ \A u \in ToSet(Among(runs, T)) : u \in ToSet(runs) /\ u \in T
        BY <2>1, AmongIsPart
    <2> QED BY <2>2
<1> HIDE DEF w, busy, swept, h
<1>4. /\ pruned \o swept \in Seq(Traces)
      /\ \A u \in ToSet(pruned \o swept) : u \in ToSet(pruned) \/ u \in ToSet(swept)
    <2>1. pruned \in Seq(Traces)
        BY <1>0 DEF TraceTypes
    <2> QED BY <1>3, <2>1 DEF ToSet
<1>5. /\ runs' \in Seq(Traces) /\ pruned' \in Seq(Traces)
      /\ \A u \in ToSet(runs') : u = t \/ u \in ToSet(busy)
      /\ t \in ToSet(runs')
      /\ \A u \in ToSet(pruned') : u \in ToSet(pruned) \/ u \in ToSet(swept)
    <2>1. \A u \in ToSet(Append(busy, t)) : u = t \/ u \in ToSet(busy)
        BY <1>3 DEF ToSet
    <2>2. t \in ToSet(Append(busy, t)) /\ Append(busy, t) \in Seq(Traces)
        <3> DEFINE q == Append(busy, t)
        <3>1. /\ q \in Seq(Traces) /\ Len(busy) + 1 \in DOMAIN q
              /\ q[Len(busy) + 1] = t
            BY <1>3
        <3> HIDE DEF q
        <3>2. t \in ToSet(q)
            BY <3>1 DEF ToSet
        <3> QED BY <3>1, <3>2 DEF q
    <2>3. Kept(pruned \o swept) \in Seq(Traces) /\ ToSet(Kept(pruned \o swept)) \subseteq ToSet(pruned \o swept)
        BY <1>4, KeptIsPart
    <2> QED BY <1>1, <1>4, <2>1, <2>2, <2>3
<1>6. /\ hook'[h] = w /\ \A g \in Hooks \ {h} : hook'[g] = hook[g]
    BY <1>0, <1>1 DEF TraceTypes
<1>7. TraceTypes'
    <2>1. hook' \in [Hooks -> Where]
        BY <1>0, <1>1, <1>2 DEF TraceTypes, Where
    <2> QED BY <1>0, <1>1, <1>5, <2>1 DEF TraceTypes
<1>8. \A u \in Traces \ {t} : TraceCalm(u)
    <2> SUFFICES ASSUME NEW u \in Traces \ {t} PROVE TraceCalm(u)
        OBVIOUS
    <2>1. Placed(u)
        BY DEF TracesInv, TraceSound
    <2>2. \A g \in HooksOf(u) : hook'[g] = hook[g] /\ say'[g] = say[g]
        <3>1. \A g \in HooksOf(u) : g \in Hooks \ {h}
            BY <1>0 DEF HooksOf
        <3> QED BY <1>1, <1>6, <3>1
    <2>3. /\ u \in ToSet(runs') => u \in ToSet(runs) /\ u \notin Idle
          /\ u \in ToSet(pruned') => u \in ToSet(pruned) \/ (u \in ToSet(runs) /\ u \in Idle)
        BY <1>3, <1>5
    <2>4. u \in Idle => ctx[u].open = 0
        BY DEF Idle
    <2> QED BY <1>1, <2>1, <2>2, <2>3, <2>4 DEF TraceCalm, Placed, Known
<1>9. /\ ~Known(t) /\ hook[<<"end", t>>] = "idle"
      /\ \A s \in SpansOf(t) : /\ hook[<<"open", s>>] = "idle" /\ kind[s] = "none"
                               /\ <<"open", s>> \in Hooks \ {h} /\ <<"close", s>> \in Hooks \ {h}
    <2>1. ASSUME NEW s \in SpansOf(t)
          PROVE  /\ hook[<<"open", s>>] = "idle" /\ kind[s] = "none"
                 /\ <<"open", s>> \in Hooks \ {h} /\ <<"close", s>> \in Hooks \ {h}
        <3>1. s \in Spans /\ TraceOf[s] = t /\ SpanSites(s)
            BY DEF SpansOf, TracesInv, SpanSound
        <3> QED BY <1>1, <3>1, HookFacts DEF SpanSites, h
    <2>2. ~Known(t) /\ hook[<<"end", t>>] = "idle"
        BY <1>0, <1>1 DEF TraceSound, Placed, TraceSites, h
    <2> QED BY <2>1, <2>2
<1>10. <<"end", t>> \in Hooks \ {h}
    BY HookFacts DEF h
<1>11. TraceSound(t)'
    <2>1. TraceSites(t)'
        BY <1>2, <1>6, <1>9, <1>10 DEF TraceSites, h
    <2>2. Placed(t)'
        <3>1. t \notin ToSet(pruned')
            BY <1>3, <1>5, <1>9 DEF Known
        <3>2. hook'[<<"start", t>>] # "idle"
            BY <1>2, <1>6 DEF h
        <3> QED BY <3>1, <3>2 DEF Placed
    <2>3. Counted(t)'
        <3>1. Functions(t)' = {}
            BY <1>1, <1>9 DEF Functions, SpansOf
        <3>2. Cardinality(Functions(t)') = 0 /\ ctx[t].tools \in Nat
            BY <1>0, <3>1, FS_EmptySet DEF TraceTypes, Contexts
        <3> QED BY <1>0, <1>1, <3>2 DEF Counted, TraceSound, SpansOf
    <2>4. StartedOnce(t)'
        <3>1. Beginning(t)' = Beginning(t)
            BY <1>1, <1>2, <1>6 DEF Beginning, HooksOf
        <3>2. Logged(t, "run.started")' = Logged(t, "run.started")
            BY <1>1 DEF Logged
        <3> QED BY <1>0, <1>1, <3>1, <3>2, StartedKept DEF TraceSound
    <2>5. EndedOnce(t)' /\ Ends(t)' = Ends(t) /\ hook'[<<"end", t>>] = hook[<<"end", t>>]
        <3>1. Ends(t)' = Ends(t)
            BY <1>1 DEF Ends, Logged
        <3>2. Ends(t) = {}
            BY <1>0, <1>9 DEF TraceSound, EndedOnce
        <3> QED BY <1>6, <1>9, <1>10, <3>1, <3>2 DEF EndedOnce
    <2>6. TerminalKnows(t)'
        <3>1. \A g \in before[t] : g \in Hooks \ {h}
            BY <1>0, <1>1 DEF TraceTypes, TraceSound, TerminalKnows, Returned
        <3>2. \A s \in SpansOf(t) : CallOf(s)' = CallOf(s)
            BY <1>1 DEF CallOf
        <3>3. PastFixed(t)
            BY <1>1, <1>6, <3>1, <3>2 DEF PastFixed
        <3>4. ctx[t].tools <= ctx'[t].tools
            BY <1>0, <1>1 DEF TraceTypes, Contexts
        <3> QED BY <1>0, <1>1, <1>7, <2>5, <3>3, <3>4, KnowsKept DEF TraceSound
    <2> QED BY <2>1, <2>2, <2>3, <2>4, <2>5, <2>6 DEF TraceSound
<1>12. \A s \in SpansOf(t) : SpanSound(s)' /\ StepsOf(s)' \subseteq StepsOf(s)
    <2> SUFFICES ASSUME NEW s \in SpansOf(t) PROVE SpanSound(s)' /\ StepsOf(s)' \subseteq StepsOf(s)
        OBVIOUS
    <2>1. s \in Spans /\ TraceOf[s] = t /\ SpanSound(s)
        BY DEF SpansOf, TracesInv
    <2>2. SpanCalm(s)
        <3>1. CallOf(s)' = CallOf(s) /\ ResponseOf(s)' = ResponseOf(s)
            BY <1>1 DEF CallOf, ResponseOf
        <3>2. ctx[t].step \in Nat
            BY <1>0 DEF TraceTypes, Contexts
        <3>3. hook[<<"start", t>>] # "done"
            BY <1>1 DEF h
        <3> QED BY <1>1, <1>6, <1>9, <2>1, <3>1, <3>2, <3>3 DEF SpanCalm
    <2> QED BY <2>1, <2>2, SpanCalmKeeps
<1> QED BY <1>7, <1>8, <1>11, <1>12, OneTraceActs

(* Time passing, and steps that change nothing, leave every trace alone.   *)
LEMMA CalmStepKeeps ==
    ASSUME TracesInv, UNCHANGED <<runs, pruned, ctx, hook, say, log, spans, before>>
    PROVE  TracesInv'
<1>1. kind' = kind /\ outcome' = outcome
    BY DEF spans
<1>2. TraceTypes'
    BY <1>1 DEF TracesInv, TraceTypes
<1>3. ASSUME NEW u \in Traces PROVE TraceCalm(u)
    <2>1. Placed(u)
        BY DEF TracesInv, TraceSound
    <2> QED BY <1>1, <2>1 DEF TraceCalm, Placed, Known
<1> DEFINE A == {}
<1>4. A \in SUBSET Traces /\ \A u \in Traces \ A : TraceCalm(u)
    BY <1>3
<1>5. /\ \A t \in A : TraceSound(t)' /\ \A s \in SpansOf(t) : SpanSound(s)'
      /\ \A t \in A : \A r, s \in SpansOf(t) : r # s => StepsOf(r)' \intersect StepsOf(s)' = {}
    OBVIOUS
<1> HIDE DEF A
<1> QED BY <1>2, <1>4, <1>5, TracesAct

LEMMA TracesInitHolds == TracesInit => TracesInv
<1> SUFFICES ASSUME TracesInit PROVE TracesInv
    OBVIOUS
<1>1. /\ runs = <<>> /\ pruned = <<>> /\ ctx = [t \in Traces |-> NewCtx]
      /\ hook = [h \in Hooks |-> "idle"] /\ say = [h \in Hooks |-> Nothing]
      /\ log = [t \in Traces |-> <<>>] /\ before = [t \in Traces |-> {}]
      /\ kind = [s \in Spans |-> "none"] /\ outcome = [s \in Spans |-> "none"]
    BY DEF TracesInit
<1>2. /\ NewCtx \in Contexts /\ DOMAIN NewCtx.steps = {} /\ NewCtx.open = 0 /\ NewCtx.tools = 0
      /\ NewCtx.step = 0
    <2> DEFINE f == [s \in {} |-> 0]
               D == {}
    <2>1. f \in [D -> Nat] /\ D \in SUBSET Spans /\ DOMAIN f = {}
        OBVIOUS
    <2>2. f \in UNION {[E -> Nat] : E \in SUBSET Spans}
        BY <2>1
    <2>3. NewCtx = [step |-> 0, tools |-> 0, started |-> FALSE, hadError |-> FALSE,
                    skip |-> FALSE, open |-> 0, steps |-> f]
        BY DEF NewCtx
    <2> HIDE DEF f, D
    <2> QED BY <2>1, <2>2, <2>3 DEF Contexts
<1>3. TraceTypes
    BY <1>1, <1>2 DEF TraceTypes, Where
<1>4. /\ \A t \in Traces : ~Known(t)
      /\ \A t \in Traces : \A what : Logged(t, what) = {}
      /\ \A s \in Spans : CallOf(s) = {} /\ ResponseOf(s) = {}
    <2>1. \A t \in Traces : ~Known(t)
        BY <1>1 DEF Known, ToSet
    <2>2. \A t \in Traces : log[t] = <<>> /\ DOMAIN log[t] = {}
        BY <1>1
    <2>3. \A t \in Traces : \A what : Logged(t, what) = {}
        BY <2>2 DEF Logged
    <2>4. \A s \in Spans : CallOf(s) = {} /\ ResponseOf(s) = {}
        BY <2>2, HookFacts DEF CallOf, ResponseOf
    <2> QED BY <2>1, <2>3, <2>4
<1>5. ASSUME NEW t \in Traces PROVE TraceSound(t)
    <2>1. hook[<<"start", t>>] = "idle" /\ hook[<<"end", t>>] = "idle" /\ ctx[t] = NewCtx
        BY <1>1, HookFacts
    <2>2. TraceSites(t) /\ Placed(t)
        BY <1>1, <1>4, <2>1 DEF TraceSites, Placed, ToSet
    <2>3. Counted(t)
        BY <1>2, <1>4, <2>1, FS_EmptySet DEF Counted
    <2>4. Beginning(t) = {} /\ Ends(t) = {}
        BY <1>1, <1>4 DEF Beginning, HooksOf, Ends
    <2>5. StartedOnce(t)
        BY <1>4, <2>4 DEF StartedOnce
    <2>6. EndedOnce(t)
        BY <2>1, <2>4 DEF EndedOnce
    <2>7. TerminalKnows(t)
        BY <1>1, <2>1, <2>4 DEF TerminalKnows
    <2> QED BY <2>2, <2>3, <2>5, <2>6, <2>7 DEF TraceSound
<1>6. ASSUME NEW s \in Spans PROVE SpanSound(s) /\ StepsOf(s) = {}
    <2>1. /\ hook[<<"open", s>>] = "idle" /\ hook[<<"close", s>>] = "idle"
          /\ kind[s] = "none" /\ outcome[s] = "none" /\ TraceOf[s] \in Traces
        BY <1>1, HookFacts
    <2>2. ~Calling(s) /\ ~IsCalled(s) /\ ~Answering(s) /\ StepsOf(s) = {}
        BY <1>4, <2>1 DEF Calling, IsCalled, Answering, StepsOf
    <2>3. SpanSites(s)
        BY <2>1 DEF SpanSites
    <2>4. CalledOnce(s) /\ AnsweredOnce(s) /\ FailureKept(s)
        BY <1>4, <2>1, <2>2 DEF CalledOnce, AnsweredOnce, FailureKept
    <2>5. ctx[TraceOf[s]] = NewCtx
        BY <1>1, <2>1
    <2>6. Registered(s)
        BY <1>2, <2>2, <2>5 DEF Registered
    <2> QED BY <2>2, <2>3, <2>4, <2>6 DEF SpanSound
<1> QED BY <1>3, <1>5, <1>6 DEF TracesInv, StepsApart

LEMMA TracesStepKeeps == TracesInv /\ [TracesNext]_tracesVars => TracesInv'
<1> SUFFICES ASSUME TracesInv, [TracesNext]_tracesVars PROVE TracesInv'
    OBVIOUS
<1>1. ASSUME NEW t \in Traces, TraceStart(t) PROVE TracesInv'
    BY <1>1, TraceStartKeeps
<1>2. ASSUME NEW t \in Traces, TraceEnd(t) PROVE TracesInv'
    BY <1>2, TraceEndKeeps
<1>3. ASSUME NEW s \in Spans, NEW k \in Kinds, SpanOpen(s, k) PROVE TracesInv'
    BY <1>3, SpanOpenKeeps
<1>4. ASSUME NEW s \in Spans, NEW how \in Ways(s), SpanClose(s, how) PROVE TracesInv'
    BY <1>4, SpanCloseKeeps
<1>5. ASSUME NEW h \in Hooks, Flag(h) PROVE TracesInv'
    BY <1>5, FlagKeeps
<1>6. ASSUME NEW h \in Hooks, Ensure(h) PROVE TracesInv'
    BY <1>6, EnsureKeeps
<1>7. ASSUME NEW h \in Hooks, Begin(h) PROVE TracesInv'
    BY <1>7, BeginKeeps
<1>8. ASSUME NEW h \in Hooks, Finish(h) PROVE TracesInv'
    BY <1>8, FinishKeeps
<1>9. ASSUME NEW h \in Hooks, Emit(h) PROVE TracesInv'
    BY <1>9, EmitKeeps
<1>10. ASSUME NEW h \in Hooks, Clean(h) PROVE TracesInv'
    BY <1>10, CleanKeeps
<1>11. CASE TimePasses
    BY <1>11, CalmStepKeeps DEF TimePasses
<1>12. CASE UNCHANGED tracesVars
    BY <1>12, CalmStepKeeps DEF tracesVars
<1> QED BY <1>1, <1>2, <1>3, <1>4, <1>5, <1>6, <1>7, <1>8, <1>9, <1>10, <1>11, <1>12 DEF TracesNext

(* What the argument keeps of every trace and every span, in every state.  *)
THEOREM TracesInvariant == TracesSpec => []TracesInv
BY TracesInitHolds, TracesStepKeeps, PTL DEF TracesSpec
-----------------------------------------------------------------------------
LEMMA OneAtMost ==
    ASSUME NEW m \in Nat, NEW S \in SUBSET (1..m), \A i, j \in S : i = j
    PROVE  Cardinality(S) <= 1
<1>1. CASE S = {}
    BY <1>1, FS_EmptySet
<1>2. CASE S # {}
    <2>1. PICK i \in S : S = {i}
        BY <1>2
    <2> QED BY <2>1, FS_Singleton
<1> QED BY <1>1, <1>2

LEMMA InvGivesTerminalExact == TracesInv => TerminalExact
<1> SUFFICES ASSUME TracesInv, NEW t \in Traces
    PROVE  /\ Cardinality(Logged(t, "run.started")) <= 1
           /\ Cardinality(Ends(t)) <= 1
           /\ Returned(<<"end", t>>) => Lost(t) \/ Ends(t) # {}
           /\ \A i \in Ends(t) : /\ Failed(t) # {} => log[t][i].what = "run.errored"
                                 /\ log[t][i].tools >= Cardinality(ToolsBefore(t))
    BY DEF TerminalExact, Failed, ToolsBefore
<1>1. TraceTypes /\ TraceSound(t)
    BY DEF TracesInv
<1>2. Len(log[t]) \in Nat /\ DOMAIN log[t] = 1..Len(log[t])
    BY <1>1 DEF TraceTypes
<1>3. Logged(t, "run.started") \in SUBSET (1..Len(log[t])) /\ Ends(t) \in SUBSET (1..Len(log[t]))
    BY <1>2 DEF Logged, Ends
<1>4. Cardinality(Logged(t, "run.started")) <= 1 /\ Cardinality(Ends(t)) <= 1
    BY <1>1, <1>2, <1>3, OneAtMost DEF TraceSound, StartedOnce, EndedOnce
<1>5. Returned(<<"end", t>>) => Lost(t) \/ Ends(t) # {}
    BY <1>1 DEF Returned, Lost, TraceSound, EndedOnce, TraceSites
<1> QED BY <1>1, <1>4, <1>5 DEF TraceSound, TerminalKnows, Knows

LEMMA InvGivesCallsAnswered == TracesInv => CallsAnswered
<1> SUFFICES ASSUME TracesInv, NEW s \in Spans
    PROVE  /\ Cardinality(CallOf(s)) <= 1 /\ Cardinality(ResponseOf(s)) <= 1
           /\ \A i \in CallOf(s), j \in ResponseOf(s) :
                 i < j /\ log[TraceOf[s]][i].step = log[TraceOf[s]][j].step
           /\ \A r \in Spans \ {s} : TraceOf[r] = TraceOf[s] =>
                 \A i \in CallOf(s), j \in CallOf(r) :
                     log[TraceOf[s]][i].step # log[TraceOf[s]][j].step
           /\ Returned(<<"close", s>>) /\ CallOf(s) # {} /\ TraceOf[s] \in ToSet(runs)
                 => ResponseOf(s) # {}
    BY DEF CallsAnswered
<1>1. TraceTypes /\ SpanSound(s) /\ TraceOf[s] \in Traces
    BY HookFacts DEF TracesInv
<1>2. Len(log[TraceOf[s]]) \in Nat /\ DOMAIN log[TraceOf[s]] = 1..Len(log[TraceOf[s]])
    BY <1>1 DEF TraceTypes
<1>3. CallOf(s) \in SUBSET (1..Len(log[TraceOf[s]])) /\ ResponseOf(s) \in SUBSET (1..Len(log[TraceOf[s]]))
    BY <1>2 DEF CallOf, ResponseOf
<1>4. Cardinality(CallOf(s)) <= 1 /\ Cardinality(ResponseOf(s)) <= 1
    BY <1>1, <1>2, <1>3, OneAtMost DEF SpanSound, CalledOnce, AnsweredOnce
<1>5. ASSUME NEW r \in Spans \ {s}, TraceOf[r] = TraceOf[s], NEW i \in CallOf(s), NEW j \in CallOf(r)
      PROVE  log[TraceOf[s]][i].step # log[TraceOf[s]][j].step
    <2>1. log[TraceOf[s]][i].step \in StepsOf(s) /\ log[TraceOf[s]][j].step \in StepsOf(r)
        BY <1>5 DEF StepsOf
    <2>2. StepsOf(r) \intersect StepsOf(s) = {}
        BY <1>5 DEF TracesInv, StepsApart
    <2> QED BY <2>1, <2>2
<1>6. Returned(<<"close", s>>) /\ CallOf(s) # {} /\ TraceOf[s] \in ToSet(runs) => ResponseOf(s) # {}
    BY <1>1 DEF Returned, SpanSound, AnsweredOnce, Known
<1> QED BY <1>1, <1>4, <1>5, <1>6 DEF SpanSound, AnsweredOnce

(* The hooks of the Agents SDK (openai_agents.py) run in several threads   *)
(* and leave the lock before they emit: however they interleave, and       *)
(* however often a run is pruned and brought back, it starts and ends once *)
(* at most, its terminal knows what the returned hooks reported, and each  *)
(* call has its own step and the one response at that step.                *)
THEOREM TracesExactHolds == TracesSpec => []TracesExact
BY TracesInvariant, InvGivesTerminalExact, InvGivesCallsAnswered, PTL DEF TracesExact
=============================================================================
