------------------------------ MODULE TraceRuns ------------------------------
(***************************************************************************)
(* The trace processor for the OpenAI Agents SDK                           *)
(* (integrations/openai_agents.py): a trace becomes a run, its spans the   *)
(* events of the run.                                                      *)
(*                                                                         *)
(* The Agents SDK calls the hooks from its threads.  A hook changes the    *)
(* trace's context in one critical section and emits afterwards, in        *)
(* further steps, so hooks of one trace interleave.  A trace that stays    *)
(* idle for half an hour is pruned by the next trace's start and comes     *)
(* back when one of its own hooks is called.                               *)
(*                                                                         *)
(* `current' is the _current_run ContextVar of each task; an event is      *)
(* what was emitted, the span it is about, its step and, on a terminal,    *)
(* the number of tool calls.                                               *)
(***************************************************************************)
EXTENDS Naturals, Sequences, FiniteSets, SequencesExt

CONSTANTS
    Traces, Spans,
    TraceOf,    \* [Spans -> Traces]
    Kinds,      \* the types of span that occur
    TaskOf,     \* the task that starts and ends a trace
    HasInput,   \* traces whose metadata carries the user's input
    Ending,     \* bound: the traces that end, the others go on
    MaxThreads, \* bound on the hooks in progress
    MaxPruned   \* contexts kept after pruning, 1024 in the code

ASSUME TraceRunsAssumption ==
    /\ TraceOf \in [Spans -> Traces]
    /\ Kinds \subseteq {"generation", "response", "function", "handoff", "other"}
    /\ DOMAIN TaskOf = Traces /\ HasInput \union Ending \subseteq Traces
    /\ IsFiniteSet(Spans)
    /\ MaxThreads \in Nat \ {0} /\ MaxPruned \in Nat

VARIABLES
    runs,       \* the traces with an active context, oldest first
    pruned,     \* _stale_pruned, oldest first
    ctx,        \* the context object of each trace
    stale,      \* traces without activity since the cutoff
    current,    \* the ContextVar, by task
    token,      \* what resetting a trace's token restores
    hook,       \* where each hook is
    say,        \* the event a hook is about to emit
    log,        \* what was emitted, by trace
    kind,       \* span_data.type of each span
    outcome,    \* how each span ended
    before      \* by trace: its hooks that had returned when it ended

spans      == <<kind, outcome>>
tracesVars == <<runs, pruned, ctx, stale, current, token, hook, say, log, spans, before>>

NoRun   == "no run"
NoToken == "no token"
Tasks   == {TaskOf[t] : t \in Traces}
Hooks   == ({"start", "end"} \X Traces) \union ({"open", "close"} \X Spans)

NewCtx  == [step |-> 0, tools |-> 0, started |-> FALSE, hadError |-> FALSE,
            skip |-> FALSE, open |-> 0, steps |-> [s \in {} |-> 0]]
Nothing == [what |-> "nothing"]

TracesInit ==
    /\ runs = <<>> /\ pruned = <<>> /\ stale = {}
    /\ ctx = [t \in Traces |-> NewCtx]
    /\ current = [k \in Tasks |-> NoRun]
    /\ token = [t \in Traces |-> NoToken]
    /\ hook = [h \in Hooks |-> "idle"]
    /\ say = [h \in Hooks |-> Nothing]
    /\ log = [t \in Traces |-> <<>>]
    /\ kind = [s \in Spans |-> "none"] /\ outcome = kind
    /\ before = [t \in Traces |-> {}]

Returned(h) == hook[h] = "done"
Busy        == {h \in Hooks : hook[h] \notin {"idle", "done"}}
TraceHooked(h) == IF h[1] \in {"start", "end"} THEN h[2] ELSE TraceOf[h[2]]

(* The Agents SDK calls a hook once, its trace's or span's start first.    *)
Called(h, first) == hook[h] = "idle" /\ Returned(first) /\ Cardinality(Busy) < MaxThreads

To(h, where)     == hook' = [hook EXCEPT ![h] = where]
-----------------------------------------------------------------------------
(* _reset_ctx_token in task k, for a trace's context.                      *)
Reset(cur, t) == IF token[t] # NoToken /\ cur = t THEN token[t] ELSE cur

(* The run current in t's task once the swept traces' tokens are reset.    *)
Restored(t, swept) == FoldLeft(Reset, current[TaskOf[t]], swept)

(* The traces the sweep prunes.                                            *)
Idle == {t \in stale : ctx[t].open = 0}

(* The members of q that are in T, in their order.                         *)
Among(q, T) ==
    LET at == {i \in DOMAIN q : q[i] \in T}
    IN  [n \in 1..Cardinality(at) |->
            q[CHOOSE i \in at : Cardinality({j \in at : j <= i}) = n]]

(* The newest of the pruned contexts that fit.                             *)
Kept(q) == IF Len(q) > MaxPruned THEN SubSeq(q, Len(q) - MaxPruned + 1, Len(q)) ELSE q

(* on_trace_start: sweeps, registers the context, and makes the run        *)
(* current in its task unless an active trace's run is.                    *)
TraceStart(t) ==
    LET busy  == Among(runs, Traces \ Idle)
        swept == Among(runs, Idle)
        left  == Restored(t, swept)
        free  == left = NoRun \/ left \notin ToSet(busy)
    IN /\ hook[<<"start", t>>] = "idle" /\ Cardinality(Busy) < MaxThreads
       /\ runs' = Append(busy, t)
       /\ pruned' = Kept(pruned \o swept)
       /\ current' = [current EXCEPT ![TaskOf[t]] = IF free THEN t ELSE left]
       /\ token' = [token EXCEPT ![t] = IF free THEN left ELSE NoToken]
       /\ To(<<"start", t>>, IF t \in HasInput THEN "ensure" ELSE "done")
       /\ UNCHANGED <<ctx, stale, say, log, spans, before>>

(* Half an hour without a hook of these traces.                            *)
TimePasses ==
    /\ stale # ToSet(runs) /\ Busy = {}
    /\ stale' = ToSet(runs)
    /\ UNCHANGED <<runs, pruned, ctx, current, token, hook, say, log, spans, before>>
-----------------------------------------------------------------------------
(* The context a hook finds: the active one, or a pruned one brought back. *)
Known(t) == t \in ToSet(runs) \union ToSet(pruned)

(* Mutant: a pruned trace comes back with a new context.                   *)
Resurrected_Afresh(t) == NewCtx

Resurrected(t) == [ctx[t] EXCEPT !.open = 0, !.steps = [s \in {} |-> 0]]

Found(t) == IF t \in ToSet(runs) THEN ctx[t] ELSE Resurrected(t)

Lookup(t) ==
    IF t \in ToSet(runs) THEN UNCHANGED <<runs, pruned, token>>
    ELSE /\ runs' = Append(runs, t)
         /\ pruned' = Among(pruned, Traces \ {t})
         /\ token' = [token EXCEPT ![t] = NoToken]

(* A hook of a trace that is not known returns at once.                    *)
Ignored(h) ==
    /\ ~Known(TraceHooked(h))
    /\ To(h, "done")
    /\ UNCHANGED <<runs, pruned, ctx, token, say>>
-----------------------------------------------------------------------------
(* on_span_start.  The response half of a generation and response pair is  *)
(* skipped; spans of other types register nothing.                         *)
Emits(c, k) == k # "other" /\ ~(k = "response" /\ c.skip)

CalledName(k) == IF k \in {"generation", "response"} THEN "llm.called" ELSE "tool.called"

Opened(c, s, k) ==
    LET n == c.step + 1
        b == [c EXCEPT !.skip = FALSE]
    IN IF ~Emits(c, k) THEN b
       ELSE [b EXCEPT !.step = n, !.open = @ + 1,
                      !.tools = IF k = "function" THEN @ + 1 ELSE @,
                      !.steps = [r \in DOMAIN @ \union {s} |-> IF r = s THEN n ELSE @[r]]]

SpanOpen(s, k) ==
    LET h == <<"open", s>>
        t == TraceOf[s]
        c == Found(t)
    IN /\ Called(h, <<"start", t>>)
       /\ \/ Ignored(h) /\ UNCHANGED stale
          \/ /\ Known(t) /\ Lookup(t)
             /\ ctx' = [ctx EXCEPT ![t] = Opened(c, s, k)]
             /\ stale' = stale \ {t}
             /\ say' = [say EXCEPT ![h] = IF ~Emits(c, k) THEN Nothing ELSE
                          [what |-> CalledName(k), span |-> s, step |-> c.step + 1]]
             /\ To(h, IF Emits(c, k) THEN "ensure" ELSE "done")
       /\ kind' = [kind EXCEPT ![s] = k]
       /\ UNCHANGED <<current, log, outcome, before>>

(* on_span_end.  The step is the one its start was given; a span that      *)
(* registered nothing emits nothing, but its error counts.                 *)
Closed(c, s, how) ==
    LET b == [c EXCEPT !.hadError = @ \/ how = "error"]
    IN IF s \notin DOMAIN c.steps THEN b
       ELSE [b EXCEPT !.open = @ - 1,
                      !.skip = IF kind[s] = "generation" THEN TRUE ELSE @,
                      !.steps = [r \in DOMAIN @ \ {s} |-> @[r]]]

RespondedName(s) ==
    IF kind[s] \in {"generation", "response"} THEN "llm.responded" ELSE "tool.responded"

(* "failed": the span has no error, but its response's status says so.     *)
Ways(s) == {"ok", "error"} \union (IF kind[s] = "response" THEN {"failed"} ELSE {})

SpanClose(s, how) ==
    LET h == <<"close", s>>
        t == TraceOf[s]
        c == Found(t)
    IN /\ Called(h, <<"open", s>>)
       /\ \/ Ignored(h) /\ UNCHANGED <<stale, outcome>>
          \/ /\ Known(t) /\ Lookup(t)
             /\ ctx' = [ctx EXCEPT ![t] = Closed(c, s, how)]
             /\ stale' = stale \ {t}
             /\ outcome' = [outcome EXCEPT ![s] = how]
             /\ IF s \notin DOMAIN c.steps
                THEN To(h, "done") /\ UNCHANGED say
                ELSE /\ say' = [say EXCEPT ![h] =
                           [what |-> RespondedName(s), span |-> s, step |-> c.steps[s]]]
                     /\ To(h, IF how = "failed" THEN "flag" ELSE "emit")
       /\ UNCHANGED <<current, log, kind, before>>

(* _emit_llm_responded marks the run for a failed response, under the lock *)
(* but after the section that closed the span.                             *)
Flag(h) ==
    /\ hook[h] = "flag" /\ To(h, "emit")
    /\ ctx' = [ctx EXCEPT ![TraceHooked(h)].hadError = TRUE]
    /\ UNCHANGED <<runs, pruned, stale, current, token, say, log, spans, before>>
-----------------------------------------------------------------------------
(* on_trace_end finds the context; _finish_run emits and cleans up.        *)
TraceEnd(t) ==
    LET h == <<"end", t>>
    IN /\ t \in Ending /\ Called(h, <<"start", t>>)
       /\ before' = [before EXCEPT ![t] = {g \in Hooks : Returned(g) /\ TraceHooked(g) = t}]
       /\ \/ Ignored(h)
          \/ /\ Known(t) /\ Lookup(t)
             /\ ctx' = [ctx EXCEPT ![t] = Found(t)]
             /\ To(h, "ensure") /\ UNCHANGED say
       /\ UNCHANGED <<stale, current, log, spans>>

(* _ensure_run_started: the flag is tested and set under the lock, the     *)
(* event is emitted after it.                                              *)
AfterStart(h) == CASE h[1] = "start" -> "done" [] h[1] = "open" -> "emit" [] OTHER -> "finish"

Ensure(h) ==
    LET t == TraceHooked(h)
    IN /\ hook[h] = "ensure"
       /\ ctx' = [ctx EXCEPT ![t].started = TRUE]
       /\ To(h, IF ctx[t].started THEN AfterStart(h) ELSE "begin")
       /\ UNCHANGED <<runs, pruned, stale, current, token, say, log, spans, before>>

Begin(h) ==
    LET t == TraceHooked(h)
    IN /\ hook[h] = "begin" /\ To(h, AfterStart(h))
       /\ log' = [log EXCEPT ![t] = Append(@, [what |-> "run.started", step |-> 0])]
       /\ UNCHANGED <<runs, pruned, ctx, stale, current, token, say, spans, before>>

(* The snapshot under the lock that decides the terminal.                  *)
Finish(h) ==
    LET c == ctx[TraceHooked(h)]
    IN /\ hook[h] = "finish" /\ To(h, "emit")
       /\ say' = [say EXCEPT ![h] =
             [what |-> IF c.hadError THEN "run.errored" ELSE "run.completed",
              step |-> c.step, tools |-> c.tools]]
       /\ UNCHANGED <<runs, pruned, ctx, stale, current, token, log, spans, before>>

Emit(h) ==
    LET t == TraceHooked(h)
    IN /\ hook[h] = "emit" /\ To(h, IF h[1] = "end" THEN "clean" ELSE "done")
       /\ log' = [log EXCEPT ![t] = Append(@, say[h])]
       /\ say' = [say EXCEPT ![h] = Nothing]
       /\ UNCHANGED <<runs, pruned, ctx, stale, current, token, spans, before>>

(* _cleanup, in the task that ends the trace.                              *)
Clean(h) ==
    LET t == h[2]
    IN /\ hook[h] = "clean" /\ To(h, "done")
       /\ runs' = Among(runs, Traces \ {t})
       /\ stale' = stale \ {t}
       /\ current' = [current EXCEPT ![TaskOf[t]] =
                         IF t \in ToSet(runs) THEN Reset(@, t) ELSE @]
       /\ UNCHANGED <<pruned, ctx, token, say, log, spans, before>>

TracesNext ==
    \/ \E t \in Traces : TraceStart(t) \/ TraceEnd(t)
    \/ \E s \in Spans : (\E k \in Kinds : SpanOpen(s, k)) \/ \E how \in Ways(s) : SpanClose(s, how)
    \/ \E h \in Hooks : Flag(h) \/ Ensure(h) \/ Begin(h) \/ Finish(h) \/ Emit(h) \/ Clean(h)
    \/ TimePasses

TracesSpec == TracesInit /\ [][TracesNext]_tracesVars
-----------------------------------------------------------------------------
Logged(t, what) == {i \in DOMAIN log[t] : log[t][i].what = what}
CallOf(s)       == {i \in DOMAIN log[TraceOf[s]] :
                       /\ log[TraceOf[s]][i].what \in {"llm.called", "tool.called"}
                       /\ log[TraceOf[s]][i].span = s}
ResponseOf(s)   == {i \in DOMAIN log[TraceOf[s]] :
                       /\ log[TraceOf[s]][i].what \in {"llm.responded", "tool.responded"}
                       /\ log[TraceOf[s]][i].span = s}
Ends(t)         == Logged(t, "run.completed") \union Logged(t, "run.errored")

(* A pruned context that was pushed out: the run is never finished.        *)
Lost(t) == hook[<<"start", t>>] # "idle" /\ ~Known(t) /\ Ends(t) = {}

(* A run is started at most once and ended exactly once by its trace's     *)
(* end, and the terminal knows every failure and every tool call whose     *)
(* hook had returned before: whatever hooks race with each other, and      *)
(* however often the run was pruned and brought back in between.           *)
TerminalExact == \A t \in Traces :
    LET failed == {s \in Spans : /\ TraceOf[s] = t /\ <<"close", s>> \in before[t]
                                 /\ \/ outcome[s] = "error"
                                    \/ outcome[s] = "failed" /\ CallOf(s) # {}}
        tools  == {s \in Spans : /\ TraceOf[s] = t /\ kind[s] = "function"
                                 /\ <<"open", s>> \in before[t]}
    IN /\ Cardinality(Logged(t, "run.started")) <= 1
       /\ Cardinality(Ends(t)) <= 1
       /\ Returned(<<"end", t>>) => Lost(t) \/ Ends(t) # {}
       /\ \A i \in Ends(t) :
            /\ failed # {} => log[t][i].what = "run.errored"
            /\ log[t][i].tools >= Cardinality(tools)

(* A call and its response stand at the same step, which no other call of  *)
(* the run has; the call of a span that ended while its run was open is    *)
(* answered, also when another trace's start swept in between.             *)
CallsAnswered == \A s \in Spans :
    /\ Cardinality(CallOf(s)) <= 1 /\ Cardinality(ResponseOf(s)) <= 1
    /\ \A i \in CallOf(s), j \in ResponseOf(s) :
          i < j /\ log[TraceOf[s]][i].step = log[TraceOf[s]][j].step
    /\ \A r \in Spans \ {s} : TraceOf[r] = TraceOf[s] =>
          \A i \in CallOf(s), j \in CallOf(r) :
              log[TraceOf[s]][i].step # log[TraceOf[s]][j].step
    /\ Returned(<<"close", s>>) /\ CallOf(s) # {} /\ TraceOf[s] \in ToSet(runs)
          => ResponseOf(s) # {}

TracesExact == TerminalExact /\ CallsAnswered

(* The comment on _ensure_run_started: "run.started is always the run's    *)
(* first event".                                                           *)
StartedFirst == \A t \in Traces :
    log[t] # <<>> => log[t][1].what = "run.started"

(* The comment on _resurrect_locked: a pruned trace's token "belonged to a *)
(* context that the sweep already reset".                                  *)
PrunedIsReset == \A t \in ToSet(pruned) : current[TaskOf[t]] # t

(* The comment in _emit_llm_responded: the mark is made under the lock,    *)
(* "otherwise on_trace_end can race and record a failed run as completed". *)
FailureNotRaced == \A t \in Traces : \A s \in Spans :
    /\ TraceOf[s] = t /\ outcome[s] = "failed" /\ Logged(t, "run.completed") # {}
    => \A i \in ResponseOf(s) : i > CHOOSE j \in Logged(t, "run.completed") : TRUE
=============================================================================
