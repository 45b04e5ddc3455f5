----------------------------- MODULE RunRecord -----------------------------
(***************************************************************************)
(* What a run leaves behind, twice: the RunState the SDK's hooks keep in   *)
(* the agent's process (run_context.py) and the event stream from which    *)
(* run_builder.py rebuilds a RunState on the server.  The detectors read   *)
(* either.                                                                 *)
(*                                                                         *)
(* A text is the set of the marks it contains that a detector looks for.   *)
(* The hooks run in any order the instrumented frameworks produce: tool    *)
(* calls overlap when they are parallel, and so do LLM calls, streamed or  *)
(* not.  Every response is that of a call made before it.                  *)
(***************************************************************************)
EXTENDS Integers, Sequences, FiniteSets, SequencesExt

CONSTANTS
    Menus,      \* what agents do: each menu is one alphabet of hook calls
    NoNumber    \* a count the caller does not know

VARIABLES
    menu,       \* the alphabet of this run
    sdk,        \* the SDK's RunState, and the step counter of RunContext
    events,     \* the events emitted, in order
    now         \* the wall clock

vars == <<menu, sdk, events, now>>

Blank == [tools |-> <<>>, llms |-> <<>>, finds |-> <<>>, memory |-> <<>>,
          limits |-> <<>>, offered |-> FALSE, input |-> {},
          exit |-> "none", current |-> 0]

Init ==
    /\ menu \in Menus
    /\ \E text \in menu.inputs, offered \in menu.offered :
         /\ sdk = [Blank EXCEPT !.offered = offered, !.input = text] @@ [step |-> 0]
         /\ events = <<[type |-> "run.started", step |-> 0, at |-> 0,
                        body |-> [offered |-> offered, text |-> text]]>>
    /\ now = 0

Over    == Last(events).type \in {"run.completed", "run.errored"}
Running == ~ Over /\ Len(events) < menu.length

(* RunContext._emit: the event carries the step after the advance.         *)
Emit(type, advance, body, state) ==
    /\ Running
    /\ \E pace \in menu.paces : now' = now + pace
    /\ sdk' = [state EXCEPT !.step = @ + advance]
    /\ events' = Append(events, [type |-> type, step |-> sdk.step + advance,
                                 at |-> now', body |-> body])
    /\ UNCHANGED menu

Pending(tools, name) == {i \in DOMAIN tools : tools[i].name = name /\ tools[i].ok = "pending"}

Newest(I) == CHOOSE i \in I : \A j \in I : j <= i
-----------------------------------------------------------------------------
(* The hooks.  A call is recorded at the step before its event advances it.*)

ToolCalled(name, args) ==
    Emit("tool.called", 1, [name |-> name, args |-> args],
         [sdk EXCEPT !.tools = Append(@, [name |-> name, args |-> args, ok |-> "pending",
                                          text |-> {}, step |-> sdk.step])])

(* The newest unanswered call of that name is answered.                    *)
Answer(tools, name, ok, text) ==
    LET I == Pending(tools, name)
    IN  IF I = {} THEN tools
        ELSE [tools EXCEPT ![Newest(I)].ok = ok, ![Newest(I)].text = text]

ToolResponded(name, result) ==
    /\ Pending(sdk.tools, name) # {}
    /\ Emit("tool.responded", 0, [name |-> name, ok |-> result.ok, text |-> result.text],
            [sdk EXCEPT !.tools = Answer(@, name, result.ok, result.text)])

NewCall(model, tokens, step) ==
    [model |-> model, tokens |-> tokens, finish |-> "none", out |-> NoNumber,
     text |-> {}, degraded |-> FALSE, answered |-> FALSE, step |-> step]

(* call_id is the position of the call in the run.                         *)
LlmCalled(model, tokens) ==
    Emit("llm.called", 1, [model |-> model, tokens |-> tokens, id |-> Len(sdk.llms)],
         [sdk EXCEPT !.llms = Append(@, NewCall(model, tokens, sdk.step))])

Filled(call, reply) ==
    [call EXCEPT !.finish = reply.finish, !.out = reply.out, !.text = reply.text,
                 !.degraded = @ \/ reply.degraded, !.answered = TRUE]

(* The response of call i.  A stream names its call, whenever the caller   *)
(* drains it; a plain response names none and is taken for that of the     *)
(* newest call, answered or not ("by" is no part of the event).            *)
LlmResponded(i, reply) ==
    /\ i \in DOMAIN sdk.llms
    /\ \A p \in DOMAIN events : events[p].type = "llm.responded" => events[p].body.by # i
    /\ LET k == IF sdk.llms[i].model \in menu.streamed THEN i ELSE Len(sdk.llms)
       IN  Emit("llm.responded", 0, [id |-> k - 1, by |-> i] @@ reply,
                [sdk EXCEPT !.llms[k] = Filled(@, reply)])

RetrievalCalled ==
    /\ menu.finds # {}
    /\ Emit("retrieval.called", 1, [none |-> TRUE], sdk)

Count(type) == Cardinality({i \in DOMAIN events : events[i].type = type})

RetrievalResponded(find) ==
    /\ Count("retrieval.called") > Count("retrieval.responded")
    /\ Emit("retrieval.responded", 0, find,
            [sdk EXCEPT !.finds = Append(@, find @@ [step |-> sdk.step])])

(* memory_written, memory_read, memory_cleared.                            *)
Memory(op) ==
    Emit("memory." \o op.op, 0, op,
         [sdk EXCEPT !.memory = Append(@, op @@ [step |-> sdk.step])])

ExternalSignal ==
    /\ menu.limits
    /\ Emit("external.signal", 0, [none |-> TRUE], [sdk EXCEPT !.limits = Append(@, sdk.step)])

FinalAnswer ==
    /\ Running /\ "final_answer" \in menu.exits /\ sdk.exit = "none"
    /\ sdk' = [sdk EXCEPT !.exit = "final_answer"]
    /\ UNCHANGED <<menu, events, now>>

(* Dunetrace.run: the three ways out.  Only then is current_step set.      *)
Complete ==
    /\ "completed" \in menu.exits
    /\ Emit("run.completed", 0,
            [exit |-> IF sdk.exit = "none" THEN "completed" ELSE sdk.exit],
            [sdk EXCEPT !.current = sdk.step])

Raise(exit) ==
    /\ exit \in menu.exits
    /\ Emit("run.errored", 0, [exit |-> exit],
            [sdk EXCEPT !.current = sdk.step, !.exit = exit])

Next ==
    \/ \E name \in menu.tools :
         \/ \E args \in menu.args : ToolCalled(name, args)
         \/ \E result \in menu.results : ToolResponded(name, result)
    \/ \E model \in menu.models, tokens \in menu.tokens : LlmCalled(model, tokens)
    \/ \E i \in DOMAIN sdk.llms, reply \in menu.replies : LlmResponded(i, reply)
    \/ RetrievalCalled
    \/ \E find \in menu.finds : RetrievalResponded(find)
    \/ \E op \in menu.memory : Memory(op)
    \/ ExternalSignal
    \/ FinalAnswer
    \/ Complete
    \/ \E exit \in {"error", "policy_violation"} : Raise(exit)

Spec == Init /\ [][Next]_vars
-----------------------------------------------------------------------------
(* run_builder.build_run_state.  Next to the state it keeps the calls that *)
(* await a response: open in order, named by call_id.                      *)

Paired(b, id) ==
    IF id \in DOMAIN b.named THEN b.named[id]
    ELSE IF b.open = <<>> THEN 0 ELSE Last(b.open)

CallSeen(b, e) ==
    LET n == Len(b.llms) + 1
    IN  [b EXCEPT !.llms = Append(@, NewCall(e.body.model, e.body.tokens, e.step)),
                  !.open = Append(@, n), !.named = @ @@ (e.body.id :> n)]

ReplySeen(b, e) ==
    LET i == Paired(b, e.body.id)
        r == [b EXCEPT !.open = SelectSeq(@, LAMBDA n : n # i),
                       !.named = [id \in DOMAIN @ \ {e.body.id} |-> @[id]]]
    IN  IF i = 0
        THEN [r EXCEPT !.llms = Append(@, Filled(NewCall("unknown", NoNumber, e.step), e.body))]
        ELSE [r EXCEPT !.llms[i] = Filled(@, e.body)]

EventSeen(b, e) ==
    CASE e.type = "run.started" -> [b EXCEPT !.offered = e.body.offered, !.input = e.body.text]
      [] e.type = "run.completed" -> [b EXCEPT !.exit = e.body.exit]
      [] e.type = "run.errored" -> [b EXCEPT !.exit = "error"]
      [] e.type = "llm.called" -> CallSeen(b, e)
      [] e.type = "llm.responded" -> ReplySeen(b, e)
      [] e.type = "tool.called" ->
           [b EXCEPT !.tools = Append(@, [name |-> e.body.name, args |-> e.body.args,
                                          ok |-> "pending", text |-> {}, step |-> e.step])]
      [] e.type = "tool.responded" ->
           [b EXCEPT !.tools = Answer(@, e.body.name, e.body.ok, e.body.text)]
      [] e.type = "retrieval.responded" ->
           [b EXCEPT !.finds = Append(@, e.body @@ [step |-> e.step])]
      [] e.type \in {"memory.written", "memory.read", "memory.cleared"} ->
           [b EXCEPT !.memory = Append(@, e.body @@ [step |-> e.step])]
      [] e.type = "external.signal" -> [b EXCEPT !.limits = Append(@, e.step)]
      [] OTHER -> b

(* step_durations_ms: the gap after the first event of each step.          *)
Durations(es) ==
    LET first(s) == CHOOSE i \in DOMAIN es : /\ es[i].step = s
                                             /\ \A j \in 1..(i - 1) : es[j].step # s
    IN  [s \in {es[i].step : i \in 1..(Len(es) - 1)} |-> es[first(s) + 1].at - es[first(s)].at]

(* Mutant: the steps are counted by the events.                            *)
BuildRunState_Counted ==
    LET b == FoldLeft(EventSeen, Blank @@ [open |-> <<>>, named |-> <<>>], events)
    IN  [b EXCEPT !.current = Len(events)]
            @@ [events |-> events, durations |-> Durations(events)]

BuildRunState ==
    LET b == FoldLeft(EventSeen, Blank @@ [open |-> <<>>, named |-> <<>>], events)
    IN  [b EXCEPT !.current = Last(events).step]
            @@ [events |-> events, durations |-> Durations(events)]

(* What the in-path detectors read: the client emits the start and the end *)
(* of the run past the RunState, and no durations are ever kept.           *)
InPath ==
    sdk @@ [events |-> SelectSeq(events, LAMBDA e : e.type \notin
                                    {"run.started", "run.completed", "run.errored"}),
            durations |-> <<>>]
=============================================================================
