----------------------------- MODULE Grounding -----------------------------
(***************************************************************************)
(* The two detectors that judge what a tool call was about by where the    *)
(* agent had it from: UNGROUNDED_DESTINATION (data is sent to an address   *)
(* no trusted text of the run contains) and UNRESOLVED_AMBIGUITY (an       *)
(* irreversible call picks one of several records the user did not tell    *)
(* apart).  Approval gates, memory, retrieved texts and the user's later   *)
(* words all play a part, in the order they happened.                      *)
(*                                                                         *)
(* A text is the set of its words; "inject" is a mark of injected content  *)
(* and "pattern" one that only the input scan knows.  Its size is the      *)
(* number of its words.  The abort on the wall-clock budget and the cut of *)
(* very long arguments, which can only silence a detector, are left out.   *)
(***************************************************************************)
EXTENDS Integers, Sequences, FiniteSets, SequencesExt

CONSTANTS
    Menus,          \* what agents and users do: alphabets of hook calls
    Dests,          \* words that are destinations
    IdLike,         \* words shaped like an identifier
    Allowlisted,    \* destinations the operator trusts
    SendTools,      \* tools whose name says that they send
    Irreversible,   \* tools the operator declared irreversible
    Cap,            \* MAX_CANDIDATES_PER_RUN, of either detector
    InPathSurface,  \* MAX_SURFACE_CHARS in the agent's process, in words
    ServerSurface   \* ... and on the server

VARIABLES
    menu,           \* the alphabet of this run
    rec,            \* the record of the run, at the SDK's steps
    step,           \* RunContext.step
    fate            \* what really became of each tool call

vars == <<menu, rec, step, fate>>

Init ==
    /\ menu \in Menus
    /\ \E input \in menu.inputs :
          rec = [input |-> input, prompt |-> menu.prompt, tools |-> <<>>, finds |-> <<>>,
                 memory |-> <<>>, events |-> <<>>]
    /\ step = 0 /\ fate = <<>>

Room == Len(rec.events) < menu.length

(* RunContext._emit.                                                       *)
Emit(type, advance, body, r) ==
    /\ Room
    /\ step' = step + advance
    /\ rec' = [r EXCEPT !.events = Append(@, [type |-> type, step |-> step + advance] @@ body)]
    /\ UNCHANGED menu

Now == Len(fate)

(* The call is recorded, its event emitted, and then the gate may hold the *)
(* thread that made it.                                                    *)
ToolCalled(name, args, gated) ==
    /\ menu.parallel \/ \A i \in DOMAIN fate : fate[i] # "held"
    /\ gated => name \in menu.gated
    /\ fate' = Append(fate, IF gated THEN "held" ELSE "running")
    /\ Emit("tool.called", 1, [name |-> name],
            [rec EXCEPT !.tools = Append(@, [name |-> name, args |-> args, ok |-> "pending",
                                             text |-> {}, sets |-> <<>>, step |-> step])])

Decided(i, verdict, note) ==
    /\ i \in DOMAIN fate /\ fate[i] = "held"
    /\ fate' = [fate EXCEPT ![i] = IF verdict = "granted" THEN "running" ELSE "stopped"]
    /\ Emit("approval." \o verdict, 0, [name |-> rec.tools[i].name, note |-> note], rec)

Newest(I) == CHOOSE i \in I : \A j \in I : j <= i

(* tool_responded answers the newest call of that name without an answer.  *)
ToolResponded(i, result) ==
    /\ i \in DOMAIN fate /\ fate[i] = "running"
    /\ menu.parallel \/ i = Now
    /\ fate' = [fate EXCEPT ![i] = "answered"]
    /\ LET name == rec.tools[i].name
           k == Newest({j \in DOMAIN rec.tools : /\ rec.tools[j].name = name
                                                 /\ rec.tools[j].ok = "pending"})
       IN  Emit("tool.responded", 0, [text |-> result.text, sets |-> result.sets],
                [rec EXCEPT !.tools[k] = [@ EXCEPT !.ok = result.ok, !.text = result.text,
                                                   !.sets = result.sets]])

RetrievalResponded(text) ==
    /\ UNCHANGED fate
    /\ Emit("retrieval.responded", 0, [text |-> text],
            [rec EXCEPT !.finds = Append(@, [text |-> text, step |-> step])])

Memory(op) ==
    /\ UNCHANGED fate
    /\ Emit("memory." \o op.op, 0, [text |-> op.text, source |-> op.source],
            [rec EXCEPT !.memory = Append(@, op @@ [step |-> step])])

UserTurn(text) ==
    /\ UNCHANGED fate
    /\ Emit("external.signal", 0, [text |-> text], rec)

Next ==
    \/ \E call \in menu.calls, gated \in BOOLEAN : ToolCalled(call[1], call[2], gated)
    \/ \E i \in DOMAIN fate, verdict \in {"granted", "denied", "timeout"}, note \in menu.notes :
          Decided(i, verdict, note)
    \/ \E i \in DOMAIN fate : \E result \in menu.results[rec.tools[i].name] : ToolResponded(i, result)
    \/ \E text \in menu.finds : RetrievalResponded(text)
    \/ \E op \in menu.memory : Memory(op)
    \/ \E text \in menu.turns : UserTurn(text)

Spec == Init /\ [][Next]_vars
-----------------------------------------------------------------------------
(* What each side reads.  In the agent's process the call carries the step *)
(* before its own event; rebuilt on the server, the step of that event.    *)
(* The start of the run, with the result of the input scan, is among the   *)
(* server's events only.                                                   *)

CheckInput(text) == text \cap {"inject", "pattern"} # {}

InPath == rec @@ [injected |-> FALSE]

Server == [rec EXCEPT !.tools = [i \in DOMAIN @ |-> [@[i] EXCEPT !.step = @ + 1]]]
              @@ [injected |-> CheckInput(rec.input)]
-----------------------------------------------------------------------------
(* Approval events.                                                        *)

Refusals(s) == SelectSeq(s.events, LAMBDA e : e.type \in {"approval.denied", "approval.timeout"})

(* Mutant: a call at the step of the decision is taken for the refused one.*)
Claim_SameStep(s, B, e) ==
    LET I == {i \in DOMAIN s.tools \ B : /\ s.tools[i].name = e.name
                                         /\ s.tools[i].step <= e.step
                                         /\ s.tools[i].ok = "pending"}
    IN  IF I = {} THEN B ELSE B \union {Newest(I)}

(* A refusal claims the newest unanswered call before it.                  *)
Claim(s, B, e) ==
    LET I == {i \in DOMAIN s.tools \ B : /\ s.tools[i].name = e.name
                                         /\ s.tools[i].step < e.step
                                         /\ s.tools[i].ok = "pending"}
    IN  IF I = {} THEN B ELSE B \union {Newest(I)}

ApprovalBlockedCalls(s) == FoldLeft(LAMBDA B, e : Claim(s, B, e), {}, Refusals(s))

(* Mutant: what the human wrote is not read.                               *)
ApprovalNotes_Unread(s) == <<>>

(* _APPROVAL_NOTE_EVENTS: the note of a timed-out row is shipped, not read.*)
ApprovalNotes(s) ==
    SelectSeq(s.events, LAMBDA e : /\ e.type \in {"approval.granted", "approval.denied"}
                                   /\ e.note # {})
-----------------------------------------------------------------------------
(* UNGROUNDED_DESTINATION.                                                 *)

Texts(q)      == {q[i].text : i \in DOMAIN q}
Demoted(text) == "inject" \in text
Untrusted     == {"retrieval", "tool_output", "external"}
Written(s)    == SelectSeq(s.memory, LAMBDA m : m.op = "written" /\ m.text # {})
InputInjected(s) == s.injected \/ Demoted(s.input)

(* _partition_surfaces: a text with a mark is moved from one to the other. *)
Grounded(s) ==
    UNION ({IF InputInjected(s) THEN {} ELSE s.input, s.prompt}
           \union {e.note : e \in ToSet(ApprovalNotes(s))}
           \union {text \in Texts(s.tools) \union Texts(s.finds) : ~ Demoted(text)}
           \union {m.text : m \in {m \in ToSet(Written(s)) : m.source \notin Untrusted}})

ReadBack(s, m) == \E i \in DOMAIN s.memory : /\ s.memory[i].op = "read"
                                             /\ s.memory[i].key = m.key
                                             /\ s.memory[i].step >= m.step

(* The tainted texts in the order they are searched.                       *)
TaintBlocks(s) ==
    LET marked(q) == SelectSeq(q, LAMBDA c : Demoted(c.text))
        block(q, kind) == [i \in DOMAIN q |-> [kind |-> kind, text |-> q[i].text, readBack |-> FALSE]]
        planted == SelectSeq(Written(s), LAMBDA m : m.source \in Untrusted)
    IN  (IF InputInjected(s)
         THEN <<[kind |-> "user_input", text |-> s.input, readBack |-> FALSE]>> ELSE <<>>)
        \o block(marked(s.tools), "tool_output") \o block(marked(s.finds), "retrieval")
        \o [i \in DOMAIN planted |-> [kind |-> "memory_write", text |-> planted[i].text,
                                      readBack |-> ReadBack(s, planted[i])]]

(* The destinations in the arguments of the calls I, in order.             *)
Sent(s, I) ==
    FoldLeft(\o, <<>>, [i \in DOMAIN s.tools |->
        IF i \notin I THEN <<>>
        ELSE LET q == SelectSeq(s.tools[i].args, LAMBDA w : w \in Dests)
             IN  [k \in DOMAIN q |-> [dest |-> q[k], call |-> i]]])

Visible(s) == \A i \in DOMAIN s.tools : s.tools[i].ok # "pending" => s.tools[i].text # {}

(* Confidence in hundredths.                                               *)
Confidence(s, taint, send) ==
    LET base == IF taint = <<>> THEN 65 ELSE IF Head(taint).readBack THEN 92 ELSE 85
        sum  == base - (IF Visible(s) THEN 0 ELSE 15) + (IF send THEN 5 ELSE 0)
    IN  IF sum > 95 THEN 95 ELSE IF sum < 30 THEN 30 ELSE sum

Judged(s, c) ==
    LET taint == SelectSeq(TaintBlocks(s), LAMBDA b : c.dest \in b.text)
    IN  c @@ [severity |-> IF taint = <<>> THEN "HIGH" ELSE "CRITICAL",
              confidence |-> Confidence(s, taint, s.tools[c.call].name \in SendTools),
              taint |-> IF taint = <<>> THEN "none" ELSE Head(taint).kind]

Above(a, b) == \/ a.severity = "CRITICAL" /\ b.severity = "HIGH"
               \/ a.severity = b.severity /\ a.confidence > b.confidence

(* The size of what would have to be searched: too much, and the run is    *)
(* not judged at all.                                                      *)
Surface(s) ==
    LET sizes(q) == FoldLeft(LAMBDA n, c : n + Cardinality(c.text), 0, q)
    IN  Cardinality(s.input) + Cardinality(s.prompt)
            + sizes(s.tools) + sizes(s.finds) + sizes(s.memory)

(* The cap counts every candidate, the trusted and the repeated ones too.  *)
UngroundedDestination(s, scope, surface) ==
    LET calls == {i \in DOMAIN s.tools \ ApprovalBlockedCalls(s) : s.tools[i].name \in scope}
        seen  == Sent(s, calls)
        bad   == SelectSeq(SubSeq(seen, 1, IF Len(seen) > Cap THEN Cap ELSE Len(seen)),
                           LAMBDA c : c.dest \notin Allowlisted \union Grounded(s))
        found == [i \in DOMAIN bad |-> Judged(s, bad[i])]
    IN  IF bad = <<>> \/ Surface(s) > surface THEN {}
        ELSE {found[CHOOSE i \in DOMAIN found :
                      \A j \in DOMAIN found : ~ Above(found[j], found[i])
                                              /\ (j < i => Above(found[i], found[j]))]}
-----------------------------------------------------------------------------
(* UNRESOLVED_AMBIGUITY.                                                   *)

(* _user_turns: what the user had said by a step.  A note in the words of  *)
(* a turn, even of a later one, is dropped as its duplicate.               *)
Warrant(s, at) ==
    LET turns == {e \in ToSet(s.events) : e.type = "external.signal"}
        notes == {e \in ToSet(ApprovalNotes(s)) : e.note \notin {t.text : t \in turns}}
    IN  s.input \union UNION {e.text : e \in {e \in turns : e.step <= at}}
                \union UNION {e.note : e \in {e \in notes : e.step <= at}}

Acting(s) ==
    {i \in DOMAIN s.tools \ ApprovalBlockedCalls(s) :
        s.tools[i].name \in Irreversible /\ s.tools[i].ok # "failed"}

(* The records of a set the arguments name: by their own identifiers, and  *)
(* by any value only where the set has none.                               *)
Named(args, set) ==
    LET wanted == ToSet(args) \cap IdLike
    IN  {k \in DOMAIN set : wanted \cap (IF \A r \in DOMAIN set : set[r].ids = {}
                                         THEN set[k].words ELSE set[k].ids) # {}}

(* The sets shown by earlier calls, the most recent first.                 *)
Shown(s, i) ==
    FoldLeft(\o, <<>>, [n \in 1..Len(s.tools) |->
        LET j == Len(s.tools) + 1 - n
        IN  IF s.tools[j].step >= s.tools[i].step THEN <<>>
            ELSE [k \in DOMAIN s.tools[j].sets |-> [call |-> j, k |-> k]]])

SetOf(s, a)  == s.tools[a.call].sets[a.k]
Unusable(set) == Len(set) > Cap \/ \E k \in DOMAIN set : set[k].cut

(* The first set that names the record, unless one before it is unusable.  *)
Anchor(s, i) ==
    LET hits == SelectSeq(Shown(s, i), LAMBDA a :
                    Unusable(SetOf(s, a)) \/ Named(s.tools[i].args, SetOf(s, a)) # {})
    IN  IF s.tools[i].args = <<>> \/ hits = <<>> THEN {} ELSE {Head(hits)}

Own(set, k) == set[k].words \ UNION {set[j].words : j \in DOMAIN set \ {k}}

(* The verdict on one call, given the set it chose from.                   *)
Verdict(s, i, set) ==
    LET hit   == CHOOSE k \in Named(s.tools[i].args, set) : TRUE
        acted == UNION {Named(s.tools[j].args, set) : j \in Acting(s)}
        said  == Warrant(s, s.tools[i].step)
    IN  IF \/ Len(set) < 2 \/ Cardinality(Named(s.tools[i].args, set)) # 1
           \/ acted = DOMAIN set \/ Own(set, hit) \cap said # {}
        THEN {}
        ELSE {[call |-> i, tier |-> IF \E k \in DOMAIN set \ {hit} : Own(set, k) \cap said # {}
                                    THEN "strong" ELSE "weak"]}

(* The strongest, and among them the earliest.  One unusable set, or too   *)
(* many records in all, and the run is not judged.                         *)
UnresolvedAmbiguity(s) ==
    LET anchors  == UNION {Anchor(s, i) : i \in Acting(s)}
        records  == FoldSet(LAMBDA a, n : n + Len(SetOf(s, a)), 0, anchors)
        verdicts == UNION {UNION {Verdict(s, i, SetOf(s, a)) : a \in Anchor(s, i)} : i \in Acting(s)}
        best     == CHOOSE v \in verdicts : \A w \in verdicts \ {v} :
                        \/ v.tier = "strong" /\ w.tier = "weak"
                        \/ v.tier = w.tier /\ v.call < w.call
    IN  IF \/ \E a \in anchors : Unusable(SetOf(s, a))
           \/ records > Cap \/ verdicts = {}
        THEN {} ELSE {best}
-----------------------------------------------------------------------------
(* The order of the events: the reference, for an agent that does one      *)
(* thing at a time.                                                        *)

Position(i) ==
    CHOOSE p \in DOMAIN rec.events :
        /\ rec.events[p].type = "tool.called"
        /\ Cardinality({q \in 1..p : rec.events[q].type = "tool.called"}) = i

Before(i, types) == {rec.events[p] : p \in {p \in 1..(Position(i) - 1) : rec.events[p].type \in types}}

Decisions == {"approval.granted", "approval.denied"}    \* by a human
Alone     == ~ menu.parallel
Refused   == {i \in DOMAIN fate : fate[i] = "stopped"}

(* An agent that does one thing at a time is credited, in its own process, *)
(* with exactly the refusals it met: not with a silent call in their place,*)
(* not with the corrected retry (the docstring of _approval_blocked_calls).*)
RefusedCallsExact == Alone => ApprovalBlockedCalls(InPath) = Refused

(* The trusted words the agent had met before the call.                    *)
Told(s, i) ==
    (IF InputInjected(s) THEN {} ELSE s.input) \union s.prompt
        \union UNION {e.note : e \in Before(i, Decisions)}
        \union UNION {e.text : e \in {e \in Before(i, {"tool.responded", "retrieval.responded"}) :
                                         ~ Demoted(e.text)}}
        \union UNION {e.text : e \in {e \in Before(i, {"memory.written"}) :
                                         e.source \notin Untrusted}}

InScope == UngroundedDestination(InPath, SendTools, InPathSurface)
AtServer == UngroundedDestination(Server, DOMAIN menu.results, ServerSurface)

(* Both sides report only an address nobody trusted had told the agent     *)
(* before the call (in the run's texts, or in the note of a grant or of a  *)
(* denial); and the side that can stop a call reports, while the call is   *)
(* being made, whatever address in it was told by nobody: unless the texts *)
(* are too many or the candidates past the cap, and where the scan is not  *)
(* cut for time.                                                           *)
DestinationsHeldToWhatWasTold ==
    /\ \A v \in InScope : v.dest \notin Told(InPath, v.call)
    /\ \A v \in AtServer : v.dest \notin Told(Server, v.call)
    /\ /\ rec.events # <<>> /\ Last(rec.events).type = "tool.called"
       /\ rec.tools[Now].name \in SendTools /\ Len(Sent(InPath, DOMAIN fate)) <= Cap
       /\ Surface(InPath) <= InPathSurface
       /\ \E d \in ToSet(rec.tools[Now].args) \cap Dests :
             d \notin Allowlisted \union Told(InPath, Now)
       => InScope # {}

(* What the user had said, notes included (the note of a row that timed out*)
(* is none), and the set last shown that has the record.                   *)
Said(i) == rec.input \union UNION {e.text : e \in Before(i, {"external.signal"})}
                     \union UNION {e.note : e \in Before(i, Decisions)}

Chosen(i) ==
    LET shown == {p \in 1..(Position(i) - 1) :
                    /\ rec.events[p].type = "tool.responded"
                    /\ \E k \in DOMAIN rec.events[p].sets :
                          Named(rec.tools[i].args, rec.events[p].sets[k]) # {}}
        event == rec.events[CHOOSE p \in shown : \A q \in shown : q <= p]
        k     == CHOOSE k \in DOMAIN event.sets :
                    /\ Named(rec.tools[i].args, event.sets[k]) # {}
                    /\ \A j \in 1..(k - 1) : Named(rec.tools[i].args, event.sets[j]) = {}
    IN  IF shown = {} THEN <<>> ELSE event.sets[k]

Performed == {i \in DOMAIN fate : /\ rec.tools[i].name \in Irreversible
                                  /\ fate[i] # "stopped" /\ rec.tools[i].ok # "failed"}

(* The call took one of several records, and no word of the user's that    *)
(* fits this record only had been said.                                    *)
Guess(i) ==
    LET set == Chosen(i)
    IN  /\ Len(set) >= 2 /\ Cardinality(Named(rec.tools[i].args, set)) = 1
        /\ \A k \in Named(rec.tools[i].args, set) : Own(set, k) \cap Said(i) = {}
        /\ UNION {Named(rec.tools[j].args, set) : j \in Performed} # DOMAIN set

(* In the agent's process the choice is judged by what had been said and   *)
(* shown when it was made: the detector speaks up exactly when an action   *)
(* that was performed was a guess, and calls it strong exactly when the    *)
(* user had named another record by then.                                  *)
ChoicesJudgedWhenMade ==
    Alone /\ (\A i \in DOMAIN rec.tools, k \in 1..9 :
                 k \in DOMAIN rec.tools[i].sets => ~ Unusable(rec.tools[i].sets[k])) =>
        /\ (UnresolvedAmbiguity(InPath) # {}) = (\E i \in Performed : Guess(i))
        /\ \A v \in UnresolvedAmbiguity(InPath) :
              LET set == Chosen(v.call)
              IN  /\ v.call \in Performed /\ Guess(v.call)
                  /\ (v.tier = "strong")
                        = \E k \in DOMAIN set : Own(set, k) \cap Said(v.call) # {}
-----------------------------------------------------------------------------
(* What the documentation says and the code does not do.                   *)

(* The docstring of _approval_blocked_calls: a run on which the control    *)
(* worked is not reported for what the gate stopped.                       *)
RefusedNeverReported ==
    Alone => \A v \in AtServer : v.call \notin Refused

(* The docstring of UNRESOLVED_AMBIGUITY: "A reply that arrives afterwards *)
(* cannot justify a choice already committed to".                          *)
WarrantPrecedes ==
    Alone /\ (\E i \in Performed : Guess(i)) => UnresolvedAmbiguity(Server) # {}

(* The docstring of UNGROUNDED_DESTINATION: "prevent -> detect, never      *)
(* detect -> nothing", what the agent's side reported the server reports.  *)
PreventedOrDetected ==
    [][\A v \in InScope : v.call \notin Refused' => AtServer' # {}]_vars
=============================================================================
