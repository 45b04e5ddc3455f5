--------------------------------- MODULE Otlp ---------------------------------
(***************************************************************************)
(* The OTLP receiver of the ingest API: POST /v1/otlp/traces with its kill *)
(* switch, span limit, in-flight guard, background persist with circuit    *)
(* breaker and retry buffer (routers/otlp.py, otlp_limits.py), the mapping *)
(* of spans to events (otel.py) and the counters (otel_stats.py).          *)
(*                                                                         *)
(* One trace, one worker process.  The exporter sends whatever spans have  *)
(* ended, so the trace arrives in several requests; it sends a batch again *)
(* when told to retry or when no answer comes.  Spans are numbered by      *)
(* their start; span 1 is the root.                                        *)
(*                                                                         *)
(* The receiver takes an insert for failed when the event store raises.    *)
(* The interface leaves open whether a store does; the one that is         *)
(* shipped never does, and answers 0 rows, which nobody looks at.          *)
(***************************************************************************)
EXTENDS Integers, Sequences, FiniteSets, SequencesExt

CONSTANTS
  NSpans,        \* spans of the trace
  Skipped,       \* those _classify() maps to no event of their own
  MaxRequests,   \* requests the exporter makes
  Burst,         \* SpanRateLimiter._burst
  MaxInflight,   \* InflightGuard._max
  MaxBatches,    \* PersistRetry._buffer.maxlen
  Threshold,     \* PersistRetry.FAILURE_THRESHOLD
  MaxOtlpFaults,     \* lost answers, refused bodies, batches that cannot be mapped,
                     \* commits whose answer is lost, outages
  MaxRestarts    \* restarts of the process

ASSUME OtlpAssumption ==
  /\ {NSpans, Burst, MaxInflight, MaxBatches, Threshold} \subseteq Nat \ {0}
  /\ {MaxRequests, MaxOtlpFaults, MaxRestarts} \subseteq Nat
  /\ Skipped \subseteq 1 .. NSpans

Spans == 1 .. NSpans
Root == 1
Requests == 1 .. MaxRequests
None == 0

VARIABLES
  raises,    \* the event store raises when an insert fails
  trusted,   \* no API key is looked up: a trusted gateway's, or a development key
  ended,     \* spans ended and not yet sent
  sent,      \* request -> its spans, {} before it is made
  state,     \* request -> where it is
  answer,    \* request -> "none", "ok", "retry" (429), "refused" or "lost"
  enabled,   \* organizations.otel_ingestion_enabled
  cache,     \* _enable_cache: "absent", TRUE or FALSE as "on", "off"
  seen,      \* request -> what its own lookup of the switch read
  toggle,    \* the admin's PUT: "before", "written" or "answered"
  after,     \* requests that arrived after the PUT was answered
  tokens, inflight,                    \* the span limit, the guard
  failures, open,                      \* the circuit breaker
  buffer,    \* _buffer, of requests
  otlpStored,    \* request -> copies of its events in the table
  loop,      \* maintenance: [pc, item, left]
  counts,    \* batches_received: in memory, being flushed, in the table
  up,        \* the database answers
  otlpFaults,
  restarts

receiver == <<sent, state, answer, after>>
switch == <<enabled, cache, seen, toggle>>
limits == <<tokens, inflight>>
spent == <<otlpFaults, restarts>>
persist == <<failures, open, buffer, otlpStored, loop>>
setting == <<raises, trusted>>
otlpVars == <<setting, ended, receiver, switch, limits, persist, counts, up, spent>>

Asleep == [pc |-> "sleep", item |-> None, left |-> 0]

OtlpInit ==
  /\ raises \in BOOLEAN /\ trusted \in BOOLEAN
  /\ ended = {} /\ sent = [r \in Requests |-> {}]
  /\ state = [r \in Requests |-> "none"]
  /\ answer = [r \in Requests |-> "none"]
  /\ enabled = TRUE /\ cache = "absent" /\ seen = [r \in Requests |-> TRUE]
  /\ toggle = "before" /\ after = {}
  /\ tokens = Burst /\ inflight = 0
  /\ failures = 0 /\ open = FALSE /\ buffer = <<>>
  /\ otlpStored = [r \in Requests |-> 0]
  /\ loop = Asleep
  /\ counts = [memory |-> 0, flushing |-> 0, table |-> 0]
  /\ up = TRUE /\ otlpFaults = 0 /\ restarts = 0

OtlpTypeOK ==
  /\ ended \subseteq Spans /\ sent \in [Requests -> SUBSET Spans]
  /\ tokens \in 0 .. Burst /\ inflight \in 0 .. MaxInflight
  /\ Len(buffer) <= MaxBatches /\ loop.item \in Requests \cup {None}
  /\ otlpStored \in [Requests -> Nat] /\ failures \in 0 .. Threshold

Fault == otlpFaults < MaxOtlpFaults /\ otlpFaults' = otlpFaults + 1 /\ UNCHANGED restarts
-----------------------------------------------------------------------------
\* The mapping.  Spans are taken by their start; each one that maps to a call
\* takes the next step of this request; the root opens and closes the run.
Mapped(batch) == batch \ Skipped
StepOf(batch, s) == Cardinality({t \in Mapped(batch) : t <= s})
Events(batch) ==
  {[type |-> "call", span |-> s, step |-> StepOf(batch, s)] : s \in Mapped(batch)}
    \cup IF Root \in batch
         THEN {[type |-> "run.started", span |-> Root, step |-> 0],
               [type |-> "run.completed", span |-> Root,
                step |-> Cardinality(Mapped(batch)) + 1]}
         ELSE {}
-----------------------------------------------------------------------------
\* The exporter.
End(s) ==
  /\ s \notin ended /\ \A r \in Requests : s \notin sent[r]
  /\ ended' = ended \cup {s}
  /\ UNCHANGED <<setting, receiver, switch, limits, persist, counts, up, spent>>

NextRequest(r) == sent[r] = {} /\ \A q \in Requests : q < r => sent[q] # {}

Arrive(r, batch) ==
  /\ sent' = [sent EXCEPT ![r] = batch]
  /\ state' = [state EXCEPT ![r] = "arrived"]
  /\ after' = IF toggle = "answered" THEN after \cup {r} ELSE after

Export(r) ==
  /\ NextRequest(r) /\ ended # {}
  /\ Arrive(r, ended) /\ ended' = {}
  /\ UNCHANGED <<setting, answer, switch, limits, persist, counts, up, spent>>

SendAgain(q, r) ==
  /\ answer[q] \in {"retry", "lost"} /\ NextRequest(r)
  /\ \A p \in Requests : p > q => sent[p] # sent[q]
  /\ Arrive(r, sent[q])
  /\ UNCHANGED <<setting, ended, answer, switch, limits, persist, counts, up, spent>>
-----------------------------------------------------------------------------
\* The handler.  A body that is too large, of another type or malformed is
\* refused for good.
Refuse(r) ==
  /\ state[r] = "arrived" /\ Fault
  /\ state' = [state EXCEPT ![r] = "refused"]
  /\ answer' = [answer EXCEPT ![r] = "refused"]
  /\ UNCHANGED <<setting, ended, sent, after, switch, limits, persist, counts, up>>

\* verify_api_key of a valid key: an error of the database reads like a key
\* nobody knows, and the exporter does not send the batch again.
Authorise(r) ==
  /\ state[r] = "arrived"
  /\ IF trusted \/ up
     THEN state' = [state EXCEPT ![r] = "authorised"] /\ UNCHANGED answer
     ELSE state' = [state EXCEPT ![r] = "refused"] /\ answer' = [answer EXCEPT ![r] = "refused"]
  /\ UNCHANGED <<setting, ended, sent, after, switch, limits, persist, counts, up, spent>>

Respond(r, to, code) ==
  /\ state' = [state EXCEPT ![r] = to]
  /\ \/ answer' = [answer EXCEPT ![r] = code] /\ UNCHANGED spent
     \/ answer' = [answer EXCEPT ![r] = "lost"] /\ Fault

\* From the switch on there is no await: limit, guard, task, answer.
Admit(r) ==
  LET spans == Cardinality(sent[r])
      required == IF spans < Burst THEN spans ELSE Burst
  IN  IF tokens < required
      THEN Respond(r, "shed", "retry") /\ UNCHANGED <<limits, counts>>
      ELSE /\ tokens' = IF spans < tokens THEN tokens - spans ELSE 0
           /\ IF inflight = MaxInflight
              THEN Respond(r, "shed", "retry") /\ UNCHANGED <<inflight, counts>>
              ELSE /\ inflight' = inflight + 1
                   /\ counts' = [counts EXCEPT !.memory = @ + 1]
                   /\ Respond(r, "task", "ok")

Deny(r) == Respond(r, "refused", "refused") /\ UNCHANGED <<limits, counts>>

Cached(r) ==
  /\ state[r] = "authorised" /\ cache # "absent"
  /\ IF cache = "on" THEN Admit(r) ELSE Deny(r)
  /\ UNCHANGED <<setting, ended, sent, after, switch, persist, up>>

\* The lookup fails open.
Look(r) ==
  /\ state[r] = "authorised" /\ cache = "absent"
  /\ state' = [state EXCEPT ![r] = "looking"]
  /\ seen' = [seen EXCEPT ![r] = up => enabled]
  /\ UNCHANGED <<setting, ended, sent, answer, after, enabled, cache, toggle, limits, persist,
                 counts, up, spent>>

Looked(r) ==
  /\ state[r] = "looking"
  /\ cache' = IF seen[r] THEN "on" ELSE "off"
  /\ IF seen[r] THEN Admit(r) ELSE Deny(r)
  /\ UNCHANGED <<setting, ended, sent, after, enabled, seen, toggle, persist, up>>
-----------------------------------------------------------------------------
\* The retry buffer drops its oldest batch when it is full.
Enqueue(r, to) ==
  IF Len(buffer) = MaxBatches
  THEN /\ buffer' = Append(Tail(buffer), r)
       /\ state' = [state EXCEPT ![r] = to, ![Head(buffer)] = "dropped"]
  ELSE /\ buffer' = Append(buffer, r)
       /\ state' = [state EXCEPT ![r] = to]

RecordFailure ==
  IF failures + 1 >= Threshold
  THEN open' = TRUE /\ failures' = 0
  ELSE failures' = failures + 1 /\ UNCHANGED open

\* _persist_otlp releases the slot on every way out.
Release == inflight' = IF inflight > 0 THEN inflight - 1 ELSE 0

PersistOtlp(r) ==
  /\ state[r] = "task"
  /\ CASE Events(sent[r]) = {} ->
            /\ state' = [state EXCEPT ![r] = "done"]
            /\ Release /\ UNCHANGED buffer
       [] Events(sent[r]) # {} /\ open ->
            Enqueue(r, "buffered") /\ Release
       [] OTHER ->
            /\ state' = [state EXCEPT ![r] = "inserting"]
            /\ UNCHANGED <<buffer, inflight>>
  /\ UNCHANGED <<setting, ended, sent, answer, after, switch, tokens, failures, open, otlpStored, loop,
                 counts, up, spent>>

\* A batch that cannot be mapped or does not validate is dropped.  Which one
\* that is, is left open.
MappingFails(r) ==
  /\ state[r] = "task" /\ Fault
  /\ state' = [state EXCEPT ![r] = "unmapped"]
  /\ Release
  /\ UNCHANGED <<setting, ended, sent, answer, after, switch, tokens, persist, counts, up>>

\* An insert commits, fails, or commits with its answer lost.
Commit(r) == otlpStored' = [otlpStored EXCEPT ![r] = @ + 1]

Inserted(r) ==
  /\ state[r] = "inserting" /\ up
  /\ Commit(r) /\ Release
  /\ state' = [state EXCEPT ![r] = "done"]
  /\ UNCHANGED <<setting, ended, sent, answer, after, switch, tokens, failures, open, buffer, loop,
                 counts, up, spent>>

\* A store that does not raise loses the batch, and no failure is recorded.
InsertFailed(r) ==
  /\ state[r] = "inserting"
  /\ \/ ~up /\ UNCHANGED <<otlpStored, spent>>
     \/ up /\ Fault /\ Commit(r)
  /\ Release
  /\ IF raises
     THEN RecordFailure /\ Enqueue(r, "buffered")
     ELSE /\ state' = [state EXCEPT ![r] = IF up THEN "done" ELSE "swallowed"]
          /\ UNCHANGED <<failures, open, buffer>>
  /\ UNCHANGED <<setting, ended, sent, answer, after, switch, tokens, loop, counts, up>>
-----------------------------------------------------------------------------
\* The maintenance loop: a pass over as many batches as it found, stopping at
\* the first failure, which goes to the back; then the counters.
TakeNext(left, rest) ==
  IF left > 0 /\ rest # <<>>
  THEN /\ loop' = [pc |-> "retry", item |-> Head(rest), left |-> left - 1]
       /\ buffer' = Tail(rest)
       /\ UNCHANGED counts
  ELSE /\ loop' = [Asleep EXCEPT !.pc = "flush"]
       /\ buffer' = rest
       /\ counts' = [counts EXCEPT !.memory = 0, !.flushing = @ + counts.memory]

Tick ==
  /\ loop.pc = "sleep" /\ (buffer # <<>> \/ counts.memory > 0)
  /\ TakeNext(Len(buffer), buffer)
  /\ UNCHANGED <<setting, ended, receiver, switch, limits, failures, open, otlpStored, up, spent>>

\* The rows written are not looked at: without an exception it was stored.
Retried ==
  /\ loop.pc = "retry" /\ (up \/ ~raises)
  /\ otlpStored' = [otlpStored EXCEPT ![loop.item] = IF up THEN @ + 1 ELSE @]
  /\ state' = [state EXCEPT ![loop.item] = IF up THEN "done" ELSE "swallowed"]
  /\ TakeNext(loop.left, buffer)
  /\ UNCHANGED <<setting, ended, sent, answer, after, switch, limits, failures, open, up, spent>>

(* Mutant: a batch whose retry fails is not put back.                        *)
RetryFailed_Drops ==
  /\ loop.pc = "retry" /\ raises /\ ~up
  /\ loop' = [Asleep EXCEPT !.pc = "flush"]
  /\ UNCHANGED <<setting, ended, receiver, switch, limits, failures, open, buffer, otlpStored, counts, up,
                 spent>>

(* Mutant: a failed retry ends the maintenance loop.                         *)
RetryFailed_Ends ==
  /\ loop.pc = "retry" /\ raises /\ ~up
  /\ Enqueue(loop.item, "buffered")
  /\ loop' = [Asleep EXCEPT !.pc = "ended"]
  /\ UNCHANGED <<setting, ended, sent, answer, after, switch, limits, failures, open, otlpStored, counts,
                 up, spent>>

RetryFailed ==
  /\ loop.pc = "retry" /\ raises
  /\ \/ ~up /\ UNCHANGED <<otlpStored, spent>>
     \/ up /\ Fault /\ Commit(loop.item)
  /\ Enqueue(loop.item, "buffered")
  /\ loop' = [Asleep EXCEPT !.pc = "flush"]
  /\ counts' = [counts EXCEPT !.memory = 0, !.flushing = @ + counts.memory]
  /\ UNCHANGED <<setting, ended, sent, answer, after, switch, limits, failures, open, up>>

\* What drain() took is gone when the write fails.
Flush ==
  /\ loop.pc = "flush"
  /\ loop' = Asleep
  /\ counts' = [counts EXCEPT !.flushing = 0,
                              !.table = IF up THEN @ + counts.flushing ELSE @]
  /\ UNCHANGED <<setting, ended, receiver, switch, limits, failures, open, buffer, otlpStored, up, spent>>
-----------------------------------------------------------------------------
\* The admin's PUT writes the row, then drops the cache entry.
ToggleWrite ==
  /\ toggle = "before" /\ up
  /\ enabled' = FALSE /\ toggle' = "written"
  /\ UNCHANGED <<setting, ended, receiver, cache, seen, limits, persist, counts, up, spent>>

ToggleAnswered ==
  /\ toggle = "written"
  /\ cache' = "absent" /\ toggle' = "answered"
  /\ UNCHANGED <<setting, ended, receiver, enabled, seen, limits, persist, counts, up, spent>>

\* Time: the cache entry expires, tokens come back, failures age, the circuit closes.
Expire ==
  /\ cache # "absent" /\ cache' = "absent"
  /\ UNCHANGED <<setting, ended, receiver, enabled, seen, toggle, limits, persist, counts, up, spent>>

Refill ==
  /\ tokens < Burst /\ tokens' = Burst
  /\ UNCHANGED <<setting, ended, receiver, switch, inflight, persist, counts, up, spent>>

Age ==
  /\ failures > 0 /\ failures' = failures - 1
  /\ UNCHANGED <<setting, ended, receiver, switch, limits, open, buffer, otlpStored, loop, counts, up, spent>>

CloseCircuit ==
  /\ open /\ open' = FALSE
  /\ UNCHANGED <<setting, ended, receiver, switch, limits, failures, buffer, otlpStored, loop, counts, up,
                 spent>>

Outage ==
  /\ up /\ Fault /\ up' = FALSE
  /\ UNCHANGED <<setting, ended, receiver, switch, limits, persist, counts>>

Recover ==
  /\ ~up /\ up' = TRUE
  /\ UNCHANGED <<setting, ended, receiver, switch, limits, persist, counts, spent>>

\* A restart loses what is in memory; a request without an answer goes unanswered.
InMemory == {"arrived", "authorised", "looking", "task", "inserting", "buffered"}
Restart ==
  /\ restarts < MaxRestarts /\ restarts' = restarts + 1
  /\ state' = [r \in Requests |-> IF state[r] \in InMemory THEN "lost" ELSE state[r]]
  /\ answer' = [r \in Requests |->
       IF state[r] \in {"arrived", "authorised", "looking"} THEN "lost" ELSE answer[r]]
  /\ toggle' = IF toggle = "written" THEN "before" ELSE toggle
  /\ cache' = "absent" /\ tokens' = Burst /\ inflight' = 0
  /\ failures' = 0 /\ open' = FALSE /\ buffer' = <<>> /\ loop' = Asleep
  /\ counts' = [counts EXCEPT !.memory = 0, !.flushing = 0]
  /\ UNCHANGED <<setting, ended, sent, after, enabled, seen, otlpStored, up, otlpFaults>>

HandleSpans(r) == Refuse(r) \/ Authorise(r) \/ Cached(r) \/ Look(r) \/ Looked(r)
Background(r) == PersistOtlp(r) \/ MappingFails(r) \/ Inserted(r) \/ InsertFailed(r)
Maintain == Tick \/ Retried \/ RetryFailed \/ Flush

OtlpNext ==
  \/ \E s \in Spans : End(s)
  \/ \E r \in Requests : Export(r) \/ HandleSpans(r) \/ Background(r)
  \/ \E q, r \in Requests : SendAgain(q, r)
  \/ Maintain
  \/ ToggleWrite \/ ToggleAnswered
  \/ Expire \/ Refill \/ Age \/ CloseCircuit \/ Outage \/ Recover \/ Restart

\* The loop and the tasks go on; outages end.
OtlpSpec == OtlpInit /\ [][OtlpNext]_otlpVars
FairSpec ==
  /\ OtlpSpec
  /\ WF_otlpVars(Maintain) /\ WF_otlpVars(Recover)
  /\ \A r \in Requests : WF_otlpVars(Background(r))
-----------------------------------------------------------------------------
\* A batch answered with 200 is in the table, still in the process's hands in
\* exactly one place with its slot accounted for, dropped as the oldest of a
\* full buffer or because it cannot be mapped, gone with a restart, or gone
\* with an insert whose failure the store did not raise.
Held(r) ==
  \/ state[r] \in {"task", "inserting"}
  \/ state[r] = "buffered" /\ (r = loop.item) # (\E i \in DOMAIN buffer : buffer[i] = r)
Forfeit == {"dropped", "unmapped", "lost"} \cup (IF raises THEN {} ELSE {"swallowed"})
AcceptedKept ==
  /\ \A r \in Requests :
       answer[r] = "ok" =>
         otlpStored[r] > 0 \/ Held(r) \/ state[r] \in Forfeit \/ Events(sent[r]) = {}
  /\ inflight = Cardinality({r \in Requests : state[r] \in {"task", "inserting"}})

\* A comment of _persist_otlp: "DB failures go through the circuit breaker +
\* retry buffer, so the receiver keeps accepting while the DB is unreachable".
FailureBuffered == \A r \in Requests : state[r] # "swallowed"

\* A second copy of a span's events in the table needs a fault: an answer lost
\* on its way to the exporter or to the receiver.
Copies(s) == FoldSet(LAMBDA r, n : n + otlpStored[r], 0, {r \in Requests : s \in sent[r]})
CopiesNeedFaults == \A s \in Spans : Copies(s) <= 1 + otlpFaults + restarts

\* What was accepted does not stay in the process for ever: it is stored, or
\* forfeit.  A raising store's outage passes through the buffer.
AcceptedSettles ==
  \A r \in Requests :
    state[r] \in {"task", "inserting", "buffered"} ~> state[r] \in {"done"} \cup Forfeit

\* Events of a trace come in the order of their times: "events order correctly
\* by timestamp" (read ORDER BY step_index, timestamp).
Stored == UNION {Events(sent[r]) : r \in {q \in Requests : otlpStored[q] > 0}}
OrderedByTime ==
  \A e, f \in Stored : e.type = "call" /\ f.type = "call" /\ e.span < f.span => e.step <= f.step

\* The switch "takes effect immediately": nothing that arrives after the PUT
\* was answered is accepted.
SwitchImmediate == \A r \in after : answer[r] # "ok"

\* Without a restart every batch counted reaches the table: the loop "tolerates
\* failure and retries next tick".
CountedOrKept ==
  counts.memory + counts.flushing + counts.table
    >= Cardinality({r \in Requests : state[r] \in {"task", "inserting", "buffered", "done",
                                                   "dropped", "unmapped", "swallowed"}})
=============================================================================
