-------------------------------- MODULE TsSdk --------------------------------
(***************************************************************************)
(* The TypeScript SDK: runs that emit into the buffer, the unref'd timer   *)
(* that drains it, the emitters, shutdown() and the exit flush             *)
(* (client.ts, run.ts, emitters.ts).                                       *)
(*                                                                         *)
(* One event loop: an action is what runs between two awaits.  Nothing     *)
(* waits for a ship() the timer started, so several can be in flight; a    *)
(* ship is a task, first over the backlog it read (with a durable queue),  *)
(* then over its own batch.                                                *)
(***************************************************************************)
EXTENDS TsBuffer

CONSTANTS DrainSize,     \* the timer's drain(100)
          Durable,       \* the emitter is a DurableRetryEmitter
          MaxQueue,      \* its _maxQueueEvents, compared with a count of batches
          RoundSize,     \* its _maxBatchesPerRetry
          MaxEvents,     \* events of one run, run.started included
          MaxTasks,      \* ships in flight at once
          MaxFaults,     \* failed POSTs and lost answers
          MaxIntervals   \* retry intervals that pass

TsSdkAssumption ==
  /\ DrainSize \in Nat \ {0} /\ MaxTasks \in Nat \ {0} /\ Durable \in BOOLEAN
  /\ {MaxQueue, RoundSize} \subseteq Nat \ {0}
  /\ {MaxEvents, MaxFaults, MaxIntervals} \subseteq Nat

VARIABLES
  buffer,    \* the client's EventBuffer
  run,       \* run -> "idle", "open", "done", or "overrun" if it emitted afterwards
  emitted,   \* run -> events emitted, its terminal not counted
  reported,  \* run -> dropped_events on its drained terminal, or -1
  tasks,     \* the ships in flight, in the order they began
  queue,     \* the rows of the SQLite file, oldest first
  due,       \* _nextRetryAt has passed
  arrived,   \* events the backend stored
  refused,   \* events of a failed batch that nothing kept
  stage,     \* "running", "flushing" (in shutdown), "shut" or "exited"
  late,      \* the deadline of shutdown() passed
  faults, intervals

sdk == <<buffer, run, emitted, reported>>
wire == <<tasks, queue, due, arrived, refused>>
budget == <<faults, intervals>>
vars == <<sdk, wire, stage, late, budget>>

Kinds == {"timer", "exit", "shutdown"}
Items(batch) == {[run |-> batch[i].run, n |-> batch[i].n, terminal |-> batch[i].terminal] :
                   i \in DOMAIN batch}

TsTypeOK ==
  /\ run \in [Runs -> {"idle", "open", "done", "overrun"}]
  /\ emitted \in [Runs -> Nat]
  /\ reported \in [Runs -> Nat \cup {-1}]
  /\ \A i \in DOMAIN tasks : tasks[i].kind \in Kinds
  /\ Len(tasks) <= MaxTasks
  /\ due \in BOOLEAN /\ late \in BOOLEAN
  /\ stage \in {"running", "flushing", "shut", "exited"}

Init ==
  /\ buffer = EmptyBuffer
  /\ run = [r \in Runs |-> "idle"]
  /\ emitted = [r \in Runs |-> 0]
  /\ reported = [r \in Runs |-> -1]
  /\ tasks = <<>> /\ queue = <<>> /\ due = TRUE
  /\ arrived = {} /\ refused = {}
  /\ stage = "running" /\ late = FALSE
  /\ faults = 0 /\ intervals = 0
-----------------------------------------------------------------------------
\* Runs.  _emit pushes at once; the terminal's slot is reserved first, in the
\* same turn of the loop.
Live == stage # "exited"

Emit(r) ==
  /\ buffer' = PushEvent(buffer, Event(r, emitted[r] + 1))
  /\ emitted' = [emitted EXCEPT ![r] = @ + 1]

Open(r) ==
  /\ Live /\ run[r] = "idle"
  /\ run' = [run EXCEPT ![r] = "open"]
  /\ Emit(r)
  /\ UNCHANGED <<reported, wire, stage, late, budget>>

Step(r) ==
  /\ Live /\ run[r] = "open" /\ emitted[r] < MaxEvents
  /\ Emit(r)
  /\ UNCHANGED <<run, reported, wire, stage, late, budget>>

Finish(r) ==
  /\ Live /\ run[r] = "open"
  /\ LET reserved == ReserveTerminal(buffer)
     IN  buffer' = PushTerminal(reserved,
                     Terminal(r, emitted[r] + 1, DroppedCount(reserved, r)))
  /\ run' = [run EXCEPT ![r] = "done"]
  /\ UNCHANGED <<emitted, reported, wire, stage, late, budget>>

\* A promise nobody awaited goes on emitting after run() has returned.
StepLate(r) ==
  /\ Live /\ run[r] \in {"done", "overrun"} /\ emitted[r] < MaxEvents
  /\ Emit(r)
  /\ run' = [run EXCEPT ![r] = "overrun"]
  /\ UNCHANGED <<reported, wire, stage, late, budget>>
-----------------------------------------------------------------------------
\* Ships.  With a durable queue a ship first takes the rows that are due.
TakesRows == Durable /\ due /\ queue # <<>>

Ship(kind, batch) ==
  /\ due' = (due /\ ~Durable)
  /\ tasks' = Append(tasks,
       [kind |-> kind, batch |-> batch,
        rows |-> IF TakesRows
                 THEN SubSeq(queue, 1, IF Len(queue) < RoundSize THEN Len(queue) ELSE RoundSize)
                 ELSE <<>>])

Report(batch) ==
  reported' = [r \in Runs |->
    IF \E i \in DOMAIN batch : batch[i].run = r /\ batch[i].terminal
    THEN (CHOOSE e \in ToSet(batch) : e.run = r /\ e.terminal).dropped
    ELSE reported[r]]

ShipDrained(kind, drained) ==
  /\ buffer' = drained.buffer
  /\ Report(drained.batch)
  /\ IF drained.batch = <<>> THEN UNCHANGED <<tasks, due>> ELSE Ship(kind, drained.batch)

TimerDrain ==
  /\ stage = "running" /\ buffer.items # <<>> /\ Len(tasks) < MaxTasks
  /\ ShipDrained("timer", Drain(buffer, DrainSize))
  /\ UNCHANGED <<run, emitted, queue, arrived, refused, stage, late, budget>>

\* beforeExit: nothing is left to run, and the flush it starts is work again.
AllSettled == tasks = <<>> /\ \A r \in Runs : run[r] # "open"

FlushBeforeExit ==
  /\ stage = "running" /\ AllSettled /\ buffer.live # 0
  /\ ShipDrained("exit", DrainAll(buffer))
  /\ UNCHANGED <<run, emitted, queue, arrived, refused, stage, late, budget>>

Exit ==
  /\ stage = "running" /\ AllSettled /\ buffer.live = 0
  /\ stage' = "exited"
  /\ UNCHANGED <<sdk, wire, late, budget>>

FlushOrReturn ==
  IF buffer.live # 0 /\ ~late'
  THEN /\ stage' = "flushing"
       /\ ShipDrained("shutdown", DrainAll(buffer))
  ELSE /\ stage' = "shut"
       /\ UNCHANGED <<buffer, reported, tasks, due>>

Shutdown ==
  /\ stage = "running" /\ Len(tasks) < MaxTasks
  /\ late' \in BOOLEAN
  /\ FlushOrReturn
  /\ UNCHANGED <<run, emitted, queue, arrived, refused, budget>>

ShutdownAgain ==
  /\ stage = "flushing"
  /\ \A i \in DOMAIN tasks : tasks[i].kind # "shutdown"
  /\ late' \in BOOLEAN
  /\ FlushOrReturn
  /\ UNCHANGED <<run, emitted, queue, arrived, refused, budget>>
-----------------------------------------------------------------------------
\* Answers.  A POST is answered, fails, or is stored with its answer lost to
\* the abort timer.
Posts == {"ok", "failed", "unanswered"}

Answer(post, batch) ==
  /\ post # "ok" => faults < MaxFaults
  /\ faults' = IF post = "ok" THEN faults ELSE faults + 1
  /\ arrived' = IF post = "failed" THEN arrived ELSE arrived \cup Items(batch)

\* A round goes on to its next row, or stops at the first failure.
RowAnswered(i) ==
  /\ Live /\ tasks[i].rows # <<>>
  /\ \E post \in Posts :
       LET row == Head(tasks[i].rows)
       IN  /\ Answer(post, row)
           /\ queue' = IF post = "ok" THEN SelectSeq(queue, LAMBDA q : q # row) ELSE queue
           /\ tasks' = [tasks EXCEPT ![i].rows = IF post = "ok" THEN Tail(@) ELSE <<>>]
  /\ UNCHANGED <<sdk, due, refused, stage, late, intervals>>

\* _enqueue with _evictIfOverBounds.
Enqueued(batch) ==
  LET grown == Append(queue, batch)
  IN  IF Len(grown) > MaxQueue THEN Tail(grown) ELSE grown

BatchAnswered(i) ==
  /\ Live /\ tasks[i].rows = <<>>
  /\ \E post \in Posts :
       /\ Answer(post, tasks[i].batch)
       /\ queue' = IF post # "ok" /\ Durable THEN Enqueued(tasks[i].batch) ELSE queue
       /\ refused' = IF post = "ok" THEN refused
                     ELSE refused \cup
                       IF ~Durable THEN Items(tasks[i].batch)
                       ELSE IF Len(queue) = MaxQueue THEN Items(Head(queue)) ELSE {}
  /\ tasks' = RemoveAt(tasks, i)
  /\ UNCHANGED <<sdk, due, stage, late, intervals>>

IntervalPasses ==
  /\ Durable /\ ~due /\ Live /\ intervals < MaxIntervals
  /\ due' = TRUE /\ intervals' = intervals + 1
  /\ UNCHANGED <<sdk, tasks, queue, arrived, refused, stage, late, faults>>

Done == stage \in {"exited", "shut"} /\ tasks = <<>> /\ UNCHANGED vars

Next ==
  \/ \E r \in Runs : Open(r) \/ Step(r) \/ Finish(r) \/ StepLate(r)
  \/ TimerDrain \/ FlushBeforeExit \/ Exit \/ Shutdown \/ ShutdownAgain
  \/ \E i \in DOMAIN tasks : RowAnswered(i) \/ BatchAnswered(i)
  \/ IntervalPasses
  \/ Done

Spec == Init /\ [][Next]_vars
-----------------------------------------------------------------------------
\* Everything that has left the buffer is somewhere.
Left == arrived \cup refused
          \cup UNION {Items(tasks[i].batch) : i \in DOMAIN tasks}
          \cup UNION {Items(queue[i]) : i \in DOMAIN queue}

Lost(r) == emitted[r] - Cardinality({e \in Left : e.run = r /\ ~e.terminal})

\* The dropped_events figure a run's terminal leaves with is exactly the number
\* of the run's events that will never reach the backend for want of room,
\* whatever was shed between the reservation, the push and the drain; and a
\* process that ends by itself has handed over every finished run's terminal.
\* Of a run that goes on emitting it is at most that number.
TsRunsAccounted ==
  \A r \in Runs :
    /\ reported[r] >= 0 => \/ reported[r] = Lost(r)
                           \/ run[r] = "overrun" /\ reported[r] < Lost(r)
    /\ stage = "exited" /\ run[r] \in {"done", "overrun"} => reported[r] >= 0

\* _live and _pending count what the array holds: what the buffer's comments
\* take for granted when a record is dropped while tombstones remain.
TsCountsExact ==
  /\ \A r \in Runs : buffer.pending[r] = Held(buffer, r)
  /\ buffer.live = FoldSet(LAMBDA r, n : n + Held(buffer, r), 0, Runs)
       + Cardinality({i \in DOMAIN buffer.items : buffer.items[i].terminal})

\* A new batch is not posted while the round that was due before it is still
\* being sent: "any due backlog is retried first, before the current batch".
TsBacklogFirst ==
  \A i, j \in DOMAIN tasks : i < j /\ tasks[i].rows # <<>> => tasks[j].rows # <<>>

\* Two rounds never send the same row.
TsRowSentOnce ==
  \A i, j \in DOMAIN tasks :
    i # j /\ tasks[i].rows # <<>> /\ tasks[j].rows # <<>>
      => Head(tasks[i].rows) # Head(tasks[j].rows)

\* shutdown() that did not run into its deadline leaves nothing unsent behind.
TsShutdownFlushes == stage = "shut" /\ ~late => tasks = <<>>
=============================================================================
