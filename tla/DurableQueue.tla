----------------------------- MODULE DurableQueue -----------------------------
(***************************************************************************)
(* DurableRetryEmitter (packages/sdk-py/dunetrace/emitters.py): batches    *)
(* that could not be sent wait in a SQLite file, which every SDK process   *)
(* of the user shares unless it was given a path of its own.               *)
(*                                                                         *)
(* Each process has one drain thread in ship() or retry_pending().  The    *)
(* backlog's rows are read outside any transaction (SELECT alone opens     *)
(* none); the first DELETE takes SQLite's write lock and it is held, over  *)
(* the HTTP calls of the rows that follow, until the commit.  A process    *)
(* that needs the lock meanwhile waits 5 s and then raises.  A crash rolls *)
(* the open transaction back.                                              *)
(***************************************************************************)
EXTENDS Naturals, FiniteSets, Sequences, SequencesExt

CONSTANTS
    Procs,            \* processes that share the queue file
    NewSchema,        \* those whose payloads the others cannot decode
    Unwritable,       \* those that may find the queue path unwritable
    Free,             \* nobody holds the write lock
    MaxBatches,       \* bound on the batches shipped
    Sizes,            \* their sizes
    MaxQueueEvents,   \* max_queue_events
    MaxQueueBytes,    \* max_queue_bytes
    MaxPerRetry,      \* max_batches_per_retry
    MaxCrashes,       \* bound on crashes
    MaxReceived,      \* where the count of a batch's copies stops
    MaxFailures       \* bound on changes of the backend's state

ASSUME QueueAssumption ==
    /\ NewSchema \subseteq Procs /\ Unwritable \subseteq Procs /\ Free \notin Procs
    /\ MaxBatches \in Nat /\ Sizes \subseteq Nat \ {0}
    /\ MaxQueueEvents \in Nat /\ MaxQueueBytes \in Nat
    /\ MaxPerRetry \in Nat \ {0}
    /\ MaxReceived \in Nat \ {0}
    /\ MaxCrashes \in Nat /\ MaxFailures \in Nat

Batches == 1..MaxBatches
NoBatch == 0

VARIABLES
    pc,         \* where each process's drain thread is
    dbOk,       \* _db_ok
    due,        \* now >= _next_retry_at
    incoming,   \* the batch ship() was called with
    rows,       \* the backlog rows still to try in this round
    deleted,    \* rows deleted in the open transaction
    lock,       \* the holder of the file's write lock
    disk,       \* the committed rows, oldest first
    batches,    \* batches shipped so far; they are numbered from 1
    owner, size,
    fate,       \* what ship() made of each batch
    gone,       \* why a row left the disk: refused, undecodable, evicted
    received,   \* how often the ingest API stored each batch
    backend,    \* "up" or "down"
    faults      \* crashes, backend changes and lost answers so far

file   == <<lock, disk>>
world  == <<backend, faults>>
ghosts == <<batches, owner, size>>
queueVars   == <<pc, dbOk, due, incoming, rows, deleted, file, ghosts, fate, gone,
            received, world>>

Places == {"down", "idle", "select", "rows", "delete", "after", "inner",
           "enqueue"}
Fates  == {"none", "pending", "delivered", "rejected", "queued", "dropped",
             "lost"}

(* _init_db, when the emitter is constructed.                              *)
OpensDb(p, ok) == ok \/ p \in Unwritable

QueueInit ==
    /\ pc = [p \in Procs |-> "idle"]
    /\ dbOk \in {f \in [Procs -> BOOLEAN] : \A p \in Procs : OpensDb(p, f[p])}
    /\ due = [p \in Procs |-> TRUE]
    /\ incoming = [p \in Procs |-> NoBatch]
    /\ rows = [p \in Procs |-> <<>>] /\ deleted = [p \in Procs |-> {}]
    /\ lock = Free /\ disk = <<>>
    /\ batches = 0
    /\ owner = [b \in Batches |-> Free] /\ size = [b \in Batches |-> 0]
    /\ fate = [b \in Batches |-> "none"]
    /\ gone = [b \in Batches |-> {}]
    /\ received = [b \in Batches |-> 0]
    /\ backend \in {"up", "down"}
    /\ faults = [crashes |-> 0, changes |-> 0, lost |-> [b \in Batches |-> 0]]

Bytes(q)       == FoldLeft(LAMBDA n, b : n + size[b], 0, q)
Goto(p, place) == pc' = [pc EXCEPT ![p] = place]

(* What DELETE FROM queue WHERE id IN S leaves of the rows q.              *)
Without(q, S) ==
    LET kept[n \in 0..Len(q)] ==
            IF n = 0 THEN <<>>
            ELSE IF q[n] \in S THEN kept[n - 1] ELSE Append(kept[n - 1], q[n])
    IN  kept[Len(q)]
-----------------------------------------------------------------------------
(* The drain thread's two calls.                                           *)

(* _maybe_retry_backlog: not due, or no database, is an early return; the  *)
(* next round is put off before anything is tried.                         *)
Turn(p) ==
    /\ due' = [due EXCEPT ![p] = FALSE]
    /\ Goto(p, IF due[p] /\ dbOk[p] THEN "select" ELSE "after")

ShipBatch(p, s) ==
    /\ pc[p] = "idle" /\ batches < MaxBatches
    /\ batches' = batches + 1
    /\ owner' = [owner EXCEPT ![batches'] = p]
    /\ size' = [size EXCEPT ![batches'] = s]
    /\ fate' = [fate EXCEPT ![batches'] = "pending"]
    /\ incoming' = [incoming EXCEPT ![p] = batches']
    /\ Turn(p)
    /\ UNCHANGED <<dbOk, rows, deleted, file, gone, received, world>>

(* Mutant: an idle turn retries nothing.                                   *)
RetryPending_Nothing(p) ==
    /\ pc[p] = "idle" /\ Goto(p, "after")
    /\ UNCHANGED <<dbOk, due, incoming, rows, deleted, file, ghosts, fate, gone,
                   received, world>>

RetryPending(p) ==
    /\ pc[p] = "idle" /\ Turn(p)
    /\ UNCHANGED <<dbOk, incoming, rows, deleted, file, ghosts, fate, gone,
                   received, world>>

Elapse(p) ==
    /\ ~due[p] /\ due' = [due EXCEPT ![p] = TRUE]
    /\ UNCHANGED <<pc, dbOk, incoming, rows, deleted, file, ghosts, fate, gone,
                   received, world>>

(* ship() after its backlog round; retry_pending() returns.                *)
AfterRetry(p) ==
    /\ pc[p] = "after"
    /\ Goto(p, IF incoming[p] = NoBatch THEN "idle" ELSE "inner")
    /\ UNCHANGED <<dbOk, due, incoming, rows, deleted, file, ghosts, fate, gone,
                   received, world>>
-----------------------------------------------------------------------------
(* The inner emitter's POST of a batch.                                    *)

Inner(b, outcome) ==
    /\ outcome \in (IF backend = "up" THEN {"delivered", "rejected"}
                    ELSE {"transient", "lostAnswer"})
    /\ received' = [received EXCEPT ![b] =
           IF outcome \in {"delivered", "lostAnswer"} /\ @ < MaxReceived
           THEN @ + 1 ELSE @]
    /\ faults' = [faults EXCEPT !.lost[b] =
           IF outcome = "lostAnswer" THEN @ + 1 ELSE @]
    /\ outcome = "lostAnswer" => faults.lost[b] = 0
    /\ UNCHANGED backend

Outcomes == {"delivered", "rejected", "transient", "lostAnswer"}
Resolved == {"delivered", "rejected"}
-----------------------------------------------------------------------------
(* _maybe_retry_backlog.                                                   *)

Select(p) ==
    /\ pc[p] = "select" /\ Goto(p, "rows")
    /\ rows' = [rows EXCEPT ![p] =
           SubSeq(disk, 1, IF Len(disk) < MaxPerRetry THEN Len(disk)
                           ELSE MaxPerRetry)]
    /\ UNCHANGED <<dbOk, due, incoming, deleted, file, ghosts, fate, gone,
                   received, world>>

Decodable(p, b) == owner[b] \in NewSchema => p \in NewSchema

Row(p) == Head(rows[p])

(* Mutant: the rows of the round that were not sent are deleted too.       *)
EndRound_WholeRound(p) ==
    /\ rows' = [rows EXCEPT ![p] = <<>>]
    /\ deleted' = [deleted EXCEPT ![p] = {}]
    /\ disk' = Without(disk, deleted[p] \cup ToSet(rows[p]))
    /\ lock' = IF lock = p THEN Free ELSE lock
    /\ Goto(p, "after")

(* The end of the round, with a commit: at a failed row or after the last. *)
EndRound(p) ==
    /\ rows' = [rows EXCEPT ![p] = <<>>]
    /\ deleted' = [deleted EXCEPT ![p] = {}]
    /\ disk' = Without(disk, deleted[p])
    /\ lock' = IF lock = p THEN Free ELSE lock
    /\ Goto(p, "after")

(* Mutant: a row that fails is passed over.                                *)
ShipRow_SkipsAhead(p, outcome) ==
    /\ pc[p] = "rows" /\ rows[p] # <<>> /\ Decodable(p, Row(p))
    /\ Inner(Row(p), outcome)
    /\ \/ outcome \in Resolved /\ Goto(p, "delete") /\ UNCHANGED rows
       \/ /\ outcome \notin Resolved /\ UNCHANGED pc
          /\ rows' = [rows EXCEPT ![p] = Tail(@)]
    /\ UNCHANGED <<dbOk, due, incoming, ghosts, fate, deleted, file, gone>>

ShipRow(p, outcome) ==
    /\ pc[p] = "rows" /\ rows[p] # <<>> /\ Decodable(p, Row(p))
    /\ Inner(Row(p), outcome)
    /\ \/ /\ outcome \in Resolved /\ Goto(p, "delete")
          /\ gone' = [gone EXCEPT ![Row(p)] =
                 IF outcome = "rejected" THEN @ \cup {"refused"} ELSE @]
          /\ UNCHANGED <<rows, deleted, file>>
       \/ outcome \notin Resolved /\ EndRound(p) /\ UNCHANGED gone
    /\ UNCHANGED <<dbOk, due, incoming, ghosts, fate>>

DiscardRow(p) ==
    /\ pc[p] = "rows" /\ rows[p] # <<>> /\ ~Decodable(p, Row(p))
    /\ gone' = [gone EXCEPT ![Row(p)] = @ \cup {"undecodable"}]
    /\ Goto(p, "delete")
    /\ UNCHANGED <<dbOk, due, incoming, rows, deleted, file, ghosts, fate,
                   received, world>>

(* Five seconds pass while another process holds the lock over the HTTP    *)
(* call of its next row; its commit after the last one takes no such time. *)
Locked(p) == lock \notin {p, Free} /\ rows[lock] # <<>>

(* DELETE: the first one of the round takes the write lock.                *)
DeleteRow(p) ==
    /\ pc[p] = "delete" /\ lock \in {p, Free}
    /\ lock' = p
    /\ deleted' = [deleted EXCEPT ![p] = @ \cup {Row(p)}]
    /\ rows' = [rows EXCEPT ![p] = Tail(@)]
    /\ Goto(p, "rows")
    /\ UNCHANGED <<dbOk, due, incoming, disk, ghosts, fate, gone, received, world>>

(* "database is locked": the round ends, and nothing was deleted by it.    *)
DeleteBusy(p) ==
    /\ pc[p] = "delete" /\ Locked(p)
    /\ rows' = [rows EXCEPT ![p] = <<>>]
    /\ Goto(p, "after")
    /\ UNCHANGED <<dbOk, due, incoming, deleted, file, ghosts, fate, gone,
                   received, world>>

RowsDone(p) ==
    /\ pc[p] = "rows" /\ rows[p] = <<>>
    /\ EndRound(p)
    /\ UNCHANGED <<dbOk, due, incoming, ghosts, fate, gone, received, world>>
-----------------------------------------------------------------------------
(* ship(): the batch itself.                                               *)

ShipIncoming(p, outcome) ==
    LET b == incoming[p] IN
    /\ pc[p] = "inner" /\ Inner(b, outcome)
    /\ \/ /\ outcome \in Resolved /\ Goto(p, "idle")
          /\ incoming' = [incoming EXCEPT ![p] = NoBatch]
          /\ fate' = [fate EXCEPT ![b] = outcome]
       \/ /\ outcome \notin Resolved /\ Goto(p, "enqueue")
          /\ UNCHANGED <<incoming, fate>>
    /\ UNCHANGED <<dbOk, due, rows, deleted, file, ghosts, gone>>

(* _evict_if_over_bounds: rows leave the front until the rest fits, or     *)
(* none is left.                                                           *)
Fits(q) == Len(q) =< MaxQueueEvents /\ Bytes(q) =< MaxQueueBytes

Evictions(q) ==
    CHOOSE n \in 0..Len(q) :
        LET enough(k) == k = Len(q) \/ Fits(SubSeq(q, k + 1, Len(q)))
        IN  enough(n) /\ \A k \in 0..(n - 1) : ~enough(k)

ShipEnds(p, result) ==
    /\ fate' = [fate EXCEPT ![incoming[p]] = result]
    /\ incoming' = [incoming EXCEPT ![p] = NoBatch]
    /\ Goto(p, "idle")
    /\ UNCHANGED <<dbOk, due, rows, deleted, lock, ghosts, received, world>>

(* INSERT, evict and commit are one short transaction.                     *)
Enqueue(p) ==
    LET grown == Append(disk, incoming[p])
        n     == Evictions(grown)
    IN  /\ pc[p] = "enqueue" /\ dbOk[p] /\ lock = Free
        /\ disk' = SubSeq(grown, n + 1, Len(grown))
        /\ gone' = [b \in Batches |->
               IF b \in ToSet(SubSeq(grown, 1, n))
               THEN gone[b] \cup {"evicted"} ELSE gone[b]]
        /\ ShipEnds(p, "queued")

(* No database, or five seconds passed with the lock in other hands.       *)
EnqueueFails(p) ==
    /\ pc[p] = "enqueue" /\ (dbOk[p] => Locked(p))
    /\ ShipEnds(p, "dropped")
    /\ UNCHANGED <<disk, gone>>
-----------------------------------------------------------------------------
(* Crashes, restarts, outages.                                             *)

Crash(p) ==
    /\ pc[p] # "down" /\ faults.crashes < MaxCrashes
    /\ faults' = [faults EXCEPT !.crashes = @ + 1]
    /\ Goto(p, "down")
    /\ incoming' = [incoming EXCEPT ![p] = NoBatch]
    /\ fate' = [b \in Batches |-> IF b = incoming[p] THEN "lost" ELSE fate[b]]
    /\ rows' = [rows EXCEPT ![p] = <<>>]
    /\ deleted' = [deleted EXCEPT ![p] = {}]
    /\ lock' = IF lock = p THEN Free ELSE lock
    /\ UNCHANGED <<dbOk, due, disk, ghosts, gone, received, backend>>

Restart(p) ==
    /\ pc[p] = "down" /\ Goto(p, "idle")
    /\ due' = [due EXCEPT ![p] = TRUE]
    /\ \E ok \in BOOLEAN : OpensDb(p, ok) /\ dbOk' = [dbOk EXCEPT ![p] = ok]
    /\ UNCHANGED <<incoming, rows, deleted, file, ghosts, fate, gone, received,
                   world>>

BackendChanges ==
    /\ faults.changes < MaxFailures
    /\ faults' = [faults EXCEPT !.changes = @ + 1]
    /\ backend' = IF backend = "up" THEN "down" ELSE "up"
    /\ UNCHANGED <<pc, dbOk, due, incoming, rows, deleted, file, ghosts, fate,
                   gone, received>>

DrainThread(p) ==
    \/ RetryPending(p) \/ AfterRetry(p) \/ Select(p)
    \/ DiscardRow(p) \/ DeleteRow(p) \/ DeleteBusy(p) \/ RowsDone(p)
    \/ Enqueue(p) \/ EnqueueFails(p)
    \/ \E outcome \in Outcomes : ShipRow(p, outcome) \/ ShipIncoming(p, outcome)

QueueNext ==
    \/ \E p \in Procs :
         \/ DrainThread(p) \/ Elapse(p) \/ Crash(p) \/ Restart(p)
         \/ \E s \in Sizes : ShipBatch(p, s)
    \/ BackendChanges

(* The drain thread runs, HTTP calls and lock waits time out, the 30 s     *)
(* cadence elapses, and a process that went down is started again.         *)
QueueFairness ==
    \A p \in Procs :
        WF_queueVars(DrainThread(p)) /\ WF_queueVars(Elapse(p)) /\ WF_queueVars(Restart(p))

QueueSpec == QueueInit /\ [][QueueNext]_queueVars /\ QueueFairness
-----------------------------------------------------------------------------
(* Beside the types: a thread works on rows or on a batch only where it    *)
(* may, and holds the write lock exactly while it has rows deleted, so     *)
(* that a round that fails or crashes leaves the file to the others.       *)
DqTypeOK ==
    /\ pc \in [Procs -> Places] /\ dbOk \in [Procs -> BOOLEAN]
    /\ due \in [Procs -> BOOLEAN]
    /\ incoming \in [Procs -> 0..MaxBatches]
    /\ rows \in [Procs -> Seq(Batches)]
    /\ deleted \in [Procs -> SUBSET Batches]
    /\ lock \in Procs \cup {Free} /\ disk \in Seq(Batches)
    /\ batches \in 0..MaxBatches
    /\ owner \in [Batches -> Procs \cup {Free}]
    /\ size \in [Batches -> Sizes \cup {0}]
    /\ fate \in [Batches -> Fates]
    /\ gone \in [Batches -> SUBSET {"refused", "undecodable", "evicted"}]
    /\ received \in [Batches -> Nat]
    /\ backend \in {"up", "down"}
    /\ faults \in [crashes: Nat, changes: Nat, lost: [Batches -> Nat]]
    /\ \A p \in Procs :
           /\ rows[p] # <<>> \/ deleted[p] # {} => pc[p] \in {"rows", "delete"}
           /\ incoming[p] # NoBatch => pc[p] \notin {"down", "idle"}
           /\ lock = p <=> deleted[p] # {}

OnDisk(b) == b \in ToSet(disk)

(* "Survive a backend outage across process restarts": a batch that was    *)
(* queued stays on disk until the server has it, or refused it, or no      *)
(* build could read it, or the cap pushed it out - whatever crashes and    *)
(* whoever else works on the file.                                         *)
QueuedNotLost ==
    \A b \in Batches : fate[b] = "queued" =>
        OnDisk(b) \/ received[b] > 0 \/ gone[b] # {}

(* "Stop rather than skip ahead out of order": a backlog row reaches the   *)
(* server for the first time only when every row queued before it did, or  *)
(* was refused, discarded or evicted.                                      *)
FirstInOrder ==
    \A b \in Batches :
        /\ fate[b] = "queued" /\ received[b] = 0 /\ received'[b] > 0
        /\ OnDisk(b)
        => \A j \in 1..Len(disk) :
               \/ received[disk[j]] > 0 \/ gone[disk[j]] # {}
               \/ \E k \in 1..j : disk[k] = b

BacklogInOrder == [][FirstInOrder]_queueVars

(* "Exactly one layer may re-send a failed batch, or it is delivered       *)
(* twice": with the file to itself, a process delivers a batch again only  *)
(* after an answer got lost or a crash undid its deletions.                *)
DuplicateNeedsFault ==
    \A b \in Batches : received[b] =< 1 + faults.lost[b] + faults.crashes

(* "On ship() failure, the batch is persisted to a local SQLite queue      *)
(* instead of dropped": a process with a working database drops none.      *)
FailedBatchPersisted ==
    [][\A b \in Batches : fate'[b] = "dropped" /\ fate[b] # "dropped" =>
           ~dbOk[owner[b]]]_queueVars

(* Once the backend is back for good and the database can be opened, the   *)
(* backlog drains, even if the agent never emits another event.            *)
Recovered == backend = "up" /\ \A p \in Procs : dbOk[p]

BacklogDrains ==
    \A b \in Batches : <>[]Recovered => (OnDisk(b) ~> ~OnDisk(b))

(* "Bounded (100k events / 100MB by default, oldest evicted first)"        *)
(* (docs/architecture.md): the queue holds at most MaxQueueEvents events.  *)
EventsBounded == Bytes(disk) =< MaxQueueEvents
=============================================================================
