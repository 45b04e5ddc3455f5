------------------------------ MODULE RingBuffer ------------------------------
(***************************************************************************)
(* The SDK's outbound event buffer (packages/sdk-py/dunetrace/buffer.py).  *)
(*                                                                         *)
(* Every method of RingBuffer runs under one lock, so each is one action.  *)
(* The deque is the set of its entries: an entry carries the sequence      *)
(* number it was appended with, and popleft takes the smallest.  What the  *)
(* item holds is abstracted to its run, whether it is protected, and the   *)
(* dropped_events figure on a terminal's payload.                          *)
(*                                                                         *)
(* The operators take and return the buffer as a record, so that a module  *)
(* that composes the buffer with its callers (SdkRuns) can use them.       *)
(***************************************************************************)
EXTENDS Integers, FiniteSets

CONSTANTS
    Runs,          \* run ids
    NoRun,         \* what _run_key returns for an item without a run_id
    MaxSize,       \* maxsize
    MaxShedRuns,   \* max_shed_runs
    MaxPushes      \* bound on _seq, i.e. on how many items are enqueued

ASSUME RunsAssumption ==
    /\ IsFiniteSet(Runs)
    /\ NoRun \notin Runs
ASSUME SizeAssumption ==
    /\ MaxSize \in Nat \ {0}        \* maxsize < 1 is a ValueError
    /\ MaxShedRuns \in Nat \ {0}    \* max(1, max_shed_runs)
    /\ MaxPushes \in Nat

Keys  == Runs \cup {NoRun}

(* "event" is an ordinary item; "terminal" is run.completed / run.errored; *)
(* "forced" is any other item pushed with force=True.                      *)
Kinds == {"event", "forced", "terminal"}

(* An entry of the deque.                                                  *)
Entry == [seq: Nat, key: Keys, kind: Kinds, dropped: Nat]

Protected(kind) == kind # "event"

EmptyBuffer ==
    [ buf       |-> {},                        \* _buf
      seq       |-> 0,                         \* _seq
      live      |-> 0,                         \* _live
      dead      |-> {},                        \* _dead
      forced    |-> {},                        \* _forced
      runItems  |-> [r \in Runs |-> {}],       \* _run_items, {} = no key
      runSince  |-> [r \in Runs |-> 0],        \* seq at which the key appeared
      keyless   |-> {},                        \* _keyless
      shed      |-> [r \in Runs |-> 0],        \* _shed, 0 = no record
      shedAt    |-> [r \in Runs |-> 0],        \* order of _shed
      shedTotal |-> 0,                         \* _shed_runs_total
      evicted   |-> 0 ]                        \* _protected_dropped_total

Live(b)     == {e \in b.buf : e.seq \notin b.dead}
HasShed(b, key) == key \in Runs /\ b.shed[key] > 0
ShedRecords(b)  == {r \in Runs : b.shed[r] > 0}

Oldest(S) == CHOOSE e \in S : \A f \in S : e.seq =< f.seq
-----------------------------------------------------------------------------
(* Shedding.                                                               *)

(* Adding one record can exceed the cap by one only, so one popitem brings *)
(* _shed back under it.                                                    *)
EvictOldestShed(b) ==
    IF Cardinality(ShedRecords(b)) =< MaxShedRuns THEN b
    ELSE LET victim == CHOOSE r \in ShedRecords(b) :
                           \A s \in ShedRecords(b) : b.shedAt[r] =< b.shedAt[s]
         IN  [b EXCEPT !.shed[victim] = 0]

(* _shed_run_locked: the run's buffered events become tombstones and its   *)
(* record moves to the young end of _shed.                                 *)
ShedRun(b, r, extra) ==
    LET gone == b.runItems[r] IN
    EvictOldestShed(
        [b EXCEPT !.runItems[r] = {},
                  !.live        = @ - Cardinality(gone),
                  !.dead        = @ \cup {e.seq : e \in gone},
                  !.shed[r]     = @ + Cardinality(gone) + extra,
                  !.shedAt[r]   = b.shedTotal + 1,
                  !.shedTotal   = @ + 1])

(* Mutant: the popped tombstones are not discarded from _dead.             *)
TrimDeadHead_KeepsDead(b) ==
    [b EXCEPT !.buf = {e \in b.buf : \E f \in Live(b) : f.seq =< e.seq}]

(* _trim_dead_head_locked: pop tombstones until a live entry is the head.  *)
TrimDeadHead(b) ==
    LET kept == {e \in b.buf : \E f \in Live(b) : f.seq =< e.seq} IN
    [b EXCEPT !.buf = kept, !.dead = @ \cap {e.seq : e \in kept}]

IndexedRuns(b) == {r \in Runs : b.runItems[r] # {}}
OldestRun(b)   == CHOOSE r \in IndexedRuns(b) :
                      \A s \in IndexedRuns(b) : b.runSince[r] =< b.runSince[s]
Sheddable(b)   == IndexedRuns(b) # {} \/ b.keyless # {}

(* A keyless item is shed alone, when it is older than the victim run.     *)
KeylessFirst(b) ==
    /\ b.keyless # {}
    /\ IndexedRuns(b) # {} =>
           Oldest(b.keyless).seq < Oldest(b.runItems[OldestRun(b)]).seq

ShedKeyless(b) ==
    LET e == Oldest(b.keyless) IN
    [b EXCEPT !.keyless = @ \ {e}, !.dead = @ \cup {e.seq}, !.live = @ - 1]

ShedOldest(b) ==
    IF KeylessFirst(b) THEN ShedKeyless(b) ELSE ShedRun(b, OldestRun(b), 0)

(* Mutant: the evicted item is not counted in its run's record.            *)
DropOldestProtected_Uncounted(b) ==
    LET e == Oldest(b.buf)
        popped == [b EXCEPT !.buf     = @ \ {e},
                            !.live    = @ - 1,
                            !.forced  = @ \ {e.seq},
                            !.evicted = @ + 1]
    IN  IF e.key \in Runs THEN ShedRun(popped, e.key, 0) ELSE popped

(* _drop_oldest_protected_locked: the head of the deque goes, and its run  *)
(* is shed with the evicted item counted in.                               *)
DropOldestProtected(b) ==
    LET e == Oldest(b.buf)
        popped == [b EXCEPT !.buf     = @ \ {e},
                            !.live    = @ - 1,
                            !.forced  = @ \ {e.seq},
                            !.evicted = @ + 1]
    IN  IF e.key \in Runs THEN ShedRun(popped, e.key, 1) ELSE popped

MakeRoom(b, allowProtected) ==
    LET t == TrimDeadHead(b) IN
    IF Sheddable(t) THEN ShedOldest(t)
    ELSE IF allowProtected /\ t.buf # {} THEN DropOldestProtected(t)
    ELSE t

(* The loop "while _live >= _maxsize: _make_room or break".  One pass frees *)
(* at least one slot of a buffer that is not over capacity (MakesRoom in   *)
(* SdkProofs), so the loop never makes a second one.                *)
Fit(b, allowProtected) ==
    IF b.live < MaxSize THEN b ELSE MakeRoom(b, allowProtected)
-----------------------------------------------------------------------------
(* Appending.                                                              *)

Compact(b) ==
    IF Cardinality(b.buf) =< 2 * MaxSize THEN b
    ELSE [b EXCEPT !.buf = Live(b), !.dead = {}]

AppendEntry(b, key, kind, dropped) ==
    LET e == [seq |-> b.seq, key |-> key, kind |-> kind, dropped |-> dropped]
        a == [b EXCEPT !.buf = @ \cup {e}, !.seq = @ + 1, !.live = @ + 1]
    IN  CASE kind = "terminal"          -> a
          [] kind = "forced"            -> [a EXCEPT !.forced = @ \cup {e.seq}]
          [] kind = "event" /\ key \in Runs ->
                 [a EXCEPT !.runItems[key] = @ \cup {e},
                           !.runSince[key] = IF b.runItems[key] = {}
                                             THEN e.seq ELSE @]
          [] OTHER                      -> [a EXCEPT !.keyless = @ \cup {e}]

CountDrop(b, r) == [b EXCEPT !.shed[r] = @ + 1]

(* push: what it leaves, for an item of the given run and kind.            *)
Pushed(b, key, kind, dropped) ==
    LET fit == Fit(b, Protected(kind)) IN
    IF ~Protected(kind) /\ HasShed(b, key) THEN CountDrop(b, key)
    ELSE IF ~Protected(kind) /\ HasShed(fit, key) THEN CountDrop(fit, key)
    ELSE IF ~Protected(kind) /\ fit.live >= MaxSize
         THEN IF key \in Runs THEN ShedRun(fit, key, 1) ELSE fit
    ELSE Compact(AppendEntry(fit, key, kind, dropped))

Reserved(b) == Fit(b, TRUE)
-----------------------------------------------------------------------------
(* Draining.                                                               *)

(* What stays in the deque when n live items have been taken from its      *)
(* front: nothing at all when it held fewer.                               *)
Left(b, n) == {e \in b.buf : Cardinality({f \in Live(b) : f.seq < e.seq}) >= n}

Batch(b, n) == Live(b) \ Left(b, n)

FirstTerminal(batch, e) ==
    \A f \in batch : f.key = e.key /\ f.kind = "terminal" => e.seq =< f.seq

(* Mutant: only the reservation stamps the count.                          *)
Stamped_AtReservation(b, batch, e) == e

(* _stamp_terminal: a drained terminal takes its run's drop record along.  *)
Stamped(b, batch, e) ==
    IF /\ e.kind = "terminal" /\ HasShed(b, e.key)
       /\ FirstTerminal(batch, e) /\ b.shed[e.key] > e.dropped
    THEN [e EXCEPT !.dropped = b.shed[e.key]] ELSE e

DrainedItems(b, n) == {Stamped(b, Batch(b, n), e) : e \in Batch(b, n)}

Drained(b, n) ==
    LET left  == Left(b, n)
        batch == Batch(b, n)
        done  == {e.key : e \in {f \in batch : f.kind = "terminal"}}
    IN  [b EXCEPT !.buf      = left,
                  !.live     = @ - Cardinality(batch),
                  !.dead     = @ \cap {e.seq : e \in left},
                  !.forced   = @ \cap {e.seq : e \in left},
                  !.runItems = [r \in Runs |-> @[r] \ batch],
                  !.keyless  = @ \ batch,
                  !.shed     = [r \in Runs |-> IF r \in done THEN 0 ELSE @[r]]]

Forgotten(b, r) == [b EXCEPT !.shed[r] = 0]
-----------------------------------------------------------------------------
(* The buffer alone, under arbitrary callers.                              *)

VARIABLE rb
vars == rb

Init == rb = EmptyBuffer

Push(key, kind) ==
    /\ rb.seq < MaxPushes
    /\ rb.shedTotal < MaxPushes        \* bounds the orders of refused pushes
    /\ HasShed(rb, key) => rb.shed[key] < MaxPushes
    /\ rb' = Pushed(rb, key, kind, 0)

ReserveTerminal == rb' = Reserved(rb)
Drain(n)        == rb' = Drained(rb, n)
DrainAll        == rb' = Drained(rb, Cardinality(rb.buf))
Forget(r)       == rb' = Forgotten(rb, r)

Next ==
    \/ \E key \in Keys, kind \in Kinds : Push(key, kind)
    \/ ReserveTerminal
    \/ \E n \in 1..MaxSize : Drain(n)
    \/ DrainAll
    \/ \E r \in Runs : Forget(r)

Spec == Init /\ [][Next]_vars
-----------------------------------------------------------------------------
Buffer ==
    [ buf: SUBSET Entry, seq: Nat, live: Int, dead: SUBSET Nat,
      forced: SUBSET Nat, runItems: [Runs -> SUBSET Entry],
      runSince: [Runs -> Nat], keyless: SUBSET Entry,
      shed: [Runs -> Nat], shedAt: [Runs -> Nat], shedTotal: Nat,
      evicted: Nat ]

(* The fields of the buffer have their types (live is an Int on purpose:   *)
(* that it is never negative is a property).                               *)
TypeOK == rb \in Buffer

(* "len(buffer) <= maxsize always holds, protected items included", and    *)
(* the live counter never goes negative (which would disable shedding).    *)
WithinCapacity(b) == b.live >= 0 /\ b.live =< MaxSize
CapacityBound == WithinCapacity(rb)

(* The counter, the two indexes and the tombstones tell the truth about    *)
(* the deque: the live counter, which gates all shedding, counts exactly   *)
(* the entries a drain would ship; the per-run and keyless indexes hold    *)
(* exactly the live unprotected ones, so a shed by index never misses an   *)
(* event nor resurrects one; a tombstone is always of an unprotected entry *)
(* still in the deque, so no terminal is tombstoned and _dead cannot leak. *)
CountsLive(b) == b.live = Cardinality(Live(b))

Indexed(b) ==
    /\ \A r \in Runs : b.runItems[r] =
           {e \in Live(b) : e.key = r /\ e.kind = "event"}
    /\ b.keyless = {e \in Live(b) : e.key = NoRun /\ e.kind = "event"}

Tombstoned(b) ==
    b.dead \subseteq {e.seq : e \in {f \in b.buf : f.kind = "event"}}

BookkeepingExact == CountsLive(rb) /\ Indexed(rb) /\ Tombstoned(rb)

(* A run with a drop record has no live unprotected event left: it is cut  *)
(* whole, never piecemeal.                                                 *)
CutWhole(b) == \A r \in Runs : b.shed[r] > 0 => b.runItems[r] = {}
ShedRunsCutWhole == CutWhole(rb)

(* Memory: at most twice the capacity of physical entries, and at most     *)
(* max_shed_runs drop records.                                             *)
WithinMemory(b) ==
    /\ Cardinality(b.buf) =< 2 * MaxSize
    /\ Cardinality(ShedRecords(b)) =< MaxShedRuns
MemoryBound == WithinMemory(rb)

(* A protected item is evicted only when there was no sheddable item left  *)
(* to give, and never for an ordinary event: an eviction is a reservation  *)
(* or makes the buffer end with a newer protected item.                    *)
ProtectedEvictedLast ==
    [][ rb'.evicted > rb.evicted =>
          /\ rb'.evicted = rb.evicted + 1
          /\ \A e \in Live(rb) : e.kind # "event"
          /\ \A e \in Live(rb') : e.kind # "event" ]_vars
=============================================================================
