------------------------------ MODULE TsBuffer ------------------------------
(***************************************************************************)
(* The outbound buffer of the TypeScript SDK, EventBuffer in buffer.ts.    *)
(* It promises what the Python buffer promises and keeps it differently:   *)
(* the events of a shed run stay in the array as tombstones, told from     *)
(* live events only by a count per run (_dead), apart from the record of   *)
(* what was dropped (_shed).                                               *)
(*                                                                         *)
(* JavaScript runs one callback at a time, so a method is an operator from *)
(* one value of the buffer to the next and its caller takes the step.      *)
(* Slots before _head are always null and are left out: items begins at    *)
(* _head.  Map is kept as a count per run, 0 for an absent key; _shed      *)
(* keeps its insertion order in shedRuns, which says what is present.      *)
(***************************************************************************)
EXTENDS Naturals, Sequences, FiniteSets, SequencesExt

CONSTANTS Runs,         \* run ids
          MaxSize,      \* _maxSize
          MaxShedRuns   \* _maxShedRuns

TsBufferAssumption == MaxSize \in Nat \ {0} /\ MaxShedRuns \in Nat \ {0}

NoCounts == [r \in Runs |-> 0]

EmptyBuffer ==
  [items |-> <<>>, live |-> 0, pending |-> NoCounts, dead |-> NoCounts,
   shed |-> NoCounts, shedRuns |-> <<>>]

Event(run, n) == [run |-> run, n |-> n, terminal |-> FALSE, dropped |-> 0]
Terminal(run, n, dropped) ==
  [run |-> run, n |-> n, terminal |-> TRUE, dropped |-> dropped]

IsShed(b, run) == \E i \in DOMAIN b.shedRuns : b.shedRuns[i] = run
IsDead(b, e) == ~e.terminal /\ b.dead[e.run] > 0

Decrement(counts, run) ==
  [counts EXCEPT ![run] = IF @ > 0 THEN @ - 1 ELSE 0]

CountDrop(b, run) == [b EXCEPT !.shed[run] = @ + 1]

DroppedCount(b, run) == IF IsShed(b, run) THEN b.shed[run] ELSE 0

Forget(b, run) ==
  [b EXCEPT !.shed[run] = 0,
            !.shedRuns = SelectSeq(@, LAMBDA r : r # run)]

\* The records above the cap go, the oldest first; a run is shed one at a
\* time, so at most one is too many.
ShedRun(b, run) ==
  LET count == b.pending[run]
      cut == [b EXCEPT !.pending[run] = 0,
                       !.live = @ - count,
                       !.dead[run] = @ + count,
                       !.shed[run] = @ + count,
                       !.shedRuns = IF IsShed(b, run) THEN @ ELSE Append(@, run)]
  IN  IF Len(cut.shedRuns) > MaxShedRuns THEN Forget(cut, Head(cut.shedRuns)) ELSE cut

RECURSIVE ClearDeadHead(_)
ClearDeadHead(b) ==
  IF b.items # <<>> /\ IsDead(b, Head(b.items))
  THEN ClearDeadHead([b EXCEPT !.items = Tail(@),
                               !.dead = Decrement(@, Head(b.items).run)])
  ELSE b

Sheddable(b) == {i \in DOMAIN b.items : ~b.items[i].terminal /\ ~IsDead(b, b.items[i])}

ShedOldest(b) ==
  LET cleared == ClearDeadHead(b)
      victims == Sheddable(cleared)
  IN  IF victims = {}
      THEN [ok |-> FALSE, buffer |-> cleared]
      ELSE [ok |-> TRUE,
            buffer |-> ShedRun(cleared,
                         cleared.items[CHOOSE i \in victims : \A j \in victims : i <= j].run)]

RECURSIVE MakeRoom(_)
MakeRoom(b) ==
  IF b.live < MaxSize THEN b
  ELSE LET result == ShedOldest(b)
       IN  IF result.ok THEN MakeRoom(result.buffer) ELSE result.buffer

\* Every event of a run with a tombstone left goes, live ones included.
Compact(b) ==
  [b EXCEPT !.items = SelectSeq(@, LAMBDA e : ~IsDead(b, e)),
            !.dead = NoCounts]

Enqueue(b, e) ==
  LET added == [b EXCEPT !.items = Append(@, e),
                         !.live = @ + 1,
                         !.pending[e.run] = IF e.terminal THEN @ ELSE @ + 1]
  IN  IF Len(added.items) > 2 * MaxSize THEN Compact(added) ELSE added

PushEvent(b, e) ==
  IF IsShed(b, e.run) THEN CountDrop(b, e.run)
  ELSE LET room == MakeRoom(b)
       IN  IF IsShed(room, e.run) THEN CountDrop(room, e.run)
           ELSE IF room.live >= MaxSize THEN CountDrop(ShedRun(room, e.run), e.run)
           ELSE Enqueue(room, e)

PushTerminal(b, e) == Enqueue(MakeRoom(b), e)

ReserveTerminal(b) == MakeRoom(b)

(* Mutant: a terminal leaves with the figure it was pushed with.           *)
StampTerminal_Never(e, dropped) == e

StampTerminal(e, dropped) ==
  [e EXCEPT !.dropped = IF dropped > @ THEN dropped ELSE @]

RECURSIVE DrainInto(_, _, _)
DrainInto(b, batch, n) ==
  IF b.items = <<>> \/ Len(batch) >= n THEN [buffer |-> b, batch |-> batch]
  ELSE LET e == Head(b.items)
           rest == [b EXCEPT !.items = Tail(@)]
       IN  IF IsDead(b, e)
           THEN DrainInto([rest EXCEPT !.dead = Decrement(@, e.run)], batch, n)
           ELSE IF e.terminal
           THEN DrainInto([Forget(rest, e.run) EXCEPT !.live = @ - 1],
                          Append(batch, StampTerminal(e, DroppedCount(b, e.run))), n)
           ELSE DrainInto([rest EXCEPT !.live = @ - 1, !.pending = Decrement(@, e.run)],
                          Append(batch, e), n)

Drain(b, n) == DrainInto(b, <<>>, n)
DrainAll(b) == Drain(b, Len(b.items))
-----------------------------------------------------------------------------
\* What the array really holds of a run, tombstones aside.
Held(b, run) ==
  LET all == Cardinality({i \in DOMAIN b.items :
                            b.items[i].run = run /\ ~b.items[i].terminal})
  IN  IF all > b.dead[run] THEN all - b.dead[run] ELSE 0
=============================================================================
