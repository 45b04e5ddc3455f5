------------------------------- MODULE SdkRuns -------------------------------
(***************************************************************************)
(* Agent threads, the buffer and the drain thread of one SDK client        *)
(* (packages/sdk-py/dunetrace/client.py).                                  *)
(*                                                                         *)
(* Each run is one agent thread inside dt.run(): it emits run.started and  *)
(* other events, then reserves the terminal's slot, stamps the count that  *)
(* reservation returned, may still emit the events of streams left open,   *)
(* and pushes the terminal.  The reservation and the push are two critical *)
(* sections of the buffer's lock, so other threads and the drain come      *)
(* between them.  What drain hands out is what the emitter is given; what  *)
(* becomes of it is the subject of HttpEmitter and DurableQueue.           *)
(***************************************************************************)
EXTENDS RingBuffer

CONSTANTS MaxEvents,   \* bound on the non-terminal events of a run
          DrainSize    \* the 100 of buffer.drain(100)

ASSUME EventsAssumption ==
    MaxEvents \in Nat \ {0} /\ DrainSize \in Nat \ {0}

VARIABLES
    phase,     \* where the run's thread stands in dt.run()
    stamp,     \* dropped_events on the terminal about to be pushed
    emitted,   \* non-terminal events emitted, run.started included
    shipped,   \* non-terminal events drained
    terminal,  \* "none", "sent" (pushed), or what the drained one carries
    evictedOf  \* runs whose pushed terminal was evicted from the buffer

runVars == <<phase, stamp, emitted, shipped, terminal, evictedOf>>
sdkVars == <<rb, phase, stamp, emitted, shipped, terminal, evictedOf>>

Phases == {"new", "open", "reserved", "closed", "abandoned"}

SdkInit ==
    /\ Init
    /\ phase     = [r \in Runs |-> "new"]
    /\ stamp     = [r \in Runs |-> 0]
    /\ emitted   = [r \in Runs |-> 0]
    /\ shipped   = [r \in Runs |-> 0]
    /\ terminal  = [r \in Runs |-> [state |-> "none", dropped |-> 0]]
    /\ evictedOf = {}

TerminalsIn(b) == {e.key : e \in {f \in Live(b) : f.kind = "terminal"}}

(* A buffer operation: the terminals it evicted are noted.                 *)
Buffered(b) ==
    /\ rb' = b
    /\ evictedOf' = evictedOf \cup (TerminalsIn(rb) \ TerminalsIn(b))

StartRun(r) ==
    /\ phase[r] = "new"
    /\ phase' = [phase EXCEPT ![r] = "open"]
    /\ emitted' = [emitted EXCEPT ![r] = @ + 1]
    /\ Buffered(Pushed(rb, r, "event", 0))
    /\ UNCHANGED <<stamp, shipped, terminal>>

(* While the run is open, and between the reservation and the terminal:    *)
(* _flush_run_streams emits what abandoned streams still had to report.    *)
Emit(r) ==
    /\ phase[r] \in {"open", "reserved"}
    /\ emitted[r] < MaxEvents
    /\ emitted' = [emitted EXCEPT ![r] = @ + 1]
    /\ Buffered(Pushed(rb, r, "event", 0))
    /\ UNCHANGED <<phase, stamp, shipped, terminal>>

(* _terminal_payload: reserve_terminal, then the count is stamped.         *)
ReserveRun(r) ==
    /\ phase[r] = "open"
    /\ phase' = [phase EXCEPT ![r] = "reserved"]
    /\ Buffered(Reserved(rb))
    /\ stamp' = [stamp EXCEPT ![r] = rb'.shed[r]]
    /\ UNCHANGED <<emitted, shipped, terminal>>

FinishRun(r) ==
    /\ phase[r] = "reserved"
    /\ phase' = [phase EXCEPT ![r] = "closed"]
    /\ terminal' = [terminal EXCEPT ![r] = [state |-> "sent", dropped |-> 0]]
    /\ Buffered(Pushed(rb, r, "terminal", stamp[r]))
    /\ UNCHANGED <<stamp, emitted, shipped>>

(* A BaseException (cancellation, KeyboardInterrupt) is not caught by      *)
(* run(): no terminal is ever emitted.                                     *)
AbandonRun(r) ==
    /\ phase[r] = "open"
    /\ phase' = [phase EXCEPT ![r] = "abandoned"]
    /\ UNCHANGED <<rb, stamp, emitted, shipped, terminal, evictedOf>>

EventsOf(items, r) == {e \in items : e.key = r /\ e.kind = "event"}

(* One drain of the loop: a batch leaves for the emitter.                  *)
DrainOnce ==
    LET items == DrainedItems(rb, DrainSize) IN
    /\ rb' = Drained(rb, DrainSize)
    /\ shipped' = [r \in Runs |-> shipped[r] + Cardinality(EventsOf(items, r))]
    /\ terminal' = [r \in Runs |->
           IF \E e \in items : e.key = r /\ e.kind = "terminal"
           THEN [state |-> "drained",
                 dropped |-> (CHOOSE e \in items :
                                  e.key = r /\ e.kind = "terminal").dropped]
           ELSE terminal[r]]
    /\ UNCHANGED <<phase, stamp, emitted, evictedOf>>

SdkNext ==
    \/ \E r \in Runs : \/ StartRun(r) \/ Emit(r) \/ ReserveRun(r)
                       \/ FinishRun(r) \/ AbandonRun(r)
    \/ DrainOnce

SdkSpec == SdkInit /\ [][SdkNext]_sdkVars
-----------------------------------------------------------------------------
SdkTypeOK ==
    /\ TypeOK
    /\ phase \in [Runs -> Phases]
    /\ stamp \in [Runs -> Nat]
    /\ emitted \in [Runs -> 0..MaxEvents]
    /\ shipped \in [Runs -> 0..MaxEvents]
    /\ terminal \in [Runs -> [state: {"none", "sent", "drained"}, dropped: Nat]]
    /\ evictedOf \subseteq Runs

(* Every event a run emitted was shipped, is in the buffer, or is counted  *)
(* in the run's drop record - from its first event until its terminal      *)
(* takes the record along.  A terminal that was itself evicted is counted  *)
(* too (extra=1).                                                          *)
EveryEventAccounted ==
    \A r \in Runs : phase[r] # "new" /\ terminal[r].state # "drained" =>
        emitted[r] + (IF r \in evictedOf THEN 1 ELSE 0) =
            shipped[r] + Cardinality(rb.runItems[r]) + rb.shed[r]

(* "Shedding by run keeps every run that does reach the detector whole,    *)
(* and the runs that were cut carry a visible dropped_events count on      *)
(* their terminal event": a terminal that goes out without dropped_events  *)
(* is of a run all of whose events went out before it.                     *)
WholeOrMarked ==
    \A r \in Runs : terminal[r].state = "drained" /\ terminal[r].dropped = 0 =>
        shipped[r] = emitted[r]

(* The figure is the size of the loss, whatever was shed between the       *)
(* reservation, the push and the drain of the terminal.                    *)
DroppedEventsExact ==
    \A r \in Runs : terminal[r].state = "drained" =>
        terminal[r].dropped = emitted[r] - shipped[r]
=============================================================================
