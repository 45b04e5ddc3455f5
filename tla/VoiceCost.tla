------------------------------ MODULE VoiceCost ------------------------------
(***************************************************************************)
(* The ElevenLabs worker: it polls an account's history of generations     *)
(* past a high-water mark, stores them, and matches each with the          *)
(* tts.generated event of the run that asked for it, or gives up on it.    *)
(* The event of a generation has the generation's name; which of its data  *)
(* the event and the history carry is given by the constants.              *)
(***************************************************************************)
EXTENDS Integers, FiniteSets, FiniteSetsExt

CONSTANTS
    Gens,            \* generations, numbers
    Said,            \* the text of each
    Chars,           \* its character count
    Voice,           \* its voice
    Captured,        \* those whose event carries provider_generation_id
    Hidden,          \* those whose text the history does not return
    Overlap,         \* _OVERLAP_SECS
    PageCap,         \* _MAX_PAGES * _PAGE_SIZE
    PassLimit,       \* _PASS_LIMIT
    Window, GiveUp,  \* CORRELATION_WINDOW_SECS, CORRELATION_GIVEUP_SECS
    MaxLag,          \* a generation is in the history so long after it is made
    MaxLatency,      \* and its event is emitted so long after
    MaxTime, MaxFaults  \* bounds on the clock and on failed polls and rows

ASSUME VoiceAssumption ==
    /\ Gens \subseteq Nat /\ Captured \subseteq Gens /\ Hidden \subseteq Gens
    /\ {Overlap, PageCap, PassLimit, Window, GiveUp, MaxLag, MaxLatency, MaxTime, MaxFaults}
          \subseteq Nat
    /\ Chars \in [Gens -> Nat]

Never == MaxTime + 1

VARIABLES
    now,
    made,     \* when each generation was made
    listed,   \* generations in the history
    spoken,   \* the timestamp of each event
    arrived,  \* events in Dunetrace's store
    row,      \* elevenlabs_generations: "none", "pending", "unmatched", or the event
    early,    \* generations whose event was in the store before they were
    mark,     \* last_seen_generation_at
    pass,     \* rows the correlation pass has still to look at, and its time
    faults

world == <<made, listed, spoken, arrived>>
vars  == <<now, world, row, early, mark, pass, faults>>

None == -1      \* no row
Pending == -2
Unmatched == -3
NoPass == [rows |-> {}, at |-> 0]

Init ==
    /\ now = 0
    /\ made = [g \in Gens |-> Never] /\ listed = {}
    /\ spoken = [g \in Gens |-> Never] /\ arrived = {}
    /\ row = [g \in Gens |-> None] /\ early = {}
    /\ mark = None /\ pass = NoPass /\ faults = 0
-----------------------------------------------------------------------------
(* The account, the agent and the clock.                                   *)
Make(g) ==
    /\ made[g] = Never /\ \A h \in Gens : h < g => made[h] # Never
    /\ made' = [made EXCEPT ![g] = now]
    /\ UNCHANGED <<now, listed, spoken, arrived, row, early, mark, pass, faults>>

List(g) ==
    /\ made[g] # Never /\ g \notin listed
    /\ listed' = listed \cup {g}
    /\ UNCHANGED <<now, made, spoken, arrived, row, early, mark, pass, faults>>

Speak(g) ==
    /\ made[g] # Never /\ spoken[g] = Never
    /\ spoken' = [spoken EXCEPT ![g] = now]
    /\ UNCHANGED <<now, made, listed, arrived, row, early, mark, pass, faults>>

Arrive(g) ==
    /\ spoken[g] # Never /\ g \notin arrived
    /\ arrived' = arrived \cup {g}
    /\ UNCHANGED <<now, made, listed, spoken, row, early, mark, pass, faults>>

Tick ==
    /\ now < MaxTime
    /\ \A g \in Gens : made[g] # Never =>
          /\ g \in listed \/ now < made[g] + MaxLag
          /\ spoken[g] # Never \/ now < made[g] + MaxLatency
    /\ now' = now + 1
    /\ UNCHANGED <<world, row, early, mark, pass, faults>>
-----------------------------------------------------------------------------
(* fetch_generations, newest first, so many pages at most.                 *)
InWindow(g) == mark = None \/ made[g] + Overlap >= mark

Newer(g, h) == made[g] > made[h] \/ (made[g] = made[h] /\ g > h)

Fetched ==
    {g \in listed : /\ InWindow(g)
                    /\ Cardinality({h \in listed : Newer(h, g)}) < PageCap}

(* _poll_one, once its answer is there: store_generation ignores what is   *)
(* stored, and the mark follows the newest.  The statements of one poll    *)
(* that come before a failure are those of Stored with todo cut short.     *)
Stored(todo) ==
    /\ row' = [g \in Gens |-> IF g \in todo /\ row[g] = None THEN Pending ELSE row[g]]
    /\ early' = early \cup {g \in todo : row[g] = None /\ g \in arrived}

Poll ==
    /\ pass = NoPass
    /\ Stored(Fetched)
    /\ mark' = IF Fetched = {} THEN mark ELSE Max({mark} \cup {made[g] : g \in Fetched})
    /\ UNCHANGED <<now, world, pass, faults>>

(* The fetch fails, or the database does after some rows: no mark.         *)
PollFails ==
    /\ pass = NoPass /\ faults < MaxFaults
    /\ \E done \in SUBSET Fetched : Stored(done)
    /\ faults' = faults + 1
    /\ UNCHANGED <<now, world, mark, pass>>
-----------------------------------------------------------------------------
(* match_generation: by the captured id, by equal text, by the count of    *)
(* characters within a tenth and then the voice; never one of several.     *)
CharOk(e, g) ==
    IF Chars[g] = 0 THEN Chars[e] = 0
    ELSE 10 * Chars[e] \in (9 * Chars[g])..(11 * Chars[g])

Distance(e, g) == IF spoken[e] > made[g] THEN spoken[e] - made[g] ELSE made[g] - spoken[e]

Nearest(events, g) == {e \in events : \A o \in events : Distance(e, g) <= Distance(o, g)}

ByText(events, g) == IF g \in Hidden THEN {} ELSE {e \in events : Said[e] = Said[g]}

Single(events) == Cardinality(events) = 1

(* Mutant: equal text is looked at before the id.                          *)
Match_TextFirst(events, g) ==
    LET id   == events \cap Captured \cap {g}
        text == ByText(events, g)
    IN IF text # {} THEN Nearest(text, g) ELSE id

Match(events, g) ==
    LET id     == events \cap Captured \cap {g}
        text   == ByText(events, g)
        chars  == {e \in events : CharOk(e, g)}
        voiced == {e \in chars : Voice[e] = Voice[g]}
    IN CASE id # {}        -> id
         [] id = {} /\ text # {} -> Nearest(text, g)
         [] id = {} /\ text = {} /\ Single(chars) -> chars
         [] id = {} /\ text = {} /\ ~Single(chars) /\ Single(voiced) -> voiced
         [] OTHER -> {}
-----------------------------------------------------------------------------
(* fetch_uncorrelated_generations: the oldest first.                       *)
Uncorrelated == {g \in Gens : row[g] = Pending}

StartPass ==
    /\ pass = NoPass /\ Uncorrelated # {}
    /\ pass' = [rows |-> {g \in Uncorrelated :
                             Cardinality({h \in Uncorrelated : Newer(g, h)}) < PassLimit},
                at |-> now]
    /\ UNCHANGED <<now, world, row, early, mark, faults>>

Candidates(g) == {e \in arrived : Distance(e, g) <= Window}

(* Mutant: a generation is tried for ever.                                 *)
GivenUp_Never(g) == FALSE

GivenUp(g) == pass.at > made[g] + GiveUp

(* correlate_once, one row: the oldest of those left.                      *)
Correlate(g) ==
    /\ g \in pass.rows /\ \A h \in pass.rows : h = g \/ Newer(h, g)
    /\ LET found == Match(Candidates(g), g)
       IN \/ \E e \in found : row' = [row EXCEPT ![g] = e]
          \/ found = {} /\ GivenUp(g) /\ row' = [row EXCEPT ![g] = Unmatched]
          \/ found = {} /\ ~GivenUp(g) /\ UNCHANGED row
    /\ pass' = IF Single(pass.rows) THEN NoPass ELSE [pass EXCEPT !.rows = @ \ {g}]
    /\ UNCHANGED <<now, world, early, mark, faults>>

(* A row that raises stays as it is and the pass goes on.                  *)
RowFails(g) ==
    /\ g \in pass.rows /\ \A h \in pass.rows : h = g \/ Newer(h, g)
    /\ faults < MaxFaults
    /\ faults' = faults + 1
    /\ pass' = IF Single(pass.rows) THEN NoPass ELSE [pass EXCEPT !.rows = @ \ {g}]
    /\ UNCHANGED <<now, world, row, early, mark>>

Next ==
    \/ Tick \/ Poll \/ PollFails \/ StartPass
    \/ \E g \in Gens : \/ Make(g) \/ List(g) \/ Speak(g) \/ Arrive(g)
                       \/ Correlate(g) \/ RowFails(g)

(* The worker polls and correlates for ever, time passes, and what was     *)
(* made is listed and spoken of.                                           *)
Fairness ==
    /\ WF_vars(Tick) /\ SF_vars(Poll) /\ SF_vars(StartPass)
    /\ \A g \in Gens : WF_vars(List(g)) /\ WF_vars(Speak(g)) /\ WF_vars(Correlate(g))

Spec == Init /\ [][Next]_vars /\ Fairness
-----------------------------------------------------------------------------
(* Every generation is decided on: it is stored whatever polls fail and    *)
(* however late it is listed, and rows nothing matches do not keep younger *)
(* ones from the pass.                                                     *)
EveryGenerationDecided ==
    \A g \in Gens :
        made[g] + GiveUp < MaxTime ~> row[g] = Unmatched \/ row[g] \in Gens

(* An event that carries the id and is in the store before the generation  *)
(* is the one it is matched with, whatever else was said and when.         *)
CapturedIdDecides ==
    \A g \in early \cap Captured : row[g] \in {Pending, g}
-----------------------------------------------------------------------------
(* docs/integrations/elevenlabs.md: when the code captures the id, the     *)
(* match is exact.                                                         *)
ExactWhenCaptured ==
    \A g \in Captured : row[g] \in Gens => row[g] = g

(* providers/elevenlabs.py, fetch_generations: every generation since the  *)
(* mark; elevenlabs_worker.py: a missed generation is not recoverable.     *)
EveryGenerationStored ==
    \A g \in Gens : made[g] # Never ~> row[g] # None

(* correlation.py: no fabricated correlation.  One event, one generation.  *)
OneGenerationPerEvent ==
    \A g, h \in Gens : row[g] \in Gens /\ row[g] = row[h] => g = h
=============================================================================
