------------------------- MODULE IntegrationsProofs -------------------------
(***************************************************************************)
(* Proofs about the integrations worker.                                   *)
(*                                                                         *)
(* VoiceCost: a generation whose event was in the store before it, and     *)
(* carries the generation's id, is matched with that event only.  What has *)
(* to be known for it is of the clock: the event is among the candidates   *)
(* because it is emitted within MaxLatency of the generation, and Window   *)
(* is no smaller.                                                          *)
(*                                                                         *)
(* ExternalSignals: every signal too many was paid for by a poll that died *)
(* between a write and its mark, or by a poll that went on after its cycle *)
(* was given up.                                                           *)
(***************************************************************************)
EXTENDS VoiceCost, ExternalSignals, FiniteSetTheorems, TLAPS

-----------------------------------------------------------------------------
(* The matching of generations.                                            *)
LEMMA Bounds ==
    /\ Gens \subseteq Nat /\ Captured \subseteq Gens
    /\ MaxTime \in Nat /\ MaxLatency \in Nat /\ Window \in Nat
BY VoiceAssumption

USE Bounds

Times == 0..Never

VoiceTypes ==
    /\ now \in 0..MaxTime
    /\ made \in [Gens -> Times] /\ spoken \in [Gens -> Times]
    /\ row \in [Gens -> Int]
    /\ arrived \subseteq Gens /\ early \subseteq arrived

(* What is spoken of was made, no more than MaxLatency before.             *)
SpokenOf(g) == made[g] # Never /\ spoken[g] \in made[g]..(made[g] + MaxLatency)

(* An event is emitted in time, or there is time left to emit it.          *)
SpokenInTime ==
    \A g \in Gens :
        /\ made[g] # Never => made[g] <= now
        /\ spoken[g] # Never => SpokenOf(g)
        /\ made[g] # Never /\ spoken[g] = Never => now <= made[g] + MaxLatency

ArrivedWasSpoken == \A g \in arrived : spoken[g] # Never

VoiceInv == VoiceTypes /\ SpokenInTime /\ ArrivedWasSpoken /\ CapturedIdDecides

LEMMA VoiceInitially == Init => VoiceInv
BY DEF Init, VoiceInv, VoiceTypes, Times, Never, SpokenInTime, ArrivedWasSpoken, CapturedIdDecides, None

(* The event of a generation is among its candidates.                      *)
LEMMA OwnEventIsCandidate ==
    ASSUME MaxLatency <= Window, VoiceInv, NEW g \in arrived
    PROVE  g \in Candidates(g)
<1>1. /\ g \in Gens /\ SpokenOf(g)
      /\ made[g] \in Nat /\ spoken[g] \in Nat /\ Never \in Nat
    <2>1. g \in Gens /\ spoken[g] # Never
        BY DEF VoiceInv, VoiceTypes, ArrivedWasSpoken
    <2>2. SpokenOf(g) /\ made[g] \in Times /\ spoken[g] \in Times
        BY <2>1 DEF VoiceInv, VoiceTypes, SpokenInTime
    <2> QED BY <2>1, <2>2 DEF Times, Never
<1>2. Distance(g, g) <= Window
    BY <1>1 DEF SpokenOf, Distance
<1> QED BY <1>2 DEF Candidates

(* match_generation returns the event with the id when it is given it.     *)
LEMMA IdMatches ==
    ASSUME NEW g \in Captured, NEW events, g \in events
    PROVE  Match(events, g) = {g}
BY DEF Match

(* Storing rows keeps those that are decided, and a row is stored Pending. *)
LEMMA StoredKeeps ==
    ASSUME VoiceInv, NEW todo \in SUBSET listed, Stored(todo), UNCHANGED <<now, world>>
    PROVE  VoiceInv'
<1>1. VoiceTypes'
    <2>1. row' \in [Gens -> Int]
        BY DEF VoiceInv, VoiceTypes, Stored, Pending
    <2>2. early' \subseteq arrived'
        BY DEF VoiceInv, VoiceTypes, Stored, world
    <2> QED BY <2>1, <2>2 DEF VoiceInv, VoiceTypes, world
<1>2. SpokenInTime' /\ ArrivedWasSpoken'
    BY DEF VoiceInv, SpokenInTime, SpokenOf, ArrivedWasSpoken, world
<1>3. CapturedIdDecides'
    <2> SUFFICES ASSUME NEW g \in early' \cap Captured PROVE row'[g] \in {Pending, g}
        BY DEF CapturedIdDecides
    <2>1. g \in Gens
        BY <1>1 DEF VoiceTypes
    <2>2. CASE g \in early
        <3>1. row[g] \in {Pending, g} /\ row[g] # None
            BY <2>2, <2>1 DEF VoiceInv, CapturedIdDecides, Pending, None
        <3> QED BY <3>1, <2>1 DEF Stored
    <2>3. CASE g \in todo /\ row[g] = None
        BY <2>3, <2>1 DEF Stored
    <2> QED BY <2>2, <2>3 DEF Stored
<1> QED BY <1>1, <1>2, <1>3 DEF VoiceInv

LEMMA VoiceStepKeeps ==
    ASSUME MaxLatency <= Window, VoiceInv, [Next]_vars
    PROVE  VoiceInv'
<1> USE DEF Never
<1>1. CASE Tick
    <2>1. VoiceTypes' /\ ArrivedWasSpoken' /\ CapturedIdDecides'
        BY <1>1 DEF Tick, world, VoiceInv, VoiceTypes, ArrivedWasSpoken, CapturedIdDecides
    <2>2. SpokenInTime'
        <3> SUFFICES ASSUME NEW g \in Gens
                     PROVE  /\ made[g] # Never => made[g] <= now'
                            /\ spoken[g] # Never => SpokenOf(g)
                            /\ made[g] # Never /\ spoken[g] = Never =>
                                   now' <= made[g] + MaxLatency
            <4>1. made' = made /\ spoken' = spoken
                BY <1>1 DEF Tick, world
            <4> QED BY <4>1 DEF SpokenInTime, SpokenOf
        <3>1. made[g] \in Int /\ now \in Int /\ now' = now + 1
            BY <1>1 DEF Tick, VoiceInv, VoiceTypes, Times
        <3>2. made[g] # Never /\ spoken[g] = Never => now < made[g] + MaxLatency
            BY <1>1 DEF Tick
        <3> QED BY <3>1, <3>2 DEF VoiceInv, SpokenInTime
    <2> QED BY <2>1, <2>2 DEF VoiceInv
<1>2. ASSUME NEW g \in Gens, Make(g) PROVE VoiceInv'
    <2>1. VoiceTypes' /\ ArrivedWasSpoken' /\ CapturedIdDecides'
        BY <1>2 DEF Make, VoiceInv, VoiceTypes, Times, ArrivedWasSpoken, CapturedIdDecides
    <2>2. /\ now \in Int /\ made' = [made EXCEPT ![g] = now]
          /\ now' = now /\ spoken' = spoken /\ made \in [Gens -> Times]
          /\ spoken[g] = Never
        BY <1>2 DEF Make, VoiceInv, VoiceTypes, SpokenInTime, SpokenOf
    <2>3. SpokenInTime'
        <3>1. /\ made'[g] = now /\ now <= now + MaxLatency
              /\ \A h \in Gens \ {g} : made'[h] = made[h]
            BY <2>2
        <3>2. ASSUME NEW h \in Gens
              PROVE  /\ made'[h] # Never => made'[h] <= now'
                     /\ spoken'[h] # Never => SpokenOf(h)'
                     /\ made'[h] # Never /\ spoken'[h] = Never => now' <= made'[h] + MaxLatency
            BY <2>2, <3>1 DEF VoiceInv, SpokenInTime, SpokenOf
        <3> QED BY <3>2 DEF SpokenInTime
    <2> QED BY <2>1, <2>3 DEF VoiceInv
<1>3. ASSUME NEW g \in Gens, Speak(g) PROVE VoiceInv'
    <2>1. VoiceTypes' /\ ArrivedWasSpoken' /\ CapturedIdDecides'
        BY <1>3 DEF Speak, VoiceInv, VoiceTypes, Times, ArrivedWasSpoken, CapturedIdDecides
    <2>2. /\ now \in Int /\ spoken' = [spoken EXCEPT ![g] = now]
          /\ now' = now /\ made' = made /\ spoken \in [Gens -> Times]
          /\ made[g] # Never /\ made[g] \in Int /\ now <= made[g] + MaxLatency
          /\ made[g] <= now
        BY <1>3 DEF Speak, VoiceInv, VoiceTypes, Times, SpokenInTime
    <2>3. SpokenInTime'
        BY <2>2 DEF VoiceInv, SpokenInTime, SpokenOf
    <2> QED BY <2>1, <2>3 DEF VoiceInv
<1>4. ASSUME NEW g \in Gens, Arrive(g) PROVE VoiceInv'
    BY <1>4 DEF Arrive, VoiceInv, VoiceTypes, SpokenInTime, SpokenOf, ArrivedWasSpoken,
               CapturedIdDecides
<1>5. CASE Poll
    BY <1>5, StoredKeeps, Fetched \in SUBSET listed DEF Poll, Fetched
<1>6. CASE PollFails
    <2>1. PICK done \in SUBSET Fetched : Stored(done)
        BY <1>6 DEF PollFails
    <2>2. done \in SUBSET listed
        BY DEF Fetched
    <2> QED BY <1>6, <2>1, <2>2, StoredKeeps DEF PollFails
<1>7. ASSUME NEW g \in Gens, Correlate(g) PROVE VoiceInv'
    <2>1. UNCHANGED <<now, world, early>>
        BY <1>7 DEF Correlate
    <2>2. /\ \A h \in Gens \ {g} : row'[h] = row[h]
          /\ \/ row'[g] \in Match(Candidates(g), g)
             \/ Match(Candidates(g), g) = {} /\ row'[g] \in {row[g], Unmatched}
          /\ row' \in [Gens -> Int]
        <3>1. Match(Candidates(g), g) \subseteq Gens
            BY DEF Match, Candidates, Nearest, ByText, VoiceInv, VoiceTypes
        <3>2. row \in [Gens -> Int] /\ Unmatched \in Int /\ Gens \subseteq Int
            BY DEF VoiceInv, VoiceTypes, Unmatched
        <3>3. \/ \E e \in Match(Candidates(g), g) : row' = [row EXCEPT ![g] = e]
              \/ /\ Match(Candidates(g), g) = {}
                 /\ row' = [row EXCEPT ![g] = Unmatched] \/ row' = row
            BY <1>7 DEF Correlate
        <3> QED BY <3>1, <3>2, <3>3
    <2>3. VoiceTypes' /\ SpokenInTime' /\ ArrivedWasSpoken'
        BY <2>1, <2>2 DEF world, VoiceInv, VoiceTypes, SpokenInTime, SpokenOf, ArrivedWasSpoken
    <2>4. CapturedIdDecides'
        <3> SUFFICES ASSUME NEW h \in early \cap Captured PROVE row'[h] \in {Pending, h}
            BY <2>1 DEF CapturedIdDecides
        <3>1. h \in Gens /\ h \in arrived /\ row[h] \in {Pending, h}
            BY DEF VoiceInv, VoiceTypes, CapturedIdDecides
        <3>2. Match(Candidates(h), h) = {h}
            BY <3>1, OwnEventIsCandidate, IdMatches
        <3> QED BY <2>2, <3>1, <3>2
    <2> QED BY <2>3, <2>4 DEF VoiceInv
<1>8. ASSUME NEW g \in Gens, List(g) \/ RowFails(g) PROVE VoiceInv'
    BY <1>8 DEF List, RowFails, world, VoiceInv, VoiceTypes, SpokenInTime, SpokenOf,
               ArrivedWasSpoken, CapturedIdDecides
<1>9. CASE StartPass \/ UNCHANGED vars
    BY <1>9 DEF StartPass, vars, world, VoiceInv, VoiceTypes, SpokenInTime, SpokenOf,
               ArrivedWasSpoken, CapturedIdDecides
<1> QED BY <1>1, <1>2, <1>3, <1>4, <1>5, <1>6, <1>7, <1>8, <1>9 DEF Next

(* VoiceInv is inductive, when the window is no shorter than the delay.        *)
THEOREM VoiceInvariant ==
    ASSUME MaxLatency <= Window
    PROVE  Spec => []VoiceInv
<1>1. VoiceInv /\ [Next]_vars => VoiceInv'
    BY VoiceStepKeeps
<1> QED BY VoiceInitially, <1>1, PTL DEF Spec

(* match_generation: the id an event carries decides, whatever else was    *)
(* said, when, and in what order the rows are looked at.                   *)
THEOREM TheCapturedIdDecides ==
    ASSUME MaxLatency <= Window
    PROVE  Spec => []CapturedIdDecides
<1>1. VoiceInv => CapturedIdDecides
    BY DEF VoiceInv
<1> QED BY VoiceInvariant, <1>1, PTL
-----------------------------------------------------------------------------
(* Results of external evaluation tools.                                   *)
HIDE Bounds

Places == {"idle", "check", "lookup", "skip", "mark", "alert", "stamp"}

PollStates == [at: Places, began: Nat, todo: SUBSET Pulled, result: Pulled \cup {"none"}]

ExternalTypes ==
    /\ clock \in 0..MaxClock /\ givenUp \in Nat
    /\ offered \subseteq Pulled
    /\ signals \in [Results -> Nat] /\ torn \in [Results -> Nat]
    /\ poll \in [Polls -> PollStates]
    /\ integration \in [success: Nat, failure: Nat, alerted: Nat]
    /\ request \in [Requests -> [at: {"idle", "write", "mark"}, result: Pushed \cup {"none"}]]

Alive  == {p \in Polls : ~At(p, "idle")}
Strays == Alive \ {awaited}

(* A poll no cycle waits for was left behind by one that was given up.     *)
StraysGivenUp ==
    /\ awaited \in Alive \cup {NoPoll}
    /\ Cardinality(Strays) <= givenUp

(* A poll that is busy with a result is busy with one.                     *)
BusyWithResult ==
    \A p \in Polls : poll[p].at \in {"lookup", "skip", "mark"} => poll[p].result \in Pulled

LookingUp(e) == {p \in Polls : At(p, "lookup") /\ poll[p].result = e}

(* Until a result is marked, each of its signals has a poll that will mark *)
(* it or lost its mark.  Once it is marked, the only signals to come are   *)
(* those of polls that looked it up before.                                *)
SignalsPaid(e) ==
    IF e \in processed
    THEN signals[e] + Cardinality(LookingUp(e)) <= 1 + torn[e] + givenUp
    ELSE signals[e] <= torn[e] + Cardinality(Marking(e))

AllPaid == \A e \in Pulled : SignalsPaid(e)

(* A handler writes pushed results only.                                   *)
PushesOnly ==
    \A q \in Requests : request[q].at # "idle" => request[q].result \in Pushed

ExternalInv ==
    ExternalTypes /\ StraysGivenUp /\ BusyWithResult /\ AllPaid /\ PushesOnly

LEMMA ExternalConstants ==
    /\ MaxClock \in Nat /\ NotYet \in Nat
    /\ Pulled \cap Pushed = {} /\ Pulled \subseteq Results /\ Pushed \subseteq Results
    /\ IsFiniteSet(Polls) /\ NoPoll \notin Polls
BY ExternalAssumption DEF NotYet, Results

LEMMA ExternalInitially == ExternalInit => ExternalInv
<1> SUFFICES ASSUME ExternalInit PROVE ExternalInv
    OBVIOUS
<1>1. ExternalTypes
    <2>1. Idle \in PollStates
        BY DEF Idle, PollStates, Places
    <2> QED BY <2>1, ExternalConstants DEF ExternalInit, ExternalTypes, Free
<1>2. \A p \in Polls : poll[p].at = "idle"
    BY DEF ExternalInit, Idle
<1>3. Strays = {} /\ Cardinality(Strays) = 0 /\ givenUp = 0 /\ awaited = NoPoll
    <2>1. Strays = {}
        BY <1>2 DEF Strays, Alive, At
    <2> QED BY <2>1, FS_EmptySet DEF ExternalInit
<1>4. StraysGivenUp
    BY <1>3 DEF StraysGivenUp
<1>5. AllPaid
    <2> SUFFICES ASSUME NEW e \in Pulled PROVE SignalsPaid(e)
        BY DEF AllPaid
    <2>1. Marking(e) = {} /\ signals[e] = 0 /\ torn[e] = 0 /\ e \notin processed
        BY <1>2, ExternalConstants DEF ExternalInit, Marking, At
    <2> QED BY <2>1, FS_EmptySet DEF SignalsPaid
<1>6. BusyWithResult /\ PushesOnly
    BY <1>2 DEF ExternalInit, BusyWithResult, PushesOnly, Free
<1> QED BY <1>1, <1>4, <1>5, <1>6 DEF ExternalInv

(* Sets of polls that differ in one poll at most.                          *)
LEMMA OnePollDiffers ==
    ASSUME NEW A \in SUBSET Polls, NEW B \in SUBSET Polls, NEW p \in Polls,
           A \ {p} = B \ {p}
    PROVE  /\ Cardinality(A) \in Nat /\ Cardinality(B) \in Nat
           /\ Cardinality(B) + (IF p \in A THEN 1 ELSE 0)
                = Cardinality(A) + (IF p \in B THEN 1 ELSE 0)
<1>1. /\ IsFiniteSet(A) /\ Cardinality(A) \in Nat
      /\ IsFiniteSet(B) /\ Cardinality(B) \in Nat
    BY ExternalConstants, FS_Subset, FS_CardinalityType
<1>2. Cardinality(A \ {p}) = IF p \in A THEN Cardinality(A) - 1 ELSE Cardinality(A)
    BY <1>1, FS_RemoveElement, Zenon
<1>3. Cardinality(B \ {p}) = IF p \in B THEN Cardinality(B) - 1 ELSE Cardinality(B)
    BY <1>1, FS_RemoveElement, Zenon
<1> QED BY <1>1, <1>2, <1>3

IsLookingUp(p, e) == IF At(p, "lookup") /\ poll[p].result = e THEN 1 ELSE 0
IsMarking(p, e)   == IF At(p, "mark") /\ poll[p].result = e THEN 1 ELSE 0

(* A step of one poll pays for what it writes and for what it leaves       *)
(* unmarked.                                                               *)
LEMMA OnePollPays ==
    ASSUME ExternalTypes, ExternalTypes', AllPaid, NEW p \in Polls,
           \A r \in Polls \ {p} : poll'[r] = poll[r],
           processed' = processed, givenUp' = givenUp, NEW e \in Pulled,
           e \in processed => signals'[e] + IsLookingUp(p, e)' + torn[e]
                                <= signals[e] + IsLookingUp(p, e) + torn'[e],
           e \notin processed => signals'[e] + IsMarking(p, e) + torn[e]
                                <= signals[e] + IsMarking(p, e)' + torn'[e]
    PROVE  SignalsPaid(e)'
<1>1. /\ signals[e] \in Nat /\ signals'[e] \in Nat /\ torn[e] \in Nat /\ torn'[e] \in Nat
      /\ givenUp \in Nat
    BY ExternalConstants DEF ExternalTypes
<1>2. SignalsPaid(e)
    BY DEF AllPaid
<1>3. CASE e \in processed
    <2>1. /\ LookingUp(e) \in SUBSET Polls /\ LookingUp(e)' \in SUBSET Polls
          /\ LookingUp(e) \ {p} = LookingUp(e)' \ {p}
        BY DEF LookingUp, At
    <2>2. /\ Cardinality(LookingUp(e)) \in Nat /\ Cardinality(LookingUp(e)') \in Nat
          /\ Cardinality(LookingUp(e)') + (IF p \in LookingUp(e) THEN 1 ELSE 0)
                = Cardinality(LookingUp(e)) + (IF p \in LookingUp(e)' THEN 1 ELSE 0)
        BY <2>1, OnePollDiffers
    <2>3. /\ (IF p \in LookingUp(e) THEN 1 ELSE 0) = IsLookingUp(p, e)
          /\ (IF p \in LookingUp(e)' THEN 1 ELSE 0) = IsLookingUp(p, e)'
        BY DEF LookingUp, IsLookingUp
    <2>4. IsLookingUp(p, e) \in Nat /\ IsLookingUp(p, e)' \in Nat
        BY DEF IsLookingUp
    <2> QED BY <1>1, <1>2, <1>3, <2>2, <2>3, <2>4 DEF SignalsPaid
<1>4. CASE e \notin processed
    <2>1. /\ Marking(e) \in SUBSET Polls /\ Marking(e)' \in SUBSET Polls
          /\ Marking(e) \ {p} = Marking(e)' \ {p}
        BY DEF Marking, At
    <2>2. /\ Cardinality(Marking(e)) \in Nat /\ Cardinality(Marking(e)') \in Nat
          /\ Cardinality(Marking(e)') + (IF p \in Marking(e) THEN 1 ELSE 0)
                = Cardinality(Marking(e)) + (IF p \in Marking(e)' THEN 1 ELSE 0)
        BY <2>1, OnePollDiffers
    <2>3. /\ (IF p \in Marking(e) THEN 1 ELSE 0) = IsMarking(p, e)
          /\ (IF p \in Marking(e)' THEN 1 ELSE 0) = IsMarking(p, e)'
        BY DEF Marking, IsMarking
    <2>4. IsMarking(p, e) \in Nat /\ IsMarking(p, e)' \in Nat
        BY DEF IsMarking
    <2> QED BY <1>1, <1>2, <1>4, <2>2, <2>3, <2>4 DEF SignalsPaid
<1> QED BY <1>3, <1>4

(* A poll that is alive stays so, or is over.                              *)
LEMMA StraysKept ==
    ASSUME StraysGivenUp, givenUp \in Nat, givenUp' = givenUp, NEW p \in Polls, ~At(p, "idle"),
           \A r \in Polls \ {p} : poll'[r] = poll[r],
           \/ ~At(p, "idle")' /\ awaited' = awaited
           \/ At(p, "idle")' /\ awaited' = IF awaited = p THEN NoPoll ELSE awaited
    PROVE  StraysGivenUp'
<1>1. Alive' \in {Alive, Alive \ {p}} /\ (p \in Alive' <=> ~At(p, "idle")')
    BY DEF Alive, At
<1>2. awaited' \in Alive' \cup {NoPoll}
    BY <1>1 DEF StraysGivenUp, Alive
<1>3. Strays' \subseteq Strays
    BY <1>1 DEF Strays, Alive, StraysGivenUp
<1>4. Cardinality(Strays') <= Cardinality(Strays) /\ Cardinality(Strays) \in Nat
      /\ Cardinality(Strays') \in Nat
    BY <1>3, ExternalConstants, FS_Subset, FS_CardinalityType DEF Strays, Alive
<1> QED BY <1>2, <1>4 DEF StraysGivenUp

(* What happens outside the store and the polls disturbs nothing.          *)
LEMMA OthersKeep ==
    ASSUME ExternalInv, UNCHANGED <<signals, processed, integration, poll, awaited, request, mishaps>>,
           clock' \in 0..MaxClock, offered' \subseteq Pulled
    PROVE  ExternalInv'
<1>1. ExternalTypes' /\ StraysGivenUp'
    BY DEF ExternalInv, ExternalTypes, StraysGivenUp, Strays, Alive, At, mishaps
<1>2. AllPaid'
    BY DEF ExternalInv, AllPaid, SignalsPaid, LookingUp, Marking, At, mishaps
<1>3. BusyWithResult' /\ PushesOnly'
    BY DEF ExternalInv, BusyWithResult, PushesOnly
<1> QED BY <1>1, <1>2, <1>3 DEF ExternalInv

(* The step of a live poll p that goes to state s and marks nothing.       *)
LEMMA LivePollKeeps ==
    ASSUME ExternalInv, NEW p \in Polls, ~At(p, "idle"), NEW s \in PollStates,
           Now(p, s), s.at \in {"lookup", "skip", "mark"} => s.result \in Pulled,
           \/ s.at # "idle" /\ awaited' = awaited
           \/ s.at = "idle" /\ awaited' = IF awaited = p THEN NoPoll ELSE awaited,
           UNCHANGED <<clock, offered, processed, request, givenUp>>,
           signals' \in [Results -> Nat], torn' \in [Results -> Nat],
           integration' \in [success: Nat, failure: Nat, alerted: Nat],
           \A e \in Pulled :
             /\ e \in processed => signals'[e] + IsLookingUp(p, e)' + torn[e]
                                     <= signals[e] + IsLookingUp(p, e) + torn'[e]
             /\ e \notin processed => signals'[e] + IsMarking(p, e) + torn[e]
                                     <= signals[e] + IsMarking(p, e)' + torn'[e]
    PROVE  ExternalInv'
<1>1. /\ poll \in [Polls -> PollStates] /\ poll' \in [Polls -> PollStates]
      /\ poll'[p] = s /\ \A r \in Polls \ {p} : poll'[r] = poll[r]
    BY DEF Now, ExternalInv, ExternalTypes
<1>2. ExternalTypes'
    BY <1>1 DEF ExternalInv, ExternalTypes
<1>3. StraysGivenUp'
    <2>1. At(p, "idle")' <=> s.at = "idle"
        BY <1>1 DEF At
    <2> QED BY <1>1, <2>1, StraysKept DEF ExternalInv, ExternalTypes
<1>4. AllPaid'
    <2> SUFFICES ASSUME NEW e \in Pulled PROVE SignalsPaid(e)'
        BY DEF AllPaid
    <2> QED BY <1>1, <1>2, OnePollPays DEF ExternalInv
<1>5. BusyWithResult'
    BY <1>1 DEF ExternalInv, BusyWithResult
<1>6. PushesOnly'
    BY DEF ExternalInv, PushesOnly
<1> QED BY <1>2, <1>3, <1>4, <1>5, <1>6 DEF ExternalInv

(* Where a poll neither looks up nor marks.                                *)
LEMMA NeitherLooksUpNorMarks ==
    ASSUME NEW p \in Polls, poll[p].at \notin {"lookup", "mark"}
    PROVE  \A e \in Pulled : IsLookingUp(p, e) = 0 /\ IsMarking(p, e) = 0
BY DEF IsLookingUp, IsMarking, At

LEMMA FetchKeeps ==
    ASSUME ExternalInv, NEW p \in Polls, Fetch(p)
    PROVE  ExternalInv'
<1> DEFINE todo == {e \in offered : Overlapping(e)}
           s == [at |-> "check", began |-> clock, todo |-> todo, result |-> "none"]
<1>1. /\ awaited = NoPoll /\ poll[p].at = "idle" /\ awaited' = p
      /\ poll' = [poll EXCEPT ![p] = s]
      /\ UNCHANGED <<clock, offered, signals, processed, integration, request, torn, givenUp>>
    BY DEF Fetch, At, Now, provider, store, mishaps
<1>2. s \in PollStates /\ s.at = "check"
    <2>1. todo \in SUBSET Pulled /\ clock \in Nat
        BY ExternalConstants DEF ExternalInv, ExternalTypes
    <2> HIDE DEF todo
    <2> QED BY <2>1 DEF PollStates, Places
<1> HIDE DEF s
<1>3. /\ poll \in [Polls -> PollStates] /\ poll' \in [Polls -> PollStates]
      /\ poll'[p] = s /\ \A r \in Polls \ {p} : poll'[r] = poll[r]
    BY <1>1, <1>2 DEF ExternalInv, ExternalTypes
<1>4. ExternalTypes'
    BY <1>1, <1>3 DEF ExternalInv, ExternalTypes
<1>5. StraysGivenUp'
    <2>1. p \notin Alive /\ Alive' = Alive \cup {p} /\ Alive \subseteq Polls
        BY <1>1, <1>2, <1>3 DEF Alive, At
    <2>2. Strays = Alive /\ Strays' = Alive
        BY <1>1, <2>1, ExternalConstants DEF Strays
    <2> QED BY <1>1, <2>1, <2>2 DEF ExternalInv, StraysGivenUp
<1>6. AllPaid'
    <2> SUFFICES ASSUME NEW e \in Pulled PROVE SignalsPaid(e)'
        BY DEF AllPaid
    <2>1. /\ IsLookingUp(p, e) = 0 /\ IsLookingUp(p, e)' = 0
          /\ IsMarking(p, e) = 0 /\ IsMarking(p, e)' = 0
        BY <1>1, <1>2, <1>3 DEF IsLookingUp, IsMarking, At
    <2>2. /\ signals[e] \in Nat /\ torn[e] \in Nat
        BY ExternalConstants DEF ExternalInv, ExternalTypes
    <2> QED BY <1>1, <1>3, <1>4, <2>1, <2>2, OnePollPays DEF ExternalInv
<1>7. BusyWithResult' /\ PushesOnly'
    BY <1>1, <1>2, <1>3 DEF ExternalInv, BusyWithResult, PushesOnly
<1> QED BY <1>4, <1>5, <1>6, <1>7 DEF ExternalInv

(* The poll asks whether a result is marked.                               *)
LEMMA CheckKeeps ==
    ASSUME ExternalInv, NEW p \in Polls, NEW e \in Pulled, Check(p, e)
    PROVE  ExternalInv'
<1> DEFINE s == IF Seen(e) THEN [poll[p] EXCEPT !.todo = @ \ {e}]
                ELSE [poll[p] EXCEPT !.todo = @ \ {e}, !.at = "lookup", !.result = e]
<1>1. /\ poll[p].at = "check" /\ poll[p] \in PollStates
      /\ Now(p, s) /\ awaited' = awaited
      /\ UNCHANGED <<clock, offered, signals, processed, integration, request, torn, givenUp>>
    BY DEF Check, At, provider, store, mishaps, ExternalInv, ExternalTypes
<1>2. /\ s \in PollStates /\ s.at \in {"check", "lookup"}
      /\ s.at = "lookup" => s.result = e /\ e \notin processed
    BY <1>1 DEF PollStates, Places, Seen
<1> HIDE DEF s
<1>3. poll'[p] = s
    BY <1>1, <1>2 DEF Now, ExternalInv, ExternalTypes
<1>4. ASSUME NEW f \in Pulled
      PROVE  /\ IsMarking(p, f) = 0 /\ IsMarking(p, f)' = 0 /\ IsLookingUp(p, f) = 0
             /\ f \in processed => IsLookingUp(p, f)' = 0
             /\ signals[f] \in Nat /\ torn[f] \in Nat
    BY <1>1, <1>2, <1>3, ExternalConstants DEF IsMarking, IsLookingUp, At, ExternalInv, ExternalTypes
<1>5. /\ signals \in [Results -> Nat] /\ torn \in [Results -> Nat]
      /\ integration \in [success: Nat, failure: Nat, alerted: Nat] /\ ~At(p, "idle")
    BY <1>1 DEF At, ExternalInv, ExternalTypes
<1>6. \A f \in Pulled :
        /\ f \in processed => signals'[f] + IsLookingUp(p, f)' + torn[f]
                                <= signals[f] + IsLookingUp(p, f) + torn'[f]
        /\ f \notin processed => signals'[f] + IsMarking(p, f) + torn[f]
                                <= signals[f] + IsMarking(p, f)' + torn'[f]
    BY <1>1, <1>4
<1> QED BY <1>1, <1>2, <1>5, <1>6, LivePollKeeps

(* The poll looks the run up and writes the signal.                        *)
LEMMA LookUpKeeps ==
    ASSUME ExternalInv, NEW p \in Polls, NEW e \in Pulled, LookUp(p, e)
    PROVE  ExternalInv'
<1> DEFINE s == [poll[p] EXCEPT !.at = IF e \in known THEN "mark" ELSE "skip"]
<1>1. /\ poll[p].at = "lookup" /\ poll[p].result = e /\ poll[p] \in PollStates
      /\ awaited' = awaited
      /\ UNCHANGED <<clock, offered, processed, integration, request, torn, givenUp>>
    BY DEF LookUp, At, provider, mishaps, ExternalInv, ExternalTypes
<1>2. /\ Now(p, s)
      /\ signals' = IF e \in known THEN [signals EXCEPT ![e] = @ + 1] ELSE signals
    BY DEF LookUp
<1>3. /\ s \in PollStates /\ s.at = (IF e \in known THEN "mark" ELSE "skip") /\ s.result = e
    BY <1>1 DEF PollStates, Places
<1> HIDE DEF s
<1>4. poll'[p] = s
    BY <1>2, <1>3 DEF Now, ExternalInv, ExternalTypes
<1>5. signals' \in [Results -> Nat]
    BY <1>2, ExternalConstants DEF ExternalInv, ExternalTypes
<1>6. ASSUME NEW f \in Pulled
      PROVE  /\ IsLookingUp(p, f) = (IF f = e THEN 1 ELSE 0) /\ IsLookingUp(p, f)' = 0
             /\ IsMarking(p, f) = 0
             /\ IsMarking(p, f)' = (IF f = e /\ e \in known THEN 1 ELSE 0)
             /\ signals[f] \in Nat /\ torn[f] \in Nat
             /\ signals'[f] = signals[f] + (IF f = e /\ e \in known THEN 1 ELSE 0)
    <2>1. signals \in [Results -> Nat] /\ f \in Results /\ torn[f] \in Nat
        BY ExternalConstants DEF ExternalInv, ExternalTypes
    <2>2. /\ signals[f] \in Nat
          /\ signals'[f] = signals[f] + (IF f = e /\ e \in known THEN 1 ELSE 0)
        BY <1>2, <2>1
    <2> QED BY <1>1, <1>3, <1>4, <2>1, <2>2 DEF IsMarking, IsLookingUp, At
<1> QED BY <1>1, <1>2, <1>3, <1>5, <1>6, LivePollKeeps DEF At, ExternalInv, ExternalTypes

LEMMA AliveAreFew ==
    ASSUME ExternalInv
    PROVE  /\ IsFiniteSet(Alive) /\ Cardinality(Alive) \in Nat
           /\ Cardinality(Alive) <= 1 + givenUp
<1>1. /\ IsFiniteSet(Alive) /\ Cardinality(Alive) \in Nat
      /\ Cardinality(Strays) <= givenUp /\ givenUp \in Nat
    BY ExternalConstants, FS_Subset, FS_CardinalityType
       DEF Alive, ExternalInv, StraysGivenUp, ExternalTypes
<1>2. Cardinality(Strays) = IF awaited \in Alive THEN Cardinality(Alive) - 1 ELSE Cardinality(Alive)
    BY <1>1, FS_RemoveElement, Zenon DEF Strays
<1> QED BY <1>1, <1>2

(* Two sets of polls without a poll in common, among those alive.          *)
LEMMA ApartAmongAlive ==
    ASSUME ExternalInv, NEW A \in SUBSET Alive, NEW B \in SUBSET Alive, A \cap B = {}
    PROVE  /\ Cardinality(A) \in Nat /\ Cardinality(B) \in Nat
           /\ Cardinality(A) + Cardinality(B) <= 1 + givenUp
<1>1. /\ IsFiniteSet(A) /\ IsFiniteSet(B)
      /\ Cardinality(A) \in Nat /\ Cardinality(B) \in Nat
    BY AliveAreFew, FS_Subset, FS_CardinalityType
<1>2. Cardinality(A \cup B) = Cardinality(A) + Cardinality(B)
    <2>1. Cardinality(A \cup B) = Cardinality(A) + Cardinality(B) - Cardinality(A \cap B)
        BY <1>1, FS_Union
    <2>2. Cardinality(A \cap B) = 0
        BY FS_EmptySet
    <2> QED BY <1>1, <2>1, <2>2
<1>3. Cardinality(A \cup B) <= Cardinality(Alive)
    BY AliveAreFew, FS_Subset
<1> QED BY <1>1, <1>2, <1>3, AliveAreFew DEF ExternalInv, ExternalTypes

(* Whoever still looks up the result may repeat it: those are among the    *)
(* polls alive, and so is the one that marks.                              *)
LEMMA MarkKeeps ==
    ASSUME ExternalInv, NEW p \in Polls, Mark(p)
    PROVE  ExternalInv'
<1> DEFINE s == [poll[p] EXCEPT !.at = "check", !.result = "none"]
<1>1. /\ poll[p].at \in {"mark", "skip"} /\ poll[p] \in PollStates
      /\ poll' = [poll EXCEPT ![p] = s] /\ awaited' = awaited
      /\ processed' = processed \cup {poll[p].result} /\ poll[p].result \in Pulled
      /\ UNCHANGED <<clock, offered, signals, integration, request, torn, givenUp>>
    BY DEF Mark, Now, provider, mishaps, ExternalInv, ExternalTypes, BusyWithResult
<1>2. s \in PollStates /\ s.at = "check"
    BY <1>1 DEF PollStates, Places
<1> HIDE DEF s
<1>3. /\ poll \in [Polls -> PollStates] /\ poll' \in [Polls -> PollStates]
      /\ poll'[p] = s /\ \A r \in Polls \ {p} : poll'[r] = poll[r]
    BY <1>1, <1>2 DEF ExternalInv, ExternalTypes
<1>4. ExternalTypes'
    BY <1>1, <1>3 DEF ExternalInv, ExternalTypes
<1>5. StraysGivenUp'
    <2>1. ~At(p, "idle") /\ ~At(p, "idle")' /\ givenUp \in Nat
        BY <1>1, <1>2, <1>3 DEF At, ExternalInv, ExternalTypes
    <2> QED BY <1>1, <1>3, <2>1, StraysKept DEF ExternalInv
<1>6. AllPaid'
    <2> SUFFICES ASSUME NEW e \in Pulled PROVE SignalsPaid(e)'
        BY DEF AllPaid
    <2>0. /\ signals[e] \in Nat /\ torn[e] \in Nat /\ givenUp \in Nat /\ SignalsPaid(e)
        BY ExternalConstants DEF ExternalInv, ExternalTypes, AllPaid
    <2>1. LookingUp(e)' = LookingUp(e) /\ Marking(e)' = Marking(e) \ {p}
        BY <1>1, <1>2, <1>3 DEF LookingUp, Marking, At
    <2>2. e \in processed => e \in processed'
        BY <1>1
    <2>3. CASE e \in processed
        BY <1>1, <2>0, <2>1, <2>2, <2>3 DEF SignalsPaid
    <2>4. CASE e \notin processed /\ e \in processed'
        <3>1. /\ LookingUp(e) \in SUBSET Alive /\ Marking(e) \in SUBSET Alive
              /\ LookingUp(e) \cap Marking(e) = {}
            BY DEF LookingUp, Marking, Alive, At
        <3>2. /\ Cardinality(LookingUp(e)) \in Nat /\ Cardinality(Marking(e)) \in Nat
              /\ Cardinality(LookingUp(e)) + Cardinality(Marking(e)) <= 1 + givenUp
            BY <3>1, ApartAmongAlive
        <3>3. signals[e] <= torn[e] + Cardinality(Marking(e))
            BY <2>0, <2>4 DEF SignalsPaid
        <3> QED BY <1>1, <2>0, <2>1, <2>4, <3>2, <3>3 DEF SignalsPaid
    <2>5. CASE e \notin processed /\ e \notin processed'
        <3>1. p \notin Marking(e)
            BY <1>1, <2>5 DEF Marking
        <3>2. Marking(e)' = Marking(e)
            BY <2>1, <3>1
        <3> QED BY <1>1, <2>0, <2>5, <3>2 DEF SignalsPaid
    <2> QED BY <2>2, <2>3, <2>4, <2>5
<1>7. BusyWithResult' /\ PushesOnly'
    BY <1>1, <1>2, <1>3 DEF ExternalInv, BusyWithResult, PushesOnly
<1> QED BY <1>4, <1>5, <1>6, <1>7 DEF ExternalInv

(* A poll that succeeds, alerts or is over without a result at hand.       *)
LEMMA RestKeeps ==
    ASSUME ExternalInv, NEW p \in Polls, Succeed(p) \/ Alert(p) \/ StampAlert(p)
    PROVE  ExternalInv'
<1> DEFINE s == IF Alert(p) THEN [poll[p] EXCEPT !.at = "stamp"] ELSE Idle
<1>1. /\ poll[p].at \in {"check", "alert", "stamp"} /\ poll[p] \in PollStates
      /\ UNCHANGED <<clock, offered, signals, processed, request, torn, givenUp>>
      /\ integration \in [success: Nat, failure: Nat, alerted: Nat]
      /\ signals \in [Results -> Nat] /\ torn \in [Results -> Nat] /\ clock \in Nat
    BY ExternalConstants DEF Succeed, Alert, StampAlert, At, provider, store, mishaps,
                             ExternalInv, ExternalTypes
<1>2. integration' \in [success: Nat, failure: Nat, alerted: Nat]
    BY <1>1, ExternalConstants DEF Succeed, Alert, StampAlert
<1>3. /\ Now(p, s) /\ s \in PollStates /\ s.at \in {"stamp", "idle"}
      /\ \/ s.at # "idle" /\ awaited' = awaited
         \/ s.at = "idle" /\ awaited' = IF awaited = p THEN NoPoll ELSE awaited
    <2>1. CASE Alert(p)
        BY <1>1, <2>1 DEF Alert, PollStates, Places
    <2>2. CASE ~Alert(p)
        BY <2>2 DEF Succeed, StampAlert, Over, Idle, PollStates, Places
    <2> QED BY <2>1, <2>2
<1> HIDE DEF s
<1>4. poll'[p] = s
    BY <1>3 DEF Now, ExternalInv, ExternalTypes
<1>5. ASSUME NEW e \in Pulled
      PROVE  /\ IsLookingUp(p, e) = 0 /\ IsLookingUp(p, e)' = 0
             /\ IsMarking(p, e) = 0 /\ IsMarking(p, e)' = 0
             /\ signals[e] \in Nat /\ torn[e] \in Nat
    BY <1>1, <1>3, <1>4, ExternalConstants DEF IsLookingUp, IsMarking, At
<1>6. \A f \in Pulled :
        /\ f \in processed => signals'[f] + IsLookingUp(p, f)' + torn[f]
                                <= signals[f] + IsLookingUp(p, f) + torn'[f]
        /\ f \notin processed => signals'[f] + IsMarking(p, f) + torn[f]
                                <= signals[f] + IsMarking(p, f)' + torn'[f]
    BY <1>1, <1>5
<1> QED BY <1>1, <1>2, <1>3, <1>6, LivePollKeeps DEF At

(* A poll that dies: between a write and its mark, that is a fault.        *)
LEMMA FailKeeps ==
    ASSUME ExternalInv, NEW p \in Polls, Fail(p) \/ HandlerFails(p)
    PROVE  ExternalInv'
<1>1. /\ ~At(p, "idle") /\ Tears(p) /\ poll[p] \in PollStates
      /\ UNCHANGED <<clock, offered, signals, processed, request, givenUp>>
      /\ integration \in [success: Nat, failure: Nat, alerted: Nat]
      /\ signals \in [Results -> Nat] /\ torn \in [Results -> Nat] /\ clock \in Nat
    BY ExternalConstants DEF Fail, HandlerFails, Working, At, provider, store,
                             ExternalInv, ExternalTypes
<1>2. PICK s \in PollStates :
        /\ Now(p, s) /\ s.at \in {"alert", "idle"}
        /\ \/ s.at # "idle" /\ awaited' = awaited
           \/ s.at = "idle" /\ awaited' = IF awaited = p THEN NoPoll ELSE awaited
    <2>1. /\ Idle \in PollStates /\ Idle.at = "idle"
          /\ [Idle EXCEPT !.at = "alert", !.began = clock] \in PollStates
          /\ [Idle EXCEPT !.at = "alert", !.began = clock].at = "alert"
        BY <1>1 DEF Idle, PollStates, Places
    <2>2. \/ Over(p)
          \/ /\ Now(p, [Idle EXCEPT !.at = "alert", !.began = clock])
             /\ awaited' = awaited
        BY DEF Fail, HandlerFails
    <2>3. CASE Over(p)
        BY <2>1, <2>3 DEF Over
    <2>4. CASE /\ Now(p, [Idle EXCEPT !.at = "alert", !.began = clock])
               /\ awaited' = awaited
        BY <2>1, <2>4
    <2> QED BY <2>2, <2>3, <2>4
<1>3. integration' \in [success: Nat, failure: Nat, alerted: Nat]
    BY <1>1 DEF Fail, HandlerFails
<1>4. poll'[p] = s
    BY <1>2 DEF Now, ExternalInv, ExternalTypes
<1>5. torn' = IF At(p, "mark") THEN [torn EXCEPT ![poll[p].result] = @ + 1] ELSE torn
    BY <1>1 DEF Tears
<1>6. torn' \in [Results -> Nat]
    <2>1. CASE At(p, "mark")
        <3>1. poll[p].result \in Results
            BY <2>1, ExternalConstants DEF At, ExternalInv, BusyWithResult
        <3> DEFINE r == poll[p].result
        <3>2. torn' = [torn EXCEPT ![r] = torn[r] + 1] /\ torn[r] \in Nat
            BY <1>1, <1>5, <2>1, <3>1
        <3> HIDE DEF r
        <3>3. torn \in [Results -> Nat] /\ torn[r] + 1 \in Nat
            BY <1>1, <3>2
        <3> QED BY <3>2, <3>3
    <2>2. CASE ~At(p, "mark")
        BY <1>1, <1>5, <2>2
    <2> QED BY <2>1, <2>2
<1>7. ASSUME NEW e \in Pulled
      PROVE  /\ IsLookingUp(p, e) \in Nat /\ IsLookingUp(p, e)' = 0
             /\ IsMarking(p, e)' = 0 /\ IsMarking(p, e) \in Nat
             /\ signals[e] \in Nat /\ torn[e] \in Nat
             /\ torn'[e] = torn[e] + IsMarking(p, e)
    <2>1. /\ IsLookingUp(p, e)' = 0 /\ IsMarking(p, e)' = 0 /\ e \in Results
          /\ IsLookingUp(p, e) \in Nat /\ IsMarking(p, e) \in Nat
        BY <1>2, <1>4, ExternalConstants DEF IsLookingUp, IsMarking, At
    <2>2. torn'[e] = torn[e] + IsMarking(p, e) /\ torn[e] \in Nat
        BY <1>1, <1>5, <2>1 DEF IsMarking
    <2> QED BY <1>1, <2>1, <2>2
<1>8. \A f \in Pulled :
        /\ f \in processed => signals'[f] + IsLookingUp(p, f)' + torn[f]
                                <= signals[f] + IsLookingUp(p, f) + torn'[f]
        /\ f \notin processed => signals'[f] + IsMarking(p, f) + torn[f]
                                <= signals[f] + IsMarking(p, f)' + torn'[f]
    BY <1>1, <1>7
<1> QED BY <1>1, <1>2, <1>3, <1>6, <1>8, LivePollKeeps

(* The cycle is given up, and its poll is left behind.                     *)
LEMMA AbandonKeeps ==
    ASSUME ExternalInv, Abandon
    PROVE  ExternalInv'
<1>1. /\ awaited # NoPoll /\ awaited' = NoPoll /\ givenUp' = givenUp + 1 /\ givenUp \in Nat
      /\ UNCHANGED <<clock, offered, signals, processed, integration, poll, request, torn>>
    BY DEF Abandon, provider, store, ExternalInv, ExternalTypes
<1>2. ExternalTypes'
    BY <1>1 DEF ExternalInv, ExternalTypes
<1>3. StraysGivenUp'
    <2>1. Alive' = Alive /\ Strays' = Alive
        BY <1>1, ExternalConstants DEF Strays, Alive, At
    <2> QED BY <1>1, <2>1, AliveAreFew DEF StraysGivenUp
<1>4. AllPaid'
    <2> SUFFICES ASSUME NEW e \in Pulled PROVE SignalsPaid(e)'
        BY DEF AllPaid
    <2>1. LookingUp(e)' = LookingUp(e) /\ Marking(e)' = Marking(e) /\ SignalsPaid(e)
        BY <1>1 DEF LookingUp, Marking, At, ExternalInv, AllPaid
    <2>2. /\ signals[e] \in Nat /\ torn[e] \in Nat
          /\ LookingUp(e) \in SUBSET Polls
        BY ExternalConstants DEF ExternalInv, ExternalTypes, LookingUp
    <2>3. Cardinality(LookingUp(e)) \in Nat
        BY <2>2, ExternalConstants, FS_Subset, FS_CardinalityType
    <2> QED BY <1>1, <2>1, <2>2, <2>3 DEF SignalsPaid
<1>5. BusyWithResult' /\ PushesOnly'
    BY <1>1 DEF ExternalInv, BusyWithResult, PushesOnly
<1> QED BY <1>2, <1>3, <1>4, <1>5 DEF ExternalInv

(* The worker stops: every mark under way is lost.                         *)
LEMMA CrashKeeps ==
    ASSUME ExternalInv, Crash
    PROVE  ExternalInv'
<1>1. /\ poll' = [p \in Polls |-> Idle] /\ awaited' = NoPoll
      /\ torn' = [e \in Results |-> torn[e] + Cardinality(Marking(e))]
      /\ UNCHANGED <<clock, offered, signals, processed, integration, request, givenUp>>
      /\ givenUp \in Nat
    BY DEF Crash, provider, store, ExternalInv, ExternalTypes
<1>2. ASSUME NEW e \in Results
      PROVE  /\ Cardinality(Marking(e)) \in Nat /\ Marking(e)' = {} /\ LookingUp(e)' = {}
             /\ torn[e] \in Nat /\ torn'[e] = torn[e] + Cardinality(Marking(e))
             /\ signals[e] \in Nat
    <2>1. Cardinality(Marking(e)) \in Nat
        BY ExternalConstants, FS_Subset, FS_CardinalityType DEF Marking
    <2>2. Marking(e)' = {} /\ LookingUp(e)' = {}
        BY <1>1 DEF Marking, LookingUp, At, Idle
    <2>3. torn[e] \in Nat /\ signals[e] \in Nat /\ torn'[e] = torn[e] + Cardinality(Marking(e))
        BY <1>1 DEF ExternalInv, ExternalTypes
    <2> QED BY <2>1, <2>2, <2>3
<1>3. ExternalTypes'
    <2>1. Idle \in PollStates
        BY DEF Idle, PollStates, Places
    <2>2. torn' \in [Results -> Nat]
        BY <1>1, <1>2
    <2> QED BY <1>1, <2>1, <2>2 DEF ExternalInv, ExternalTypes
<1>4. StraysGivenUp'
    <2>1. Strays' = {}
        BY <1>1 DEF Strays, Alive, At, Idle
    <2>2. Cardinality(Strays') = 0
        BY <2>1, FS_EmptySet
    <2> QED BY <1>1, <2>2 DEF StraysGivenUp
<1>5. AllPaid'
    <2> SUFFICES ASSUME NEW e \in Pulled PROVE SignalsPaid(e)'
        BY DEF AllPaid
    <2>1. SignalsPaid(e) /\ e \in Results
        BY ExternalConstants DEF ExternalInv, AllPaid
    <2>2. Cardinality(Marking(e)') = 0 /\ Cardinality(LookingUp(e)') = 0
        BY <1>2, <2>1, FS_EmptySet
    <2>3. Cardinality(LookingUp(e)) \in Nat
        BY ExternalConstants, FS_Subset, FS_CardinalityType DEF LookingUp
    <2> QED BY <1>1, <1>2, <2>1, <2>2, <2>3 DEF SignalsPaid
<1>6. BusyWithResult' /\ PushesOnly'
    BY <1>1 DEF ExternalInv, BusyWithResult, PushesOnly, Idle
<1> QED BY <1>3, <1>4, <1>5, <1>6 DEF ExternalInv

(* A push writes and marks pushed results, none of which is pulled.        *)
LEMMA PushKeeps ==
    ASSUME ExternalInv, NEW q \in Requests,
           \/ PushWrites(q) \/ PushMarks(q) \/ PushDies(q)
           \/ \E e \in Pushed : Push(q, e)
    PROVE  ExternalInv'
<1> DEFINE R == [at: {"idle", "write", "mark"}, result: Pushed \cup {"none"}]
<1>1. PushesOnly' /\ request' \in [Requests -> R]
    <2>1. /\ request \in [Requests -> R]
          /\ \A p \in Requests : request[p].at # "idle" => request[p].result \in Pushed
        BY DEF ExternalInv, ExternalTypes, PushesOnly
    <2>2. \/ request' = request
          \/ \E e \in Pushed : request' = [request EXCEPT ![q] = [at |-> "write", result |-> e]]
          \/ request' = [request EXCEPT ![q] = [at |-> "idle", result |-> "none"]]
          \/ /\ request' = [request EXCEPT ![q] = [request[q] EXCEPT !.at = "mark"]]
             /\ request[q].at # "idle"
        BY DEF Push, PushWrites, PushMarks, PushDies, Free
    <2> QED BY <2>1, <2>2 DEF PushesOnly
<1>2. /\ UNCHANGED <<clock, offered, integration, poll, awaited, givenUp>>
      /\ ExternalTypes
    BY DEF Push, PushWrites, PushMarks, PushDies, provider, worker, mishaps, ExternalInv
<1>3. /\ signals' \in [Results -> Nat] /\ torn' \in [Results -> Nat]
      /\ \A e \in Pulled : /\ signals'[e] = signals[e] /\ torn'[e] = torn[e]
                           /\ e \in processed' <=> e \in processed
    <2>1. CASE UNCHANGED <<store, torn>>
        BY <1>2, <2>1 DEF store, ExternalTypes
    <2>2. CASE PushWrites(q)
        <3>1. /\ signals' = [signals EXCEPT ![request[q].result] = @ + 1]
              /\ processed' = processed /\ torn' = torn /\ request[q].result \in Pushed
            BY <2>2 DEF PushWrites, mishaps, ExternalInv, PushesOnly
        <3> QED BY <1>2, <3>1, ExternalConstants DEF ExternalTypes
    <2>3. CASE PushMarks(q)
        <3>1. /\ signals' = signals /\ processed' = processed \cup {request[q].result}
              /\ torn' = torn /\ request[q].result \in Pushed
            BY <2>3 DEF PushMarks, mishaps, ExternalInv, PushesOnly
        <3> QED BY <1>2, <3>1, ExternalConstants DEF ExternalTypes
    <2>4. CASE PushDies(q) /\ request[q].at = "mark"
        <3>1. /\ torn' = [torn EXCEPT ![request[q].result] = @ + 1]
              /\ signals' = signals /\ processed' = processed /\ request[q].result \in Pushed
            BY <2>4 DEF PushDies, store, ExternalInv, PushesOnly
        <3> QED BY <1>2, <3>1, ExternalConstants DEF ExternalTypes
    <2> QED BY <2>1, <2>2, <2>3, <2>4 DEF Push, PushDies, mishaps
<1>4. ExternalTypes' /\ StraysGivenUp' /\ BusyWithResult'
    BY <1>1, <1>2, <1>3
       DEF ExternalInv, ExternalTypes, StraysGivenUp, Strays, Alive, At, BusyWithResult
<1>5. AllPaid'
    <2> SUFFICES ASSUME NEW e \in Pulled PROVE SignalsPaid(e)'
        BY DEF AllPaid
    <2>1. LookingUp(e)' = LookingUp(e) /\ Marking(e)' = Marking(e) /\ SignalsPaid(e)
        BY <1>2 DEF LookingUp, Marking, At, ExternalInv, AllPaid
    <2> QED BY <1>2, <1>3, <2>1 DEF SignalsPaid
<1> QED BY <1>1, <1>4, <1>5 DEF ExternalInv

LEMMA ExternalStepKeeps ==
    ASSUME ExternalInv, [ExternalNext]_externalVars
    PROVE  ExternalInv'
<1>1. /\ clock \in 0..MaxClock /\ clock \in Nat /\ offered \subseteq Pulled
    BY ExternalConstants DEF ExternalInv, ExternalTypes
<1>2. CASE ClockTick
    BY <1>1, <1>2, OthersKeep, ExternalConstants DEF ClockTick, provider, store, worker
<1>3. ASSUME NEW e \in Pulled, MakeResult(e) \/ ListResult(e) PROVE ExternalInv'
    BY <1>1, <1>3, OthersKeep DEF MakeResult, ListResult, store, worker
<1>4. ASSUME NEW e \in Results, Ingest(e) PROVE ExternalInv'
    BY <1>1, <1>4, OthersKeep DEF Ingest, store, worker
<1>5. CASE UNCHANGED externalVars
    BY <1>1, <1>5, OthersKeep DEF externalVars, provider, store, worker
<1>6. ASSUME NEW p \in Polls, Work(p) PROVE ExternalInv'
    BY <1>6, FetchKeeps, CheckKeeps, LookUpKeeps, MarkKeeps, RestKeeps DEF Work
<1>7. ASSUME NEW p \in Polls, Fail(p) \/ HandlerFails(p) PROVE ExternalInv'
    BY <1>7, FailKeeps
<1>8. CASE PollNext
    BY <1>2, <1>3, <1>4, <1>6, <1>7, <1>8, AbandonKeeps, CrashKeeps, ExternalConstants
       DEF PollNext
<1>9. ASSUME NEW q \in Requests, \/ PushWrites(q) \/ PushMarks(q) \/ PushDies(q)
                                 \/ \E e \in Pushed : Push(q, e)
      PROVE  ExternalInv'
    BY <1>9, PushKeeps
<1>10. CASE PushNext
    BY <1>4, <1>9, <1>10, ExternalConstants DEF PushNext
<1> QED BY <1>5, <1>8, <1>10 DEF ExternalNext

(* Every signal of a result has a poll that will mark it, lost its mark,   *)
(* or belongs to a poll that looked the result up before it was marked.    *)
(* Those are one, and one for each cycle that was given up: ExternalInv is *)
(* inductive.                                                              *)
THEOREM ExternalInvariant == ExternalSpec => []ExternalInv
<1>1. ExternalInv /\ [ExternalNext]_externalVars => ExternalInv'
    BY ExternalStepKeeps
<1> QED BY ExternalInitially, <1>1, PTL DEF ExternalSpec

(* _poll_one: a result gets one signal, but for the polls that died        *)
(* between a write and its mark and those that went on beside the next     *)
(* cycle's.                                                                *)
THEOREM RepetitionsNeedFaults == ExternalSpec => []RepeatNeedsFault
<1>1. ExternalInv => RepeatNeedsFault
    <2> SUFFICES ASSUME ExternalInv, NEW e \in Pulled
                 PROVE  signals[e] <= 1 + torn[e] + givenUp
        BY DEF RepeatNeedsFault
    <2>1. /\ signals[e] \in Nat /\ torn[e] \in Nat /\ givenUp \in Nat /\ SignalsPaid(e)
        BY ExternalConstants DEF ExternalInv, ExternalTypes, AllPaid
    <2>2. /\ LookingUp(e) \in SUBSET Alive /\ Marking(e) \in SUBSET Alive
          /\ LookingUp(e) \cap Marking(e) = {}
        BY DEF LookingUp, Marking, Alive, At
    <2>3. /\ Cardinality(LookingUp(e)) \in Nat /\ Cardinality(Marking(e)) \in Nat
          /\ Cardinality(LookingUp(e)) + Cardinality(Marking(e)) <= 1 + givenUp
        BY <2>2, ApartAmongAlive
    <2> QED BY <2>1, <2>3 DEF SignalsPaid
<1> QED BY ExternalInvariant, <1>1, PTL
=============================================================================
