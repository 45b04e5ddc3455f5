------------------------------ MODULE SdkProofs ------------------------------
(***************************************************************************)
(* Proofs about RingBuffer, about SdkRuns, the threads that share one      *)
(* buffer, for every set of runs, capacity and record cap, and about       *)
(* DurableQueue, for every number of processes on one queue file.          *)
(*                                                                         *)
(* The buffer: the inductive invariant is Sound(rb) /\ WithinMemory(rb).   *)
(* Sound adds to the checked invariants that sequence numbers identify     *)
(* entries and lie below the counter; that is what makes "tombstone by     *)
(* number" the same as "tombstone this entry" when a run is shed.          *)
(*                                                                         *)
(* The client: each operation of the buffer is first summarised by what it *)
(* takes out, puts in and adds to the drop records (Changed); SdkSound     *)
(* then says of each run what its thread and the drain rely on.            *)
(*                                                                         *)
(* The queue file: QueueInv says which batches are accounted for (Settled: *)
(* stored, refused, discarded or evicted) wherever a thread is about to    *)
(* delete one, and that what lies on the file ahead of a row in hand is    *)
(* accounted for or in hand ahead of it, although others append, evict and *)
(* commit in between.                                                      *)
(***************************************************************************)
EXTENDS SdkRuns, DurableQueue, FiniteSetTheorems, WellFoundedInduction, TLAPS

Ordered(b) ==
    /\ \A e, f \in b.buf : e.seq = f.seq => e = f
    /\ \A e \in b.buf : e.seq < b.seq

Sound(b) ==
    /\ b \in Buffer
    /\ IsFiniteSet(b.buf)
    /\ Ordered(b)
    /\ Tombstoned(b)
    /\ Indexed(b)
    /\ CountsLive(b)
    /\ WithinCapacity(b)
    /\ CutWhole(b)
-----------------------------------------------------------------------------
(* A finite nonempty set with a natural-number rank has a least element:   *)
(* the down-sets of its elements are ordered by strict inclusion, which is *)
(* well founded on finite sets.                                            *)

LEMMA LeastExists ==
    ASSUME NEW S, IsFiniteSet(S), S # {}, NEW f \in [S -> Nat]
    PROVE  \E m \in S : \A k \in S : f[m] =< f[k]
<1> DEFINE Down(m) == {k \in S : f[k] =< f[m]}
           T == {Down(m) : m \in S}
<1>1. IsWellFoundedOn(StrictSubsetOrdering(S), FiniteSubsetsOf(S))
  BY FS_StrictSubsetOrderingWellFounded
<1>2. T \subseteq FiniteSubsetsOf(S) /\ T # {}
  <2>1. FiniteSubsetsOf(S) = SUBSET S
    BY FS_FiniteSubsetsOfFinite
  <2>2. T \subseteq SUBSET S
    OBVIOUS
  <2>3. PICK m \in S : TRUE
    OBVIOUS
  <2>4. Down(m) \in T
    OBVIOUS
  <2> QED BY <2>1, <2>2, <2>4
<1>3. PICK U \in T : \A V \in T : ~(<<V, U>> \in StrictSubsetOrdering(S))
  <2> HIDE DEF T
  <2> QED BY <1>1, <1>2, WFMin
<1>4. PICK m \in S : U = Down(m)
  OBVIOUS
<1>5. ASSUME NEW k \in S, ~(f[m] =< f[k]) PROVE FALSE
  <2>1. Down(k) \subseteq U /\ Down(k) # U
    <3>1. f[k] \in Nat /\ f[m] \in Nat
      OBVIOUS
    <3>2. m \in U /\ m \notin Down(k)
      BY <1>4, <1>5, <3>1
    <3>3. \A j \in S : f[j] =< f[k] => f[j] =< f[m]
      <4> SUFFICES ASSUME NEW j \in S, f[j] =< f[k] PROVE f[j] =< f[m]
        OBVIOUS
      <4>1. f[j] \in Nat
        OBVIOUS
      <4> QED BY <4>1, <3>1, <1>5
    <3> QED BY <1>4, <3>2, <3>3
  <2>2. <<Down(k), U>> \in StrictSubsetOrdering(S)
    BY <2>1, <1>4 DEF StrictSubsetOrdering
  <2> QED BY <1>3, <2>2
<1> QED BY <1>5

LEMMA OldestIsLeast ==
    ASSUME NEW S, S \subseteq Entry, IsFiniteSet(S), S # {}
    PROVE  /\ Oldest(S) \in S
           /\ \A f \in S : Oldest(S).seq =< f.seq
<1>1. \E e \in S : \A f \in S : e.seq =< f.seq
  <2> DEFINE rank == [e \in S |-> e.seq]
  <2>1. rank \in [S -> Nat]
    BY DEF Entry
  <2>2. PICK e \in S : \A f \in S : rank[e] =< rank[f]
    <3> HIDE DEF rank
    <3> QED BY <2>1, LeastExists
  <2> QED BY <2>2
<1> QED BY <1>1 DEF Oldest
-----------------------------------------------------------------------------
(* The parts of a sound buffer are finite, and Live(b) is made of entries. *)

LEMMA SoundShape ==
    ASSUME NEW b, Sound(b)
    PROVE  /\ b.buf \subseteq Entry
           /\ Live(b) \subseteq b.buf
           /\ IsFiniteSet(Live(b))
           /\ Cardinality(Live(b)) \in Nat
           /\ b.live \in Nat
           /\ \A r \in Runs : /\ b.runItems[r] \subseteq Live(b)
                              /\ IsFiniteSet(b.runItems[r])
                              /\ Cardinality(b.runItems[r]) \in Nat
           /\ b.keyless \subseteq Live(b) /\ IsFiniteSet(b.keyless)
<1>1. b.buf \subseteq Entry /\ Live(b) \subseteq b.buf
  BY DEF Sound, Buffer, Live
<1>2. IsFiniteSet(Live(b)) /\ Cardinality(Live(b)) \in Nat
  BY <1>1, FS_Subset, FS_CardinalityType DEF Sound
<1>3. b.live \in Nat
  BY <1>2 DEF Sound, CountsLive
<1>4. \A r \in Runs : b.runItems[r] \subseteq Live(b)
  BY DEF Sound, Indexed
<1>5. b.keyless \subseteq Live(b)
  BY DEF Sound, Indexed
<1>6. ASSUME NEW r \in Runs
      PROVE  IsFiniteSet(b.runItems[r]) /\ Cardinality(b.runItems[r]) \in Nat
  BY <1>2, <1>4, FS_Subset, FS_CardinalityType
<1>7. IsFiniteSet(b.keyless)
  BY <1>2, <1>5, FS_Subset
<1> QED BY <1>1, <1>2, <1>3, <1>4, <1>5, <1>6, <1>7

(* Evicting the oldest drop record leaves a sound buffer and brings _shed  *)
(* back under its cap.                                                     *)
LEMMA EvictOldestShedSound ==
    ASSUME NEW b, Sound(b),
           Cardinality(ShedRecords(b)) =< MaxShedRuns + 1
    PROVE  LET c == EvictOldestShed(b) IN
           /\ Sound(c)
           /\ Cardinality(ShedRecords(c)) =< MaxShedRuns
           /\ c.buf = b.buf /\ c.live = b.live /\ c.dead = b.dead
           /\ c.runItems = b.runItems /\ c.keyless = b.keyless
           /\ c.seq = b.seq /\ c.evicted = b.evicted
<1> DEFINE c == EvictOldestShed(b)
<1>0. IsFiniteSet(ShedRecords(b)) /\ Cardinality(ShedRecords(b)) \in Nat
  BY RunsAssumption, FS_Subset, FS_CardinalityType DEF ShedRecords
<1>1. CASE Cardinality(ShedRecords(b)) =< MaxShedRuns
  BY <1>1 DEF EvictOldestShed
<1>2. CASE ~(Cardinality(ShedRecords(b)) =< MaxShedRuns)
  <2> DEFINE oldest(r) == \A s \in ShedRecords(b) : b.shedAt[r] =< b.shedAt[s]
             victim == CHOOSE r \in ShedRecords(b) : oldest(r)
  <2>1. ShedRecords(b) # {}
    BY <1>2, <1>0, FS_EmptySet, SizeAssumption
  <2>2. \E r \in ShedRecords(b) : oldest(r)
    <3> DEFINE rank == [r \in ShedRecords(b) |-> b.shedAt[r]]
    <3>1. rank \in [ShedRecords(b) -> Nat]
      BY DEF Sound, Buffer, ShedRecords
    <3>2. PICK r \in ShedRecords(b) : \A s \in ShedRecords(b) : rank[r] =< rank[s]
      <4> HIDE DEF rank
      <4> QED BY <3>1, <2>1, <1>0, LeastExists
    <3> QED BY <3>2
  <2>3. victim \in ShedRecords(b) /\ victim \in Runs
    BY <2>2 DEF ShedRecords
  <2>4. c = [b EXCEPT !.shed[victim] = 0]
    BY <1>2 DEF EvictOldestShed
  <2> HIDE DEF c, victim
  <2>5. c = [b EXCEPT !.shed = [b.shed EXCEPT ![victim] = 0]]
    BY <2>4 DEF Sound, Buffer
  <2>6. /\ c \in Buffer
        /\ c.buf = b.buf /\ c.live = b.live /\ c.dead = b.dead
        /\ c.runItems = b.runItems /\ c.keyless = b.keyless
        /\ c.seq = b.seq /\ c.evicted = b.evicted
        /\ c.shed = [b.shed EXCEPT ![victim] = 0]
    BY <2>5, <2>3 DEF Sound, Buffer
  <2>7. ShedRecords(c) = ShedRecords(b) \ {victim}
    BY <2>6, <2>3 DEF ShedRecords, Sound, Buffer
  <2>8. Cardinality(ShedRecords(c)) =< MaxShedRuns
    <3>1. Cardinality(ShedRecords(c)) = Cardinality(ShedRecords(b)) - 1
      BY <2>7, <2>3, <1>0, FS_RemoveElement
    <3> QED BY <3>1, <1>0, SizeAssumption
  <2>9. CutWhole(c)
    BY <2>6, <2>3 DEF CutWhole, Sound, Buffer
  <2>10. Sound(c)
    BY <2>6, <2>9 DEF Sound, Ordered, Tombstoned, Indexed, CountsLive,
                      WithinCapacity, Live
  <2> QED BY <2>6, <2>8, <2>10 DEF c
<1> QED BY <1>1, <1>2

(* Tombstoning S, a set of live unprotected entries, removes exactly S     *)
(* from the live entries and lowers the count by its size.                 *)
LEMMA TombstoneLive ==
    ASSUME NEW b, Sound(b), NEW S, S \subseteq Live(b), NEW d,
           d.buf = b.buf, d.dead = b.dead \cup {e.seq : e \in S}
    PROVE  /\ Live(d) = Live(b) \ S
           /\ IsFiniteSet(S) /\ Cardinality(S) \in Nat
           /\ Cardinality(Live(d)) = b.live - Cardinality(S)
           /\ Cardinality(S) =< b.live
<1>1. Live(d) = Live(b) \ S
  BY DEF Live, Sound, Ordered
<1>2. IsFiniteSet(S) /\ Cardinality(S) \in Nat /\ Cardinality(S) =< b.live
  BY SoundShape, FS_Subset, FS_CardinalityType DEF Sound, CountsLive
<1>3. Live(b) \cap S = S
  OBVIOUS
<1>4. Cardinality(Live(d)) = b.live - Cardinality(S)
  <2>1. Cardinality(Live(b) \ S) = Cardinality(Live(b)) - Cardinality(Live(b) \cap S)
    BY SoundShape, FS_Difference
  <2> QED BY <1>1, <1>3, <2>1 DEF Sound, CountsLive
<1> QED BY <1>1, <1>2, <1>4

(* Shedding a run of a sound buffer leaves a sound buffer without it.      *)
LEMMA ShedRunSound ==
    ASSUME NEW b, Sound(b), Cardinality(ShedRecords(b)) =< MaxShedRuns,
           NEW r \in Runs, NEW extra \in Nat
    PROVE  LET c == ShedRun(b, r, extra) IN
           /\ Sound(c)
           /\ Cardinality(ShedRecords(c)) =< MaxShedRuns
           /\ c.live = b.live - Cardinality(b.runItems[r])
           /\ Live(c) = Live(b) \ b.runItems[r]
           /\ c.buf = b.buf /\ c.seq = b.seq /\ c.evicted = b.evicted
<1> DEFINE taken == b.runItems[r]
           n == Cardinality(taken)
           d == [b EXCEPT !.runItems  = [b.runItems EXCEPT ![r] = {}],
                          !.live      = b.live - n,
                          !.dead      = b.dead \cup {e.seq : e \in taken},
                          !.shed      = [b.shed EXCEPT ![r] = b.shed[r] + n + extra],
                          !.shedAt    = [b.shedAt EXCEPT ![r] = b.shedTotal + 1],
                          !.shedTotal = b.shedTotal + 1]
<1>1. ShedRun(b, r, extra) = EvictOldestShed(d)
  BY DEF ShedRun, Sound, Buffer
<1>2. taken \subseteq Live(b) /\ n \in Nat
  BY SoundShape
<1>3. b \in Buffer
  BY DEF Sound
<1>4. \A e \in taken : e \in b.buf /\ e \in Entry /\ e.seq \in Nat
                      /\ e.key = r /\ e.kind = "event"
  BY <1>2, SoundShape DEF Sound, Indexed, Entry
<1>5. /\ d.buf = b.buf /\ d.seq = b.seq /\ d.evicted = b.evicted
      /\ d.keyless = b.keyless
      /\ d.runItems = [b.runItems EXCEPT ![r] = {}]
      /\ d.live = b.live - n
      /\ d.dead = b.dead \cup {e.seq : e \in taken}
      /\ d.shed = [b.shed EXCEPT ![r] = b.shed[r] + n + extra]
  BY <1>3, SMTT(30) DEF Buffer
<1>6. d \in Buffer
  <2>1. {e.seq : e \in taken} \subseteq Nat
    BY <1>4
  <2>2. b.shed[r] + n + extra \in Nat
    BY <1>2, <1>3 DEF Buffer
  <2>3. b.live - n \in Int
    BY <1>2, <1>3 DEF Buffer
  <2>4. {} \in SUBSET Entry
    OBVIOUS
  <2>5. b.shedTotal + 1 \in Nat
    BY <1>3 DEF Buffer
  <2>6. d.dead \in SUBSET Nat
    BY <1>3, <1>5, <2>1 DEF Buffer
  <2> HIDE DEF taken, n
  <2> QED BY <1>3, <2>1, <2>2, <2>3, <2>4, <2>5, <2>6 DEF Buffer
<1> HIDE DEF d
<1>7. /\ Live(d) = Live(b) \ taken
      /\ Cardinality(Live(d)) = b.live - n
      /\ n =< b.live
  BY <1>2, <1>5, TombstoneLive
<1>8. Ordered(d) /\ IsFiniteSet(d.buf)
  BY <1>5 DEF Sound, Ordered
<1>9. Tombstoned(d)
  BY <1>4, <1>5 DEF Sound, Tombstoned
<1>10. Indexed(d)
  <2>1. \A q \in Runs : d.runItems[q] = {e \in Live(d) : e.key = q /\ e.kind = "event"}
    BY <1>3, <1>4, <1>5, <1>7 DEF Sound, Indexed, Buffer
  <2>2. d.keyless = {e \in Live(d) : e.key = NoRun /\ e.kind = "event"}
    BY <1>4, <1>5, <1>7, RunsAssumption DEF Sound, Indexed
  <2> QED BY <2>1, <2>2 DEF Indexed
<1>11. CountsLive(d) /\ WithinCapacity(d)
  BY <1>2, <1>5, <1>7, SizeAssumption, SoundShape
     DEF CountsLive, WithinCapacity, Sound
<1>12. CutWhole(d)
  BY <1>3, <1>5 DEF CutWhole, Sound, Buffer
<1>13. Sound(d)
  BY <1>6, <1>8, <1>9, <1>10, <1>11, <1>12 DEF Sound
<1>14. Cardinality(ShedRecords(d)) =< MaxShedRuns + 1
  <2>1. ShedRecords(d) \subseteq ShedRecords(b) \cup {r}
    <3>1. \A q \in Runs : q # r => d.shed[q] = b.shed[q]
      BY <1>3, <1>5 DEF Buffer
    <3> QED BY <3>1 DEF ShedRecords
  <2>2. IsFiniteSet(ShedRecords(b)) /\ Cardinality(ShedRecords(b)) \in Nat
    BY RunsAssumption, FS_Subset, FS_CardinalityType DEF ShedRecords
  <2>3. /\ IsFiniteSet(ShedRecords(b) \cup {r})
        /\ Cardinality(ShedRecords(b) \cup {r}) =< Cardinality(ShedRecords(b)) + 1
        /\ Cardinality(ShedRecords(b) \cup {r}) \in Nat
    <3>1. /\ IsFiniteSet(ShedRecords(b) \cup {r})
          /\ Cardinality(ShedRecords(b) \cup {r}) =
                IF r \in ShedRecords(b) THEN Cardinality(ShedRecords(b))
                ELSE Cardinality(ShedRecords(b)) + 1
      BY <2>2, FS_AddElement
    <3> QED BY <2>2, <3>1
  <2>4. /\ Cardinality(ShedRecords(d)) =< Cardinality(ShedRecords(b) \cup {r})
        /\ Cardinality(ShedRecords(d)) \in Nat
    BY <2>1, <2>3, FS_Subset, FS_CardinalityType
  <2> QED BY <2>2, <2>3, <2>4, SizeAssumption
<1> QED BY <1>1, <1>5, <1>7, <1>13, <1>14, EvictOldestShedSound DEF Live
-----------------------------------------------------------------------------
(* Making room.                                                            *)

LEMMA CardinalityMonotone ==
    ASSUME NEW S, NEW T, IsFiniteSet(S), T \subseteq S
    PROVE  /\ IsFiniteSet(T)
           /\ Cardinality(T) \in Nat /\ Cardinality(S) \in Nat
           /\ Cardinality(T) =< Cardinality(S)
BY FS_Subset, FS_CardinalityType

(* Discarding the tombstones at the head changes nothing a drain can see.  *)
LEMMA TrimDeadHeadSound ==
    ASSUME NEW b, Sound(b), WithinMemory(b)
    PROVE  LET t == TrimDeadHead(b) IN
           /\ Sound(t) /\ WithinMemory(t)
           /\ Live(t) = Live(b) /\ t.live = b.live
           /\ t.seq = b.seq /\ t.evicted = b.evicted /\ t.shed = b.shed
           /\ t.runItems = b.runItems /\ t.keyless = b.keyless
           /\ \A e \in t.buf : \E f \in Live(t) : f.seq =< e.seq
           /\ t.buf \subseteq b.buf
<1> DEFINE kept == {e \in b.buf : \E f \in Live(b) : f.seq =< e.seq}
           t == [b EXCEPT !.buf = kept, !.dead = b.dead \cap {e.seq : e \in kept}]
<1>1. TrimDeadHead(b) = t
  BY DEF TrimDeadHead, Sound, Buffer
<1>2. b \in Buffer /\ kept \subseteq b.buf
  BY DEF Sound
<1>3. /\ t.buf = kept /\ t.dead = b.dead \cap {e.seq : e \in kept}
      /\ t.live = b.live /\ t.seq = b.seq /\ t.evicted = b.evicted
      /\ t.shed = b.shed /\ t.runItems = b.runItems /\ t.keyless = b.keyless
  BY <1>2, SMTT(30) DEF Buffer
<1>4. t \in Buffer
  BY <1>2 DEF Buffer
<1> HIDE DEF t
<1>5. Live(t) = Live(b)
  <2>1. \A e \in Live(b) : e \in kept /\ e.seq =< e.seq
    BY SoundShape DEF Entry
  <2>2. \A e \in kept : e.seq \notin t.dead => e.seq \notin b.dead
    BY <1>3
  <2> QED BY <1>2, <1>3, <2>1, <2>2 DEF Live
<1>6. IsFiniteSet(kept) /\ Cardinality(kept) =< 2 * MaxSize
  BY <1>2, CardinalityMonotone, SizeAssumption DEF Sound, WithinMemory
<1>7. Ordered(t)
  BY <1>2, <1>3 DEF Sound, Ordered
<1>8. Tombstoned(t)
  <2> SUFFICES ASSUME NEW s \in t.dead
               PROVE  \E e \in t.buf : e.kind = "event" /\ e.seq = s
    BY DEF Tombstoned
  <2>1. PICK e \in b.buf : e.kind = "event" /\ e.seq = s
    BY <1>3 DEF Sound, Tombstoned
  <2>2. PICK k \in kept : k.seq = s
    BY <1>3
  <2>3. e = k
    BY <1>2, <2>1, <2>2 DEF Sound, Ordered
  <2> QED BY <1>3, <2>1, <2>2, <2>3
<1>9. Indexed(t) /\ CountsLive(t) /\ WithinCapacity(t) /\ CutWhole(t)
  BY <1>3, <1>5 DEF Sound, Indexed, CountsLive, WithinCapacity, CutWhole
<1>10. Sound(t)
  BY <1>3, <1>4, <1>6, <1>7, <1>8, <1>9 DEF Sound
<1>11. WithinMemory(t)
  BY <1>3, <1>6 DEF WithinMemory, ShedRecords
<1> QED BY <1>1, <1>2, <1>3, <1>5, <1>10, <1>11

LEMMA ShedKeylessSound ==
    ASSUME NEW b, Sound(b), WithinMemory(b), b.keyless # {}
    PROVE  LET c == ShedKeyless(b) IN
           /\ Sound(c) /\ WithinMemory(c)
           /\ c.live = b.live - 1
           /\ Live(c) \subseteq Live(b)
           /\ c.seq = b.seq /\ c.evicted = b.evicted
<1> DEFINE e == Oldest(b.keyless)
           c == ShedKeyless(b)
<1>1. e \in b.keyless
  BY SoundShape, OldestIsLeast DEF Entry
<1>2. e \in Live(b) /\ e \in b.buf /\ e \in Entry /\ e.key = NoRun /\ e.kind = "event"
  BY <1>1, SoundShape DEF Sound, Indexed
<1> HIDE DEF e
<1>3. b \in Buffer
  BY DEF Sound
<1>4. /\ c.buf = b.buf /\ c.seq = b.seq /\ c.evicted = b.evicted
      /\ c.shed = b.shed /\ c.runItems = b.runItems
      /\ c.keyless = b.keyless \ {e}
      /\ c.live = b.live - 1
      /\ c.dead = b.dead \cup {e.seq}
  BY <1>3 DEF ShedKeyless, Buffer, e
<1>5. c \in Buffer
  <2>1. c = [b EXCEPT !.keyless = b.keyless \ {e},
                      !.dead = b.dead \cup {e.seq}, !.live = b.live - 1]
    BY DEF ShedKeyless, e
  <2>2. e.seq \in Nat
    BY <1>2 DEF Entry
  <2>3. /\ b.keyless \ {e} \in SUBSET Entry
        /\ b.dead \cup {e.seq} \in SUBSET Nat
        /\ b.live - 1 \in Int
    BY <1>3, <2>2 DEF Buffer
  <2> HIDE DEF c
  <2> QED BY <1>3, <2>1, <2>3 DEF Buffer
<1> HIDE DEF c
<1>6. /\ Live(c) = Live(b) \ {e}
      /\ Cardinality(Live(c)) = b.live - 1
      /\ 1 =< b.live
  <2>1. {f.seq : f \in {e}} = {e.seq}
    OBVIOUS
  <2>2. Cardinality({e}) = 1
    BY FS_Singleton
  <2> QED BY <1>2, <1>4, <2>1, <2>2, TombstoneLive
<1>7. Ordered(c) /\ IsFiniteSet(c.buf)
  BY <1>4 DEF Sound, Ordered
<1>8. Tombstoned(c)
  BY <1>2, <1>4 DEF Sound, Tombstoned
<1>9. Indexed(c)
  <2>1. \A q \in Runs : c.runItems[q] = {f \in Live(c) : f.key = q /\ f.kind = "event"}
    BY <1>2, <1>4, <1>6, RunsAssumption DEF Sound, Indexed
  <2>2. c.keyless = {f \in Live(c) : f.key = NoRun /\ f.kind = "event"}
    BY <1>2, <1>4, <1>6 DEF Sound, Indexed
  <2> QED BY <2>1, <2>2 DEF Indexed
<1>10. CountsLive(c) /\ WithinCapacity(c) /\ CutWhole(c)
  BY <1>4, <1>6, SizeAssumption, SoundShape
     DEF CountsLive, WithinCapacity, CutWhole, Sound
<1>11. Sound(c)
  BY <1>5, <1>7, <1>8, <1>9, <1>10 DEF Sound
<1>12. WithinMemory(c)
  BY <1>4 DEF WithinMemory, ShedRecords
<1> QED BY <1>4, <1>6, <1>11, <1>12 DEF c

(* Shedding the oldest run or keyless item frees at least one live slot.   *)
LEMMA ShedOldestSound ==
    ASSUME NEW b, Sound(b), WithinMemory(b), Sheddable(b)
    PROVE  LET c == ShedOldest(b) IN
           /\ Sound(c) /\ WithinMemory(c)
           /\ c.live < b.live
           /\ Live(c) \subseteq Live(b)
           /\ c.seq = b.seq /\ c.evicted = b.evicted
<1>1. CASE KeylessFirst(b)
  BY <1>1, ShedKeylessSound, SoundShape DEF ShedOldest, KeylessFirst
<1>2. CASE ~KeylessFirst(b)
  <2> DEFINE r == OldestRun(b)
             c == ShedRun(b, r, 0)
  <2>1. IndexedRuns(b) # {}
    BY <1>2 DEF KeylessFirst, Sheddable
  <2>2. r \in IndexedRuns(b)
    <3>1. IsFiniteSet(IndexedRuns(b))
      BY RunsAssumption, FS_Subset DEF IndexedRuns
    <3> DEFINE rank == [q \in IndexedRuns(b) |-> b.runSince[q]]
    <3>2. rank \in [IndexedRuns(b) -> Nat]
      BY DEF Sound, Buffer, IndexedRuns
    <3>3. PICK q \in IndexedRuns(b) : \A s \in IndexedRuns(b) : rank[q] =< rank[s]
      <4> HIDE DEF rank
      <4> QED BY <2>1, <3>1, <3>2, LeastExists
    <3>4. \A s \in IndexedRuns(b) : b.runSince[q] =< b.runSince[s]
      BY <3>3
    <3> QED BY <3>4 DEF OldestRun
  <2>3. r \in Runs /\ b.runItems[r] # {}
    BY <2>2 DEF IndexedRuns
  <2> HIDE DEF r
  <2>4. /\ Cardinality(b.runItems[r]) \in Nat
        /\ Cardinality(b.runItems[r]) # 0
    BY <2>3, SoundShape, FS_EmptySet
  <2>5. /\ Sound(c) /\ Cardinality(ShedRecords(c)) =< MaxShedRuns
        /\ c.live = b.live - Cardinality(b.runItems[r])
        /\ Live(c) = Live(b) \ b.runItems[r]
        /\ c.buf = b.buf /\ c.seq = b.seq /\ c.evicted = b.evicted
    BY <2>3, ShedRunSound DEF WithinMemory
  <2>6. WithinMemory(c)
    BY <2>5 DEF WithinMemory
  <2>7. c.live < b.live
    <3> HIDE DEF c
    <3> QED BY <2>4, <2>5, SoundShape
  <2>8. ShedOldest(b) = c
    BY <1>2 DEF ShedOldest, r
  <2> HIDE DEF c
  <2> QED BY <2>5, <2>6, <2>7, <2>8
<1> QED BY <1>1, <1>2

(* When nothing is sheddable and the head is live, every live entry is     *)
(* protected; evicting the head frees its slot.                            *)
LEMMA DropOldestProtectedSound ==
    ASSUME NEW b, Sound(b), WithinMemory(b), ~Sheddable(b), b.buf # {},
           \A e \in b.buf : \E f \in Live(b) : f.seq =< e.seq
    PROVE  LET c == DropOldestProtected(b) IN
           /\ Sound(c) /\ WithinMemory(c)
           /\ c.live < b.live
           /\ Live(c) \subseteq Live(b)
           /\ c.seq = b.seq /\ c.evicted = b.evicted + 1
<1> DEFINE e == Oldest(b.buf)
           p == [b EXCEPT !.buf     = b.buf \ {e},
                          !.live    = b.live - 1,
                          !.forced  = b.forced \ {e.seq},
                          !.evicted = b.evicted + 1]
           c == DropOldestProtected(b)
<1>1. e \in b.buf /\ \A f \in b.buf : e.seq =< f.seq
  BY SoundShape, OldestIsLeast DEF Sound
<1>2. c = IF e.key \in Runs THEN ShedRun(p, e.key, 1) ELSE p
  BY DEF DropOldestProtected
<1> HIDE DEF e
<1>3. e \in Live(b) /\ e \in Entry
  <2>1. PICK f \in Live(b) : f.seq =< e.seq
    BY <1>1
  <2>2. f \in b.buf /\ e \in Entry /\ f \in Entry
    BY <1>1, <2>1, SoundShape
  <2>3. f.seq = e.seq
    BY <1>1, <2>1, <2>2 DEF Entry
  <2> QED BY <1>1, <2>1, <2>2, <2>3 DEF Sound, Ordered
<1>4. b \in Buffer
  BY DEF Sound
<1>5. /\ p.buf = b.buf \ {e} /\ p.dead = b.dead /\ p.live = b.live - 1
      /\ p.seq = b.seq /\ p.evicted = b.evicted + 1
      /\ p.shed = b.shed /\ p.runItems = b.runItems /\ p.keyless = b.keyless
  BY <1>4 DEF Buffer
<1>6. p \in Buffer
  <2>1. /\ b.buf \ {e} \in SUBSET Entry /\ b.live - 1 \in Int
        /\ b.forced \ {e.seq} \in SUBSET Nat /\ b.evicted + 1 \in Nat
    BY <1>4 DEF Buffer
  <2> QED BY <1>4, <2>1 DEF Buffer
<1> HIDE DEF p, c
<1>7. Live(p) = Live(b) \ {e}
  BY <1>5 DEF Live
<1>8. \A f \in Live(b) : f.kind # "event"
  <2> SUFFICES ASSUME NEW f \in Live(b), f.kind = "event" PROVE FALSE
    OBVIOUS
  <2>1. f.key \in Runs \/ f.key = NoRun
    BY SoundShape DEF Entry, Keys
  <2> QED BY <2>1 DEF Sound, Indexed, Sheddable, IndexedRuns
<1>9. Cardinality(Live(p)) = b.live - 1 /\ b.live - 1 \in Nat
  <2>1. Cardinality(Live(p)) = Cardinality(Live(b)) - 1
    <3>1. IsFiniteSet(Live(b))
      BY SoundShape
    <3> QED BY <1>3, <1>7, <3>1, FS_RemoveElement
  <2>2. IsFiniteSet(Live(p))
    BY <1>7, SoundShape, FS_RemoveElement
  <2> QED BY <2>1, <2>2, FS_CardinalityType DEF Sound, CountsLive
<1>10. Ordered(p) /\ IsFiniteSet(p.buf) /\ Cardinality(p.buf) =< 2 * MaxSize
  <2>1. IsFiniteSet(p.buf) /\ Cardinality(p.buf) =< Cardinality(b.buf)
        /\ Cardinality(p.buf) \in Nat /\ Cardinality(b.buf) \in Nat
    BY <1>5, CardinalityMonotone DEF Sound
  <2>2. Cardinality(p.buf) =< 2 * MaxSize
    BY <2>1, SizeAssumption DEF WithinMemory
  <2> QED BY <1>5, <2>1, <2>2 DEF Sound, Ordered
<1>11. Tombstoned(p)
  BY <1>3, <1>5 DEF Sound, Tombstoned, Live
<1>12. Indexed(p)
  <2>1. \A q \in Runs : p.runItems[q] = {f \in Live(p) : f.key = q /\ f.kind = "event"}
    BY <1>3, <1>5, <1>7, <1>8 DEF Sound, Indexed
  <2>2. p.keyless = {f \in Live(p) : f.key = NoRun /\ f.kind = "event"}
    BY <1>3, <1>5, <1>7, <1>8 DEF Sound, Indexed
  <2> QED BY <2>1, <2>2 DEF Indexed
<1>13. CountsLive(p) /\ WithinCapacity(p) /\ CutWhole(p)
  <2>1. b.live \in Int /\ b.live =< MaxSize
    BY <1>4 DEF Sound, WithinCapacity, Buffer
  <2>2. p.live >= 0 /\ p.live =< MaxSize
    BY <1>5, <1>9, <2>1, SizeAssumption
  <2>3. CutWhole(p)
    BY <1>5 DEF Sound, CutWhole
  <2> QED BY <1>5, <1>9, <2>2, <2>3 DEF CountsLive, WithinCapacity
<1>14. Sound(p) /\ WithinMemory(p)
  BY <1>5, <1>6, <1>10, <1>11, <1>12, <1>13
     DEF Sound, WithinMemory, ShedRecords
<1> DEFINE Good == /\ Sound(c) /\ WithinMemory(c)
                   /\ c.live < b.live
                   /\ Live(c) \subseteq Live(b)
                   /\ c.seq = b.seq /\ c.evicted = b.evicted + 1
<1>15. ASSUME e.key \in Runs PROVE Good
  <2>1. /\ Sound(c) /\ Cardinality(ShedRecords(c)) =< MaxShedRuns
        /\ c.live = p.live - Cardinality(p.runItems[e.key])
        /\ Live(c) = Live(p) \ p.runItems[e.key]
        /\ c.buf = p.buf /\ c.seq = p.seq /\ c.evicted = p.evicted
    BY <1>2, <1>14, <1>15, ShedRunSound DEF WithinMemory
  <2>2. Cardinality(p.runItems[e.key]) \in Nat /\ p.live \in Nat
    BY <1>14, <1>15, SoundShape
  <2>3. c.live < b.live
    <3>1. b.live \in Int
      BY <1>4 DEF Buffer
    <3>2. c.live =< p.live
      BY <2>1, <2>2
    <3>3. c.live \in Int /\ p.live \in Int
      BY <2>1, <2>2
    <3> QED BY <1>5, <3>1, <3>2, <3>3
  <2> QED BY <1>5, <1>7, <1>10, <2>1, <2>3 DEF WithinMemory
<1>16. ASSUME e.key \notin Runs PROVE Good
  <2>1. c = p /\ b.live \in Int
    BY <1>2, <1>4, <1>16 DEF Buffer
  <2> QED BY <1>5, <1>7, <1>14, <2>1
<1> QED BY <1>15, <1>16 DEF c

(* What one _make_room_locked does, to the invariants and to the evicted   *)
(* counter.                                                                *)
EvictsOnlyProtected(b, c, allowProtected) ==
    \/ c.evicted = b.evicted
    \/ /\ c.evicted = b.evicted + 1
       /\ allowProtected
       /\ \A e \in Live(b) : e.kind # "event"

LEMMA MakeRoomSound ==
    ASSUME NEW b, Sound(b), WithinMemory(b), NEW allow \in BOOLEAN
    PROVE  LET c == MakeRoom(b, allow) IN
           /\ Sound(c) /\ WithinMemory(c)
           /\ c.live =< b.live
           /\ allow /\ b.live > 0 => c.live < b.live
           /\ Live(c) \subseteq Live(b)
           /\ c.seq = b.seq
           /\ EvictsOnlyProtected(b, c, allow)
<1> DEFINE t == TrimDeadHead(b)
           c == MakeRoom(b, allow)
           Good == /\ Sound(c) /\ WithinMemory(c)
                   /\ c.live =< b.live
                   /\ (allow /\ b.live > 0 => c.live < b.live)
                   /\ Live(c) \subseteq Live(b)
                   /\ c.seq = b.seq
                   /\ EvictsOnlyProtected(b, c, allow)
<1>1. /\ Sound(t) /\ WithinMemory(t)
      /\ Live(t) = Live(b) /\ t.live = b.live
      /\ t.seq = b.seq /\ t.evicted = b.evicted
      /\ \A e \in t.buf : \E f \in Live(t) : f.seq =< e.seq
  BY TrimDeadHeadSound
<1>2. c = IF Sheddable(t) THEN ShedOldest(t)
          ELSE IF allow /\ t.buf # {} THEN DropOldestProtected(t)
          ELSE t
  BY DEF MakeRoom
<1>3. t.live \in Nat /\ b.live \in Nat
  BY <1>1, SoundShape
<1> HIDE DEF t, c
<1>4. ASSUME Sheddable(t) PROVE Good
  <2>1. /\ Sound(c) /\ WithinMemory(c) /\ c.live < t.live
        /\ Live(c) \subseteq Live(t)
        /\ c.seq = t.seq /\ c.evicted = t.evicted
    BY <1>1, <1>2, <1>4, ShedOldestSound
  <2>2. c.live \in Nat
    BY <2>1, SoundShape
  <2> QED BY <1>1, <1>3, <2>1, <2>2 DEF EvictsOnlyProtected
<1>5. ASSUME ~Sheddable(t), allow, t.buf # {} PROVE Good
  <2>1. /\ Sound(c) /\ WithinMemory(c) /\ c.live < t.live
        /\ Live(c) \subseteq Live(t)
        /\ c.seq = t.seq /\ c.evicted = t.evicted + 1
    BY <1>1, <1>2, <1>5, DropOldestProtectedSound
  <2>2. c.live \in Nat
    BY <2>1, SoundShape
  <2>3. \A e \in Live(b) : e.kind # "event"
    <3> SUFFICES ASSUME NEW e \in Live(t), e.kind = "event" PROVE FALSE
      BY <1>1
    <3>1. e.key \in Runs \/ e.key = NoRun
      BY <1>1, SoundShape DEF Entry, Keys
    <3> QED BY <1>1, <1>5, <3>1 DEF Sound, Indexed, Sheddable, IndexedRuns
  <2> QED BY <1>1, <1>3, <1>5, <2>1, <2>2, <2>3 DEF EvictsOnlyProtected
<1>6. ASSUME ~Sheddable(t), ~(allow /\ t.buf # {}) PROVE Good
  <2>1. c = t
    BY <1>2, <1>6
  <2>2. allow => b.live = 0
    <3> SUFFICES ASSUME allow PROVE Cardinality(Live(t)) = 0
      BY <1>1 DEF Sound, CountsLive
    <3>1. Live(t) = {}
      BY <1>1, <1>6, SoundShape
    <3> QED BY <3>1, FS_EmptySet
  <2> QED BY <1>1, <1>3, <2>1, <2>2 DEF EvictsOnlyProtected
<1> QED BY <1>4, <1>5, <1>6 DEF c

(* The eviction loop of push and reserve_terminal: one pass is enough.  A  *)
(* protected caller always gets its slot.                                  *)
LEMMA FitSound ==
    ASSUME NEW b, Sound(b), WithinMemory(b), NEW allow \in BOOLEAN
    PROVE  LET c == Fit(b, allow) IN
           /\ Sound(c) /\ WithinMemory(c)
           /\ allow => c.live < MaxSize
           /\ c.live \in Nat /\ c.live =< b.live
           /\ Live(c) \subseteq Live(b)
           /\ c.seq = b.seq
           /\ EvictsOnlyProtected(b, c, allow)
<1>1. b.live \in Nat /\ b.live =< MaxSize /\ MaxSize \in Nat /\ MaxSize > 0
  BY SoundShape, SizeAssumption DEF Sound, WithinCapacity
<1>2. CASE b.live < MaxSize
  BY <1>1, <1>2 DEF Fit, EvictsOnlyProtected
<1>3. ASSUME ~(b.live < MaxSize)
      PROVE  LET c == MakeRoom(b, allow) IN
             /\ Sound(c) /\ WithinMemory(c)
             /\ allow => c.live < MaxSize
             /\ c.live \in Nat /\ c.live =< b.live
             /\ Live(c) \subseteq Live(b)
             /\ c.seq = b.seq
             /\ EvictsOnlyProtected(b, c, allow)
  <2> DEFINE c == MakeRoom(b, allow)
  <2>1. /\ Sound(c) /\ WithinMemory(c)
        /\ c.live =< b.live
        /\ allow /\ b.live > 0 => c.live < b.live
        /\ Live(c) \subseteq Live(b)
        /\ c.seq = b.seq
        /\ EvictsOnlyProtected(b, c, allow)
    BY MakeRoomSound
  <2>2. c.live \in Nat
    BY <2>1, SoundShape
  <2> HIDE DEF c
  <2> QED BY <1>1, <1>3, <2>1, <2>2 DEF c
<1> QED BY <1>2, <1>3 DEF Fit

(* Why Fit is the whole loop: at capacity, one pass either frees a slot,   *)
(* so the loop's condition is false, or had nothing to give, which is the  *)
(* break.                                                                  *)
THEOREM MakesRoom ==
    ASSUME NEW b, Sound(b), WithinMemory(b), b.live >= MaxSize,
           NEW allow \in BOOLEAN
    PROVE  \/ MakeRoom(b, allow).live < MaxSize
           \/ ~allow /\ ~Sheddable(TrimDeadHead(b))
<1>1. b.live \in Nat /\ b.live =< MaxSize /\ MaxSize \in Nat /\ MaxSize > 0
  BY SoundShape, SizeAssumption DEF Sound, WithinCapacity
<1>2. CASE allow
  <2> DEFINE c == MakeRoom(b, allow)
  <2>1. Sound(c) /\ (allow /\ b.live > 0 => c.live < b.live)
    BY MakeRoomSound
  <2>2. c.live \in Nat
    BY <2>1, SoundShape
  <2>3. c.live < MaxSize
    <3> HIDE DEF c
    <3> QED BY <1>1, <1>2, <2>1, <2>2
  <2> QED BY <2>3
<1>3. CASE ~allow /\ Sheddable(TrimDeadHead(b))
  <2> DEFINE t == TrimDeadHead(b)
             c == ShedOldest(t)
  <2>1. Sound(t) /\ WithinMemory(t) /\ t.live = b.live
    BY TrimDeadHeadSound
  <2>2. Sound(c) /\ c.live < t.live
    BY <1>3, <2>1, ShedOldestSound
  <2>3. c.live \in Nat
    BY <2>2, SoundShape
  <2>4. MakeRoom(b, allow) = c
    BY <1>3 DEF MakeRoom
  <2> QED BY <1>1, <2>1, <2>2, <2>3, <2>4
<1> QED BY <1>2, <1>3
-----------------------------------------------------------------------------
(* Pushing.                                                                *)

LEMMA CompactSound ==
    ASSUME NEW b, Sound(b), Cardinality(ShedRecords(b)) =< MaxShedRuns
    PROVE  LET c == Compact(b) IN
           /\ Sound(c) /\ WithinMemory(c)
           /\ Live(c) = Live(b) /\ c.evicted = b.evicted
<1> DEFINE c == [b EXCEPT !.buf = Live(b), !.dead = {}]
<1>0. Cardinality(b.buf) \in Nat /\ MaxSize \in Nat
  BY FS_CardinalityType, SizeAssumption DEF Sound
<1>1. CASE Cardinality(b.buf) =< 2 * MaxSize
  BY <1>1 DEF Compact, WithinMemory
<1>2. CASE ~(Cardinality(b.buf) =< 2 * MaxSize)
  <2>1. b \in Buffer /\ Live(b) \subseteq Entry
    BY SoundShape DEF Sound
  <2>2. /\ c.buf = Live(b) /\ c.dead = {} /\ c.live = b.live
        /\ c.seq = b.seq /\ c.evicted = b.evicted
        /\ c.shed = b.shed /\ c.runItems = b.runItems /\ c.keyless = b.keyless
    BY <2>1 DEF Buffer
  <2>3. c \in Buffer
    BY <2>1 DEF Buffer
  <2>4. Compact(b) = c
    BY <1>2 DEF Compact
  <2> HIDE DEF c
  <2>5. Live(c) = Live(b)
    BY <2>2 DEF Live
  <2>6. Ordered(c) /\ IsFiniteSet(c.buf)
    BY <2>2, SoundShape DEF Sound, Ordered
  <2>7. Tombstoned(c) /\ Indexed(c) /\ CountsLive(c) /\ WithinCapacity(c)
        /\ CutWhole(c)
    BY <2>2, <2>5 DEF Sound, Tombstoned, Indexed, CountsLive,
                      WithinCapacity, CutWhole
  <2>8. Sound(c)
    BY <2>3, <2>6, <2>7 DEF Sound
  <2>9. Cardinality(c.buf) =< 2 * MaxSize
    <3>1. Cardinality(c.buf) = b.live /\ b.live \in Nat /\ b.live =< MaxSize
      BY <2>2, SoundShape DEF Sound, CountsLive, WithinCapacity
    <3> QED BY <3>1, <1>0
  <2>10. WithinMemory(c)
    BY <2>2, <2>9 DEF WithinMemory, ShedRecords
  <2> QED BY <2>2, <2>4, <2>5, <2>8, <2>10
<1> QED BY <1>1, <1>2

(* Appending below capacity an item that is protected, or whose run has no *)
(* drop record.                                                            *)
LEMMA AppendEntrySound ==
    ASSUME NEW b, Sound(b), WithinMemory(b), b.live < MaxSize,
           NEW key \in Keys, NEW kind \in Kinds, NEW dropped \in Nat,
           ~Protected(kind) => ~HasShed(b, key)
    PROVE  LET c == AppendEntry(b, key, kind, dropped) IN
           /\ Sound(c)
           /\ Cardinality(ShedRecords(c)) =< MaxShedRuns
           /\ c.evicted = b.evicted
           /\ Live(c) = Live(b) \cup {[seq |-> b.seq, key |-> key,
                                       kind |-> kind, dropped |-> dropped]}
<1> DEFINE e == [seq |-> b.seq, key |-> key, kind |-> kind, dropped |-> dropped]
           c == AppendEntry(b, key, kind, dropped)
           a == [b EXCEPT !.buf = b.buf \cup {e}, !.seq = b.seq + 1,
                          !.live = b.live + 1]
<1>1. b \in Buffer /\ b.seq \in Nat
  BY DEF Sound, Buffer
<1>2. e \in Entry /\ e.seq = b.seq /\ e.key = key /\ e.kind = kind
  BY <1>1 DEF Entry
<1>3. e \notin b.buf /\ e.seq \notin b.dead
  <2>1. \A f \in b.buf : f.seq # e.seq
    BY <1>1, <1>2, SoundShape DEF Sound, Ordered, Entry
  <2> QED BY <2>1 DEF Sound, Tombstoned
<1>4. a \in Buffer
  <2>1. /\ b.buf \cup {e} \in SUBSET Entry /\ b.seq + 1 \in Nat
        /\ b.live + 1 \in Int
    BY <1>1, <1>2 DEF Buffer
  <2> HIDE DEF e
  <2> QED BY <1>1, <2>1 DEF Buffer
<1>5. /\ a.buf = b.buf \cup {e} /\ a.seq = b.seq + 1 /\ a.live = b.live + 1
      /\ a.dead = b.dead /\ a.evicted = b.evicted /\ a.shed = b.shed
      /\ a.runItems = b.runItems /\ a.keyless = b.keyless
      /\ a.forced = b.forced /\ a.runSince = b.runSince
  BY <1>1 DEF Buffer
<1>6. c = CASE kind = "terminal" -> a
            [] kind = "forced" -> [a EXCEPT !.forced = a.forced \cup {e.seq}]
            [] kind = "event" /\ key \in Runs ->
                 [a EXCEPT !.runItems = [a.runItems EXCEPT ![key] = b.runItems[key] \cup {e}],
                           !.runSince = [a.runSince EXCEPT ![key] =
                                IF b.runItems[key] = {} THEN e.seq ELSE a.runSince[key]]]
            [] OTHER -> [a EXCEPT !.keyless = b.keyless \cup {e}]
  BY <1>4, <1>5 DEF AppendEntry, Buffer
<1> HIDE DEF a, c, e
<1>7. /\ c \in Buffer
      /\ c.buf = a.buf /\ c.seq = a.seq /\ c.live = a.live
      /\ c.dead = a.dead /\ c.evicted = a.evicted /\ c.shed = a.shed
      /\ c.runItems = IF kind = "event" /\ key \in Runs
                      THEN [b.runItems EXCEPT ![key] = b.runItems[key] \cup {e}]
                      ELSE b.runItems
      /\ c.keyless = IF kind = "event" /\ key \notin Runs
                     THEN b.keyless \cup {e} ELSE b.keyless
  <2>0. e.seq \in Nat
    BY <1>1, <1>2
  <2>1. CASE kind = "terminal"
    BY <1>4, <1>5, <1>6, <2>1
  <2>2. CASE kind = "forced"
    <3>1. c = [a EXCEPT !.forced = a.forced \cup {e.seq}]
      BY <1>6, <2>2
    <3>2. a.forced \cup {e.seq} \in SUBSET Nat
      BY <1>4, <2>0 DEF Buffer
    <3> QED BY <1>4, <1>5, <2>2, <3>1, <3>2 DEF Buffer
  <2>3. CASE kind = "event" /\ key \in Runs
    <3> DEFINE ri == [a.runItems EXCEPT ![key] = b.runItems[key] \cup {e}]
               rs == [a.runSince EXCEPT ![key] =
                        IF b.runItems[key] = {} THEN e.seq ELSE a.runSince[key]]
    <3>1. c = [a EXCEPT !.runItems = ri, !.runSince = rs]
      BY <1>6, <2>3
    <3>2. b.runItems[key] \cup {e} \in SUBSET Entry
      BY <1>1, <1>2, <2>3 DEF Buffer
    <3>3. ri \in [Runs -> SUBSET Entry]
      BY <1>4, <2>3, <3>2 DEF Buffer
    <3>4. rs \in [Runs -> Nat]
      BY <1>4, <2>0, <2>3 DEF Buffer
    <3>5. ri = [b.runItems EXCEPT ![key] = b.runItems[key] \cup {e}]
      BY <1>5
    <3> HIDE DEF ri, rs
    <3> QED BY <1>4, <1>5, <2>3, <3>1, <3>3, <3>4, <3>5 DEF Buffer
  <2>4. CASE kind = "event" /\ key \notin Runs
    <3>1. c = [a EXCEPT !.keyless = b.keyless \cup {e}]
      BY <1>6, <2>4
    <3>2. b.keyless \cup {e} \in SUBSET Entry
      BY <1>1, <1>2 DEF Buffer
    <3> QED BY <1>4, <1>5, <2>4, <3>1, <3>2 DEF Buffer
  <2> QED BY <2>1, <2>2, <2>3, <2>4 DEF Kinds
<1>8. Live(c) = Live(b) \cup {e}
  BY <1>3, <1>5, <1>7 DEF Live
<1>9. IsFiniteSet(c.buf) /\ Ordered(c)
  <2>1. IsFiniteSet(c.buf)
    BY <1>5, <1>7, FS_AddElement DEF Sound
  <2>2. \A f \in b.buf : f.seq \in Nat /\ f.seq < b.seq
    BY SoundShape DEF Sound, Ordered, Entry
  <2> QED BY <1>1, <1>2, <1>5, <1>7, <2>1, <2>2 DEF Sound, Ordered
<1>10. Tombstoned(c)
  BY <1>5, <1>7 DEF Sound, Tombstoned
<1>11. Indexed(c)
  <2>1. \A q \in Runs : c.runItems[q] = {f \in Live(c) : f.key = q /\ f.kind = "event"}
    <3> TAKE q \in Runs
    <3>1. b.runItems[q] = {f \in Live(b) : f.key = q /\ f.kind = "event"}
      BY DEF Sound, Indexed
    <3>2. CASE kind = "event" /\ key = q
      <4>1. c.runItems[q] = b.runItems[q] \cup {e}
        BY <1>1, <1>7, <3>2 DEF Buffer
      <4> QED BY <1>2, <1>8, <3>1, <3>2, <4>1
    <3>3. CASE ~(kind = "event" /\ key = q)
      <4>1. c.runItems[q] = b.runItems[q]
        BY <1>1, <1>7, <3>3 DEF Buffer
      <4> QED BY <1>2, <1>8, <3>1, <3>3, <4>1
    <3> QED BY <3>2, <3>3
  <2>2. c.keyless = {f \in Live(c) : f.key = NoRun /\ f.kind = "event"}
    BY <1>2, <1>7, <1>8, RunsAssumption DEF Sound, Indexed, Keys
  <2> QED BY <2>1, <2>2 DEF Indexed
<1>12. CountsLive(c) /\ WithinCapacity(c)
  <2>1. e \notin Live(b)
    BY <1>3 DEF Live
  <2>2. Cardinality(Live(c)) = Cardinality(Live(b)) + 1
    BY <1>8, <2>1, SoundShape, FS_AddElement
  <2>3. b.live \in Nat
    BY SoundShape
  <2> QED BY <1>5, <1>7, <2>2, <2>3, SizeAssumption
          DEF Sound, CountsLive, WithinCapacity
<1>13. CutWhole(c)
  BY <1>1, <1>5, <1>7 DEF Sound, CutWhole, HasShed, Protected, Buffer
<1>14. Sound(c)
  BY <1>7, <1>9, <1>10, <1>11, <1>12, <1>13 DEF Sound
<1> QED BY <1>5, <1>7, <1>8, <1>14 DEF WithinMemory, ShedRecords, c, e

(* Counting a refused event changes only the figure in an existing record. *)
LEMMA CountDropSound ==
    ASSUME NEW b, Sound(b), WithinMemory(b), NEW r \in Runs, b.shed[r] > 0
    PROVE  LET c == CountDrop(b, r) IN
           Sound(c) /\ WithinMemory(c) /\ c.evicted = b.evicted
<1> DEFINE c == [b EXCEPT !.shed = [b.shed EXCEPT ![r] = b.shed[r] + 1]]
<1>1. b \in Buffer /\ CountDrop(b, r) = c
  BY DEF Sound, Buffer, CountDrop
<1>2. [b.shed EXCEPT ![r] = b.shed[r] + 1] \in [Runs -> Nat]
  BY <1>1 DEF Buffer
<1>3. c \in Buffer
  BY <1>1, <1>2 DEF Buffer
<1>4. /\ c.buf = b.buf /\ c.seq = b.seq /\ c.live = b.live /\ c.dead = b.dead
      /\ c.runItems = b.runItems /\ c.keyless = b.keyless
      /\ c.evicted = b.evicted
      /\ c.shed = [b.shed EXCEPT ![r] = b.shed[r] + 1]
  BY <1>1 DEF Buffer
<1> HIDE DEF c
<1>5. ShedRecords(c) = ShedRecords(b)
  <2>1. \A q \in Runs : c.shed[q] > 0 <=> b.shed[q] > 0
    BY <1>1, <1>4 DEF Buffer
  <2> QED BY <2>1 DEF ShedRecords
<1>6. CutWhole(c)
  BY <1>1, <1>4 DEF Sound, CutWhole, Buffer
<1>7. Sound(c) /\ WithinMemory(c)
  BY <1>3, <1>4, <1>5, <1>6 DEF Sound, WithinMemory, Live, Ordered, Tombstoned,
                               Indexed, CountsLive, WithinCapacity
<1> QED BY <1>1, <1>4, <1>7

(* push keeps the invariants, and evicts a protected item only for another *)
(* one and only when nothing else was live.                                *)
EvictsLast(b, c) ==
    c.evicted # b.evicted =>
        /\ c.evicted = b.evicted + 1
        /\ \A e \in Live(b) : e.kind # "event"
        /\ \A e \in Live(c) : e.kind # "event"

LEMMA PushedSound ==
    ASSUME NEW b, Sound(b), WithinMemory(b),
           NEW key \in Keys, NEW kind \in Kinds, NEW dropped \in Nat
    PROVE  LET c == Pushed(b, key, kind, dropped) IN
           Sound(c) /\ WithinMemory(c) /\ EvictsLast(b, c)
<1> DEFINE fit == Fit(b, Protected(kind))
           c   == Pushed(b, key, kind, dropped)
           Good == Sound(c) /\ WithinMemory(c) /\ EvictsLast(b, c)
<1>0. Protected(kind) \in BOOLEAN
  BY DEF Protected
<1>1. /\ Sound(fit) /\ WithinMemory(fit)
      /\ Protected(kind) => fit.live < MaxSize
      /\ fit.live \in Nat
      /\ Live(fit) \subseteq Live(b)
      /\ EvictsOnlyProtected(b, fit, Protected(kind))
  BY <1>0, FitSound
<1>2. c = IF ~Protected(kind) /\ HasShed(b, key) THEN CountDrop(b, key)
          ELSE IF ~Protected(kind) /\ HasShed(fit, key) THEN CountDrop(fit, key)
          ELSE IF ~Protected(kind) /\ fit.live >= MaxSize
               THEN IF key \in Runs THEN ShedRun(fit, key, 1) ELSE fit
          ELSE Compact(AppendEntry(fit, key, kind, dropped))
  BY DEF Pushed
<1> HIDE DEF fit, c
<1>3. ASSUME ~Protected(kind), HasShed(b, key) PROVE Good
  BY <1>2, <1>3, CountDropSound DEF HasShed, EvictsLast
<1>4. ASSUME ~Protected(kind), ~HasShed(b, key), HasShed(fit, key) PROVE Good
  BY <1>1, <1>2, <1>4, CountDropSound DEF HasShed, EvictsLast, EvictsOnlyProtected
<1>5. ASSUME ~Protected(kind), ~HasShed(b, key), ~HasShed(fit, key),
             fit.live >= MaxSize
      PROVE  Good
  <2>1. ASSUME key \in Runs PROVE Good
    <3>1. c = ShedRun(fit, key, 1)
      BY <1>2, <1>5, <2>1
    <3>2. /\ Sound(c) /\ Cardinality(ShedRecords(c)) =< MaxShedRuns
          /\ c.buf = fit.buf /\ c.evicted = fit.evicted
      BY <1>1, <2>1, <3>1, ShedRunSound DEF WithinMemory
    <3> QED BY <1>1, <1>5, <3>2
            DEF WithinMemory, EvictsLast, EvictsOnlyProtected
  <2>2. ASSUME key \notin Runs PROVE Good
    BY <1>1, <1>2, <1>5, <2>2 DEF EvictsLast, EvictsOnlyProtected
  <2> QED BY <2>1, <2>2
<1>6. ASSUME ~Protected(kind) => /\ ~HasShed(b, key) /\ ~HasShed(fit, key)
                                 /\ ~(fit.live >= MaxSize)
      PROVE  Good
  <2> DEFINE a == AppendEntry(fit, key, kind, dropped)
             e == [seq |-> fit.seq, key |-> key, kind |-> kind, dropped |-> dropped]
  <2>1. fit.live < MaxSize
    BY <1>1, <1>6, SizeAssumption
  <2>2. ~Protected(kind) => ~HasShed(fit, key)
    BY <1>6
  <2>3. /\ Sound(a)
        /\ Cardinality(ShedRecords(a)) =< MaxShedRuns
        /\ a.evicted = fit.evicted
        /\ Live(a) = Live(fit) \cup {e}
    BY <1>1, <2>1, <2>2, AppendEntrySound
  <2>4. c = Compact(a)
    BY <1>2, <1>6
  <2> HIDE DEF a
  <2>5. /\ Sound(c) /\ WithinMemory(c)
        /\ Live(c) = Live(a) /\ c.evicted = a.evicted
    BY <2>3, <2>4, CompactSound
  <2>6. EvictsLast(b, c)
    <3> SUFFICES ASSUME c.evicted # b.evicted
                 PROVE  /\ c.evicted = b.evicted + 1
                        /\ \A f \in Live(b) : f.kind # "event"
                        /\ \A f \in Live(c) : f.kind # "event"
      BY DEF EvictsLast
    <3>1. /\ fit.evicted = b.evicted + 1 /\ Protected(kind)
          /\ \A f \in Live(b) : f.kind # "event"
      BY <1>1, <2>3, <2>5 DEF EvictsOnlyProtected
    <3>2. e.kind # "event"
      BY <3>1 DEF Protected
    <3> QED BY <1>1, <2>3, <2>5, <3>1, <3>2
  <2> QED BY <2>5, <2>6
<1> QED BY <1>3, <1>4, <1>5, <1>6 DEF c
-----------------------------------------------------------------------------
(* Draining, and forgetting a record.                                      *)

(* A drain takes its batch out of the count, the indexes and the deque     *)
(* together, and the tombstones it passed out of _dead.                    *)
LEMMA DrainedSound ==
    ASSUME NEW b, Sound(b), WithinMemory(b), NEW n
    PROVE  LET c == Drained(b, n) IN
           Sound(c) /\ WithinMemory(c) /\ c.evicted = b.evicted
<1> DEFINE left  == Left(b, n)
           batch == Batch(b, n)
           done  == {e.key : e \in {f \in batch : f.kind = "terminal"}}
           c == [b EXCEPT !.buf      = left,
                          !.live     = b.live - Cardinality(batch),
                          !.dead     = b.dead \cap {e.seq : e \in left},
                          !.forced   = b.forced \cap {e.seq : e \in left},
                          !.runItems = [r \in Runs |-> b.runItems[r] \ batch],
                          !.keyless  = b.keyless \ batch,
                          !.shed     = [r \in Runs |-> IF r \in done THEN 0 ELSE b.shed[r]]]
<1>1. b \in Buffer /\ Drained(b, n) = c
  BY DEF Sound, Buffer, Drained
<1>2. left \subseteq b.buf /\ batch = Live(b) \ left
  BY DEF Left, Batch
<1> HIDE DEF left, batch, done
<1>3. /\ IsFiniteSet(batch) /\ Cardinality(batch) \in Nat
      /\ IsFiniteSet(left) /\ Cardinality(left) \in Nat
      /\ Cardinality(left) =< Cardinality(b.buf)
      /\ Cardinality(b.buf) \in Nat
  <2>1. IsFiniteSet(Live(b)) /\ IsFiniteSet(b.buf)
    BY SoundShape DEF Sound
  <2>2. batch \subseteq Live(b)
    BY <1>2
  <2> QED BY <1>2, <2>1, <2>2, CardinalityMonotone
<1>4. /\ c.buf = left /\ c.live = b.live - Cardinality(batch)
      /\ c.dead = b.dead \cap {e.seq : e \in left}
      /\ c.runItems = [r \in Runs |-> b.runItems[r] \ batch]
      /\ c.keyless = b.keyless \ batch
      /\ c.shed = [r \in Runs |-> IF r \in done THEN 0 ELSE b.shed[r]]
      /\ c.seq = b.seq /\ c.evicted = b.evicted
  BY <1>1, SMTT(30) DEF Buffer
<1>5. c \in Buffer
  <2>1. /\ left \in SUBSET Entry
        /\ b.live - Cardinality(batch) \in Int
        /\ b.dead \cap {e.seq : e \in left} \in SUBSET Nat
        /\ b.forced \cap {e.seq : e \in left} \in SUBSET Nat
        /\ b.keyless \ batch \in SUBSET Entry
    BY <1>1, <1>2, <1>3 DEF Buffer
  <2>2. [r \in Runs |-> b.runItems[r] \ batch] \in [Runs -> SUBSET Entry]
    BY <1>1 DEF Buffer
  <2>3. [r \in Runs |-> IF r \in done THEN 0 ELSE b.shed[r]] \in [Runs -> Nat]
    BY <1>1 DEF Buffer
  <2> QED BY <1>1, <2>1, <2>2, <2>3, Zenon DEF Buffer
<1> HIDE DEF c
<1>6. Live(c) = Live(b) \ batch
  <2>1. \A e \in left : e.seq \in {f.seq : f \in left}
    OBVIOUS
  <2> QED BY <1>2, <1>4, <2>1 DEF Live
<1>7. Ordered(c)
  BY <1>2, <1>4 DEF Sound, Ordered
<1>8. Tombstoned(c)
  <2> SUFFICES ASSUME NEW s \in c.dead
               PROVE  \E e \in c.buf : e.kind = "event" /\ e.seq = s
    BY DEF Tombstoned
  <2>1. PICK e \in b.buf : e.kind = "event" /\ e.seq = s
    BY <1>4 DEF Sound, Tombstoned
  <2>2. PICK k \in left : k.seq = s
    BY <1>4
  <2>3. e = k
    BY <1>2, <2>1, <2>2 DEF Sound, Ordered
  <2> QED BY <1>4, <2>1, <2>2, <2>3
<1>9. Indexed(c)
  <2>1. \A q \in Runs : c.runItems[q] = {f \in Live(c) : f.key = q /\ f.kind = "event"}
    BY <1>4, <1>6 DEF Sound, Indexed
  <2>2. c.keyless = {f \in Live(c) : f.key = NoRun /\ f.kind = "event"}
    BY <1>4, <1>6 DEF Sound, Indexed
  <2> QED BY <2>1, <2>2 DEF Indexed
<1>10. CountsLive(c) /\ WithinCapacity(c)
  <2>1. Live(b) \cap batch = batch
    BY <1>2
  <2>2. Cardinality(Live(b) \ batch) = Cardinality(Live(b)) - Cardinality(batch)
    <3>1. Cardinality(Live(b) \ batch) =
             Cardinality(Live(b)) - Cardinality(Live(b) \cap batch)
      BY SoundShape, FS_Difference
    <3> QED BY <2>1, <3>1
  <2>3. CountsLive(c)
    BY <1>4, <1>6, <2>2 DEF Sound, CountsLive
  <2>4. Cardinality(Live(c)) \in Nat
    <3>1. Live(c) \subseteq Live(b)
      BY <1>6
    <3> QED BY <3>1, SoundShape, CardinalityMonotone
  <2>5. b.live \in Nat /\ b.live =< MaxSize /\ MaxSize \in Nat
    BY SoundShape, SizeAssumption DEF Sound, WithinCapacity
  <2>6. WithinCapacity(c)
    BY <1>3, <1>4, <2>3, <2>4, <2>5 DEF CountsLive, WithinCapacity
  <2> QED BY <2>3, <2>6
<1>11. CutWhole(c)
  BY <1>1, <1>4 DEF Sound, CutWhole, Buffer
<1>12. WithinMemory(c)
  <2>1. ShedRecords(c) \subseteq ShedRecords(b)
    <3>1. \A q \in Runs : c.shed[q] > 0 => b.shed[q] > 0
      BY <1>1, <1>4 DEF Buffer
    <3> QED BY <3>1 DEF ShedRecords
  <2>2. IsFiniteSet(ShedRecords(b))
    BY RunsAssumption, FS_Subset DEF ShedRecords
  <2>3. Cardinality(ShedRecords(c)) =< MaxShedRuns
    <3>1. /\ Cardinality(ShedRecords(c)) =< Cardinality(ShedRecords(b))
          /\ Cardinality(ShedRecords(c)) \in Nat
          /\ Cardinality(ShedRecords(b)) \in Nat
      BY <2>1, <2>2, CardinalityMonotone
    <3> QED BY <3>1, SizeAssumption DEF WithinMemory
  <2>4. Cardinality(c.buf) =< 2 * MaxSize
    <3>1. 2 * MaxSize \in Nat
      BY SizeAssumption
    <3>2. Cardinality(b.buf) =< 2 * MaxSize
      BY DEF WithinMemory
    <3> QED BY <1>3, <1>4, <3>1, <3>2
  <2> QED BY <2>3, <2>4 DEF WithinMemory
<1>13. Sound(c)
  BY <1>3, <1>4, <1>5, <1>7, <1>8, <1>9, <1>10, <1>11 DEF Sound
<1> QED BY <1>1, <1>4, <1>12, <1>13

LEMMA ForgottenSound ==
    ASSUME NEW b, Sound(b), WithinMemory(b), NEW r \in Runs
    PROVE  LET c == Forgotten(b, r) IN
           Sound(c) /\ WithinMemory(c) /\ c.evicted = b.evicted
<1> DEFINE c == [b EXCEPT !.shed = [b.shed EXCEPT ![r] = 0]]
<1>1. b \in Buffer /\ Forgotten(b, r) = c
  BY DEF Sound, Buffer, Forgotten
<1>2. [b.shed EXCEPT ![r] = 0] \in [Runs -> Nat]
  BY <1>1 DEF Buffer
<1>3. c \in Buffer
  BY <1>1, <1>2 DEF Buffer
<1>4. /\ c.buf = b.buf /\ c.seq = b.seq /\ c.live = b.live /\ c.dead = b.dead
      /\ c.runItems = b.runItems /\ c.keyless = b.keyless
      /\ c.evicted = b.evicted
      /\ c.shed = [b.shed EXCEPT ![r] = 0]
  BY <1>1 DEF Buffer
<1> HIDE DEF c
<1>5. \A q \in Runs : c.shed[q] > 0 => b.shed[q] > 0
  BY <1>1, <1>4 DEF Buffer
<1>6. Sound(c)
  BY <1>3, <1>4, <1>5 DEF Sound, Live, Ordered, Tombstoned,
                          Indexed, CountsLive, WithinCapacity, CutWhole
<1>7. WithinMemory(c)
  <2>1. ShedRecords(c) \subseteq ShedRecords(b)
    BY <1>5 DEF ShedRecords
  <2>2. IsFiniteSet(ShedRecords(b))
    BY RunsAssumption, FS_Subset DEF ShedRecords
  <2>3. /\ Cardinality(ShedRecords(c)) =< Cardinality(ShedRecords(b))
        /\ Cardinality(ShedRecords(c)) \in Nat
        /\ Cardinality(ShedRecords(b)) \in Nat
    BY <2>1, <2>2, CardinalityMonotone
  <2> QED BY <1>4, <2>3, SizeAssumption DEF WithinMemory
<1> QED BY <1>1, <1>4, <1>6, <1>7
-----------------------------------------------------------------------------
(* The specification.                                                      *)

IInv == Sound(rb) /\ WithinMemory(rb)

LEMMA InitSound == Init => IInv
<1> SUFFICES ASSUME Init PROVE IInv
  OBVIOUS
<1> DEFINE b == EmptyBuffer
<1>1. rb = b
  BY DEF Init
<1>2. b \in Buffer
  BY DEF EmptyBuffer, Buffer
<1>3. /\ b.buf = {} /\ b.live = 0 /\ b.dead = {} /\ b.keyless = {}
      /\ b.runItems = [r \in Runs |-> {}] /\ b.shed = [r \in Runs |-> 0]
  BY DEF EmptyBuffer
<1> HIDE DEF b
<1>4. Live(b) = {} /\ ShedRecords(b) = {}
  BY <1>3 DEF Live, ShedRecords
<1>5. IsFiniteSet({}) /\ Cardinality({}) = 0
  BY FS_EmptySet
<1>6. Ordered(b) /\ Tombstoned(b) /\ Indexed(b) /\ CutWhole(b)
  BY <1>3, <1>4 DEF Ordered, Tombstoned, Indexed, CutWhole
<1>7. CountsLive(b) /\ WithinCapacity(b) /\ WithinMemory(b)
  BY <1>3, <1>4, <1>5, SizeAssumption DEF CountsLive, WithinCapacity, WithinMemory
<1>8. IsFiniteSet(b.buf)
  BY <1>3, <1>5
<1>9. Sound(b)
  BY <1>2, <1>6, <1>7, <1>8 DEF Sound
<1> QED BY <1>1, <1>7, <1>9 DEF IInv

(* Every operation keeps the invariant, and none but push and reserve      *)
(* evicts a protected item.                                                *)
LEMMA NextSound == IInv /\ [Next]_vars => IInv' /\ EvictsLast(rb, rb')
<1> SUFFICES ASSUME IInv, [Next]_vars PROVE IInv' /\ EvictsLast(rb, rb')
  OBVIOUS
<1> USE DEF IInv
<1>1. ASSUME NEW key \in Keys, NEW kind \in Kinds, Push(key, kind)
      PROVE  IInv' /\ EvictsLast(rb, rb')
  <2>1. rb' = Pushed(rb, key, kind, 0)
    BY <1>1 DEF Push
  <2> QED BY <2>1, PushedSound
<1>2. ASSUME ReserveTerminal PROVE IInv' /\ EvictsLast(rb, rb')
  <2>1. rb' = Fit(rb, TRUE)
    BY <1>2 DEF ReserveTerminal, Reserved
  <2>2. /\ Sound(rb') /\ WithinMemory(rb')
        /\ Live(rb') \subseteq Live(rb)
        /\ EvictsOnlyProtected(rb, rb', TRUE)
    BY <2>1, FitSound
  <2> QED BY <2>2 DEF EvictsLast, EvictsOnlyProtected
<1>3. ASSUME NEW n \in 1..MaxSize, Drain(n) PROVE IInv' /\ EvictsLast(rb, rb')
  BY <1>3, DrainedSound DEF Drain, EvictsLast
<1>4. ASSUME DrainAll PROVE IInv' /\ EvictsLast(rb, rb')
  BY <1>4, DrainedSound DEF DrainAll, EvictsLast
<1>5. ASSUME NEW r \in Runs, Forget(r) PROVE IInv' /\ EvictsLast(rb, rb')
  BY <1>5, ForgottenSound DEF Forget, EvictsLast
<1>6. CASE UNCHANGED vars
  BY <1>6 DEF vars, EvictsLast
<1> QED BY <1>1, <1>2, <1>3, <1>4, <1>5, <1>6 DEF Next

THEOREM InductiveInvariant == Spec => []IInv
<1>1. Init => IInv
  BY InitSound
<1>2. IInv /\ [Next]_vars => IInv'
  BY NextSound
<1> QED BY <1>1, <1>2, PTL DEF Spec

(* The fields of the buffer keep their types.                              *)
THEOREM TypeCorrect == Spec => []TypeOK
<1>1. IInv => TypeOK
  BY DEF IInv, Sound, TypeOK
<1> QED BY <1>1, InductiveInvariant, PTL

(* len(buffer) never exceeds maxsize nor goes negative, whatever is pushed *)
(* and however the agent's threads and the drain interleave.               *)
THEOREM CapacityHolds == Spec => []CapacityBound
<1>1. IInv => CapacityBound
  BY DEF IInv, Sound, CapacityBound
<1> QED BY <1>1, InductiveInvariant, PTL

(* The counter that gates shedding is exact, and so are the indexes it and *)
(* the shed rely on and the tombstones.                                    *)
THEOREM BookkeepingHolds == Spec => []BookkeepingExact
<1>1. IInv => BookkeepingExact
  BY DEF IInv, Sound, BookkeepingExact
<1> QED BY <1>1, InductiveInvariant, PTL

(* A run with a drop record has nothing left in the buffer but protected   *)
(* items: runs are cut whole.                                              *)
THEOREM CutWholeHolds == Spec => []ShedRunsCutWhole
<1>1. IInv => ShedRunsCutWhole
  BY DEF IInv, Sound, ShedRunsCutWhole
<1> QED BY <1>1, InductiveInvariant, PTL

(* Tombstones and drop records take bounded memory.                        *)
THEOREM MemoryHolds == Spec => []MemoryBound
<1>1. IInv => MemoryBound
  BY DEF IInv, MemoryBound
<1> QED BY <1>1, InductiveInvariant, PTL

(* A protected item is evicted only when there is nothing sheddable left,  *)
(* and never in favour of an ordinary event.                               *)
THEOREM ProtectedEvictedLastHolds == Spec => ProtectedEvictedLast
<1> DEFINE Step ==
       rb'.evicted > rb.evicted =>
          /\ rb'.evicted = rb.evicted + 1
          /\ \A e \in Live(rb) : e.kind # "event"
          /\ \A e \in Live(rb') : e.kind # "event"
<1>1. IInv /\ [Next]_vars => Step
  <2> SUFFICES ASSUME IInv, [Next]_vars, rb'.evicted > rb.evicted
               PROVE  /\ rb'.evicted = rb.evicted + 1
                      /\ \A e \in Live(rb) : e.kind # "event"
                      /\ \A e \in Live(rb') : e.kind # "event"
    OBVIOUS
  <2>1. EvictsLast(rb, rb')
    BY NextSound
  <2>2. rb.evicted \in Nat
    BY DEF IInv, Sound, Buffer
  <2>3. rb'.evicted # rb.evicted
    BY <2>2
  <2> QED BY <2>1, <2>3 DEF EvictsLast
<1>2. Step => [Step]_vars
  OBVIOUS
<1> QED BY <1>1, <1>2, InductiveInvariant, PTL DEF Spec, ProtectedEvictedLast
-----------------------------------------------------------------------------
(* The buffer as its callers see it: which live entries an operation takes *)
(* out or puts in, and what it adds to the drop records.                   *)

(* No record has to be forgotten for another.                              *)
EnoughRecords == Cardinality(Runs) =< MaxShedRuns

InRun(S, r) == {e \in S : e.key = r}

Changed(b, c, taken, new, refused) ==
    /\ taken \subseteq Live(b)
    /\ Live(c) = (Live(b) \ taken) \cup new
    /\ \A r \in Runs : c.shed[r] = b.shed[r] + Cardinality(InRun(taken, r))
                                     + (IF r \in refused THEN 1 ELSE 0)

(* Entries of the SDK's client: every one is of a run, and terminals are   *)
(* the only protected ones.                                                *)
OfRuns(b) == \A e \in Live(b) : e.key \in Runs /\ e.kind \in {"event", "terminal"}

(* What is shed are events, or one terminal for another protected item.    *)
OneTerminal(taken) == \E e \in taken : taken = {e} /\ e.kind = "terminal"

AllEvents(taken) == \A e \in taken : e.kind = "event"

Sheds(taken, allowTerminal) == AllEvents(taken) \/ (allowTerminal /\ OneTerminal(taken))

MayGo(taken) == AllEvents(taken) \/ OneTerminal(taken)

(* What is put in, of one run.                                             *)
Adds(new, r, kind) == \E e \in new : e.key = r /\ e.kind = kind

LEMMA NothingChanged ==
    ASSUME NEW b, Sound(b)
    PROVE  Changed(b, b, {}, {}, {})
<1>1. \A r \in Runs : InRun({}, r) = {} /\ b.shed[r] \in Nat
    BY DEF InRun, Sound, Buffer
<1> QED BY <1>1, FS_EmptySet DEF Changed

LEMMA ChangesCompose ==
    ASSUME NEW b, NEW c, NEW d, NEW g1, NEW g2, NEW new, NEW refused,
           Sound(b), Sound(c), Sound(d),
           Changed(b, c, g1, {}, {}), Changed(c, d, g2, new, refused)
    PROVE  Changed(b, d, g1 \cup g2, new, refused)
<1>1. /\ g1 \subseteq Live(b) /\ g2 \subseteq Live(b) /\ g1 \cap g2 = {}
      /\ Live(d) = (Live(b) \ (g1 \cup g2)) \cup new
    BY DEF Changed
<1>2. ASSUME NEW r \in Runs
      PROVE  d.shed[r] = b.shed[r] + Cardinality(InRun(g1 \cup g2, r))
                          + (IF r \in refused THEN 1 ELSE 0)
    <2>1. InRun(g1 \cup g2, r) = InRun(g1, r) \cup InRun(g2, r)
        BY DEF InRun
    <2>2. InRun(g1, r) \subseteq Live(b) /\ InRun(g2, r) \subseteq Live(b)
          /\ InRun(g1, r) \cap InRun(g2, r) = {}
        BY <1>1 DEF InRun
    <2>3. /\ IsFiniteSet(InRun(g1, r)) /\ IsFiniteSet(InRun(g2, r))
          /\ Cardinality(InRun(g1, r)) \in Nat /\ Cardinality(InRun(g2, r)) \in Nat
        BY <2>2, SoundShape, CardinalityMonotone
    <2>4. Cardinality(InRun(g1 \cup g2, r))
              = Cardinality(InRun(g1, r)) + Cardinality(InRun(g2, r))
        <3>1. Cardinality(InRun(g1, r) \cup InRun(g2, r))
                = Cardinality(InRun(g1, r)) + Cardinality(InRun(g2, r))
                    - Cardinality(InRun(g1, r) \cap InRun(g2, r))
            BY <2>3, FS_Union
        <3>2. Cardinality(InRun(g1, r) \cap InRun(g2, r)) = 0
            BY <2>2, FS_EmptySet
        <3>3. Cardinality(InRun(g1 \cup g2, r)) = Cardinality(InRun(g1, r) \cup InRun(g2, r))
            BY <2>1
        <3> QED BY <2>3, <3>1, <3>2, <3>3
    <2>5. b.shed[r] \in Nat /\ c.shed[r] \in Nat
        BY DEF Sound, Buffer
    <2>6. c.shed[r] = b.shed[r] + Cardinality(InRun(g1, r))
        BY <2>3, <2>5 DEF Changed
    <2>7. d.shed[r] = c.shed[r] + Cardinality(InRun(g2, r))
                         + (IF r \in refused THEN 1 ELSE 0)
        BY DEF Changed
    <2> QED BY <2>3, <2>4, <2>5, <2>6, <2>7
<1> QED BY <1>1, <1>2 DEF Changed

(* A run's events are the entries indexed under it.                        *)
LEMMA EventsInRun ==
    ASSUME NEW b, Sound(b), NEW S, S \subseteq Live(b), \A e \in S : e.kind = "event",
           NEW r \in Runs
    PROVE  InRun(S, r) = b.runItems[r] \cap S
BY DEF Sound, Indexed, InRun

LEMMA NoneForgotten ==
    ASSUME EnoughRecords, NEW b, b \in Buffer
    PROVE  EvictOldestShed(b) = b
<1>1. Cardinality(ShedRecords(b)) =< Cardinality(Runs)
      /\ Cardinality(ShedRecords(b)) \in Nat /\ Cardinality(Runs) \in Nat
    BY RunsAssumption, CardinalityMonotone DEF ShedRecords
<1> QED BY <1>1, SizeAssumption DEF EnoughRecords, EvictOldestShed

(* Shedding a run counts its events in its record, and extra ones.         *)
LEMMA ShedRunChanged ==
    ASSUME EnoughRecords, NEW b, Sound(b), WithinMemory(b),
           NEW r \in Runs, NEW extra \in {0, 1}
    PROVE  LET c == ShedRun(b, r, extra) IN
           /\ Changed(b, c, b.runItems[r], {}, IF extra = 1 THEN {r} ELSE {})
           /\ Sound(c) /\ WithinMemory(c) /\ c.seq = b.seq
<1> DEFINE c == ShedRun(b, r, extra)
           taken == b.runItems[r]
           n == Cardinality(taken)
           d == [b EXCEPT !.runItems  = [b.runItems EXCEPT ![r] = {}],
                          !.live      = b.live - n,
                          !.dead      = b.dead \cup {e.seq : e \in taken},
                          !.shed      = [b.shed EXCEPT ![r] = b.shed[r] + n + extra],
                          !.shedAt    = [b.shedAt EXCEPT ![r] = b.shedTotal + 1],
                          !.shedTotal = b.shedTotal + 1]
<1>1. /\ Sound(c) /\ WithinMemory(c) /\ c.seq = b.seq
      /\ Live(c) = Live(b) \ taken
    BY ShedRunSound DEF WithinMemory
<1>2. b \in Buffer /\ c = EvictOldestShed(d)
    BY DEF ShedRun, Sound, Buffer
<1>3. n \in Nat /\ taken \subseteq Live(b)
    BY SoundShape
<1>4. d.shed = [b.shed EXCEPT ![r] = b.shed[r] + n + extra] /\ ShedRecords(d) \subseteq Runs
    BY <1>2 DEF Buffer, ShedRecords
<1>5. c = d
    <2>1. Cardinality(ShedRecords(d)) =< Cardinality(Runs)
          /\ Cardinality(ShedRecords(d)) \in Nat /\ Cardinality(Runs) \in Nat
        BY <1>4, RunsAssumption, CardinalityMonotone
    <2> HIDE DEF d
    <2> QED BY <1>2, <2>1, SizeAssumption DEF EnoughRecords, EvictOldestShed
<1> HIDE DEF c, d
<1>6. ASSUME NEW q \in Runs
      PROVE  c.shed[q] = b.shed[q] + Cardinality(InRun(taken, q))
                           + (IF q \in (IF extra = 1 THEN {r} ELSE {}) THEN 1 ELSE 0)
    <2>1. \A e \in taken : e.key = r
        BY DEF Sound, Indexed
    <2>2. InRun(taken, q) = IF q = r THEN taken ELSE {}
        BY <2>1 DEF InRun
    <2>3. b.shed \in [Runs -> Nat]
        BY <1>2 DEF Buffer
    <2> QED BY <1>3, <1>4, <1>5, <2>2, <2>3, FS_EmptySet
<1> QED BY <1>1, <1>3, <1>6 DEF Changed, c

LEMMA OldestRunIndexed ==
    ASSUME NEW b, Sound(b), IndexedRuns(b) # {}
    PROVE  OldestRun(b) \in IndexedRuns(b)
<1>1. IsFiniteSet(IndexedRuns(b))
  BY RunsAssumption, FS_Subset DEF IndexedRuns
<1> DEFINE rank == [q \in IndexedRuns(b) |-> b.runSince[q]]
<1>2. rank \in [IndexedRuns(b) -> Nat]
  BY DEF Sound, Buffer, IndexedRuns
<1>3. PICK q \in IndexedRuns(b) : \A s \in IndexedRuns(b) : rank[q] =< rank[s]
  <2> HIDE DEF rank
  <2> QED BY <1>1, <1>2, LeastExists
<1>4. \A s \in IndexedRuns(b) : b.runSince[q] =< b.runSince[s]
  BY <1>3
<1> QED BY <1>4 DEF OldestRun

LEMMA HeadIsProtected ==
    ASSUME NEW b, Sound(b), ~Sheddable(b), b.buf # {},
           \A e \in b.buf : \E f \in Live(b) : f.seq =< e.seq
    PROVE  /\ Oldest(b.buf) \in Live(b) /\ Oldest(b.buf) \in Entry
           /\ \A f \in Live(b) : f.kind # "event"
<1> DEFINE e == Oldest(b.buf)
<1>1. e \in b.buf /\ \A f \in b.buf : e.seq =< f.seq
  BY SoundShape, OldestIsLeast DEF Sound
<1> HIDE DEF e
<1>2. e \in Live(b) /\ e \in Entry
  <2>1. PICK f \in Live(b) : f.seq =< e.seq
    BY <1>1
  <2>2. f \in b.buf /\ e \in Entry /\ f \in Entry
    BY <1>1, <2>1, SoundShape
  <2>3. f.seq = e.seq
    BY <1>1, <2>1, <2>2 DEF Entry
  <2> QED BY <1>1, <2>1, <2>2, <2>3 DEF Sound, Ordered
<1>3. \A f \in Live(b) : f.kind # "event"
  <2> SUFFICES ASSUME NEW f \in Live(b), f.kind = "event" PROVE FALSE
    OBVIOUS
  <2>1. f.key \in Runs \/ f.key = NoRun
    BY SoundShape DEF Entry, Keys
  <2> QED BY <2>1 DEF Sound, Indexed, Sheddable, IndexedRuns
<1> QED BY <1>2, <1>3 DEF e

LEMMA DropOldestProtectedChanged ==
    ASSUME EnoughRecords, NEW b, Sound(b), WithinMemory(b), ~Sheddable(b), b.buf # {},
           \A e \in b.buf : \E f \in Live(b) : f.seq =< e.seq,
           Oldest(b.buf).key \in Runs
    PROVE  LET c == DropOldestProtected(b)
               e == Oldest(b.buf) IN
           /\ Live(c) = Live(b) \ {e}
           /\ \A r \in Runs : c.shed[r] = b.shed[r] + (IF r = e.key THEN 1 ELSE 0)
<1> DEFINE e == Oldest(b.buf)
           p == [b EXCEPT !.buf     = b.buf \ {e},
                          !.live    = b.live - 1,
                          !.forced  = b.forced \ {e.seq},
                          !.evicted = b.evicted + 1]
           d == [p EXCEPT !.runItems  = [p.runItems EXCEPT ![e.key] = {}],
                          !.live      = p.live - 0,
                          !.dead      = p.dead \cup {},
                          !.shed      = [p.shed EXCEPT ![e.key] = p.shed[e.key] + 0 + 1],
                          !.shedAt    = [p.shedAt EXCEPT ![e.key] = p.shedTotal + 1],
                          !.shedTotal = p.shedTotal + 1]
           c == DropOldestProtected(b)
<1>1. e \in Live(b) /\ e \in Entry
  BY HeadIsProtected
<1>2. b \in Buffer /\ c = ShedRun(p, e.key, 1)
  BY DEF DropOldestProtected, Sound
<1> HIDE DEF e
<1>3. /\ p.buf = b.buf \ {e} /\ p.dead = b.dead /\ p.shed = b.shed
      /\ p.runItems = b.runItems
  BY <1>2 DEF Buffer
<1>4. b.runItems[e.key] = {}
  BY DEF e, Sheddable, IndexedRuns
<1>5. c = EvictOldestShed(d)
  <2>1. {x.seq : x \in {}} = {} /\ Cardinality({}) = 0
    BY FS_EmptySet
  <2> HIDE DEF p
  <2>2. /\ p.runItems[e.key] = {}
        /\ ShedRun(p, e.key, 1) =
             LET taken == p.runItems[e.key] IN
             EvictOldestShed(
                [p EXCEPT !.runItems[e.key] = {},
                          !.live        = @ - Cardinality(taken),
                          !.dead        = @ \cup {x.seq : x \in taken},
                          !.shed[e.key] = @ + Cardinality(taken) + 1,
                          !.shedAt[e.key] = p.shedTotal + 1,
                          !.shedTotal   = @ + 1])
    BY <1>3, <1>4 DEF ShedRun
  <2> QED BY <1>2, <2>1, <2>2
<1>6. /\ d.buf = p.buf /\ d.dead = p.dead
      /\ d.shed = [b.shed EXCEPT ![e.key] = b.shed[e.key] + 1]
  <2>1. b.shed[e.key] \in Nat
    BY <1>2 DEF Buffer, e
  <2> QED BY <1>2, <1>3, <2>1 DEF Buffer
<1> HIDE DEF d, p, c
<1>7. c = d
  <2>1. Cardinality(ShedRecords(d)) =< Cardinality(Runs)
        /\ Cardinality(ShedRecords(d)) \in Nat /\ Cardinality(Runs) \in Nat
    BY RunsAssumption, CardinalityMonotone DEF ShedRecords
  <2> QED BY <1>5, <2>1, SizeAssumption DEF EnoughRecords, EvictOldestShed
<1>8. Live(c) = Live(b) \ {e}
  BY <1>3, <1>6, <1>7 DEF Live
<1>9. \A r \in Runs : c.shed[r] = b.shed[r] + (IF r = e.key THEN 1 ELSE 0)
  BY <1>2, <1>6, <1>7 DEF Buffer, e
<1> QED BY <1>8, <1>9 DEF c, e

(* Making room for an item takes the oldest run, or for a protected item   *)
(* the oldest terminal.                                                    *)
LEMMA MakeRoomChanged ==
    ASSUME EnoughRecords, NEW b, Sound(b), WithinMemory(b), OfRuns(b), NEW allow \in BOOLEAN
    PROVE  \E taken : Changed(b, MakeRoom(b, allow), taken, {}, {}) /\ Sheds(taken, allow)
<1> DEFINE t == TrimDeadHead(b)
           c == MakeRoom(b, allow)
<1>1. /\ Sound(t) /\ WithinMemory(t) /\ Live(t) = Live(b) /\ t.shed = b.shed
      /\ \A e \in t.buf : \E f \in Live(t) : f.seq =< e.seq
    BY TrimDeadHeadSound
<1>2. c = IF Sheddable(t) THEN ShedOldest(t)
          ELSE IF allow /\ t.buf # {} THEN DropOldestProtected(t)
          ELSE t
    BY DEF MakeRoom
<1> HIDE DEF t, c
<1>3. SUFFICES \E taken : Changed(t, c, taken, {}, {}) /\ Sheds(taken, allow)
    BY <1>1 DEF Changed, c
<1>4. t.keyless = {}
    BY <1>1, RunsAssumption DEF Sound, Indexed, OfRuns
<1>5. ASSUME Sheddable(t) PROVE \E taken : Changed(t, c, taken, {}, {}) /\ Sheds(taken, allow)
    <2> DEFINE r == OldestRun(t)
    <2>1. IndexedRuns(t) # {} /\ c = ShedRun(t, r, 0)
        BY <1>2, <1>4, <1>5 DEF Sheddable, ShedOldest, KeylessFirst
    <2>2. r \in Runs
        BY <1>1, <2>1, OldestRunIndexed DEF IndexedRuns
    <2> HIDE DEF r
    <2>3. Changed(t, c, t.runItems[r], {}, {})
        <3>1. Changed(t, ShedRun(t, r, 0), t.runItems[r], {}, IF 0 = 1 THEN {r} ELSE {})
            BY <1>1, <2>2, ShedRunChanged
        <3> QED BY <2>1, <3>1
    <2>4. \A e \in t.runItems[r] : e.kind = "event"
        BY <1>1, <2>2 DEF Sound, Indexed
    <2> QED BY <2>3, <2>4 DEF Sheds, AllEvents, OneTerminal
<1>6. ASSUME ~Sheddable(t), allow, t.buf # {}
      PROVE \E taken : Changed(t, c, taken, {}, {}) /\ Sheds(taken, allow)
    <2> DEFINE e == Oldest(t.buf)
    <2>1. c = DropOldestProtected(t)
        BY <1>2, <1>6
    <2>2. /\ e \in Live(t) /\ \A r \in Runs : t.runItems[r] = {}
          /\ e.key \in Runs /\ e.kind = "terminal"
        <3>1. /\ e \in Live(t) /\ \A f \in Live(t) : f.kind # "event"
            BY <1>1, <1>6, HeadIsProtected
        <3>2. \A r \in Runs : t.runItems[r] = {}
            BY <1>6 DEF Sheddable, IndexedRuns
        <3> HIDE DEF e
        <3> QED BY <1>1, <3>1, <3>2 DEF OfRuns
    <2> HIDE DEF e
    <2>3. Live(c) = Live(t) \ {e}
          /\ \A r \in Runs : c.shed[r] = t.shed[r] + (IF r = e.key THEN 1 ELSE 0)
        BY <1>1, <1>6, <2>1, <2>2, DropOldestProtectedChanged DEF e
    <2>4. \A r \in Runs : InRun({e}, r) = IF r = e.key THEN {e} ELSE {}
        BY DEF InRun
    <2>5. Cardinality({e}) = 1 /\ Cardinality({}) = 0
        BY FS_EmptySet, FS_Singleton
    <2>6. \A r \in Runs : t.shed[r] \in Nat
        BY <1>1 DEF Sound, Buffer
    <2>7. Changed(t, c, {e}, {}, {})
        <3>1. \A r \in Runs : Cardinality(InRun({e}, r)) = IF r = e.key THEN 1 ELSE 0
            BY <2>4, <2>5
        <3>2. \A r \in Runs : c.shed[r] = t.shed[r] + Cardinality(InRun({e}, r))
                                                + (IF r \in {} THEN 1 ELSE 0)
            <4> TAKE r \in Runs
            <4>1. Cardinality(InRun({e}, r)) = IF r = e.key THEN 1 ELSE 0
                BY <3>1
            <4>2. c.shed[r] = t.shed[r] + (IF r = e.key THEN 1 ELSE 0) /\ t.shed[r] \in Nat
                BY <2>3, <2>6
            <4> QED BY <4>1, <4>2
        <3>3. {e} \subseteq Live(t) /\ Live(c) = (Live(t) \ {e}) \cup {}
            BY <2>2, <2>3
        <3> QED BY <3>2, <3>3 DEF Changed
    <2> QED BY <1>6, <2>2, <2>7 DEF Sheds, AllEvents, OneTerminal
<1>7. ASSUME ~Sheddable(t), ~(allow /\ t.buf # {})
      PROVE \E taken : Changed(t, c, taken, {}, {}) /\ Sheds(taken, allow)
    BY <1>1, <1>2, <1>7, NothingChanged DEF Sheds, AllEvents, OneTerminal
<1> QED BY <1>5, <1>6, <1>7

LEMMA FitChanged ==
    ASSUME EnoughRecords, NEW b, Sound(b), WithinMemory(b), OfRuns(b), NEW allow \in BOOLEAN
    PROVE  \E taken : Changed(b, Fit(b, allow), taken, {}, {}) /\ Sheds(taken, allow)
<1>1. CASE b.live < MaxSize
    <2>1. Changed(b, b, {}, {}, {}) /\ Sheds({}, allow)
        BY NothingChanged DEF Sheds, AllEvents
    <2> QED BY <1>1, <2>1 DEF Fit
<1>2. CASE ~(b.live < MaxSize)
    BY <1>2, MakeRoomChanged DEF Fit
<1> QED BY <1>1, <1>2

(* Counting a refused event adds one to its run's record.                  *)
LEMMA CountDropChanged ==
    ASSUME NEW b, Sound(b), NEW r \in Runs
    PROVE  Changed(b, CountDrop(b, r), {}, {}, {r})
<1> DEFINE c == CountDrop(b, r)
<1>1. b \in Buffer /\ b.shed \in [Runs -> Nat]
    BY DEF Sound, Buffer
<1>2. /\ c.buf = b.buf /\ c.dead = b.dead
      /\ c.shed = [b.shed EXCEPT ![r] = b.shed[r] + 1]
    BY <1>1 DEF CountDrop, Buffer
<1>3. Live(c) = Live(b)
    BY <1>2 DEF Live
<1>4. \A q \in Runs : InRun({}, q) = {} /\ Cardinality({}) = 0
    BY FS_EmptySet DEF InRun
<1>5. \A q \in Runs : c.shed[q] = b.shed[q] + 0 + (IF q \in {r} THEN 1 ELSE 0)
    BY <1>1, <1>2
<1> HIDE DEF c
<1>6. \A q \in Runs : c.shed[q] = b.shed[q] + Cardinality(InRun({}, q))
                                     + (IF q \in {r} THEN 1 ELSE 0)
    BY <1>4, <1>5
<1> QED BY <1>3, <1>6 DEF Changed, c

(* Appending puts one entry in, with the next number.                      *)
NewEntry(b, key, kind, dropped) ==
    [seq |-> b.seq, key |-> key, kind |-> kind, dropped |-> dropped]

LEMMA AppendEntryChanged ==
    ASSUME NEW b, Sound(b), WithinMemory(b), b.live < MaxSize,
           NEW key \in Runs, NEW kind \in {"event", "terminal"}, NEW dropped \in Nat,
           kind = "event" => b.shed[key] = 0
    PROVE  LET c == Compact(AppendEntry(b, key, kind, dropped)) IN
           /\ Changed(b, c, {}, {NewEntry(b, key, kind, dropped)}, {})
           /\ Sound(c) /\ WithinMemory(c)
<1> DEFINE a == AppendEntry(b, key, kind, dropped)
           c == Compact(a)
<1>1. /\ key \in Keys /\ kind \in Kinds
      /\ ~Protected(kind) => ~HasShed(b, key)
    BY DEF Keys, Kinds, Protected, HasShed
<1>2. /\ Sound(a) /\ Cardinality(ShedRecords(a)) =< MaxShedRuns
      /\ Live(a) = Live(b) \cup {NewEntry(b, key, kind, dropped)}
    BY <1>1, AppendEntrySound DEF NewEntry
<1>3. a.shed = b.shed
    BY DEF AppendEntry, Sound, Buffer
<1> HIDE DEF a
<1>4. Sound(c) /\ WithinMemory(c) /\ Live(c) = Live(a)
    BY <1>2, CompactSound
<1>5. c.shed = a.shed
    BY <1>2 DEF Compact, Sound, Buffer
<1> HIDE DEF c
<1>6. \A q \in Runs : c.shed[q] = b.shed[q] + Cardinality(InRun({}, q))
                                     + (IF q \in {} THEN 1 ELSE 0)
    <2>1. \A q \in Runs : InRun({}, q) = {} /\ b.shed[q] \in Nat
        BY DEF InRun, Sound, Buffer
    <2> QED BY <1>3, <1>5, <2>1, FS_EmptySet
<1> QED BY <1>2, <1>4, <1>6 DEF Changed, c, a

(* What a push does to the buffer: some of it is shed, and the item is     *)
(* refused and counted, or it is in.                                       *)
LEMMA PushedChanged ==
    ASSUME EnoughRecords, NEW b, Sound(b), WithinMemory(b), OfRuns(b),
           NEW key \in Runs, NEW kind \in {"event", "terminal"}, NEW dropped \in Nat
    PROVE  LET c == Pushed(b, key, kind, dropped) IN
           \E taken :
              /\ Sheds(taken, kind = "terminal")
              /\ \/ kind = "event" /\ Changed(b, c, taken, {}, {key})
                 \/ Changed(b, c, taken, {NewEntry(b, key, kind, dropped)}, {})
<1> DEFINE fit == Fit(b, Protected(kind))
           c   == Pushed(b, key, kind, dropped)
           Good == \E taken :
              /\ Sheds(taken, kind = "terminal")
              /\ \/ kind = "event" /\ Changed(b, c, taken, {}, {key})
                 \/ Changed(b, c, taken, {NewEntry(b, key, kind, dropped)}, {})
<1>0. Protected(kind) \in BOOLEAN /\ (Protected(kind) <=> kind = "terminal")
      /\ key \in Keys /\ kind \in Kinds
    BY DEF Protected, Keys, Kinds
<1>1. /\ Sound(fit) /\ WithinMemory(fit) /\ fit.seq = b.seq
      /\ Protected(kind) => fit.live < MaxSize
      /\ fit.live \in Nat
    BY <1>0, FitSound
<1>2. c = IF ~Protected(kind) /\ HasShed(b, key) THEN CountDrop(b, key)
          ELSE IF ~Protected(kind) /\ HasShed(fit, key) THEN CountDrop(fit, key)
          ELSE IF ~Protected(kind) /\ fit.live >= MaxSize
               THEN IF key \in Runs THEN ShedRun(fit, key, 1) ELSE fit
          ELSE Compact(AppendEntry(fit, key, kind, dropped))
    BY DEF Pushed
<1>3. PICK g \in SUBSET Live(b) :
           Changed(b, fit, g, {}, {}) /\ Sheds(g, kind = "terminal")
    BY <1>0, FitChanged DEF Changed
<1>4. Sound(c)
    BY <1>0, PushedSound
<1> HIDE DEF fit, c
<1>5. ASSUME ~Protected(kind), HasShed(b, key) PROVE Good
    BY <1>0, <1>2, <1>5, CountDropChanged DEF Sheds, AllEvents, OneTerminal
<1>6. ASSUME ~Protected(kind), ~HasShed(b, key), HasShed(fit, key) PROVE Good
    <2>1. c = CountDrop(fit, key)
        BY <1>2, <1>6
    <2>2. Changed(fit, c, {}, {}, {key})
        BY <1>1, <2>1, CountDropChanged
    <2>3. Changed(b, c, g \cup {}, {}, {key})
        BY <1>1, <1>3, <1>4, <2>2, ChangesCompose
    <2> QED BY <1>0, <1>3, <1>6, <2>3 DEF Sheds, AllEvents, OneTerminal
<1>7. ASSUME ~Protected(kind), ~HasShed(b, key), ~HasShed(fit, key),
             fit.live >= MaxSize
      PROVE  Good
    <2>1. c = ShedRun(fit, key, 1)
        BY <1>2, <1>7
    <2>2. Changed(fit, c, fit.runItems[key], {}, {key})
        <3>1. Changed(fit, ShedRun(fit, key, 1), fit.runItems[key], {},
                      IF 1 = 1 THEN {key} ELSE {})
            BY <1>1, ShedRunChanged
        <3> QED BY <2>1, <3>1
    <2>3. Changed(b, c, g \cup fit.runItems[key], {}, {key})
        BY <1>1, <1>3, <1>4, <2>2, ChangesCompose
    <2>4. \A e \in fit.runItems[key] : e.kind = "event"
        BY <1>1 DEF Sound, Indexed
    <2>5. Sheds(g \cup fit.runItems[key], kind = "terminal") /\ kind = "event"
        BY <1>0, <1>3, <1>7, <2>4 DEF Sheds, AllEvents, OneTerminal
    <2> QED BY <2>3, <2>5
<1>8. ASSUME ~Protected(kind) => /\ ~HasShed(b, key) /\ ~HasShed(fit, key)
                                 /\ ~(fit.live >= MaxSize)
      PROVE  Good
    <2>1. fit.live < MaxSize
        BY <1>1, <1>8, SizeAssumption
    <2>2. c = Compact(AppendEntry(fit, key, kind, dropped))
        BY <1>2, <1>8
    <2>3. kind = "event" => fit.shed[key] = 0
        BY <1>0, <1>1, <1>8 DEF HasShed, Sound, Buffer
    <2>4. Changed(fit, c, {}, {NewEntry(b, key, kind, dropped)}, {})
        BY <1>1, <2>1, <2>2, <2>3, AppendEntryChanged DEF NewEntry
    <2>5. Changed(b, c, g \cup {}, {NewEntry(b, key, kind, dropped)}, {})
        BY <1>1, <1>3, <1>4, <2>4, ChangesCompose
    <2> QED BY <1>3, <2>5 DEF Sheds, AllEvents, OneTerminal
<1> QED BY <1>5, <1>6, <1>7, <1>8 DEF c
-----------------------------------------------------------------------------
(* Draining.                                                               *)

(* A drain takes a run of the oldest live entries out.                     *)
LEMMA DrainedChanged ==
    ASSUME NEW b, Sound(b), NEW n \in Nat
    PROVE  LET c == Drained(b, n)
               batch == Batch(b, n) IN
           /\ batch \subseteq Live(b) /\ Live(c) = Live(b) \ batch
           /\ \A e \in batch : \A f \in Live(b) : f.seq < e.seq => f \in batch
           /\ \A r \in Runs :
                 /\ c.runItems[r] = b.runItems[r] \ batch
                 /\ c.shed[r] = IF \E e \in batch : e.key = r /\ e.kind = "terminal"
                                THEN 0 ELSE b.shed[r]
<1> DEFINE left  == Left(b, n)
           batch == Batch(b, n)
           done  == {e.key : e \in {f \in batch : f.kind = "terminal"}}
           c     == Drained(b, n)
<1>1. left \subseteq b.buf /\ batch = Live(b) \ left
    BY DEF Left, Batch
<1>2. /\ c.buf = left /\ c.dead = b.dead \cap {e.seq : e \in left}
      /\ c.runItems = [r \in Runs |-> b.runItems[r] \ batch]
      /\ c.shed = [r \in Runs |-> IF r \in done THEN 0 ELSE b.shed[r]]
    <2>1. b \in Buffer
        BY DEF Sound
    <2> DEFINE bt == Batch(b, n)
               lf == Left(b, n)
               dead   == b.dead \cap {e.seq : e \in lf}
               forced == b.forced \cap {e.seq : e \in lf}
               items  == [r \in Runs |-> b.runItems[r] \ bt]
               rest   == b.keyless \ bt
               shed   == [r \in Runs |-> IF r \in {e.key : e \in {f \in bt : f.kind = "terminal"}}
                                         THEN 0 ELSE b.shed[r]]
               live   == b.live - Cardinality(bt)
    <2>2. c = [b EXCEPT !.buf = lf, !.live = live, !.dead = dead, !.forced = forced,
                        !.runItems = items, !.keyless = rest, !.shed = shed]
        BY <2>1 DEF Drained, Buffer
    <2> HIDE DEF c, lf, bt, dead, forced, items, rest, shed, live
    <2>3. c.buf = lf /\ c.dead = dead /\ c.runItems = items /\ c.shed = shed
        BY <2>1, <2>2 DEF Buffer
    <2> QED BY <2>3 DEF lf, bt, dead, items, shed
<1> HIDE DEF c
<1>3. Live(c) = Live(b) \ batch
    <2> HIDE DEF left, batch
    <2>1. \A e \in left : e.seq \in {f.seq : f \in left}
        OBVIOUS
    <2> QED BY <1>1, <1>2, <2>1 DEF Live
<1>4. ASSUME NEW e \in batch, NEW f \in Live(b), f.seq < e.seq PROVE f \in batch
    <2> DEFINE below(x) == {g \in Live(b) : g.seq < x.seq}
    <2>1. /\ e \in b.buf /\ f \in b.buf /\ IsFiniteSet(Live(b))
          /\ \A g \in Live(b) : g.seq \in Nat
          /\ e.seq \in Nat /\ f.seq \in Nat
        BY <1>1, SoundShape DEF Entry
    <2>2. below(f) \subseteq below(e) /\ below(e) \subseteq Live(b)
        BY <1>4, <2>1
    <2>3. /\ Cardinality(below(f)) \in Nat /\ Cardinality(below(e)) \in Nat
          /\ Cardinality(below(f)) =< Cardinality(below(e))
        <3>1. IsFiniteSet(below(e))
            BY <2>1, <2>2, CardinalityMonotone
        <3> QED BY <2>2, <3>1, CardinalityMonotone
    <2>4. ~(Cardinality(below(e)) >= n)
        BY <1>1, <2>1 DEF Left, Batch
    <2>5. ~(Cardinality(below(f)) >= n)
        <3> HIDE DEF below
        <3> QED BY <2>3, <2>4
    <2>6. f \notin left
        BY <2>5 DEF Left
    <2> QED BY <1>1, <2>6
<1>5. \A r \in Runs : r \in done <=> \E e \in batch : e.key = r /\ e.kind = "terminal"
    OBVIOUS
<1> QED BY <1>1, <1>2, <1>3, <1>4, <1>5 DEF c

(* What is handed out: the events as they were, the terminals stamped.     *)
LEMMA DrainedEvents ==
    ASSUME NEW b, Sound(b), NEW n \in Nat, NEW r \in Runs
    PROVE  EventsOf(DrainedItems(b, n), r) = b.runItems[r] \cap Batch(b, n)
<1> DEFINE batch == Batch(b, n)
<1>1. batch \subseteq Live(b) /\ batch \subseteq Entry
    BY DrainedChanged, SoundShape
<1>2. \A e \in batch : Stamped(b, batch, e).kind = e.kind
    BY <1>1 DEF Stamped, Entry
<1>3. \A e \in batch : e.kind = "event" => Stamped(b, batch, e) = e
    BY DEF Stamped
<1>4. b.runItems[r] = {e \in Live(b) : e.key = r /\ e.kind = "event"}
    BY DEF Sound, Indexed
<1> HIDE DEF batch
<1>5. DrainedItems(b, n) = {Stamped(b, batch, e) : e \in batch}
    BY DEF DrainedItems, batch
<1> QED BY <1>1, <1>2, <1>3, <1>4, <1>5 DEF EventsOf, batch

(* A run's one terminal, and what it carries.                              *)
Terminals(b, r) == {e \in Live(b) : e.key = r /\ e.kind = "terminal"}

DrainedTerminals(b, n, r) ==
    {e \in DrainedItems(b, n) : e.key = r /\ e.kind = "terminal"}

LEMMA DrainedTerminal ==
    ASSUME NEW b, Sound(b), NEW n \in Nat, NEW r \in Runs,
           NEW e \in Batch(b, n), Terminals(b, r) = {e}, e.dropped =< b.shed[r]
    PROVE  \E x : DrainedTerminals(b, n, r) = {x} /\ x.dropped = b.shed[r]
<1> DEFINE batch == Batch(b, n)
           x == Stamped(b, batch, e)
<1>1. batch \subseteq Live(b) /\ batch \subseteq Entry
    BY DrainedChanged, SoundShape
<1>2. \A f \in batch : /\ Stamped(b, batch, f).kind = f.kind
                       /\ Stamped(b, batch, f).key = f.key
    BY <1>1 DEF Stamped, Entry
<1>3. \A f \in batch : f.key = r /\ f.kind = "terminal" => f = e
    BY <1>1 DEF Terminals
<1>4. e \in Entry /\ e.key = r /\ e.kind = "terminal"
    BY <1>1 DEF Terminals
<1>5. FirstTerminal(batch, e)
    BY <1>3, <1>4 DEF FirstTerminal, Entry
<1>6. x.dropped = b.shed[r]
    <2>1. b.shed[r] \in Nat /\ e.dropped \in Nat
        BY <1>4 DEF Sound, Buffer, Entry
    <2>2. CASE b.shed[r] > e.dropped
        BY <1>4, <1>5, <2>1, <2>2 DEF Stamped, HasShed, Entry
    <2>3. CASE ~(b.shed[r] > e.dropped)
        BY <1>4, <2>1, <2>3 DEF Stamped
    <2> QED BY <2>2, <2>3
<1>7. DrainedTerminals(b, n, r) = {x}
    <2>1. DrainedItems(b, n) = {Stamped(b, batch, f) : f \in batch}
        BY DEF DrainedItems
    <2> HIDE DEF batch
    <2>2. e \in batch
        BY DEF batch
    <2> QED BY <1>2, <1>3, <1>4, <2>1, <2>2 DEF DrainedTerminals
<1> QED BY <1>6, <1>7

LEMMA NoDrainedTerminal ==
    ASSUME NEW b, Sound(b), NEW n \in Nat, NEW r \in Runs,
           Terminals(b, r) \cap Batch(b, n) = {}
    PROVE  DrainedTerminals(b, n, r) = {}
<1> DEFINE batch == Batch(b, n)
<1>1. batch \subseteq Live(b) /\ batch \subseteq Entry
    BY DrainedChanged, SoundShape
<1>2. \A f \in batch : /\ Stamped(b, batch, f).kind = f.kind
                       /\ Stamped(b, batch, f).key = f.key
    BY <1>1 DEF Stamped, Entry
<1>3. DrainedItems(b, n) = {Stamped(b, batch, f) : f \in batch}
    BY DEF DrainedItems
<1>4. \A f \in batch : ~(f.key = r /\ f.kind = "terminal")
    BY <1>1 DEF Terminals
<1> HIDE DEF batch
<1> QED BY <1>2, <1>3, <1>4 DEF DrainedTerminals
-----------------------------------------------------------------------------
(* The client's runs.  SdkSound is inductive: a run whose terminal is in   *)
(* the buffer has one of it, younger than all its events, with a figure no *)
(* larger than its record; one whose terminal is evicted has none left;    *)
(* one whose terminal is out has nothing in the buffer.                    *)
SdkTyped ==
    /\ phase \in [Runs -> Phases] /\ stamp \in [Runs -> Nat]
    /\ emitted \in [Runs -> Nat] /\ shipped \in [Runs -> Nat]
    /\ terminal \in [Runs -> [state: {"none", "sent", "drained"}, dropped: Nat]]

TerminalSound(r) ==
    /\ terminal[r].state # "none" => phase[r] = "closed"
    /\ phase[r] = "reserved" => stamp[r] =< rb.shed[r]
    /\ r \in evictedOf => terminal[r].state = "sent" /\ Terminals(rb, r) = {}
    /\ Terminals(rb, r) # {} => terminal[r].state = "sent"
    /\ \A e, f \in Terminals(rb, r) : e = f
    /\ \A e \in Terminals(rb, r) :
          /\ e.dropped =< rb.shed[r]
          /\ \A f \in rb.runItems[r] : f.seq < e.seq
    /\ terminal[r].state = "drained" => rb.runItems[r] = {}

Evicted(r) == IF r \in evictedOf THEN 1 ELSE 0

Accounted(r) ==
    terminal[r].state # "drained" =>
        emitted[r] + Evicted(r) = shipped[r] + Cardinality(rb.runItems[r]) + rb.shed[r]

FigureExact(r) ==
    terminal[r].state = "drained" => terminal[r].dropped = emitted[r] - shipped[r]

SdkSound ==
    /\ IInv /\ OfRuns(rb) /\ SdkTyped
    /\ \A r \in Runs : TerminalSound(r) /\ Accounted(r) /\ FigureExact(r)

LEMMA SdkInitSound == SdkInit => SdkSound
<1> SUFFICES ASSUME SdkInit PROVE SdkSound
    OBVIOUS
<1>1. IInv
    BY InitSound DEF SdkInit
<1>2. rb.buf = {} /\ \A r \in Runs : rb.runItems[r] = {} /\ rb.shed[r] = 0
    BY DEF SdkInit, Init, EmptyBuffer
<1>3. OfRuns(rb) /\ \A r \in Runs : Terminals(rb, r) = {}
    BY <1>2 DEF OfRuns, Live, Terminals
<1>4. SdkTyped
    BY DEF SdkInit, SdkTyped, Phases
<1>5. ASSUME NEW r \in Runs PROVE TerminalSound(r) /\ Accounted(r) /\ FigureExact(r)
    <2>1. /\ phase[r] = "new" /\ terminal[r].state = "none" /\ evictedOf = {}
          /\ emitted[r] = 0 /\ shipped[r] = 0
        BY DEF SdkInit
    <2>2. TerminalSound(r) /\ FigureExact(r)
        BY <1>2, <1>3, <2>1 DEF TerminalSound, FigureExact
    <2>3. Cardinality(rb.runItems[r]) = 0 /\ rb.shed[r] = 0 /\ Evicted(r) = 0
        BY <1>2, <2>1, FS_EmptySet DEF Evicted
    <2> QED BY <2>1, <2>2, <2>3 DEF Accounted
<1> QED BY <1>1, <1>3, <1>4, <1>5 DEF SdkSound

(* What an operation sheds of a run is in its record, and a terminal of it *)
(* that goes is counted as well.                                           *)
LEMMA ShedOfRun ==
    ASSUME NEW b, NEW c, Sound(b), Sound(c), NEW taken, NEW new, NEW refused,
           Changed(b, c, taken, new, refused), MayGo(taken), NEW r \in Runs,
           ~Adds(new, r, "event")
    PROVE  LET lost == IF Terminals(b, r) \cap taken = {} THEN 0 ELSE 1
               more == IF r \in refused THEN 1 ELSE 0 IN
           /\ c.runItems[r] = b.runItems[r] \ taken
           /\ Cardinality(c.runItems[r]) + c.shed[r]
                = Cardinality(b.runItems[r]) + b.shed[r] + lost + more
           /\ c.shed[r] >= b.shed[r]
<1> DEFINE lost == IF Terminals(b, r) \cap taken = {} THEN 0 ELSE 1
           more == IF r \in refused THEN 1 ELSE 0
<1>1. c.runItems[r] = b.runItems[r] \ taken
    BY DEF Sound, Indexed, Changed, Adds
<1>2. /\ IsFiniteSet(b.runItems[r]) /\ Cardinality(b.runItems[r]) \in Nat
      /\ Cardinality(c.runItems[r]) \in Nat
      /\ taken \subseteq Live(b) /\ IsFiniteSet(taken)
      /\ b.shed[r] \in Nat /\ c.shed[r] \in Nat
    <2>1. IsFiniteSet(Live(b)) /\ taken \subseteq Live(b)
        BY SoundShape DEF Changed
    <2>2. b.shed[r] \in Nat /\ c.shed[r] \in Nat
        BY DEF Sound, Buffer
    <2> QED BY <2>1, <2>2, SoundShape, CardinalityMonotone
<1>3. c.shed[r] = b.shed[r] + Cardinality(InRun(taken, r)) + more
    BY DEF Changed
<1>4. Cardinality(InRun(taken, r)) \in Nat
    <2>1. InRun(taken, r) \subseteq taken
        BY DEF InRun
    <2> QED BY <1>2, <2>1, CardinalityMonotone
<1>5. Cardinality(c.runItems[r]) + Cardinality(InRun(taken, r))
         = Cardinality(b.runItems[r]) + lost
    <2>1. CASE \A e \in taken : e.kind = "event"
        <3>1. InRun(taken, r) = b.runItems[r] \cap taken
            BY <1>2, <2>1, EventsInRun
        <3>2. Cardinality(b.runItems[r] \ taken)
                = Cardinality(b.runItems[r]) - Cardinality(b.runItems[r] \cap taken)
            BY <1>2, FS_Difference
        <3>3. Terminals(b, r) \cap taken = {}
            BY <2>1 DEF Terminals
        <3>4. Cardinality(c.runItems[r])
                = Cardinality(b.runItems[r]) - Cardinality(InRun(taken, r))
            BY <1>1, <3>1, <3>2
        <3> QED BY <1>2, <1>4, <3>3, <3>4
    <2>2. ASSUME NEW e \in taken, taken = {e}, e.kind = "terminal"
          PROVE  Cardinality(c.runItems[r]) + Cardinality(InRun(taken, r))
                    = Cardinality(b.runItems[r]) + lost
        <3>1. c.runItems[r] = b.runItems[r]
            BY <1>1, <2>2 DEF Sound, Indexed
        <3>2. CASE e.key = r
            <4>1. InRun(taken, r) = {e} /\ lost = 1
                BY <1>2, <2>2, <3>2 DEF InRun, Terminals
            <4> QED BY <1>2, <3>1, <4>1, FS_Singleton
        <3>3. CASE e.key # r
            <4>1. InRun(taken, r) = {} /\ lost = 0
                BY <2>2, <3>3 DEF InRun, Terminals
            <4> QED BY <1>2, <3>1, <4>1, FS_EmptySet
        <3> QED BY <3>2, <3>3
    <2> QED BY <2>1, <2>2 DEF MayGo, AllEvents, OneTerminal
<1>6. more \in Nat /\ lost \in Nat
    OBVIOUS
<1> HIDE DEF more, lost
<1>7. /\ Cardinality(c.runItems[r]) + c.shed[r]
           = Cardinality(b.runItems[r]) + b.shed[r] + lost + more
      /\ c.shed[r] >= b.shed[r]
    BY <1>2, <1>3, <1>4, <1>5, <1>6
<1> QED BY <1>1, <1>7 DEF more, lost

(* A run that has a terminal evicted by a step, or has not.                *)
LEMMA EvictedBy ==
    ASSUME NEW taken, NEW new, NEW refused, NEW r \in Runs,
           Changed(rb, rb', taken, new, refused), Buffered(rb'),
           \A e, f \in Terminals(rb, r) : e = f,
           ~Adds(new, r, "terminal"),
           r \in evictedOf => Terminals(rb, r) = {}
    PROVE  /\ Terminals(rb', r) = Terminals(rb, r) \ taken
           /\ (Evicted(r))' = Evicted(r) + (IF Terminals(rb, r) \cap taken = {} THEN 0 ELSE 1)
           /\ r \in evictedOf' => Terminals(rb', r) = {}
           /\ r \in evictedOf' /\ r \notin evictedOf => Terminals(rb, r) # {}
<1>1. Terminals(rb', r) = Terminals(rb, r) \ taken
    BY DEF Changed, Terminals, Adds
<1>2. \A b : r \in TerminalsIn(b) <=> Terminals(b, r) # {}
    BY DEF TerminalsIn, Terminals
<1>3. r \in evictedOf' <=> \/ r \in evictedOf
                           \/ Terminals(rb, r) # {} /\ Terminals(rb', r) = {}
    BY <1>2 DEF Buffered
<1>4. Terminals(rb, r) # {} /\ Terminals(rb', r) = {} <=> Terminals(rb, r) \cap taken # {}
    BY <1>1
<1>5. (Evicted(r))' = IF r \in evictedOf' THEN 1 ELSE 0
    BY DEF Evicted
<1> QED BY <1>1, <1>3, <1>4, <1>5 DEF Evicted

(* A buffer operation of another run, or of none.                          *)
LEMMA RunKept ==
    ASSUME SdkSound, Sound(rb'), NEW taken, NEW new, NEW refused, NEW r \in Runs \ refused,
           Changed(rb, rb', taken, new, refused), MayGo(taken), Buffered(rb'),
           InRun(new, r) = {},
           \/ phase'[r] = phase[r]
           \/ stamp'[r] = rb'.shed[r] /\ phase[r] # "closed",
           phase'[r] = phase[r] => stamp'[r] = stamp[r],
           emitted'[r] = emitted[r], shipped'[r] = shipped[r], terminal'[r] = terminal[r]
    PROVE  TerminalSound(r)' /\ Accounted(r)' /\ FigureExact(r)'
<1>1. TerminalSound(r) /\ Accounted(r) /\ FigureExact(r) /\ Sound(rb)
    BY DEF SdkSound, IInv
<1>2. /\ rb'.runItems[r] = rb.runItems[r] \ taken
      /\ Cardinality(rb'.runItems[r]) + rb'.shed[r]
            = Cardinality(rb.runItems[r]) + rb.shed[r]
                + (IF Terminals(rb, r) \cap taken = {} THEN 0 ELSE 1) + 0
      /\ rb'.shed[r] >= rb.shed[r]
    <2>1. ~Adds(new, r, "event")
        BY DEF Adds, InRun
    <2>2. (IF r \in refused THEN 1 ELSE 0) = 0
        OBVIOUS
    <2> DEFINE b == rb
               c == rb'
    <2> HIDE DEF b, c
    <2>3. Sound(b) /\ Sound(c) /\ Changed(b, c, taken, new, refused)
        BY <1>1 DEF b, c
    <2>4. /\ c.runItems[r] = b.runItems[r] \ taken
          /\ Cardinality(c.runItems[r]) + c.shed[r]
                = Cardinality(b.runItems[r]) + b.shed[r]
                    + (IF Terminals(b, r) \cap taken = {} THEN 0 ELSE 1)
                    + (IF r \in refused THEN 1 ELSE 0)
          /\ c.shed[r] >= b.shed[r]
        <3>1. r \in Runs
            OBVIOUS
        <3> QED BY <2>1, <2>3, <3>1, ShedOfRun
    <2> QED BY <2>2, <2>4 DEF b, c
<1>3. /\ Terminals(rb', r) = Terminals(rb, r) \ taken
      /\ (Evicted(r))' = Evicted(r) + (IF Terminals(rb, r) \cap taken = {} THEN 0 ELSE 1)
      /\ r \in evictedOf' => Terminals(rb', r) = {}
      /\ r \in evictedOf' /\ r \notin evictedOf => Terminals(rb, r) # {}
    <2>1. /\ \A e, f \in Terminals(rb, r) : e = f
          /\ ~Adds(new, r, "terminal")
          /\ r \in evictedOf => Terminals(rb, r) = {}
        BY <1>1 DEF TerminalSound, Adds, InRun
    <2> QED BY <2>1, EvictedBy
<1>4. /\ rb.shed[r] \in Nat /\ rb'.shed[r] \in Nat /\ stamp[r] \in Nat
      /\ \A e \in Terminals(rb, r) : e.dropped \in Nat
      /\ Cardinality(rb.runItems[r]) \in Nat /\ Cardinality(rb'.runItems[r]) \in Nat
      /\ emitted[r] \in Nat /\ shipped[r] \in Nat /\ Evicted(r) \in Nat
    <2>1. rb.shed[r] \in Nat /\ rb'.shed[r] \in Nat
        BY <1>1 DEF Sound, Buffer
    <2>2. stamp[r] \in Nat /\ emitted[r] \in Nat /\ shipped[r] \in Nat
        BY DEF SdkSound, SdkTyped
    <2>3. \A e \in Terminals(rb, r) : e.dropped \in Nat
        BY <1>1, SoundShape DEF Terminals, Entry
    <2>4. Cardinality(rb.runItems[r]) \in Nat /\ Cardinality(rb'.runItems[r]) \in Nat
        BY <1>1, SoundShape
    <2> QED BY <2>1, <2>2, <2>3, <2>4 DEF Evicted
<1>5. TerminalSound(r)'
    <2>1. (terminal[r].state # "none" => phase[r] = "closed")'
        BY <1>1 DEF TerminalSound
    <2>2. (phase[r] = "reserved" => stamp[r] =< rb.shed[r])'
        BY <1>1, <1>2, <1>4 DEF TerminalSound
    <2>3. (r \in evictedOf => terminal[r].state = "sent" /\ Terminals(rb, r) = {})'
        BY <1>1, <1>3 DEF TerminalSound
    <2>4. (Terminals(rb, r) # {} => terminal[r].state = "sent")'
        BY <1>1, <1>3 DEF TerminalSound
    <2>5. (\A e, f \in Terminals(rb, r) : e = f)'
        BY <1>1, <1>3 DEF TerminalSound
    <2>6. (\A e \in Terminals(rb, r) :
              /\ e.dropped =< rb.shed[r]
              /\ \A f \in rb.runItems[r] : f.seq < e.seq)'
        <3> SUFFICES ASSUME NEW e \in Terminals(rb', r)
                     PROVE  /\ e.dropped =< rb'.shed[r]
                            /\ \A f \in rb'.runItems[r] : f.seq < e.seq
            OBVIOUS
        <3>1. e \in Terminals(rb, r)
            BY <1>3
        <3>2. e.dropped =< rb.shed[r] /\ \A f \in rb.runItems[r] : f.seq < e.seq
            BY <1>1, <3>1 DEF TerminalSound
        <3> QED BY <1>2, <1>4, <3>1, <3>2
    <2>7. (terminal[r].state = "drained" => rb.runItems[r] = {})'
        BY <1>1, <1>2 DEF TerminalSound
    <2> QED BY <2>1, <2>2, <2>3, <2>4, <2>5, <2>6, <2>7 DEF TerminalSound
<1>6. Accounted(r)'
    BY <1>1, <1>2, <1>3, <1>4 DEF Accounted
<1>7. FigureExact(r)'
    BY <1>1 DEF FigureExact
<1> QED BY <1>5, <1>6, <1>7

LEMMA StaysOfRuns ==
    ASSUME OfRuns(rb), NEW taken, NEW new, NEW refused, Changed(rb, rb', taken, new, refused),
           \A e \in new : e.key \in Runs /\ e.kind \in {"event", "terminal"}
    PROVE  OfRuns(rb)'
BY DEF OfRuns, Changed

(* A run that has sent no terminal has none in the buffer and none evicted. *)
LEMMA NoTerminalYet ==
    ASSUME SdkSound, NEW r \in Runs, phase[r] # "closed"
    PROVE  terminal[r].state = "none" /\ Terminals(rb, r) = {} /\ r \notin evictedOf
BY DEF SdkSound, TerminalSound

LEMMA EventPushed ==
    ASSUME EnoughRecords, SdkSound, NEW k \in Runs, Buffered(Pushed(rb, k, "event", 0)),
           \/ phase[k] \in {"open", "reserved"} /\ phase' = phase
           \/ phase[k] = "new" /\ phase' = [phase EXCEPT ![k] = "open"],
           emitted' = [emitted EXCEPT ![k] = emitted[k] + 1],
           UNCHANGED <<stamp, shipped, terminal>>
    PROVE  SdkSound'
<1>1. Sound(rb) /\ WithinMemory(rb) /\ OfRuns(rb) /\ SdkTyped
    BY DEF SdkSound, IInv
<1>2. rb' = Pushed(rb, k, "event", 0) /\ Buffered(rb')
    BY DEF Buffered
<1>3. Sound(rb') /\ WithinMemory(rb')
    BY <1>1, <1>2, PushedSound DEF Keys, Kinds
<1> DEFINE e == NewEntry(rb, k, "event", 0)
           Outcome(g) == \/ Changed(rb, rb', g, {}, {k})
                         \/ Changed(rb, rb', g, {e}, {})
<1>4. PICK taken : (\A f \in taken : f.kind = "event") /\ Outcome(taken)
    <2>1. \E g : /\ Sheds(g, "event" = "terminal")
                 /\ \/ "event" = "event" /\ Changed(rb, rb', g, {}, {k})
                    \/ Changed(rb, rb', g, {e}, {})
        BY <1>1, <1>2, PushedChanged
    <2> QED BY <2>1 DEF Sheds, AllEvents, OneTerminal
<1>5. PICK new \in {{}, {e}}, refused \in {{}, {k}} :
          /\ Changed(rb, rb', taken, new, refused)
          /\ (new = {} /\ refused = {k}) \/ (new = {e} /\ refused = {})
    BY <1>4
<1>6. e.key = k /\ e.kind = "event" /\ e.seq = rb.seq
    BY DEF NewEntry
<1> HIDE DEF e, Outcome
<1>7. MayGo(taken)
    BY <1>4 DEF MayGo, AllEvents
<1>8. SdkTyped'
    BY <1>1 DEF SdkTyped, Phases
<1>9. OfRuns(rb)'
    BY <1>1, <1>5, <1>6, StaysOfRuns
<1>10. ASSUME NEW r \in Runs \ {k}
       PROVE  TerminalSound(r)' /\ Accounted(r)' /\ FigureExact(r)'
    <2>1. /\ phase'[r] = phase[r] /\ stamp'[r] = stamp[r] /\ emitted'[r] = emitted[r]
          /\ shipped'[r] = shipped[r] /\ terminal'[r] = terminal[r]
        BY <1>1 DEF SdkTyped
    <2>2. r \in Runs \ refused /\ InRun(new, r) = {}
        BY <1>5, <1>6 DEF InRun
    <2> QED BY <1>2, <1>3, <1>5, <1>7, <2>1, <2>2, RunKept
<1>11. TerminalSound(k)' /\ Accounted(k)' /\ FigureExact(k)'
    <2>1. /\ phase[k] # "closed" /\ phase'[k] # "closed"
          /\ phase'[k] = "reserved" => phase[k] = "reserved"
          /\ stamp' = stamp /\ terminal' = terminal /\ shipped' = shipped
          /\ emitted'[k] = emitted[k] + 1
        BY <1>1 DEF SdkTyped
    <2>2. terminal[k].state = "none" /\ Terminals(rb, k) = {} /\ k \notin evictedOf
        BY <2>1, NoTerminalYet
    <2>3. Terminals(rb', k) = {} /\ k \notin evictedOf'
        <3>1. ~Adds(new, k, "terminal")
            BY <1>5, <1>6 DEF Adds
        <3>2. /\ \A f, g \in Terminals(rb, k) : f = g
              /\ k \in evictedOf => Terminals(rb, k) = {}
            BY <2>2
        <3>3. /\ Terminals(rb', k) = Terminals(rb, k) \ taken
              /\ k \in evictedOf' /\ k \notin evictedOf => Terminals(rb, k) # {}
            BY <1>2, <1>5, <3>1, <3>2, EvictedBy
        <3> QED BY <2>2, <3>3
    <2>4. /\ Cardinality(rb'.runItems[k]) + rb'.shed[k]
                = Cardinality(rb.runItems[k]) + rb.shed[k] + 1
          /\ rb'.shed[k] >= rb.shed[k]
        <3>1. CASE new = {} /\ refused = {k}
            <4>1. /\ Changed(rb, rb', taken, {}, {k})
                  /\ ~Adds({}, k, "event")
                BY <1>5, <3>1 DEF Adds
            <4>2. /\ Cardinality(rb'.runItems[k]) + rb'.shed[k]
                        = Cardinality(rb.runItems[k]) + rb.shed[k]
                            + (IF Terminals(rb, k) \cap taken = {} THEN 0 ELSE 1)
                            + (IF k \in {k} THEN 1 ELSE 0)
                  /\ rb'.shed[k] >= rb.shed[k]
                BY <1>1, <1>3, <1>7, <4>1, ShedOfRun
            <4>3. Cardinality(rb.runItems[k]) \in Nat /\ rb.shed[k] \in Nat
                BY <1>1, SoundShape DEF Sound, Buffer
            <4> QED BY <2>2, <4>2, <4>3
        <3>2. CASE new = {e} /\ refused = {}
            <4> DEFINE items == rb.runItems[k]
            <4>1. InRun(taken, k) = items \cap taken /\ taken \subseteq Live(rb)
                BY <1>1, <1>4, <1>5, EventsInRun DEF Changed
            <4>2. rb'.runItems[k] = (items \ taken) \cup {e} /\ e \notin items
                <5>1. \A f \in items : f.seq < rb.seq /\ f.seq \in Nat
                    BY <1>1, SoundShape DEF Sound, Ordered, Entry
                <5>2. rb'.runItems[k] = (items \ taken) \cup {e}
                    BY <1>1, <1>3, <1>5, <1>6, <3>2 DEF Sound, Indexed, Changed
                <5>3. rb.seq \in Nat
                    BY <1>1 DEF Sound, Buffer
                <5> QED BY <1>6, <5>1, <5>2, <5>3
            <4>3. IsFiniteSet(items) /\ Cardinality(items) \in Nat
                BY <1>1, SoundShape
            <4>4. /\ IsFiniteSet(items \ taken)
                  /\ Cardinality(items \ taken) = Cardinality(items) - Cardinality(items \cap taken)
                BY <4>3, FS_Difference
            <4>5. Cardinality(rb'.runItems[k]) = Cardinality(items \ taken) + 1
                BY <4>2, <4>4, FS_AddElement
            <4>6. rb'.shed[k] = rb.shed[k] + Cardinality(items \cap taken)
                <5>1. rb'.shed[k] = rb.shed[k] + Cardinality(InRun(taken, k))
                                      + (IF k \in {} THEN 1 ELSE 0)
                    BY <1>5, <3>2 DEF Changed
                <5>2. Cardinality(items \cap taken) \in Nat /\ rb.shed[k] \in Nat
                    <6>1. items \cap taken \subseteq items
                        OBVIOUS
                    <6> QED BY <1>1, <4>3, <6>1, CardinalityMonotone DEF Sound, Buffer
                <5> QED BY <4>1, <5>1, <5>2
            <4>7. Cardinality(items \cap taken) \in Nat /\ rb.shed[k] \in Nat
                <5>1. items \cap taken \subseteq items
                    OBVIOUS
                <5> QED BY <1>1, <4>3, <5>1, CardinalityMonotone DEF Sound, Buffer
            <4> HIDE DEF items
            <4>8. /\ Cardinality(rb'.runItems[k]) + rb'.shed[k]
                        = Cardinality(items) + rb.shed[k] + 1
                  /\ rb'.shed[k] >= rb.shed[k]
                BY <4>3, <4>4, <4>5, <4>6, <4>7
            <4> QED BY <4>8 DEF items
        <3> QED BY <1>5, <3>1, <3>2
    <2>5. /\ rb.shed[k] \in Nat /\ rb'.shed[k] \in Nat /\ stamp[k] \in Nat
          /\ Cardinality(rb.runItems[k]) \in Nat /\ Cardinality(rb'.runItems[k]) \in Nat
          /\ emitted[k] \in Nat /\ shipped[k] \in Nat
        <3>1. rb.shed[k] \in Nat /\ rb'.shed[k] \in Nat
            BY <1>1, <1>3 DEF Sound, Buffer
        <3>2. stamp[k] \in Nat /\ emitted[k] \in Nat /\ shipped[k] \in Nat
            BY <1>1 DEF SdkTyped
        <3> QED BY <1>1, <1>3, <3>1, <3>2, SoundShape
    <2>6. TerminalSound(k)'
        <3>1. phase[k] = "reserved" => stamp[k] =< rb.shed[k]
            BY DEF SdkSound, TerminalSound
        <3>2. phase'[k] = "reserved" => stamp[k] =< rb'.shed[k]
            BY <2>1, <2>4, <2>5, <3>1
        <3> QED BY <2>1, <2>2, <2>3, <3>2 DEF TerminalSound
    <2>7. Accounted(k)'
        <3>1. emitted[k] = shipped[k] + Cardinality(rb.runItems[k]) + rb.shed[k]
            BY <2>2, <2>5 DEF SdkSound, Accounted, Evicted
        <3>2. (Evicted(k))' = 0
            BY <2>3 DEF Evicted
        <3>3. emitted'[k] + 0 = shipped'[k] + Cardinality(rb'.runItems[k]) + rb'.shed[k]
            BY <2>1, <2>4, <2>5, <3>1
        <3> QED BY <3>2, <3>3 DEF Accounted
    <2>8. FigureExact(k)'
        BY <2>1, <2>2 DEF FigureExact
    <2> QED BY <2>6, <2>7, <2>8
<1> QED BY <1>3, <1>8, <1>9, <1>10, <1>11 DEF SdkSound, IInv

LEMMA ReserveKeeps ==
    ASSUME EnoughRecords, SdkSound, NEW k \in Runs, ReserveRun(k)
    PROVE  SdkSound'
<1>1. Sound(rb) /\ WithinMemory(rb) /\ OfRuns(rb) /\ SdkTyped
    BY DEF SdkSound, IInv
<1>2. /\ rb' = Fit(rb, TRUE) /\ Buffered(rb') /\ phase[k] = "open"
      /\ phase' = [phase EXCEPT ![k] = "reserved"]
      /\ stamp' = [stamp EXCEPT ![k] = rb'.shed[k]]
      /\ UNCHANGED <<emitted, shipped, terminal>>
    BY DEF ReserveRun, Buffered, Reserved
<1>3. Sound(rb') /\ WithinMemory(rb')
    BY <1>1, <1>2, FitSound
<1>4. PICK taken : Changed(rb, rb', taken, {}, {}) /\ MayGo(taken)
    BY <1>1, <1>2, FitChanged DEF Sheds, MayGo
<1>5. rb'.shed[k] \in Nat
    BY <1>3 DEF Sound, Buffer
<1>6. SdkTyped'
    BY <1>1, <1>2, <1>5 DEF SdkTyped, Phases
<1>7. OfRuns(rb)'
    BY <1>1, <1>4, StaysOfRuns
<1>8. ASSUME NEW r \in Runs
      PROVE  TerminalSound(r)' /\ Accounted(r)' /\ FigureExact(r)'
    <2>1. /\ emitted'[r] = emitted[r] /\ shipped'[r] = shipped[r]
          /\ terminal'[r] = terminal[r]
          /\ \/ phase'[r] = phase[r]
             \/ stamp'[r] = rb'.shed[r] /\ phase[r] # "closed"
          /\ phase'[r] = phase[r] => stamp'[r] = stamp[r]
        BY <1>1, <1>2 DEF SdkTyped
    <2>2. r \in Runs \ {} /\ InRun({}, r) = {}
        BY DEF InRun
    <2> QED BY <1>2, <1>3, <1>4, <2>1, <2>2, RunKept
<1> QED BY <1>3, <1>6, <1>7, <1>8 DEF SdkSound, IInv

LEMMA AbandonKeeps ==
    ASSUME SdkSound, NEW k \in Runs, AbandonRun(k)
    PROVE  SdkSound'
<1>1. /\ phase' = [phase EXCEPT ![k] = "abandoned"] /\ phase[k] = "open"
      /\ UNCHANGED <<rb, stamp, emitted, shipped, terminal, evictedOf>>
    BY DEF AbandonRun
<1>2. IInv' /\ OfRuns(rb)' /\ SdkTyped'
    BY <1>1 DEF SdkSound, IInv, SdkTyped, Phases
<1>3. \A r \in Runs : /\ phase'[r] = "reserved" => phase[r] = "reserved"
                      /\ phase[r] = "closed" => phase'[r] = "closed"
    BY <1>1 DEF SdkSound, SdkTyped
<1>4. \A r \in Runs : TerminalSound(r)' /\ Accounted(r)' /\ FigureExact(r)'
    BY <1>1, <1>3 DEF SdkSound, TerminalSound, Accounted, FigureExact, Evicted, Terminals
<1> QED BY <1>2, <1>4 DEF SdkSound

LEMMA FinishKeeps ==
    ASSUME EnoughRecords, SdkSound, NEW k \in Runs, FinishRun(k)
    PROVE  SdkSound'
<1>1. Sound(rb) /\ WithinMemory(rb) /\ OfRuns(rb) /\ SdkTyped
    BY DEF SdkSound, IInv
<1>2. /\ rb' = Pushed(rb, k, "terminal", stamp[k]) /\ Buffered(rb')
      /\ phase[k] = "reserved" /\ phase' = [phase EXCEPT ![k] = "closed"]
      /\ terminal' = [terminal EXCEPT ![k] = [state |-> "sent", dropped |-> 0]]
      /\ UNCHANGED <<stamp, emitted, shipped>> /\ stamp[k] \in Nat
    BY <1>1 DEF FinishRun, Buffered, SdkTyped
<1>3. Sound(rb') /\ WithinMemory(rb')
    BY <1>1, <1>2, PushedSound DEF Keys, Kinds
<1> DEFINE e == NewEntry(rb, k, "terminal", stamp[k])
<1>4. PICK taken : Changed(rb, rb', taken, {e}, {}) /\ MayGo(taken)
    BY <1>1, <1>2, PushedChanged DEF Sheds, MayGo
<1>5. e.key = k /\ e.kind = "terminal" /\ e.seq = rb.seq /\ e.dropped = stamp[k]
    BY DEF NewEntry
<1> HIDE DEF e
<1>6. SdkTyped'
    BY <1>1, <1>2 DEF SdkTyped, Phases
<1>7. OfRuns(rb)'
    BY <1>1, <1>4, <1>5, StaysOfRuns
<1>8. ASSUME NEW r \in Runs \ {k}
      PROVE  TerminalSound(r)' /\ Accounted(r)' /\ FigureExact(r)'
    <2>1. /\ phase'[r] = phase[r] /\ stamp'[r] = stamp[r] /\ emitted'[r] = emitted[r]
          /\ shipped'[r] = shipped[r] /\ terminal'[r] = terminal[r]
        BY <1>1, <1>2 DEF SdkTyped
    <2>2. r \in Runs \ {} /\ InRun({e}, r) = {}
        BY <1>5 DEF InRun
    <2> QED BY <1>2, <1>3, <1>4, <2>1, <2>2, RunKept
<1>9. TerminalSound(k)' /\ Accounted(k)' /\ FigureExact(k)'
    <2>1. /\ phase'[k] = "closed" /\ terminal'[k].state = "sent"
          /\ emitted'[k] = emitted[k] /\ shipped'[k] = shipped[k]
        BY <1>1, <1>2 DEF SdkTyped
    <2>2. terminal[k].state = "none" /\ Terminals(rb, k) = {} /\ k \notin evictedOf
        BY <1>2, NoTerminalYet
    <2>3. k \notin evictedOf'
        BY <1>2, <2>2 DEF Buffered, TerminalsIn, Terminals
    <2>4. Terminals(rb', k) = {e}
        BY <1>4, <1>5, <2>2 DEF Changed, Terminals
    <2>5. /\ rb'.runItems[k] = rb.runItems[k] \ taken
          /\ Cardinality(rb'.runItems[k]) + rb'.shed[k]
                = Cardinality(rb.runItems[k]) + rb.shed[k]
                    + (IF Terminals(rb, k) \cap taken = {} THEN 0 ELSE 1)
                    + (IF k \in {} THEN 1 ELSE 0)
          /\ rb'.shed[k] >= rb.shed[k]
        <3>1. ~Adds({e}, k, "event")
            BY <1>5 DEF Adds
        <3> QED BY <1>1, <1>3, <1>4, <3>1, ShedOfRun
    <2>6. /\ rb.shed[k] \in Nat /\ rb'.shed[k] \in Nat
          /\ Cardinality(rb.runItems[k]) \in Nat /\ Cardinality(rb'.runItems[k]) \in Nat
          /\ emitted[k] \in Nat /\ shipped[k] \in Nat
        <3>1. rb.shed[k] \in Nat /\ rb'.shed[k] \in Nat
            BY <1>1, <1>3 DEF Sound, Buffer
        <3>2. emitted[k] \in Nat /\ shipped[k] \in Nat
            BY <1>1 DEF SdkTyped
        <3> QED BY <1>1, <1>3, <3>1, <3>2, SoundShape
    <2>7. TerminalSound(k)'
        <3>1. e.dropped =< rb'.shed[k]
            <4>1. stamp[k] =< rb.shed[k]
                BY <1>2 DEF SdkSound, TerminalSound
            <4> QED BY <1>2, <1>5, <2>5, <2>6, <4>1
        <3>2. \A f \in rb'.runItems[k] : f.seq < e.seq
            <4>1. \A f \in rb.runItems[k] : f.seq < rb.seq
                BY <1>1, SoundShape DEF Sound, Ordered
            <4> QED BY <1>5, <2>5, <4>1
        <3> QED BY <2>1, <2>3, <2>4, <3>1, <3>2 DEF TerminalSound
    <2>8. Accounted(k)'
        <3>1. emitted[k] = shipped[k] + Cardinality(rb.runItems[k]) + rb.shed[k]
            BY <2>2, <2>6 DEF SdkSound, Accounted, Evicted
        <3>2. (Evicted(k))' = 0
            BY <2>3 DEF Evicted
        <3>3. emitted'[k] + 0 = shipped'[k] + Cardinality(rb'.runItems[k]) + rb'.shed[k]
            BY <2>1, <2>2, <2>5, <2>6, <3>1
        <3> QED BY <3>2, <3>3 DEF Accounted
    <2>9. FigureExact(k)'
        BY <2>1 DEF FigureExact
    <2> QED BY <2>7, <2>8, <2>9
<1> QED BY <1>3, <1>6, <1>7, <1>8, <1>9 DEF SdkSound, IInv

LEMMA DrainKeeps ==
    ASSUME SdkSound, DrainOnce
    PROVE  SdkSound'
<1> DEFINE n == DrainSize
           batch == Batch(rb, n)
<1>1. Sound(rb) /\ WithinMemory(rb) /\ OfRuns(rb) /\ SdkTyped /\ n \in Nat
    BY EventsAssumption DEF SdkSound, IInv
<1>2. /\ rb' = Drained(rb, n)
      /\ shipped' = [r \in Runs |->
             shipped[r] + Cardinality(EventsOf(DrainedItems(rb, n), r))]
      /\ terminal' = [r \in Runs |->
             IF \E e \in DrainedItems(rb, n) : e.key = r /\ e.kind = "terminal"
             THEN [state |-> "drained",
                   dropped |-> (CHOOSE e \in DrainedItems(rb, n) :
                                   e.key = r /\ e.kind = "terminal").dropped]
             ELSE terminal[r]]
      /\ UNCHANGED <<phase, stamp, emitted, evictedOf>>
    BY DEF DrainOnce
<1> HIDE DEF n
<1>3. Sound(rb') /\ WithinMemory(rb')
    BY <1>1, <1>2, DrainedSound
<1>4. /\ batch \subseteq Live(rb) /\ Live(rb') = Live(rb) \ batch
      /\ \A e \in batch : \A f \in Live(rb) : f.seq < e.seq => f \in batch
      /\ \A r \in Runs :
            /\ rb'.runItems[r] = rb.runItems[r] \ batch
            /\ rb'.shed[r] = IF \E e \in batch : e.key = r /\ e.kind = "terminal"
                             THEN 0 ELSE rb.shed[r]
    BY <1>1, <1>2, DrainedChanged
<1>5. OfRuns(rb)'
    BY <1>1, <1>4 DEF OfRuns
<1> DEFINE out(r) == Cardinality(rb.runItems[r] \cap batch)
<1>6. ASSUME NEW r \in Runs
      PROVE  /\ EventsOf(DrainedItems(rb, n), r) = rb.runItems[r] \cap batch
             /\ out(r) \in Nat /\ shipped'[r] = shipped[r] + out(r)
             /\ Cardinality(rb'.runItems[r]) = Cardinality(rb.runItems[r]) - out(r)
             /\ Cardinality(rb.runItems[r]) \in Nat
             /\ Cardinality(rb'.runItems[r]) \in Nat
             /\ rb.shed[r] \in Nat /\ emitted[r] \in Nat /\ shipped[r] \in Nat
    <2>1. EventsOf(DrainedItems(rb, n), r) = rb.runItems[r] \cap batch
        BY <1>1, DrainedEvents
    <2>2. IsFiniteSet(rb.runItems[r]) /\ rb.runItems[r] \cap batch \subseteq rb.runItems[r]
          /\ Cardinality(rb'.runItems[r]) \in Nat
        BY <1>1, <1>3, SoundShape
    <2>3. out(r) \in Nat /\ Cardinality(rb.runItems[r]) \in Nat
        BY <2>2, CardinalityMonotone
    <2>4. Cardinality(rb.runItems[r] \ batch) = Cardinality(rb.runItems[r]) - out(r)
        BY <2>2, FS_Difference
    <2>5. rb.shed[r] \in Nat /\ emitted[r] \in Nat /\ shipped[r] \in Nat
        BY <1>1 DEF Sound, Buffer, SdkTyped
    <2> QED BY <1>2, <1>4, <2>1, <2>2, <2>3, <2>4, <2>5
<1>7. ASSUME NEW r \in Runs, Terminals(rb, r) \cap batch = {}
      PROVE  /\ terminal'[r] = terminal[r] /\ rb'.shed[r] = rb.shed[r]
             /\ Terminals(rb', r) = Terminals(rb, r)
    <2>1. DrainedTerminals(rb, n, r) = {}
        BY <1>1, <1>7, NoDrainedTerminal
    <2>2. ~ \E e \in DrainedItems(rb, n) : e.key = r /\ e.kind = "terminal"
        BY <2>1 DEF DrainedTerminals
    <2>3. ~ \E e \in batch : e.key = r /\ e.kind = "terminal"
        BY <1>4, <1>7 DEF Terminals
    <2>4. terminal'[r] = terminal[r]
        BY <1>2, <2>2
    <2>5. rb'.shed[r] = rb.shed[r]
        BY <1>4, <2>3
    <2>6. Terminals(rb', r) = Terminals(rb, r)
        BY <1>4, <1>7 DEF Terminals
    <2> QED BY <2>4, <2>5, <2>6
<1>8. ASSUME NEW r \in Runs, NEW e \in Terminals(rb, r) \cap batch
      PROVE  /\ terminal'[r] = [state |-> "drained", dropped |-> rb.shed[r]]
             /\ rb'.runItems[r] = {} /\ Terminals(rb', r) = {}
             /\ terminal[r].state = "sent" /\ r \notin evictedOf
    <2>1. TerminalSound(r)
        BY DEF SdkSound
    <2>2. Terminals(rb, r) = {e} /\ e.dropped =< rb.shed[r]
          /\ \A f \in rb.runItems[r] : f.seq < e.seq
        BY <1>8, <2>1 DEF TerminalSound
    <2>3. PICK x : DrainedTerminals(rb, n, r) = {x} /\ x.dropped = rb.shed[r]
        BY <1>1, <1>8, <2>2, DrainedTerminal
    <2>4. /\ x \in DrainedItems(rb, n) /\ x.key = r /\ x.kind = "terminal"
          /\ \A y \in DrainedItems(rb, n) : y.key = r /\ y.kind = "terminal" => y = x
        BY <2>3 DEF DrainedTerminals
    <2>5. (CHOOSE y \in DrainedItems(rb, n) : y.key = r /\ y.kind = "terminal") = x
        BY <2>4
    <2>6. terminal'[r] = [state |-> "drained", dropped |-> rb.shed[r]]
        BY <1>2, <2>3, <2>4, <2>5
    <2>7. rb'.runItems[r] = {}
        <3>1. rb.runItems[r] \subseteq Live(rb)
            BY <1>1, SoundShape
        <3>2. rb.runItems[r] \subseteq batch
            BY <1>4, <1>8, <2>2, <3>1
        <3> QED BY <1>4, <3>2
    <2>8. Terminals(rb', r) = {}
        <3>1. Terminals(rb', r) = Terminals(rb, r) \ batch
            BY <1>4 DEF Terminals
        <3> QED BY <1>8, <2>2, <3>1
    <2>9. terminal[r].state = "sent" /\ r \notin evictedOf
        BY <1>8, <2>1 DEF TerminalSound
    <2> QED BY <2>6, <2>7, <2>8, <2>9
<1> HIDE DEF batch, out
<1>9. SdkTyped'
    <2>1. terminal' \in [Runs -> [state: {"none", "sent", "drained"}, dropped: Nat]]
        <3>1. ASSUME NEW r \in Runs
              PROVE  terminal'[r] \in [state: {"none", "sent", "drained"}, dropped: Nat]
            <4>1. CASE Terminals(rb, r) \cap batch = {}
                <5>1. terminal'[r] = terminal[r]
                    BY <1>7, <4>1
                <5>2. terminal[r] \in [state: {"none", "sent", "drained"}, dropped: Nat]
                    BY <1>1 DEF SdkTyped
                <5> QED BY <5>1, <5>2
            <4>2. CASE Terminals(rb, r) \cap batch # {}
                <5>1. PICK e : e \in Terminals(rb, r) \cap batch
                    BY <4>2
                <5>2. terminal'[r] = [state |-> "drained", dropped |-> rb.shed[r]]
                    BY <1>8, <5>1
                <5>3. rb.shed[r] \in Nat
                    BY <1>6
                <5> QED BY <5>2, <5>3
            <4> QED BY <4>1, <4>2
        <3> DEFINE to == terminal'
        <3>2. to = [r \in Runs |-> to[r]]
            BY <1>2
        <3>3. \A r \in Runs : to[r] \in [state: {"none", "sent", "drained"}, dropped: Nat]
            BY <3>1
        <3> HIDE DEF to
        <3>4. to \in [Runs -> [state: {"none", "sent", "drained"}, dropped: Nat]]
            BY <3>2, <3>3
        <3> QED BY <3>4 DEF to
    <2>2. shipped' \in [Runs -> Nat]
        <3>1. ASSUME NEW r \in Runs PROVE shipped'[r] \in Nat
            <4>1. shipped'[r] = shipped[r] + out(r) /\ shipped[r] \in Nat /\ out(r) \in Nat
                BY <1>6
            <4> QED BY <4>1
        <3>2. shipped' = [r \in Runs |-> shipped'[r]]
            BY <1>2
        <3> QED BY <3>1, <3>2
    <2> QED BY <1>1, <1>2, <2>1, <2>2 DEF SdkTyped
<1>10. ASSUME NEW r \in Runs, Terminals(rb, r) \cap batch = {}
       PROVE  TerminalSound(r)' /\ Accounted(r)' /\ FigureExact(r)'
    <2>1. TerminalSound(r) /\ Accounted(r) /\ FigureExact(r)
        BY DEF SdkSound
    <2>2. /\ terminal'[r] = terminal[r] /\ rb'.shed[r] = rb.shed[r]
          /\ Terminals(rb', r) = Terminals(rb, r)
          /\ rb'.runItems[r] \subseteq rb.runItems[r]
          /\ phase' = phase /\ stamp' = stamp /\ emitted' = emitted /\ evictedOf' = evictedOf
        BY <1>2, <1>4, <1>7, <1>10
    <2>3. TerminalSound(r)'
        BY <2>1, <2>2 DEF TerminalSound
    <2>4. Accounted(r)'
        <3>1. (Evicted(r))' = Evicted(r) /\ Evicted(r) \in Nat
            BY <2>2 DEF Evicted
        <3> QED BY <1>6, <2>1, <2>2, <3>1 DEF Accounted
    <2>5. FigureExact(r)'
        <3>1. terminal[r].state = "drained" => shipped'[r] = shipped[r]
            <4> SUFFICES ASSUME terminal[r].state = "drained" PROVE shipped'[r] = shipped[r]
                OBVIOUS
            <4>1. rb.runItems[r] \cap batch = {}
                BY <2>1 DEF TerminalSound
            <4> QED BY <1>6, <4>1, FS_EmptySet DEF out
        <3> QED BY <2>1, <2>2, <3>1 DEF FigureExact
    <2> QED BY <2>3, <2>4, <2>5
<1>11. ASSUME NEW r \in Runs, Terminals(rb, r) \cap batch # {}
       PROVE  TerminalSound(r)' /\ Accounted(r)' /\ FigureExact(r)'
    <2>1. TerminalSound(r) /\ Accounted(r)
        BY DEF SdkSound
    <2>2. /\ terminal'[r] = [state |-> "drained", dropped |-> rb.shed[r]]
          /\ rb'.runItems[r] = {} /\ Terminals(rb', r) = {}
          /\ terminal[r].state = "sent" /\ r \notin evictedOf
          /\ phase' = phase /\ evictedOf' = evictedOf /\ emitted' = emitted
        BY <1>2, <1>8, <1>11
    <2>3. TerminalSound(r)'
        BY <2>1, <2>2 DEF TerminalSound
    <2>4. Accounted(r)'
        BY <2>2 DEF Accounted
    <2>5. FigureExact(r)'
        <3>1. Cardinality(rb.runItems[r]) = out(r)
            <4>1. Cardinality(rb'.runItems[r]) = 0
                BY <2>2, FS_EmptySet
            <4> QED BY <1>6, <4>1
        <3>2. emitted[r] = shipped[r] + out(r) + rb.shed[r]
            BY <1>6, <2>1, <2>2, <3>1 DEF Accounted, Evicted
        <3>3. rb.shed[r] = emitted'[r] - shipped'[r]
            BY <1>6, <2>2, <3>2
        <3> QED BY <2>2, <3>3 DEF FigureExact
    <2> QED BY <2>3, <2>4, <2>5
<1> QED BY <1>3, <1>5, <1>9, <1>10, <1>11 DEF SdkSound, IInv

LEMMA SdkStepKeeps ==
    ASSUME EnoughRecords, SdkSound, [SdkNext]_sdkVars
    PROVE  SdkSound'
<1>1. ASSUME NEW r \in Runs, StartRun(r) PROVE SdkSound'
    <2>1. /\ Buffered(Pushed(rb, r, "event", 0)) /\ phase[r] = "new"
          /\ phase' = [phase EXCEPT ![r] = "open"]
          /\ emitted' = [emitted EXCEPT ![r] = emitted[r] + 1]
          /\ UNCHANGED <<stamp, shipped, terminal>>
        BY <1>1 DEF StartRun
    <2> QED BY <2>1, EventPushed
<1>2. ASSUME NEW r \in Runs, Emit(r) PROVE SdkSound'
    <2>1. /\ Buffered(Pushed(rb, r, "event", 0)) /\ phase[r] \in {"open", "reserved"}
          /\ phase' = phase
          /\ emitted' = [emitted EXCEPT ![r] = emitted[r] + 1]
          /\ UNCHANGED <<stamp, shipped, terminal>>
        BY <1>2 DEF Emit
    <2> QED BY <2>1, EventPushed
<1>3. CASE UNCHANGED sdkVars
    BY <1>3 DEF sdkVars, SdkSound, IInv, SdkTyped, TerminalSound, Accounted, FigureExact,
                Evicted
<1> QED BY <1>1, <1>2, <1>3, ReserveKeeps, FinishKeeps, AbandonKeeps, DrainKeeps DEF SdkNext

(* SdkSound is inductive, when no drop record is forgotten for another.    *)
THEOREM SdkInvariant ==
    ASSUME EnoughRecords
    PROVE  SdkSpec => []SdkSound
<1>1. SdkSound /\ [SdkNext]_sdkVars => SdkSound'
    BY SdkStepKeeps
<1> QED BY SdkInitSound, <1>1, PTL DEF SdkSpec

(* The buffer's books are exact under the client's threads as well.        *)
THEOREM SdkBookkeepingHolds ==
    ASSUME EnoughRecords
    PROVE  SdkSpec => []BookkeepingExact
<1>1. SdkSound => BookkeepingExact
    BY DEF SdkSound, IInv, Sound, BookkeepingExact
<1> QED BY SdkInvariant, <1>1, PTL

(* Every event a run emitted is shipped, buffered, or in its drop record,  *)
(* whatever the other threads and the drain do in between.                 *)
THEOREM EveryEventAccountedHolds ==
    ASSUME EnoughRecords
    PROVE  SdkSpec => []EveryEventAccounted
<1>1. SdkSound => EveryEventAccounted
    BY DEF SdkSound, Accounted, Evicted, EveryEventAccounted
<1> QED BY SdkInvariant, <1>1, PTL

(* dropped_events on a run's terminal is the number of events lost, though *)
(* it is stamped in one critical section, pushed in another and drained in *)
(* a third.                                                                *)
THEOREM DroppedEventsExactHolds ==
    ASSUME EnoughRecords
    PROVE  SdkSpec => []DroppedEventsExact
<1>1. SdkSound => DroppedEventsExact
    BY DEF SdkSound, FigureExact, DroppedEventsExact
<1> QED BY SdkInvariant, <1>1, PTL
-----------------------------------------------------------------------------
(* DurableQueue.  A set of numbers has a least one, whatever its size.      *)
LEMMA SmallestIndex ==
    ASSUME NEW S \in SUBSET Nat, S # {}
    PROVE  \E m \in S : \A i \in S : m <= i
<1> DEFINE R == OpToRel(<, Nat)
<1>1. IsWellFoundedOn(R, Nat)
    BY NatLessThanWellFounded
<1>2. \A i, j \in Nat : <<i, j>> \in R <=> i < j
    BY DEF OpToRel
<1> HIDE DEF R
<1>3. PICK m \in S : \A i \in S : ~(<<i, m>> \in R)
    BY <1>1, WFMin
<1>4. \A i \in S : ~(i < m)
    BY <1>2, <1>3
<1> QED BY <1>4

(* The rows kept of the first n, for every n: the recursion of Without.    *)
Chain(g, m, q, S) ==
    /\ g = [n \in 0..m |-> g[n]]
    /\ g[0] = <<>>
    /\ \A n \in 1..m :
           g[n] = IF q[n] \in S THEN g[n - 1] ELSE Append(g[n - 1], q[n])

LEMMA ChainGrows ==
    ASSUME NEW q, NEW S, NEW m \in Nat, NEW g, Chain(g, m, q, S)
    PROVE  \E h : Chain(h, m + 1, q, S)
<1> DEFINE last == IF q[m + 1] \in S THEN g[m] ELSE Append(g[m], q[m + 1])
           h == [n \in 0..(m + 1) |-> IF n = m + 1 THEN last ELSE g[n]]
<1>1. h[m + 1] = last /\ \A n \in 0..m : h[n] = g[n]
    OBVIOUS
<1>2. h = [n \in 0..(m + 1) |-> h[n]]
    OBVIOUS
<1> HIDE DEF h
<1>3. ASSUME NEW n \in 1..(m + 1)
      PROVE  h[n] = IF q[n] \in S THEN h[n - 1] ELSE Append(h[n - 1], q[n])
    <2>1. CASE n = m + 1
        <3>1. h[n - 1] = g[m] /\ n - 1 = m
            BY <1>1, <2>1
        <3> QED BY <1>1, <2>1, <3>1
    <2>2. CASE n # m + 1
        <3>1. n \in 1..m /\ h[n] = g[n] /\ h[n - 1] = g[n - 1]
            BY <1>1, <2>2
        <3> QED BY <3>1 DEF Chain
    <2> QED BY <2>1, <2>2
<1>4. h[0] = <<>>
    BY <1>1 DEF Chain
<1> QED BY <1>2, <1>3, <1>4 DEF Chain

LEMMA ChainExists ==
    ASSUME NEW q, NEW S, NEW m \in Nat
    PROVE  \E g : Chain(g, m, q, S)
<1> DEFINE Bad == {k \in Nat : ~\E g : Chain(g, k, q, S)}
<1>1. SUFFICES ASSUME Bad # {} PROVE FALSE
    OBVIOUS
<1>2. PICK k \in Bad : \A i \in Bad : k <= i
    <2> HIDE DEF Bad
    <2>1. Bad \in SUBSET Nat
        BY DEF Bad
    <2> QED BY <1>1, <2>1, SmallestIndex
<1>3. k # 0
    <2>1. Chain([n \in 0..0 |-> <<>>], 0, q, S)
        BY DEF Chain
    <2> QED BY <2>1
<1>4. k - 1 \in Nat /\ k - 1 \notin Bad
    BY <1>2, <1>3
<1>5. PICK g : Chain(g, k - 1, q, S)
    BY <1>4
<1>6. \E h : Chain(h, k - 1 + 1, q, S)
    BY <1>4, <1>5, ChainGrows
<1> QED BY <1>6

LEMMA WithoutChain ==
    ASSUME NEW q \in Seq(Batches), NEW S
    PROVE  \E g : Chain(g, Len(q), q, S) /\ Without(q, S) = g[Len(q)]
<1> DEFINE next(g, n) ==
             IF n = 0 THEN <<>>
             ELSE IF q[n] \in S THEN g[n - 1] ELSE Append(g[n - 1], q[n])
           G == CHOOSE g : g = [n \in 0..Len(q) |-> next(g, n)]
<1>1. Without(q, S) = G[Len(q)]
    BY DEF Without
<1>2. PICK g : Chain(g, Len(q), q, S)
    <2>1. Len(q) \in Nat
        OBVIOUS
    <2> QED BY <2>1, ChainExists
<1>3. g = [n \in 0..Len(q) |-> next(g, n)]
    <2>1. ASSUME NEW n \in 0..Len(q) PROVE g[n] = next(g, n)
        <3>1. n = 0 \/ n \in 1..Len(q)
            OBVIOUS
        <3>2. g[0] = <<>> /\ \A k \in 1..Len(q) :
                  g[k] = IF q[k] \in S THEN g[k - 1] ELSE Append(g[k - 1], q[k])
            BY <1>2 DEF Chain
        <3> QED BY <3>1, <3>2
    <2> QED BY <1>2, <2>1 DEF Chain
<1>4. G = [n \in 0..Len(q) |-> next(G, n)]
    BY <1>3
<1> HIDE DEF G
<1>5. \A n \in 0..Len(q) : G[n] = next(G, n)
    BY <1>4
<1>6. Chain(G, Len(q), q, S)
    <2>1. G[0] = <<>> /\ G = [n \in 0..Len(q) |-> G[n]]
        BY <1>4, <1>5
    <2>2. \A n \in 1..Len(q) : G[n] = next(G, n)
        BY <1>5
    <2> QED BY <2>1, <2>2 DEF Chain
<1> QED BY <1>1, <1>6

(* The rows w are those of the first n of q that S does not name, in the   *)
(* order they had; f tells where each was.                                 *)
Selects(f, w, q, n, S) ==
    /\ w \in Seq(Batches)
    /\ f \in [1..Len(w) -> 1..n]
    /\ \A i \in 1..Len(w) : w[i] = q[f[i]] /\ q[f[i]] \notin S
    /\ \A i, j \in 1..Len(w) : i < j => f[i] < f[j]
    /\ \A k \in 1..n : q[k] \notin S => \E i \in 1..Len(w) : f[i] = k

LEMMA SelectsGrows ==
    ASSUME NEW q \in Seq(Batches), NEW S, NEW n \in Nat, n + 1 <= Len(q),
           NEW w, NEW f, Selects(f, w, q, n, S)
    PROVE  \E v, h : /\ v = IF q[n + 1] \in S THEN w ELSE Append(w, q[n + 1])
                     /\ Selects(h, v, q, n + 1, S)
<1>1. CASE q[n + 1] \in S
    <2>1. Selects(f, w, q, n + 1, S)
        BY <1>1 DEF Selects
    <2> QED BY <1>1, <2>1
<1>2. CASE q[n + 1] \notin S
    <2> DEFINE v == Append(w, q[n + 1])
               h == [i \in 1..(Len(w) + 1) |-> IF i = Len(w) + 1 THEN n + 1 ELSE f[i]]
    <2>1. w \in Seq(Batches) /\ q[n + 1] \in Batches /\ Len(w) \in Nat
        BY DEF Selects
    <2>2. /\ v \in Seq(Batches) /\ Len(v) = Len(w) + 1 /\ v[Len(w) + 1] = q[n + 1]
          /\ \A i \in 1..Len(w) : v[i] = w[i]
        BY <2>1
    <2>3. h[Len(w) + 1] = n + 1 /\ \A i \in 1..Len(w) : h[i] = f[i]
        BY <2>1
    <2>4. h \in [1..Len(v) -> 1..(n + 1)]
        BY <2>2 DEF Selects
    <2> HIDE DEF v, h
    <2>5. \A i \in 1..Len(v) : v[i] = q[h[i]] /\ q[h[i]] \notin S
        BY <1>2, <2>1, <2>2, <2>3 DEF Selects
    <2>6. ASSUME NEW i \in 1..Len(v), NEW j \in 1..Len(v), i < j PROVE h[i] < h[j]
        <3>1. i \in 1..Len(w) /\ h[i] = f[i] /\ f[i] \in 1..n
            <4>1. i \in 1..Len(w)
                BY <2>1, <2>2, <2>6
            <4>2. f[i] \in 1..n
                BY <4>1 DEF Selects
            <4> QED BY <2>3, <4>1, <4>2
        <3>2. CASE j = Len(w) + 1
            BY <2>3, <3>1, <3>2
        <3>3. CASE j # Len(w) + 1
            <4>1. j \in 1..Len(w) /\ h[j] = f[j]
                BY <2>1, <2>2, <2>3, <3>3
            <4> QED BY <2>6, <3>1, <4>1 DEF Selects
        <3> QED BY <3>2, <3>3
    <2>7. ASSUME NEW k \in 1..(n + 1), q[k] \notin S
          PROVE  \E i \in 1..Len(v) : h[i] = k
        <3>1. CASE k = n + 1
            <4>1. Len(w) + 1 \in 1..Len(v)
                BY <2>1, <2>2
            <4> QED BY <2>3, <3>1, <4>1
        <3>2. CASE k # n + 1
            <4>0. k \in 1..n
                BY <3>2
            <4>1. PICK i \in 1..Len(w) : f[i] = k
                BY <2>7, <4>0 DEF Selects
            <4>2. i \in 1..Len(v) /\ h[i] = k
                BY <2>1, <2>2, <2>3, <4>1
            <4> QED BY <4>2
        <3> QED BY <3>1, <3>2
    <2>8. Selects(h, v, q, n + 1, S)
        BY <2>2, <2>4, <2>5, <2>6, <2>7 DEF Selects
    <2> QED BY <1>2, <2>8 DEF v
<1> QED BY <1>1, <1>2

LEMMA WithoutSelects ==
    ASSUME NEW q \in Seq(Batches), NEW S
    PROVE  \E f : Selects(f, Without(q, S), q, Len(q), S)
<1>1. PICK g : Chain(g, Len(q), q, S) /\ Without(q, S) = g[Len(q)]
    BY WithoutChain
<1> DEFINE Bad == {k \in 0..Len(q) : ~\E f : Selects(f, g[k], q, k, S)}
<1>2. SUFFICES ASSUME Bad # {} PROVE FALSE
    BY <1>1
<1>3. PICK k \in Bad : \A i \in Bad : k <= i
    <2> HIDE DEF Bad
    <2>1. Bad \in SUBSET Nat
        BY DEF Bad
    <2> QED BY <1>2, <2>1, SmallestIndex
<1>4. k # 0
    <2>1. g[0] = <<>> /\ Len(<<>>) = 0 /\ <<>> \in Seq(Batches)
        BY <1>1 DEF Chain
    <2>2. Selects([i \in 1..0 |-> 0], g[0], q, 0, S)
        BY <2>1 DEF Selects
    <2> QED BY <2>2
<1>5. PICK m \in Nat : k = m + 1 /\ m + 1 <= Len(q) /\ m \notin Bad
    <2>1. Len(q) \in Nat /\ k \in 0..Len(q) /\ k - 1 \in 0..Len(q) /\ k - 1 \notin Bad
        BY <1>3, <1>4
    <2> QED BY <2>1
<1>6. PICK f : Selects(f, g[m], q, m, S)
    BY <1>5
<1> HIDE DEF Bad
<1>7. PICK v, h : /\ v = IF q[m + 1] \in S THEN g[m] ELSE Append(g[m], q[m + 1])
                  /\ Selects(h, v, q, m + 1, S)
    BY <1>5, <1>6, SelectsGrows
<1>8. v = g[m + 1]
    <2>1. m + 1 \in 1..Len(q) /\ m + 1 - 1 = m
        BY <1>5
    <2>2. g[m + 1] = IF q[m + 1] \in S THEN g[m + 1 - 1] ELSE Append(g[m + 1 - 1], q[m + 1])
        BY <1>1, <2>1 DEF Chain
    <2> QED BY <1>7, <2>1, <2>2
<1> QED BY <1>5, <1>7, <1>8 DEF Bad
-----------------------------------------------------------------------------
(* Orders of rows, as constant facts: d is the file, r the rows a round    *)
(* still has in hand, A the batches that are accounted for.                *)

Distinct(d) == \A i, j \in 1..Len(d) : d[i] = d[j] => i = j

(* Whatever lies on the file ahead of a row in hand is accounted for or is *)
(* in hand ahead of it.                                                    *)
AheadIn(d, r, A) ==
    \A m \in 1..Len(r), j \in 1..Len(d) : r[m] \in ToSet(d) =>
        \/ d[j] \in A
        \/ \E k \in 1..j : d[k] = r[m]
        \/ \E l \in 1..Len(r) : l < m /\ r[l] = d[j]

(* The batches accounted for: stored, or gone from the file for a reason.  *)
Settled == {b \in Batches : received[b] > 0 \/ gone[b] # {}}
Queued  == {b \in Batches : fate[b] = "queued"}

(* The types the steps need.                                               *)
QueueTypes ==
    /\ pc \in [Procs -> Places]
    /\ incoming \in [Procs -> 0..MaxBatches]
    /\ rows \in [Procs -> Seq(Batches)]
    /\ deleted \in [Procs -> SUBSET Batches]
    /\ disk \in Seq(Batches)
    /\ batches \in 0..MaxBatches
    /\ owner \in [Batches -> Procs \cup {Free}]
    /\ fate \in [Batches -> Fates]
    /\ gone \in [Batches -> SUBSET {"refused", "undecodable", "evicted"}]
    /\ received \in [Batches -> Nat]

(* A thread inside ship() has a batch, which is its own and pending.       *)
Hand(p) ==
    /\ pc[p] \in {"inner", "enqueue"} => incoming[p] # NoBatch
    /\ incoming[p] # NoBatch => /\ owner[incoming[p]] = p
                                /\ fate[incoming[p]] = "pending"
                                /\ incoming[p] <= batches

(* A round deletes only rows accounted for, and has the backlog in order.  *)
Round(p) ==
    /\ pc[p] = "delete" => rows[p] # <<>> /\ Row(p) \in Settled
    /\ deleted[p] \subseteq Settled
    /\ ToSet(rows[p]) \subseteq Queued
    /\ AheadIn(disk, rows[p], Settled)

(* A queued batch is on the file, once, or accounted for.                  *)
File ==
    /\ ToSet(disk) \subseteq Queued
    /\ Distinct(disk)
    /\ \A b \in Queued : b <= batches
    /\ Queued \subseteq ToSet(disk) \cup Settled

QueueInv ==
    /\ QueueTypes
    /\ \A p \in Procs : Hand(p) /\ Round(p)
    /\ File
-----------------------------------------------------------------------------
(* A subsequence w of d, each row w[i] at f[i].                            *)
Within(f, w, d) ==
    /\ f \in [1..Len(w) -> 1..Len(d)]
    /\ \A i \in 1..Len(w) : w[i] = d[f[i]]
    /\ \A i, j \in 1..Len(w) : i < j => f[i] < f[j]

LEMMA InToSet ==
    ASSUME NEW T, NEW d \in Seq(T)
    PROVE  /\ \A i \in 1..Len(d) : d[i] \in ToSet(d) /\ d[i] \in T
           /\ \A x \in ToSet(d) : \E i \in 1..Len(d) : d[i] = x
           /\ ToSet(d) \subseteq T
<1>1. DOMAIN d = 1..Len(d)
    OBVIOUS
<1> QED BY <1>1 DEF ToSet

LEMMA WithinKeeps ==
    ASSUME NEW d \in Seq(Batches), NEW w \in Seq(Batches), NEW r \in Seq(Batches),
           NEW A, NEW f, Within(f, w, d), Distinct(d), AheadIn(d, r, A)
    PROVE  Distinct(w) /\ AheadIn(w, r, A) /\ ToSet(w) \subseteq ToSet(d)
<1>1. Len(w) \in Nat /\ Len(d) \in Nat /\ Len(r) \in Nat
    OBVIOUS
<1>2. \A i \in 1..Len(w) : f[i] \in 1..Len(d) /\ w[i] = d[f[i]]
    BY DEF Within
<1>3. ASSUME NEW x \in ToSet(w) PROVE x \in ToSet(d)
    <2>1. PICK i \in 1..Len(w) : w[i] = x
        BY InToSet
    <2>2. f[i] \in 1..Len(d) /\ d[f[i]] = x
        BY <1>2, <2>1
    <2>3. d[f[i]] \in ToSet(d)
        BY <2>2, InToSet
    <2> QED BY <2>2, <2>3
<1>4. ASSUME NEW i \in 1..Len(w), NEW j \in 1..Len(w), w[i] = w[j] PROVE f[i] = f[j]
    <2>1. f[i] \in 1..Len(d) /\ f[j] \in 1..Len(d) /\ d[f[i]] = d[f[j]]
        BY <1>2, <1>4
    <2> QED BY <2>1 DEF Distinct
<1>5. \A i, j \in 1..Len(w) : i < j => f[i] < f[j]
    BY DEF Within
<1>6. ASSUME NEW i \in 1..Len(w), NEW j \in 1..Len(w), f[i] <= f[j] PROVE i <= j
    <2>1. f[i] \in Nat /\ f[j] \in Nat /\ i \in Nat /\ j \in Nat
        BY <1>1, <1>2
    <2>2. j < i => f[j] < f[i]
        BY <1>5
    <2> QED BY <1>6, <2>1, <2>2
<1>7. Distinct(w)
    <2> SUFFICES ASSUME NEW i \in 1..Len(w), NEW j \in 1..Len(w), w[i] = w[j]
                 PROVE  i = j
        BY DEF Distinct
    <2>1. f[i] = f[j] /\ f[i] \in Nat
        BY <1>1, <1>2, <1>4
    <2>2. i <= j /\ j <= i
        BY <1>6, <2>1
    <2> QED BY <1>1, <2>2
<1>8. AheadIn(w, r, A)
    <2> SUFFICES ASSUME NEW m \in 1..Len(r), NEW j \in 1..Len(w), r[m] \in ToSet(w),
                        w[j] \notin A, ~\E l \in 1..Len(r) : l < m /\ r[l] = w[j]
                 PROVE  \E k \in 1..j : w[k] = r[m]
        BY DEF AheadIn
    <2>1. f[j] \in 1..Len(d) /\ w[j] = d[f[j]] /\ r[m] \in ToSet(d)
        BY <1>2, <1>3
    <2>2. PICK k \in 1..f[j] : d[k] = r[m]
        BY <2>1 DEF AheadIn
    <2>3. PICK i \in 1..Len(w) : w[i] = r[m]
        BY InToSet
    <2>4. f[i] = k
        <3>1. d[f[i]] = d[k] /\ f[i] \in 1..Len(d) /\ k \in 1..Len(d)
            BY <1>1, <1>2, <2>1, <2>2, <2>3
        <3> QED BY <3>1 DEF Distinct
    <2>5. i <= j
        BY <1>1, <1>6, <2>1, <2>2, <2>4
    <2> QED BY <1>1, <2>3, <2>5
<1> QED BY <1>3, <1>7, <1>8

LEMMA AppendKeeps ==
    ASSUME NEW d \in Seq(Batches), NEW b \in Batches, NEW r \in Seq(Batches), NEW A,
           Distinct(d), AheadIn(d, r, A), b \notin ToSet(d), b \notin ToSet(r)
    PROVE  Distinct(Append(d, b)) /\ AheadIn(Append(d, b), r, A)
<1> DEFINE w == Append(d, b)
<1>1. /\ w \in Seq(Batches) /\ Len(d) \in Nat /\ Len(w) = Len(d) + 1
      /\ w[Len(d) + 1] = b /\ \A i \in 1..Len(d) : w[i] = d[i]
    OBVIOUS
<1> HIDE DEF w
<1>2. \A i \in 1..Len(w) : i \in 1..Len(d) \/ i = Len(d) + 1
    BY <1>1
<1>3. \A i \in 1..Len(d) : d[i] # b
    BY InToSet
<1>4. Distinct(w)
    BY <1>1, <1>2, <1>3 DEF Distinct
<1>5. AheadIn(w, r, A)
    <2> SUFFICES ASSUME NEW m \in 1..Len(r), NEW j \in 1..Len(w), r[m] \in ToSet(w),
                        w[j] \notin A, ~\E l \in 1..Len(r) : l < m /\ r[l] = w[j]
                 PROVE  \E k \in 1..j : w[k] = r[m]
        BY DEF AheadIn
    <2>1. PICK i \in 1..Len(d) : d[i] = r[m]
        <3>1. PICK i \in 1..Len(w) : w[i] = r[m]
            BY <1>1, InToSet
        <3>2. r[m] # b
            BY InToSet
        <3>3. i \in 1..Len(d) /\ d[i] = r[m]
            BY <1>1, <1>2, <3>1, <3>2
        <3> QED BY <3>3
    <2>2. CASE j = Len(d) + 1
        BY <1>1, <2>1, <2>2
    <2>3. CASE j \in 1..Len(d)
        <3>1. r[m] \in ToSet(d) /\ w[j] = d[j]
            BY <1>1, <2>1, <2>3, InToSet
        <3>2. PICK k \in 1..j : d[k] = r[m]
            BY <2>3, <3>1 DEF AheadIn
        <3>3. k \in 1..Len(d) /\ w[k] = d[k]
            BY <1>1, <2>3
        <3> QED BY <3>2, <3>3
    <2> QED BY <1>2, <2>2, <2>3
<1> QED BY <1>4, <1>5 DEF w

LEMMA TailKeeps ==
    ASSUME NEW d \in Seq(Batches), NEW r \in Seq(Batches), NEW A, r # <<>>,
           Head(r) \in A, AheadIn(d, r, A)
    PROVE  Tail(r) \in Seq(Batches) /\ ToSet(Tail(r)) \subseteq ToSet(r) /\ AheadIn(d, Tail(r), A)
<1> DEFINE s == Tail(r)
<1>1. /\ s \in Seq(Batches) /\ Len(r) \in Nat /\ Len(s) = Len(r) - 1
      /\ r[1] \in A /\ \A i \in 1..Len(s) : s[i] = r[i + 1]
    OBVIOUS
<1> HIDE DEF s
<1>2. \A i \in 1..Len(s) : i + 1 \in 1..Len(r)
    BY <1>1
<1>3. ToSet(s) \subseteq ToSet(r)
    BY <1>1, <1>2, InToSet
<1>4. AheadIn(d, s, A)
    <2> SUFFICES ASSUME NEW m \in 1..Len(s), NEW j \in 1..Len(d), s[m] \in ToSet(d),
                        d[j] \notin A, ~\E k \in 1..j : d[k] = s[m]
                 PROVE  \E l \in 1..Len(s) : l < m /\ s[l] = d[j]
        BY DEF AheadIn
    <2>1. m + 1 \in 1..Len(r) /\ s[m] = r[m + 1]
        BY <1>1, <1>2
    <2>2. PICK l \in 1..Len(r) : l < m + 1 /\ r[l] = d[j]
        BY <2>1 DEF AheadIn
    <2>3. l # 1
        BY <1>1, <2>2
    <2>4. l - 1 \in 1..Len(s) /\ l - 1 < m /\ l - 1 + 1 = l
        BY <1>1, <2>2, <2>3
    <2>5. s[l - 1] = d[j]
        BY <1>1, <2>2, <2>4
    <2> QED BY <2>4, <2>5
<1> QED BY <1>1, <1>3, <1>4 DEF s

LEMMA SelectAhead ==
    ASSUME NEW d \in Seq(Batches), NEW n \in 0..Len(d), NEW A
    PROVE  /\ SubSeq(d, 1, n) \in Seq(Batches)
           /\ ToSet(SubSeq(d, 1, n)) \subseteq ToSet(d)
           /\ AheadIn(d, SubSeq(d, 1, n), A)
<1> DEFINE s == SubSeq(d, 1, n)
<1>1. /\ s \in Seq(Batches) /\ Len(d) \in Nat /\ n \in Nat /\ n <= Len(d) /\ Len(s) = n
      /\ \A i \in 1..n : s[i] = d[i]
    OBVIOUS
<1> HIDE DEF s
<1>2. ToSet(s) \subseteq ToSet(d)
    BY <1>1, InToSet
<1>3. AheadIn(d, s, A)
    <2> SUFFICES ASSUME NEW m \in 1..Len(s), NEW j \in 1..Len(d),
                        ~\E k \in 1..j : d[k] = s[m]
                 PROVE  \E l \in 1..Len(s) : l < m /\ s[l] = d[j]
        BY DEF AheadIn
    <2>1. j < m
        BY <1>1
    <2> QED BY <1>1, <2>1
<1> QED BY <1>1, <1>2, <1>3 DEF s

LEMMA EmptyAhead ==
    ASSUME NEW d, NEW A
    PROVE  AheadIn(d, <<>>, A) /\ ToSet(<<>>) = {} /\ <<>> \in Seq(Batches)
BY DEF AheadIn, ToSet

LEMMA MoreSettled ==
    ASSUME NEW d, NEW r, NEW A, NEW B, A \subseteq B, AheadIn(d, r, A)
    PROVE  AheadIn(d, r, B)
BY DEF AheadIn

LEMMA WithoutWithin ==
    ASSUME NEW d \in Seq(Batches), NEW S
    PROVE  /\ Without(d, S) \in Seq(Batches)
           /\ \E f : Within(f, Without(d, S), d)
           /\ \A b \in ToSet(d) : b \in S \/ b \in ToSet(Without(d, S))
<1>1. PICK f : Selects(f, Without(d, S), d, Len(d), S)
    BY WithoutSelects
<1> DEFINE w == Without(d, S)
<1> HIDE DEF w
<1>2. w \in Seq(Batches) /\ Within(f, w, d)
    BY <1>1 DEF Selects, Within, w
<1>3. ASSUME NEW b \in ToSet(d), b \notin S PROVE b \in ToSet(w)
    <2>1. PICK k \in 1..Len(d) : d[k] = b
        BY InToSet
    <2>2. PICK i \in 1..Len(w) : f[i] = k /\ w[i] = d[f[i]]
        BY <1>1, <1>3, <2>1 DEF Selects, w
    <2> QED BY <1>2, <2>1, <2>2, InToSet
<1> QED BY <1>2, <1>3 DEF w

LEMMA EvictionsIndex ==
    ASSUME NEW q \in Seq(Batches)
    PROVE  Evictions(q) \in 0..Len(q)
<1> DEFINE enough(k) == k = Len(q) \/ Fits(SubSeq(q, k + 1, Len(q)))
           S == {k \in 0..Len(q) : enough(k)}
<1>1. Len(q) \in Nat /\ Len(q) \in S /\ S \in SUBSET Nat
    OBVIOUS
<1>2. PICK n \in S : \A i \in S : n <= i
    <2> HIDE DEF S
    <2> QED BY <1>1, SmallestIndex
<1>3. n \in 0..Len(q) /\ enough(n) /\ \A k \in 0..(n - 1) : ~enough(k)
    <2>1. ASSUME NEW k \in 0..(n - 1), enough(k) PROVE FALSE
        <3>1. k \in S /\ ~(n <= k)
            BY <1>1, <1>2, <2>1
        <3> QED BY <1>2, <3>1
    <2> QED BY <1>2, <2>1
<1> HIDE DEF enough, S
<1>4. \E m \in 0..Len(q) : enough(m) /\ \A k \in 0..(m - 1) : ~enough(k)
    BY <1>3
<1>5. Evictions(q) = CHOOSE m \in 0..Len(q) : enough(m) /\ \A k \in 0..(m - 1) : ~enough(k)
    BY DEF Evictions, enough
<1> QED BY <1>4, <1>5

(* The newest rows of the file, without the n that were evicted.           *)
LEMMA CutWithin ==
    ASSUME NEW d \in Seq(Batches), NEW n \in 0..Len(d)
    PROVE  LET w == SubSeq(d, n + 1, Len(d)) IN
           /\ w \in Seq(Batches)
           /\ \E f : Within(f, w, d)
           /\ \A b \in ToSet(d) : b \in ToSet(SubSeq(d, 1, n)) \/ b \in ToSet(w)
<1> DEFINE w == SubSeq(d, n + 1, Len(d))
           v == SubSeq(d, 1, n)
           f == [i \in 1..Len(w) |-> i + n]
<1>1. /\ Len(d) \in Nat /\ n \in Nat /\ n <= Len(d)
      /\ w \in Seq(Batches) /\ Len(w) = Len(d) - n
      /\ \A i \in 1..Len(w) : w[i] = d[i + n]
      /\ v \in Seq(Batches) /\ Len(v) = n /\ \A i \in 1..n : v[i] = d[i]
    <2>1. Len(d) \in Nat /\ n \in Nat /\ n <= Len(d)
        OBVIOUS
    <2>2. /\ w \in Seq(Batches) /\ Len(w) = Len(d) - n
          /\ \A i \in 1..Len(w) : w[i] = d[i + n]
        BY <2>1
    <2>3. v \in Seq(Batches) /\ Len(v) = n /\ \A i \in 1..n : v[i] = d[i]
        BY <2>1
    <2> QED BY <2>1, <2>2, <2>3
<1> HIDE DEF w, v
<1>2. Within(f, w, d)
    BY <1>1 DEF Within
<1>3. ASSUME NEW b \in ToSet(d), b \notin ToSet(v) PROVE b \in ToSet(w)
    <2>1. PICK k \in 1..Len(d) : d[k] = b
        BY InToSet
    <2>2. ~(k <= n)
        BY <1>1, <1>3, <2>1, InToSet
    <2>3. k - n \in 1..Len(w) /\ w[k - n] = b
        BY <1>1, <2>1, <2>2
    <2> QED BY <1>1, <2>3, InToSet
<1> QED BY <1>1, <1>2, <1>3 DEF w, v
-----------------------------------------------------------------------------
(* The steps.                                                              *)

QueueStep == UNCHANGED queueVars \/ QueueNext

LEMMA NoBatchOutside == NoBatch \notin Batches /\ Batches \subseteq Nat
BY DEF NoBatch, Batches

LEMMA InnerTypes ==
    ASSUME QueueTypes, NEW b \in Batches, NEW outcome, Inner(b, outcome)
    PROVE  received' \in [Batches -> Nat]
<1>1. received[b] \in Nat
    BY DEF QueueTypes
<1> DEFINE n == IF outcome \in {"delivered", "lostAnswer"} /\ received[b] < MaxReceived
                THEN received[b] + 1 ELSE received[b]
<1>2. n \in Nat
    BY <1>1
<1>3. received' = [received EXCEPT ![b] = n]
    BY DEF Inner
<1> HIDE DEF n
<1> QED BY <1>2, <1>3 DEF QueueTypes

LEMMA RowIsBatch ==
    ASSUME QueueTypes, NEW p \in Procs, rows[p] # <<>>
    PROVE  Row(p) \in Batches /\ Tail(rows[p]) \in Seq(Batches)
<1>1. rows[p] \in Seq(Batches)
    BY DEF QueueTypes
<1> QED BY <1>1 DEF Row

LEMMA EndRoundTypes ==
    ASSUME QueueTypes, NEW p \in Procs, EndRound(p)
    PROVE  /\ pc' \in [Procs -> Places]
           /\ rows' \in [Procs -> Seq(Batches)]
           /\ deleted' \in [Procs -> SUBSET Batches]
           /\ disk' \in Seq(Batches)
<1>1. disk' \in Seq(Batches)
    BY WithoutWithin DEF EndRound, QueueTypes
<1>2. <<>> \in Seq(Batches)
    OBVIOUS
<1> QED BY <1>1, <1>2 DEF EndRound, QueueTypes, Goto, Places

LEMMA EnqueueSteps ==
    ASSUME QueueTypes, NEW p \in Procs, Enqueue(p), incoming[p] # NoBatch
    PROVE  \E d \in Seq(Batches) : \E n \in 0..Len(d) :
              /\ d = Append(disk, incoming[p])
              /\ disk' = SubSeq(d, n + 1, Len(d))
              /\ gone' = [b \in Batches |-> IF b \in ToSet(SubSeq(d, 1, n))
                                            THEN gone[b] \cup {"evicted"} ELSE gone[b]]
<1> DEFINE d == Append(disk, incoming[p])
<1>1. incoming[p] \in Batches
    BY DEF QueueTypes, Batches, NoBatch
<1>2. d \in Seq(Batches)
    BY <1>1 DEF QueueTypes
<1>3. Evictions(d) \in 0..Len(d)
    BY <1>2, EvictionsIndex
<1> QED BY <1>2, <1>3 DEF Enqueue

LEMMA SelectSteps ==
    ASSUME QueueTypes, NEW p \in Procs, Select(p)
    PROVE  \E n \in 0..Len(disk) : rows' = [rows EXCEPT ![p] = SubSeq(disk, 1, n)]
<1> DEFINE n == IF Len(disk) < MaxPerRetry THEN Len(disk) ELSE MaxPerRetry
<1>1. Len(disk) \in Nat /\ MaxPerRetry \in Nat
    BY QueueAssumption DEF QueueTypes
<1>2. n \in 0..Len(disk)
    BY <1>1
<1>3. rows' = [rows EXCEPT ![p] = SubSeq(disk, 1, n)]
    BY DEF Select
<1> QED BY <1>2, <1>3

LEMMA TypesKept ==
    ASSUME QueueTypes, \A q \in Procs : Hand(q), QueueStep,
           \A q \in Procs : pc[q] = "delete" => rows[q] # <<>>
    PROVE  QueueTypes'
<1> USE QueueAssumption
<1>1. CASE UNCHANGED queueVars
    BY <1>1 DEF queueVars, QueueTypes, file, ghosts
<1>2. ASSUME NEW p \in Procs, NEW s \in Sizes, ShipBatch(p, s) PROVE QueueTypes'
    <2>1. batches' \in Batches /\ batches' \in 0..MaxBatches
        BY <1>2 DEF ShipBatch, QueueTypes, Batches
    <2>2. incoming' \in [Procs -> 0..MaxBatches]
        BY <1>2, <2>1 DEF ShipBatch, QueueTypes
    <2>3. owner' \in [Batches -> Procs \cup {Free}]
        BY <1>2, <2>1 DEF ShipBatch, QueueTypes
    <2>4. fate' \in [Batches -> Fates]
        BY <1>2, <2>1 DEF ShipBatch, QueueTypes, Fates
    <2>5. pc' \in [Procs -> Places]
        BY <1>2 DEF ShipBatch, Turn, Goto, QueueTypes, Places
    <2> QED BY <1>2, <2>1, <2>2, <2>3, <2>4, <2>5 DEF ShipBatch, QueueTypes, file
<1>3. ASSUME NEW p \in Procs, RetryPending(p) PROVE QueueTypes'
    <2>1. pc' \in [Procs -> Places]
        BY <1>3 DEF RetryPending, Turn, Goto, QueueTypes, Places
    <2> QED BY <1>3, <2>1 DEF RetryPending, QueueTypes, file, ghosts
<1>4. ASSUME NEW p \in Procs, Elapse(p) PROVE QueueTypes'
    BY <1>4 DEF Elapse, QueueTypes, file, ghosts
<1>5. ASSUME NEW p \in Procs, AfterRetry(p) PROVE QueueTypes'
    <2>1. pc' \in [Procs -> Places]
        BY <1>5 DEF AfterRetry, Goto, QueueTypes, Places
    <2> QED BY <1>5, <2>1 DEF AfterRetry, QueueTypes, file, ghosts
<1>6. ASSUME NEW p \in Procs, Select(p) PROVE QueueTypes'
    <2>1. pc' \in [Procs -> Places]
        BY <1>6 DEF Select, Goto, QueueTypes, Places
    <2>2. PICK n \in 0..Len(disk) : rows' = [rows EXCEPT ![p] = SubSeq(disk, 1, n)]
        BY <1>6, SelectSteps
    <2>3. rows' \in [Procs -> Seq(Batches)]
        BY <2>2, SelectAhead DEF QueueTypes
    <2> QED BY <1>6, <2>1, <2>3 DEF Select, QueueTypes, file, ghosts
<1>7. ASSUME NEW p \in Procs, NEW outcome \in Outcomes, ShipRow(p, outcome) PROVE QueueTypes'
    <2>1. Row(p) \in Batches
        BY <1>7, RowIsBatch DEF ShipRow
    <2>2. received' \in [Batches -> Nat]
        BY <1>7, <2>1, InnerTypes DEF ShipRow
    <2>3. CASE outcome \notin Resolved
        BY <1>7, <2>2, <2>3, EndRoundTypes DEF ShipRow, QueueTypes, ghosts
    <2>4. CASE outcome \in Resolved
        <3>1. /\ Goto(p, "delete") /\ rows' = rows /\ deleted' = deleted /\ disk' = disk
              /\ gone' = [gone EXCEPT ![Row(p)] =
                     IF outcome = "rejected" THEN @ \cup {"refused"} ELSE @]
            BY <1>7, <2>4 DEF ShipRow, file
        <3>2. pc' \in [Procs -> Places]
            BY <3>1 DEF Goto, QueueTypes, Places
        <3>3. gone' \in [Batches -> SUBSET {"refused", "undecodable", "evicted"}]
            BY <2>1, <3>1 DEF QueueTypes
        <3>4. incoming' = incoming /\ batches' = batches /\ owner' = owner /\ fate' = fate
            BY <1>7 DEF ShipRow, ghosts
        <3> QED BY <2>2, <3>1, <3>2, <3>3, <3>4 DEF QueueTypes
    <2> QED BY <2>3, <2>4
<1>8. ASSUME NEW p \in Procs, DiscardRow(p) PROVE QueueTypes'
    <2>1. Row(p) \in Batches
        BY <1>8, RowIsBatch DEF DiscardRow
    <2>2. gone' \in [Batches -> SUBSET {"refused", "undecodable", "evicted"}]
        BY <1>8, <2>1 DEF DiscardRow, QueueTypes
    <2>3. pc' \in [Procs -> Places]
        BY <1>8 DEF DiscardRow, Goto, QueueTypes, Places
    <2> QED BY <1>8, <2>2, <2>3 DEF DiscardRow, QueueTypes, file, ghosts
<1>9. ASSUME NEW p \in Procs, DeleteRow(p) PROVE QueueTypes'
    <2>1. Row(p) \in Batches /\ Tail(rows[p]) \in Seq(Batches)
        BY <1>9, RowIsBatch DEF DeleteRow
    <2>2. deleted' \in [Procs -> SUBSET Batches]
        BY <1>9, <2>1 DEF DeleteRow, QueueTypes
    <2>3. rows' \in [Procs -> Seq(Batches)]
        BY <1>9, <2>1 DEF DeleteRow, QueueTypes
    <2>4. pc' \in [Procs -> Places]
        BY <1>9 DEF DeleteRow, Goto, QueueTypes, Places
    <2> QED BY <1>9, <2>2, <2>3, <2>4 DEF DeleteRow, QueueTypes, ghosts
<1>10. ASSUME NEW p \in Procs, DeleteBusy(p) PROVE QueueTypes'
    <2>1. rows' \in [Procs -> Seq(Batches)]
        BY <1>10, EmptyAhead DEF DeleteBusy, QueueTypes
    <2>2. pc' \in [Procs -> Places]
        BY <1>10 DEF DeleteBusy, Goto, QueueTypes, Places
    <2> QED BY <1>10, <2>1, <2>2 DEF DeleteBusy, QueueTypes, file, ghosts
<1>11. ASSUME NEW p \in Procs, RowsDone(p) PROVE QueueTypes'
    BY <1>11, EndRoundTypes DEF RowsDone, QueueTypes, ghosts
<1>12. ASSUME NEW p \in Procs, NEW outcome \in Outcomes, ShipIncoming(p, outcome)
       PROVE  QueueTypes'
    <2>1. incoming[p] \in Batches
        BY <1>12 DEF ShipIncoming, Hand, QueueTypes, Batches, NoBatch
    <2>2. received' \in [Batches -> Nat]
        BY <1>12, <2>1, InnerTypes DEF ShipIncoming
    <2>3. pc' \in [Procs -> Places]
        BY <1>12 DEF ShipIncoming, Goto, QueueTypes, Places
    <2>4. incoming' \in [Procs -> 0..MaxBatches]
        <3>1. incoming' = [incoming EXCEPT ![p] = NoBatch] \/ incoming' = incoming
            BY <1>12 DEF ShipIncoming
        <3>2. NoBatch \in 0..MaxBatches
            BY DEF NoBatch
        <3> QED BY <3>1, <3>2 DEF QueueTypes
    <2>5. fate' \in [Batches -> Fates]
        BY <1>12, <2>1 DEF ShipIncoming, QueueTypes, Resolved, Fates
    <2> QED BY <1>12, <2>2, <2>3, <2>4, <2>5 DEF ShipIncoming, QueueTypes, file, ghosts
<1>13. ASSUME NEW p \in Procs, NEW result \in {"queued", "dropped"}, ShipEnds(p, result),
              incoming[p] \in Batches
       PROVE  /\ incoming' \in [Procs -> 0..MaxBatches]
              /\ fate' \in [Batches -> Fates]
              /\ pc' \in [Procs -> Places]
    <2>1. fate' \in [Batches -> Fates]
        BY <1>13 DEF ShipEnds, QueueTypes, Fates
    <2> QED BY <1>13, <2>1 DEF ShipEnds, QueueTypes, NoBatch, Goto, Places
<1>14. ASSUME NEW p \in Procs, Enqueue(p) PROVE QueueTypes'
    <2>1. incoming[p] # NoBatch /\ incoming[p] \in Batches
        BY <1>14 DEF Enqueue, Hand, QueueTypes, Batches, NoBatch
    <2>2. PICK d \in Seq(Batches) : \E n \in 0..Len(d) :
              /\ disk' = SubSeq(d, n + 1, Len(d))
              /\ gone' = [b \in Batches |-> IF b \in ToSet(SubSeq(d, 1, n))
                                            THEN gone[b] \cup {"evicted"} ELSE gone[b]]
        BY <1>14, <2>1, EnqueueSteps
    <2>3. disk' \in Seq(Batches)
        BY <2>2
    <2>4. gone' \in [Batches -> SUBSET {"refused", "undecodable", "evicted"}]
        BY <2>2 DEF QueueTypes
    <2>5. ShipEnds(p, "queued")
        BY <1>14 DEF Enqueue
    <2> QED BY <1>13, <2>1, <2>3, <2>4, <2>5 DEF ShipEnds, QueueTypes, ghosts
<1>15. ASSUME NEW p \in Procs, EnqueueFails(p) PROVE QueueTypes'
    <2>1. incoming[p] \in Batches
        BY <1>15 DEF EnqueueFails, Hand, QueueTypes, Batches, NoBatch
    <2>2. ShipEnds(p, "dropped") /\ UNCHANGED <<disk, gone>>
        BY <1>15 DEF EnqueueFails
    <2> QED BY <1>13, <2>1, <2>2 DEF ShipEnds, QueueTypes, ghosts
<1>16. ASSUME NEW p \in Procs, Crash(p) PROVE QueueTypes'
    <2>1. pc' \in [Procs -> Places]
        BY <1>16 DEF Crash, Goto, QueueTypes, Places
    <2>2. fate' \in [Batches -> Fates]
        BY <1>16 DEF Crash, QueueTypes, Fates
    <2>3. rows' \in [Procs -> Seq(Batches)]
        BY <1>16, EmptyAhead DEF Crash, QueueTypes
    <2>4. incoming' \in [Procs -> 0..MaxBatches] /\ deleted' \in [Procs -> SUBSET Batches]
        BY <1>16 DEF Crash, QueueTypes, NoBatch
    <2> QED BY <1>16, <2>1, <2>2, <2>3, <2>4 DEF Crash, QueueTypes, ghosts
<1>17. ASSUME NEW p \in Procs, Restart(p) PROVE QueueTypes'
    <2>1. pc' \in [Procs -> Places]
        BY <1>17 DEF Restart, Goto, QueueTypes, Places
    <2> QED BY <1>17, <2>1 DEF Restart, QueueTypes, file, ghosts
<1>18. CASE BackendChanges
    BY <1>18 DEF BackendChanges, QueueTypes, file, ghosts
<1> QED
    BY <1>1, <1>2, <1>3, <1>4, <1>5, <1>6, <1>7, <1>8, <1>9, <1>10, <1>11, <1>12, <1>14,
       <1>15, <1>16, <1>17, <1>18 DEF QueueStep, QueueNext, DrainThread
-----------------------------------------------------------------------------
(* What every step but an INSERT does to the file and to the rounds: rows  *)
(* leave the file only when accounted for, and a round's rows are those it *)
(* had, none, the rest after one accounted for, or a new selection.        *)

FileShrinks ==
    \/ disk' = disk
    \/ /\ \E f : Within(f, disk', disk)
       /\ \A b \in ToSet(disk) : b \in Settled' \/ b \in ToSet(disk')

RowsAdvance(q) ==
    \/ rows'[q] = rows[q]
    \/ rows'[q] = <<>>
    \/ rows[q] # <<>> /\ Head(rows[q]) \in Settled /\ rows'[q] = Tail(rows[q])
    \/ disk' = disk /\ \E n \in 0..Len(disk) : rows'[q] = SubSeq(disk, 1, n)

LEMMA FileAndRoundsKept ==
    ASSUME QueueInv, QueueTypes', Settled \subseteq Settled', Queued' = Queued,
           batches <= batches', FileShrinks, \A q \in Procs : RowsAdvance(q)
    PROVE  /\ File'
           /\ \A q \in Procs : /\ ToSet(rows'[q]) \subseteq Queued'
                               /\ AheadIn(disk', rows'[q], Settled')
<1>1. /\ disk \in Seq(Batches) /\ disk' \in Seq(Batches)
      /\ \A q \in Procs : rows[q] \in Seq(Batches) /\ rows'[q] \in Seq(Batches)
    BY DEF QueueInv, QueueTypes
<1>2. /\ ToSet(disk) \subseteq Queued /\ Distinct(disk) /\ \A b \in Queued : b <= batches
      /\ Queued \subseteq ToSet(disk) \cup Settled
    BY DEF QueueInv, File
<1>3. /\ Distinct(disk') /\ ToSet(disk') \subseteq ToSet(disk)
      /\ \A b \in ToSet(disk) : b \in Settled' \/ b \in ToSet(disk')
    <2>1. CASE disk' = disk
        BY <1>2, <2>1
    <2>2. CASE disk' # disk
        <3>1. PICK f : Within(f, disk', disk)
            BY <2>2 DEF FileShrinks
        <3>2. AheadIn(disk, <<>>, {}) /\ <<>> \in Seq(Batches)
            BY EmptyAhead
        <3> QED BY <1>1, <1>2, <2>2, <3>1, <3>2, WithinKeeps DEF FileShrinks
    <2> QED BY <2>1, <2>2
<1>4. File'
    <2>1. \A b \in Queued' : b <= batches'
        <3>1. Queued \subseteq Batches /\ Batches \subseteq Nat /\ batches \in Nat /\ batches' \in Nat
            BY NoBatchOutside DEF Queued, QueueInv, QueueTypes
        <3> QED BY <1>2, <3>1
    <2>2. Queued' \subseteq ToSet(disk') \cup Settled'
        BY <1>2, <1>3
    <2>3. ToSet(disk') \subseteq Queued'
        BY <1>2, <1>3
    <2> QED BY <1>3, <2>1, <2>2, <2>3 DEF File
<1>5. ASSUME NEW q \in Procs
      PROVE  ToSet(rows'[q]) \subseteq Queued' /\ AheadIn(disk', rows'[q], Settled')
    <2>1. /\ ToSet(rows[q]) \subseteq Queued /\ AheadIn(disk, rows[q], Settled)
          /\ rows[q] \in Seq(Batches) /\ RowsAdvance(q)
        BY <1>1 DEF QueueInv, Round
    <2>2. PICK r \in Seq(Batches) : r = rows'[q]
        BY <1>1
    <2>3. CASE r = <<>>
        BY <2>2, <2>3, EmptyAhead
    <2>4. CASE disk' = disk /\ \E n \in 0..Len(disk) : r = SubSeq(disk, 1, n)
        <3>1. AheadIn(disk, r, Settled') /\ ToSet(r) \subseteq ToSet(disk)
            BY <1>1, <2>4, SelectAhead
        <3> QED BY <1>2, <2>2, <2>4, <3>1
    <2>5. CASE r = rows[q] \/ (rows[q] # <<>> /\ Head(rows[q]) \in Settled /\ r = Tail(rows[q]))
        <3>1. ToSet(r) \subseteq Queued /\ AheadIn(disk, r, Settled)
            BY <1>1, <2>1, <2>5, TailKeeps
        <3>2. AheadIn(disk, r, Settled')
            BY <3>1, MoreSettled
        <3>3. AheadIn(disk', r, Settled')
            <4>1. CASE disk' = disk
                BY <3>2, <4>1
            <4>2. CASE disk' # disk
                <5>1. PICK f : Within(f, disk', disk)
                    BY <4>2 DEF FileShrinks
                <5> QED BY <1>1, <1>2, <3>2, <5>1, WithinKeeps
            <4> QED BY <4>1, <4>2
        <3> QED BY <2>2, <3>1, <3>3
    <2> QED BY <2>1, <2>2, <2>3, <2>4, <2>5 DEF RowsAdvance
<1> QED BY <1>4, <1>5

(* A POST changes what is accounted for in one way: the batch may be.      *)
LEMMA InnerSettles ==
    ASSUME QueueTypes, NEW b \in Batches, NEW outcome, Inner(b, outcome)
    PROVE  /\ \A c \in Batches : received[c] > 0 => received'[c] > 0
           /\ outcome = "delivered" => received'[b] > 0
           /\ \A c \in Batches : received'[c] > 0 => received[c] > 0 \/ c = b
<1>1. received \in [Batches -> Nat] /\ MaxReceived \in Nat \ {0}
    BY QueueAssumption DEF QueueTypes
<1>2. received' = [received EXCEPT ![b] =
           IF outcome \in {"delivered", "lostAnswer"} /\ received[b] < MaxReceived
           THEN received[b] + 1 ELSE received[b]]
    BY DEF Inner
<1>3. \A c \in Batches : c # b => received'[c] = received[c]
    BY <1>1, <1>2
<1>4. /\ received'[b] = IF outcome \in {"delivered", "lostAnswer"} /\ received[b] < MaxReceived
                        THEN received[b] + 1 ELSE received[b]
      /\ received[b] \in Nat
    BY <1>1, <1>2
<1> QED BY <1>1, <1>3, <1>4
-----------------------------------------------------------------------------
(* The inductive step, one lemma for each kind of action.                  *)

LEMMA InvariantFrom ==
    ASSUME QueueInv, QueueTypes', Settled \subseteq Settled', Queued' = Queued,
           batches <= batches', FileShrinks, \A q \in Procs : RowsAdvance(q),
           \A q \in Procs : Hand(q)',
           \A q \in Procs : deleted'[q] \subseteq Settled',
           \A q \in Procs : pc'[q] = "delete" => rows'[q] # <<>> /\ Row(q)' \in Settled'
    PROVE  QueueInv'
<1>1. File' /\ \A q \in Procs : /\ ToSet(rows'[q]) \subseteq Queued'
                                /\ AheadIn(disk', rows'[q], Settled')
    BY FileAndRoundsKept
<1>2. \A q \in Procs : Round(q)'
    BY <1>1 DEF Round
<1> QED BY <1>1, <1>2 DEF QueueInv

(* A step that leaves the file, the rounds and the fates alone.            *)
Still == UNCHANGED <<incoming, rows, deleted, disk, batches, owner, fate, gone, received>>

LEMMA StillKeeps ==
    ASSUME QueueInv, QueueTypes', Still,
           \A q \in Procs : \/ pc'[q] = pc[q]
                            \/ /\ pc'[q] # "delete"
                               /\ pc'[q] \in {"inner", "enqueue"} => incoming[q] # NoBatch
    PROVE  QueueInv'
<1>1. /\ rows' = rows /\ deleted' = deleted /\ disk' = disk /\ fate' = fate /\ gone' = gone
      /\ received' = received /\ incoming' = incoming /\ batches' = batches /\ owner' = owner
    BY DEF Still
<1>2. Settled' = Settled /\ Queued' = Queued
    BY <1>1 DEF Settled, Queued
<1>3. FileShrinks /\ \A q \in Procs : RowsAdvance(q)
    BY <1>1 DEF FileShrinks, RowsAdvance
<1>4. \A q \in Procs : Hand(q) /\ Round(q)
    BY DEF QueueInv
<1>5. \A q \in Procs : Hand(q)'
    BY <1>1, <1>4 DEF Hand
<1>6. \A q \in Procs : deleted'[q] \subseteq Settled'
    BY <1>1, <1>2, <1>4 DEF Round
<1>7. \A q \in Procs : pc'[q] = "delete" => rows'[q] # <<>> /\ Row(q)' \in Settled'
    BY <1>1, <1>2, <1>4 DEF Round, Row
<1>8. batches <= batches'
    BY <1>1 DEF QueueInv, QueueTypes
<1> QED BY <1>2, <1>3, <1>5, <1>6, <1>7, <1>8, InvariantFrom

LEMMA PcMoves ==
    ASSUME QueueTypes, NEW p \in Procs, NEW place, Goto(p, place)
    PROVE  pc'[p] = place /\ \A q \in Procs : q # p => pc'[q] = pc[q]
BY DEF Goto, QueueTypes

LEMMA IdleStepsKeep ==
    ASSUME QueueInv, QueueTypes', NEW p \in Procs,
           RetryPending(p) \/ Elapse(p) \/ AfterRetry(p) \/ Restart(p) \/ BackendChanges
    PROVE  QueueInv'
<1>0. QueueTypes
    BY DEF QueueInv
<1>1. Still
    BY DEF RetryPending, Elapse, AfterRetry, Restart, BackendChanges, Still, file, ghosts
<1>2. \/ pc' = pc \/ Goto(p, "select") \/ Goto(p, "after") \/ Goto(p, "idle")
      \/ Goto(p, "inner") /\ incoming[p] # NoBatch
    BY DEF RetryPending, Turn, Elapse, AfterRetry, Restart, BackendChanges
<1>3. \A q \in Procs : \/ pc'[q] = pc[q]
                       \/ /\ pc'[q] # "delete"
                          /\ pc'[q] \in {"inner", "enqueue"} => incoming[q] # NoBatch
    BY <1>0, <1>2, PcMoves
<1> QED BY <1>1, <1>3, StillKeeps

(* The batch in a process's hands is its own, and pending.                 *)
LEMMA OwnBatch ==
    ASSUME QueueInv, NEW p \in Procs, incoming[p] # NoBatch
    PROVE  /\ incoming[p] \in Batches /\ incoming[p] \notin Queued
           /\ \A q \in Procs : incoming[q] = incoming[p] => q = p
<1>1. \A q \in Procs : Hand(q)
    BY DEF QueueInv
<1>2. incoming[p] \in Batches
    BY DEF QueueInv, QueueTypes, Batches, NoBatch
<1> QED BY <1>1, <1>2 DEF Hand, Queued

(* A thread lets go of its batch, whose fate is known now.                 *)
LEMMA HandEmptied ==
    ASSUME QueueInv, NEW p \in Procs,
           incoming' = [incoming EXCEPT ![p] = NoBatch],
           \A c \in Batches : c # incoming[p] => fate'[c] = fate[c],
           Goto(p, "idle") \/ Goto(p, "down"), owner' = owner, batches' = batches
    PROVE  \A q \in Procs : Hand(q)'
<1>1. QueueTypes /\ \A q \in Procs : Hand(q)
    BY DEF QueueInv
<1>2. Hand(p)'
    <2>1. incoming'[p] = NoBatch
        BY <1>1 DEF QueueTypes
    <2>2. pc'[p] \notin {"inner", "enqueue"}
        BY <1>1, PcMoves
    <2> QED BY <2>1, <2>2 DEF Hand
<1>3. ASSUME NEW q \in Procs, q # p PROVE Hand(q)'
    <2>1. incoming'[q] = incoming[q] /\ pc'[q] = pc[q]
        BY <1>1, <1>3, PcMoves DEF QueueTypes
    <2>2. CASE incoming[q] = NoBatch
        BY <1>1, <2>1, <2>2 DEF Hand
    <2>3. CASE incoming[q] # NoBatch
        <3>1. incoming[q] \in Batches /\ incoming[q] # incoming[p]
            BY <1>3, <2>3, OwnBatch
        <3> QED BY <1>1, <2>1, <3>1 DEF Hand
    <2> QED BY <2>2, <2>3
<1> QED BY <1>2, <1>3

LEMMA ShipBatchKeeps ==
    ASSUME QueueInv, QueueTypes', NEW p \in Procs, NEW s \in Sizes, ShipBatch(p, s)
    PROVE  QueueInv'
<1>0. QueueTypes /\ File /\ \A q \in Procs : Hand(q) /\ Round(q)
    BY DEF QueueInv
<1> DEFINE n == batches + 1
<1>1. /\ n \in Batches /\ batches' = n /\ batches \in Nat /\ MaxBatches \in Nat
      /\ \A q \in Procs : incoming[q] \in Nat /\ (incoming[q] # NoBatch => incoming[q] < n)
    BY <1>0, QueueAssumption DEF ShipBatch, QueueTypes, Batches, Hand
<1>2. /\ owner' = [owner EXCEPT ![n] = p] /\ fate' = [fate EXCEPT ![n] = "pending"]
      /\ incoming' = [incoming EXCEPT ![p] = n]
      /\ rows' = rows /\ deleted' = deleted /\ disk' = disk /\ gone' = gone /\ received' = received
    BY DEF ShipBatch, file
<1>3. n \notin Queued
    BY <1>0, <1>1 DEF File
<1>4. Settled' = Settled /\ Queued' = Queued
    <2>1. fate'[n] = "pending" /\ \A b \in Batches : b # n => fate'[b] = fate[b]
        BY <1>0, <1>1, <1>2 DEF QueueTypes
    <2>2. Queued' = Queued
        BY <1>3, <2>1 DEF Queued
    <2> QED BY <1>2, <2>2 DEF Settled
<1>5. FileShrinks /\ \A q \in Procs : RowsAdvance(q)
    BY <1>2 DEF FileShrinks, RowsAdvance
<1>6. Goto(p, "select") \/ Goto(p, "after")
    BY DEF ShipBatch, Turn
<1>7. ASSUME NEW q \in Procs PROVE Hand(q)'
    <2>1. CASE q = p
        <3>1. incoming'[p] = n /\ owner'[n] = p /\ fate'[n] = "pending"
            BY <1>0, <1>1, <1>2 DEF QueueTypes
        <3>2. pc'[p] \notin {"inner", "enqueue"}
            BY <1>0, <1>6, PcMoves
        <3> QED BY <1>1, <2>1, <3>1, <3>2 DEF Hand, NoBatch
    <2>2. CASE q # p
        <3>1. incoming'[q] = incoming[q] /\ pc'[q] = pc[q]
            BY <1>0, <1>2, <1>6, <2>2, PcMoves DEF QueueTypes
        <3>2. CASE incoming[q] = NoBatch
            BY <1>0, <3>1, <3>2 DEF Hand
        <3>3. CASE incoming[q] # NoBatch
            <4>1. incoming[q] \in Batches /\ incoming[q] # n
                BY <1>1, <3>3, OwnBatch
            <4>2. owner'[incoming[q]] = owner[incoming[q]] /\ fate'[incoming[q]] = fate[incoming[q]]
                BY <1>0, <1>1, <1>2, <4>1 DEF QueueTypes
            <4> QED BY <1>0, <1>1, <3>1, <3>3, <4>2 DEF Hand
        <3> QED BY <3>2, <3>3
    <2> QED BY <2>1, <2>2
<1>8. \A q \in Procs : deleted'[q] \subseteq Settled'
    BY <1>0, <1>2, <1>4 DEF Round
<1>9. \A q \in Procs : pc'[q] = "delete" => rows'[q] # <<>> /\ Row(q)' \in Settled'
    <2>1. \A q \in Procs : pc'[q] = "delete" => pc[q] = "delete"
        BY <1>0, <1>6, PcMoves
    <2> QED BY <1>0, <1>2, <1>4, <2>1 DEF Round, Row
<1>10. batches <= batches'
    BY <1>1
<1> QED BY <1>4, <1>5, <1>7, <1>8, <1>9, <1>10, InvariantFrom

(* A step of a backlog round touches no batch in hand.                     *)
LEMMA HandsRest ==
    ASSUME QueueInv, NEW p \in Procs, NEW place, Goto(p, place),
           place \notin {"inner", "enqueue"}, UNCHANGED <<incoming, owner, fate, batches>>
    PROVE  /\ \A q \in Procs : Hand(q)'
           /\ Queued' = Queued /\ batches <= batches'
<1>1. QueueTypes /\ \A q \in Procs : Hand(q)
    BY DEF QueueInv
<1>2. \A q \in Procs : pc'[q] \in {"inner", "enqueue"} => pc'[q] = pc[q]
    BY <1>1, PcMoves
<1>3. \A q \in Procs : Hand(q)'
    BY <1>1, <1>2 DEF Hand
<1> QED BY <1>1, <1>3 DEF Queued, QueueTypes

LEMMA SelectKeeps ==
    ASSUME QueueInv, QueueTypes', NEW p \in Procs, Select(p)
    PROVE  QueueInv'
<1>0. QueueTypes /\ \A q \in Procs : Hand(q) /\ Round(q)
    BY DEF QueueInv
<1>1. /\ incoming' = incoming /\ owner' = owner /\ fate' = fate /\ batches' = batches
      /\ disk' = disk /\ deleted' = deleted /\ gone' = gone /\ received' = received
      /\ Goto(p, "rows")
    BY DEF Select, file, ghosts
<1>2. (\A q \in Procs : Hand(q)') /\ Queued' = Queued /\ batches <= batches'
    BY <1>1, HandsRest
<1>3. Settled' = Settled
    BY <1>1 DEF Settled
<1>4. PICK n \in 0..Len(disk) : rows' = [rows EXCEPT ![p] = SubSeq(disk, 1, n)]
    BY <1>0, SelectSteps
<1>5. \A q \in Procs : IF q = p THEN rows'[q] = SubSeq(disk, 1, n) ELSE rows'[q] = rows[q]
    BY <1>0, <1>4 DEF QueueTypes
<1>6. FileShrinks /\ \A q \in Procs : RowsAdvance(q)
    BY <1>1, <1>5 DEF FileShrinks, RowsAdvance
<1>7. \A q \in Procs : deleted'[q] \subseteq Settled'
    BY <1>0, <1>1, <1>3 DEF Round
<1>8. \A q \in Procs : pc'[q] = "delete" => q # p /\ pc[q] = "delete"
    BY <1>0, <1>1, PcMoves
<1>9. \A q \in Procs : pc'[q] = "delete" => rows'[q] # <<>> /\ Row(q)' \in Settled'
    BY <1>0, <1>3, <1>5, <1>8 DEF Round, Row
<1> QED BY <1>2, <1>3, <1>6, <1>7, <1>9, InvariantFrom

(* A commit: the rows deleted in the open transaction leave the file.      *)
LEMMA CommitShrinks ==
    ASSUME QueueTypes, Settled \subseteq Settled', NEW D, D \subseteq Settled,
           disk' = Without(disk, D) \/ disk' = disk
    PROVE  FileShrinks
<1>1. disk \in Seq(Batches)
    BY DEF QueueTypes
<1> QED BY <1>1, WithoutWithin DEF FileShrinks

(* The end of a round, whatever ends it: done, a failed row, a busy file,  *)
(* a crash.                                                                *)
LEMMA RoundEnds ==
    ASSUME QueueInv, QueueTypes', NEW p \in Procs,
           Settled \subseteq Settled', Queued' = Queued, batches <= batches',
           \A q \in Procs : Hand(q)',
           rows' = [rows EXCEPT ![p] = <<>>],
           deleted' = deleted \/ deleted' = [deleted EXCEPT ![p] = {}],
           disk' = Without(disk, deleted[p]) \/ disk' = disk,
           Goto(p, "after") \/ Goto(p, "down")
    PROVE  QueueInv'
<1>0. QueueTypes /\ \A q \in Procs : Round(q)
    BY DEF QueueInv
<1>1. FileShrinks
    <2>1. deleted[p] \subseteq Settled
        BY <1>0 DEF Round
    <2> QED BY <1>0, <2>1, CommitShrinks
<1>2. \A q \in Procs : IF q = p THEN rows'[q] = <<>> ELSE rows'[q] = rows[q]
    BY <1>0 DEF QueueTypes
<1>3. \A q \in Procs : RowsAdvance(q)
    BY <1>2 DEF RowsAdvance
<1>4. \A q \in Procs : deleted'[q] \subseteq Settled'
    <2>1. \A q \in Procs : deleted[q] \subseteq Settled /\ deleted'[q] \subseteq deleted[q]
        BY <1>0 DEF Round, QueueTypes
    <2> QED BY <2>1
<1>5. \A q \in Procs : pc'[q] = "delete" => q # p /\ pc[q] = "delete"
    BY <1>0, PcMoves
<1>6. \A q \in Procs : pc'[q] = "delete" => rows'[q] # <<>> /\ Row(q)' \in Settled'
    BY <1>0, <1>2, <1>5 DEF Round, Row
<1> QED BY <1>1, <1>3, <1>4, <1>6, InvariantFrom

LEMMA BusyOrDoneKeeps ==
    ASSUME QueueInv, QueueTypes', NEW p \in Procs, DeleteBusy(p) \/ RowsDone(p)
    PROVE  QueueInv'
<1>1. /\ incoming' = incoming /\ owner' = owner /\ fate' = fate /\ batches' = batches
      /\ gone' = gone /\ received' = received /\ Goto(p, "after")
    BY DEF DeleteBusy, RowsDone, EndRound, ghosts
<1>2. (\A q \in Procs : Hand(q)') /\ Queued' = Queued /\ batches <= batches'
    BY <1>1, HandsRest
<1>3. Settled' = Settled
    BY <1>1 DEF Settled
<1>4. /\ rows' = [rows EXCEPT ![p] = <<>>]
      /\ deleted' = deleted \/ deleted' = [deleted EXCEPT ![p] = {}]
      /\ disk' = Without(disk, deleted[p]) \/ disk' = disk
    BY DEF DeleteBusy, RowsDone, EndRound, file
<1> QED BY <1>1, <1>2, <1>3, <1>4, RoundEnds

(* A row is accounted for - delivered, refused or discarded - and is the   *)
(* next to be deleted.                                                     *)
LEMMA RowSettledKeeps ==
    ASSUME QueueInv, QueueTypes', NEW p \in Procs, rows[p] # <<>>,
           Settled \subseteq Settled', Row(p) \in Settled', Goto(p, "delete"),
           UNCHANGED <<incoming, owner, fate, batches, rows, deleted, disk>>
    PROVE  QueueInv'
<1>0. QueueTypes /\ \A q \in Procs : Round(q)
    BY DEF QueueInv
<1>1. /\ incoming' = incoming /\ owner' = owner /\ fate' = fate /\ batches' = batches
      /\ rows' = rows /\ deleted' = deleted /\ disk' = disk
    OBVIOUS
<1>2. (\A q \in Procs : Hand(q)') /\ Queued' = Queued /\ batches <= batches'
    BY HandsRest
<1>3. FileShrinks /\ \A q \in Procs : RowsAdvance(q)
    BY <1>1 DEF FileShrinks, RowsAdvance
<1>4. \A q \in Procs : deleted'[q] \subseteq Settled'
    BY <1>0, <1>1 DEF Round
<1>5. \A q \in Procs : pc'[q] = "delete" => q = p \/ pc[q] = "delete"
    BY <1>0, PcMoves
<1>6. \A q \in Procs : pc'[q] = "delete" => rows'[q] # <<>> /\ Row(q)' \in Settled'
    BY <1>0, <1>1, <1>5 DEF Round, Row
<1> QED BY <1>2, <1>3, <1>4, <1>6, InvariantFrom

LEMMA DiscardKeeps ==
    ASSUME QueueInv, QueueTypes', NEW p \in Procs, DiscardRow(p)
    PROVE  QueueInv'
<1>1. QueueTypes /\ Row(p) \in Batches
    BY RowIsBatch DEF QueueInv, DiscardRow
<1>2. /\ gone' = [gone EXCEPT ![Row(p)] = @ \cup {"undecodable"}] /\ received' = received
      /\ rows[p] # <<>> /\ Goto(p, "delete")
    BY DEF DiscardRow
<1>3. Settled \subseteq Settled' /\ Row(p) \in Settled'
    BY <1>1, <1>2 DEF Settled, QueueTypes
<1>4. UNCHANGED <<incoming, owner, fate, batches, rows, deleted, disk>>
    BY DEF DiscardRow, file, ghosts
<1> QED BY <1>2, <1>3, <1>4, RowSettledKeeps

LEMMA ShipRowKeeps ==
    ASSUME QueueInv, QueueTypes', NEW p \in Procs, NEW outcome \in Outcomes, ShipRow(p, outcome)
    PROVE  QueueInv'
<1>1. QueueTypes /\ Row(p) \in Batches /\ rows[p] # <<>> /\ Inner(Row(p), outcome)
    BY RowIsBatch DEF QueueInv, ShipRow
<1>2. /\ \A c \in Batches : received[c] > 0 => received'[c] > 0
      /\ outcome = "delivered" => received'[Row(p)] > 0
    BY <1>1, InnerSettles
<1>3. incoming' = incoming /\ owner' = owner /\ fate' = fate /\ batches' = batches
    BY DEF ShipRow, ghosts
<1>4. CASE outcome \in Resolved
    <2>1. /\ gone' = [gone EXCEPT ![Row(p)] =
                 IF outcome = "rejected" THEN @ \cup {"refused"} ELSE @]
          /\ rows' = rows /\ deleted' = deleted /\ disk' = disk /\ Goto(p, "delete")
        BY <1>4 DEF ShipRow, file
    <2>2. /\ \A c \in Batches : gone[c] \subseteq gone'[c]
          /\ outcome = "rejected" => gone'[Row(p)] # {}
        BY <1>1, <2>1 DEF QueueTypes
    <2>3. Settled \subseteq Settled' /\ Row(p) \in Settled'
        BY <1>1, <1>2, <1>4, <2>2 DEF Settled, Resolved
    <2>4. UNCHANGED <<incoming, owner, fate, batches, rows, deleted, disk>>
        BY <1>3, <2>1
    <2> QED BY <1>1, <2>1, <2>3, <2>4, RowSettledKeeps
<1>5. CASE outcome \notin Resolved
    <2>1. EndRound(p) /\ gone' = gone
        BY <1>5 DEF ShipRow
    <2>2. /\ rows' = [rows EXCEPT ![p] = <<>>] /\ deleted' = [deleted EXCEPT ![p] = {}]
          /\ disk' = Without(disk, deleted[p]) /\ Goto(p, "after")
        BY <2>1 DEF EndRound
    <2>3. Settled \subseteq Settled'
        BY <1>2, <2>1 DEF Settled
    <2>4. (\A q \in Procs : Hand(q)') /\ Queued' = Queued /\ batches <= batches'
        BY <1>3, <2>2, HandsRest
    <2> QED BY <2>2, <2>3, <2>4, RoundEnds
<1> QED BY <1>4, <1>5

LEMMA DeleteKeeps ==
    ASSUME QueueInv, QueueTypes', NEW p \in Procs, DeleteRow(p)
    PROVE  QueueInv'
<1>0. QueueTypes /\ \A q \in Procs : Round(q)
    BY DEF QueueInv
<1>1. /\ incoming' = incoming /\ owner' = owner /\ fate' = fate /\ batches' = batches
      /\ disk' = disk /\ gone' = gone /\ received' = received /\ Goto(p, "rows")
      /\ deleted' = [deleted EXCEPT ![p] = @ \cup {Row(p)}]
      /\ rows' = [rows EXCEPT ![p] = Tail(@)] /\ pc[p] = "delete"
    BY DEF DeleteRow, ghosts
<1>2. (\A q \in Procs : Hand(q)') /\ Queued' = Queued /\ batches <= batches'
    BY <1>1, HandsRest
<1>3. Settled' = Settled
    BY <1>1 DEF Settled
<1>4. rows[p] # <<>> /\ Row(p) \in Settled
    BY <1>0, <1>1 DEF Round
<1>5. \A q \in Procs : IF q = p THEN rows'[q] = Tail(rows[q]) ELSE rows'[q] = rows[q]
    BY <1>0, <1>1 DEF QueueTypes
<1>6. FileShrinks /\ \A q \in Procs : RowsAdvance(q)
    BY <1>1, <1>4, <1>5 DEF FileShrinks, RowsAdvance, Row
<1>7. \A q \in Procs : deleted'[q] \subseteq Settled'
    <2>1. \A q \in Procs : deleted'[q] \subseteq deleted[q] \cup {Row(p)}
        BY <1>0, <1>1 DEF QueueTypes
    <2> QED BY <1>0, <1>3, <1>4, <2>1 DEF Round
<1>8. \A q \in Procs : pc'[q] = "delete" => q # p /\ pc[q] = "delete"
    BY <1>0, <1>1, PcMoves
<1>9. \A q \in Procs : pc'[q] = "delete" => rows'[q] # <<>> /\ Row(q)' \in Settled'
    BY <1>0, <1>3, <1>5, <1>8 DEF Round, Row
<1> QED BY <1>2, <1>3, <1>6, <1>7, <1>9, InvariantFrom

LEMMA CrashKeeps ==
    ASSUME QueueInv, QueueTypes', NEW p \in Procs, Crash(p)
    PROVE  QueueInv'
<1>0. QueueTypes
    BY DEF QueueInv
<1>1. /\ incoming' = [incoming EXCEPT ![p] = NoBatch]
      /\ \A c \in Batches : fate'[c] = IF c = incoming[p] THEN "lost" ELSE fate[c]
      /\ rows' = [rows EXCEPT ![p] = <<>>] /\ deleted' = [deleted EXCEPT ![p] = {}]
      /\ disk' = disk /\ gone' = gone /\ received' = received
      /\ owner' = owner /\ batches' = batches /\ Goto(p, "down")
    BY DEF Crash, ghosts
<1>2. Settled' = Settled
    BY <1>1 DEF Settled
<1>3. Queued' = Queued
    <2>1. incoming[p] \notin Queued
        BY OwnBatch, NoBatchOutside DEF Queued
    <2> QED BY <1>1, <2>1 DEF Queued
<1>4. \A q \in Procs : Hand(q)'
    <2>1. CASE incoming[p] # NoBatch
        BY <1>1, HandEmptied
    <2>2. CASE incoming[p] = NoBatch
        <3>1. \A c \in Batches : fate'[c] = fate[c]
            BY <1>1, <2>2, NoBatchOutside
        <3>2. incoming' = incoming
            BY <1>0, <1>1, <2>2 DEF QueueTypes
        <3>3. \A q \in Procs : pc'[q] \in {"inner", "enqueue"} => pc'[q] = pc[q]
            BY <1>0, <1>1, PcMoves
        <3>4. ASSUME NEW q \in Procs PROVE Hand(q)'
            <4>1. Hand(q) /\ (incoming[q] # NoBatch => incoming[q] \in Batches)
                BY OwnBatch DEF QueueInv
            <4> QED BY <1>1, <3>1, <3>2, <3>3, <4>1 DEF Hand
        <3> QED BY <3>4
    <2> QED BY <2>1, <2>2
<1>5. batches <= batches'
    BY <1>0, <1>1 DEF QueueTypes
<1> QED BY <1>1, <1>2, <1>3, <1>4, <1>5, RoundEnds

(* The rest of ship(): the POST of the batch itself, and what follows when *)
(* it fails.                                                               *)
LEMMA FateUnqueued ==
    ASSUME QueueInv, NEW p \in Procs, incoming[p] # NoBatch, NEW end, end # "queued",
           fate' = [fate EXCEPT ![incoming[p]] = end]
    PROVE  /\ Queued' = Queued
           /\ \A c \in Batches : fate'[c] = IF c = incoming[p] THEN end ELSE fate[c]
<1>1. incoming[p] \in Batches /\ incoming[p] \notin Queued
    BY OwnBatch
<1>2. \A c \in Batches : fate'[c] = IF c = incoming[p] THEN end ELSE fate[c]
    BY <1>1 DEF QueueInv, QueueTypes
<1> QED BY <1>1, <1>2 DEF Queued

LEMMA ShipLeavesFile ==
    ASSUME QueueInv, QueueTypes', NEW p \in Procs, Settled \subseteq Settled', Queued' = Queued,
           \A q \in Procs : Hand(q)',
           UNCHANGED <<rows, deleted, disk, batches>>, NEW place, Goto(p, place), place # "delete"
    PROVE  QueueInv'
<1>0. QueueTypes /\ \A q \in Procs : Round(q)
    BY DEF QueueInv
<1>1. rows' = rows /\ deleted' = deleted /\ disk' = disk /\ batches' = batches
    OBVIOUS
<1>2. FileShrinks /\ (\A q \in Procs : RowsAdvance(q)) /\ batches <= batches'
    BY <1>0, <1>1 DEF FileShrinks, RowsAdvance, QueueTypes
<1>3. \A q \in Procs : deleted'[q] \subseteq Settled'
    BY <1>0, <1>1 DEF Round
<1>4. \A q \in Procs : pc'[q] = "delete" => pc[q] = "delete"
    BY <1>0, PcMoves
<1>5. \A q \in Procs : pc'[q] = "delete" => rows'[q] # <<>> /\ Row(q)' \in Settled'
    BY <1>0, <1>1, <1>4 DEF Round, Row
<1> QED BY <1>2, <1>3, <1>5, InvariantFrom

LEMMA ShipIncomingKeeps ==
    ASSUME QueueInv, QueueTypes', NEW p \in Procs, NEW outcome \in Outcomes,
           ShipIncoming(p, outcome)
    PROVE  QueueInv'
<1>0. QueueTypes /\ \A q \in Procs : Hand(q)
    BY DEF QueueInv
<1>1. incoming[p] # NoBatch
    BY <1>0 DEF ShipIncoming, Hand
<1>2. incoming[p] \in Batches
    BY <1>1, OwnBatch
<1>3. /\ rows' = rows /\ deleted' = deleted /\ disk' = disk /\ gone' = gone
      /\ owner' = owner /\ batches' = batches /\ Inner(incoming[p], outcome)
    BY DEF ShipIncoming, file, ghosts
<1>4. Settled \subseteq Settled'
    BY <1>0, <1>2, <1>3, InnerSettles DEF Settled
<1>5. CASE outcome \in Resolved
    <2>1. /\ Goto(p, "idle") /\ incoming' = [incoming EXCEPT ![p] = NoBatch]
          /\ fate' = [fate EXCEPT ![incoming[p]] = outcome]
        BY <1>5 DEF ShipIncoming
    <2>2. outcome \in Fates /\ outcome # "queued"
        BY <1>5 DEF Resolved, Fates
    <2>3. /\ Queued' = Queued
          /\ \A c \in Batches : fate'[c] = IF c = incoming[p] THEN outcome ELSE fate[c]
        BY <1>1, <2>1, <2>2, FateUnqueued
    <2>4. \A q \in Procs : Hand(q)'
        BY <1>3, <2>1, <2>3, HandEmptied
    <2> QED BY <1>3, <1>4, <2>1, <2>3, <2>4, ShipLeavesFile
<1>6. CASE outcome \notin Resolved
    <2>1. Goto(p, "enqueue") /\ incoming' = incoming /\ fate' = fate
        BY <1>6 DEF ShipIncoming
    <2>2. pc'[p] = "enqueue" /\ \A q \in Procs : q # p => pc'[q] = pc[q]
        BY <1>0, <2>1, PcMoves
    <2>3. \A q \in Procs : Hand(q)'
        BY <1>0, <1>1, <1>3, <2>1, <2>2 DEF Hand
    <2>4. Queued' = Queued
        BY <2>1 DEF Queued
    <2> QED BY <1>3, <1>4, <2>1, <2>3, <2>4, ShipLeavesFile
<1> QED BY <1>5, <1>6

LEMMA EnqueueFailsKeeps ==
    ASSUME QueueInv, QueueTypes', NEW p \in Procs, EnqueueFails(p)
    PROVE  QueueInv'
<1>1. incoming[p] # NoBatch
    BY DEF EnqueueFails, Hand, QueueInv
<1>2. /\ rows' = rows /\ deleted' = deleted /\ disk' = disk /\ gone' = gone
      /\ received' = received /\ owner' = owner /\ batches' = batches /\ Goto(p, "idle")
      /\ incoming' = [incoming EXCEPT ![p] = NoBatch]
      /\ fate' = [fate EXCEPT ![incoming[p]] = "dropped"]
    BY DEF EnqueueFails, ShipEnds, ghosts
<1>3. Settled' = Settled
    BY <1>2 DEF Settled
<1>4. /\ Queued' = Queued
      /\ \A c \in Batches : fate'[c] = IF c = incoming[p] THEN "dropped" ELSE fate[c]
    BY <1>1, <1>2, FateUnqueued
<1>5. \A q \in Procs : Hand(q)'
    BY <1>2, <1>4, HandEmptied
<1> QED BY <1>2, <1>3, <1>4, <1>5, ShipLeavesFile

LEMMA EnqueueKeeps ==
    ASSUME QueueInv, QueueTypes', NEW p \in Procs, Enqueue(p)
    PROVE  QueueInv'
<1>0. QueueTypes /\ File /\ \A q \in Procs : Hand(q) /\ Round(q)
    BY DEF QueueInv
<1>1. incoming[p] # NoBatch
    BY <1>0 DEF Enqueue, Hand
<1>2. PICK b \in Batches : b = incoming[p] /\ b \notin Queued
    BY <1>1, OwnBatch
<1>3. /\ rows' = rows /\ deleted' = deleted /\ received' = received
      /\ owner' = owner /\ batches' = batches /\ Goto(p, "idle")
      /\ incoming' = [incoming EXCEPT ![p] = NoBatch]
      /\ fate' = [fate EXCEPT ![b] = "queued"]
    BY <1>2 DEF Enqueue, ShipEnds, ghosts
<1>4. PICK d \in Seq(Batches) : \E n \in 0..Len(d) :
          /\ d = Append(disk, b)
          /\ disk' = SubSeq(d, n + 1, Len(d))
          /\ gone' = [c \in Batches |-> IF c \in ToSet(SubSeq(d, 1, n))
                                        THEN gone[c] \cup {"evicted"} ELSE gone[c]]
    BY <1>0, <1>1, <1>2, EnqueueSteps
<1>5. PICK n \in 0..Len(d) :
          /\ d = Append(disk, b)
          /\ disk' = SubSeq(d, n + 1, Len(d))
          /\ gone' = [c \in Batches |-> IF c \in ToSet(SubSeq(d, 1, n))
                                        THEN gone[c] \cup {"evicted"} ELSE gone[c]]
    BY <1>4
<1>6. \A c \in Batches : fate'[c] = IF c = b THEN "queued" ELSE fate[c]
    BY <1>0, <1>3 DEF QueueTypes
<1>7. Queued' = Queued \cup {b}
    BY <1>6 DEF Queued
<1>8. /\ Settled \subseteq Settled'
      /\ \A c \in Batches : c \in ToSet(SubSeq(d, 1, n)) => c \in Settled'
    <2>1. \A c \in Batches : /\ gone[c] \subseteq gone'[c]
                             /\ c \in ToSet(SubSeq(d, 1, n)) => gone'[c] # {}
        BY <1>5
    <2> QED BY <1>3, <2>1 DEF Settled
<1>9. disk \in Seq(Batches) /\ disk' \in Seq(Batches) /\ \A q \in Procs : rows[q] \in Seq(Batches)
    BY <1>0 DEF QueueTypes
<1>10. b \notin ToSet(disk) /\ \A q \in Procs : b \notin ToSet(rows[q])
    BY <1>0, <1>2 DEF File, Round
<1>11. ASSUME NEW q \in Procs PROVE Distinct(d) /\ AheadIn(d, rows[q], Settled)
    <2>1. Distinct(disk) /\ AheadIn(disk, rows[q], Settled)
        BY <1>0 DEF File, Round
    <2> QED BY <1>5, <1>9, <1>10, <2>1, AppendKeeps
<1>12. PICK f : Within(f, disk', d)
    BY <1>5, CutWithin
<1>13. \A x \in ToSet(d) : x \in ToSet(SubSeq(d, 1, n)) \/ x \in ToSet(disk')
    BY <1>5, CutWithin
<1>14. /\ \A x \in ToSet(disk) : x \in ToSet(d)
       /\ b \in ToSet(d) /\ ToSet(d) \subseteq ToSet(disk) \cup {b} /\ ToSet(d) \subseteq Batches
    <2>1. /\ Len(disk) \in Nat /\ Len(d) = Len(disk) + 1 /\ d[Len(disk) + 1] = b
          /\ \A i \in 1..Len(disk) : d[i] = disk[i]
        BY <1>5, <1>9
    <2>2. ASSUME NEW x \in ToSet(disk) PROVE x \in ToSet(d)
        <3>1. PICK i \in 1..Len(disk) : disk[i] = x
            BY <1>9, InToSet
        <3>2. i \in 1..Len(d) /\ d[i] = x
            BY <2>1, <3>1
        <3> QED BY <3>2, InToSet
    <2>3. b \in ToSet(d)
        <3>1. Len(disk) + 1 \in 1..Len(d)
            BY <2>1
        <3> QED BY <2>1, <3>1, InToSet
    <2>4. ASSUME NEW x \in ToSet(d) PROVE x \in ToSet(disk) \cup {b}
        <3>1. PICK i \in 1..Len(d) : d[i] = x
            BY InToSet
        <3>2. CASE i = Len(disk) + 1
            BY <2>1, <3>1, <3>2
        <3>3. CASE i # Len(disk) + 1
            <4>1. i \in 1..Len(disk) /\ disk[i] = x
                BY <2>1, <3>1, <3>3
            <4> QED BY <1>9, <4>1, InToSet
        <3> QED BY <3>2, <3>3
    <2>5. ToSet(d) \subseteq Batches
        BY InToSet
    <2> QED BY <2>2, <2>3, <2>4, <2>5
<1>15. ASSUME NEW q \in Procs
       PROVE  Distinct(disk') /\ AheadIn(disk', rows[q], Settled') /\ ToSet(disk') \subseteq ToSet(d)
    <2>1. /\ Distinct(disk') /\ AheadIn(disk', rows[q], Settled)
          /\ ToSet(disk') \subseteq ToSet(d)
        BY <1>9, <1>11, <1>12, WithinKeeps
    <2> QED BY <1>8, <2>1, MoreSettled
<1>16. File'
    <2>1. ToSet(disk') \subseteq Queued'
        BY <1>0, <1>7, <1>14, <1>15 DEF File
    <2>2. \A c \in Queued' : c <= batches'
        BY <1>0, <1>1, <1>2, <1>3, <1>7 DEF File, Hand
    <2>3. Queued' \subseteq ToSet(disk') \cup Settled'
        BY <1>0, <1>7, <1>8, <1>13, <1>14 DEF File
    <2> QED BY <1>15, <2>1, <2>2, <2>3 DEF File
<1>17. ASSUME NEW q \in Procs PROVE Round(q)'
    <2>1. deleted'[q] \subseteq Settled' /\ ToSet(rows'[q]) \subseteq Queued'
        BY <1>0, <1>3, <1>7, <1>8 DEF Round
    <2>2. AheadIn(disk', rows'[q], Settled')
        BY <1>3, <1>15
    <2>3. pc'[q] = "delete" => pc[q] = "delete"
        BY <1>0, <1>3, PcMoves
    <2>4. pc'[q] = "delete" => rows'[q] # <<>> /\ Row(q)' \in Settled'
        BY <1>0, <1>3, <1>8, <2>3 DEF Round, Row
    <2> QED BY <2>1, <2>2, <2>4 DEF Round
<1>18. \A q \in Procs : Hand(q)'
    BY <1>2, <1>3, <1>6, HandEmptied
<1> QED BY <1>16, <1>17, <1>18 DEF QueueInv
-----------------------------------------------------------------------------
LEMMA QueueInitEstablishes == QueueInit => QueueInv
<1> SUFFICES ASSUME QueueInit PROVE QueueInv
    OBVIOUS
<1>1. MaxBatches \in Nat /\ Free \notin Procs
    BY QueueAssumption
<1>2. QueueTypes
    BY <1>1, EmptyAhead DEF QueueInit, QueueTypes, Places, Fates, NoBatch
<1>3. Queued = {} /\ Len(disk) = 0
    BY DEF QueueInit, Queued
<1>4. \A p \in Procs : Hand(p)
    BY DEF QueueInit, Hand
<1>5. ASSUME NEW p \in Procs PROVE Round(p)
    <2>1. rows[p] = <<>> /\ deleted[p] = {} /\ pc[p] = "idle"
        BY DEF QueueInit
    <2> QED BY <2>1, EmptyAhead DEF Round
<1>6. File
    BY <1>3, EmptyAhead DEF QueueInit, File, Distinct
<1> QED BY <1>2, <1>4, <1>5, <1>6 DEF QueueInv

LEMMA QueueStepKeeps == QueueInv /\ [QueueNext]_queueVars => QueueInv'
<1> SUFFICES ASSUME QueueInv, [QueueNext]_queueVars PROVE QueueInv'
    OBVIOUS
<1>1. QueueTypes'
    <2>1. QueueTypes /\ (\A q \in Procs : Hand(q))
          /\ \A q \in Procs : pc[q] = "delete" => rows[q] # <<>>
        BY DEF QueueInv, Round
    <2> QED BY <2>1, TypesKept DEF QueueStep
<1>2. CASE UNCHANGED queueVars
    <2>1. Still /\ pc' = pc
        BY <1>2 DEF queueVars, Still, file, ghosts
    <2> QED BY <1>1, <2>1, StillKeeps
<1>3. ASSUME NEW p \in Procs, DrainThread(p) PROVE QueueInv'
    BY <1>1, <1>3, IdleStepsKeep, SelectKeeps, BusyOrDoneKeeps, DiscardKeeps, DeleteKeeps,
       EnqueueKeeps, EnqueueFailsKeeps, ShipRowKeeps, ShipIncomingKeeps DEF DrainThread
<1>4. ASSUME NEW p \in Procs, Elapse(p) \/ Restart(p) PROVE QueueInv'
    BY <1>1, <1>4, IdleStepsKeep
<1>5. ASSUME NEW p \in Procs, Crash(p) PROVE QueueInv'
    BY <1>1, <1>5, CrashKeeps
<1>6. ASSUME NEW p \in Procs, NEW s \in Sizes, ShipBatch(p, s) PROVE QueueInv'
    BY <1>1, <1>6, ShipBatchKeeps
<1>7. CASE BackendChanges
    <2>1. Still /\ pc' = pc
        BY <1>7 DEF BackendChanges, Still, file, ghosts
    <2> QED BY <1>1, <2>1, StillKeeps
<1> QED BY <1>2, <1>3, <1>4, <1>5, <1>6, <1>7 DEF QueueNext

(* The inductive invariant holds of every behaviour.                       *)
THEOREM QueueInvariant == QueueSpec => []QueueInv
<1> QED BY QueueInitEstablishes, QueueStepKeeps, PTL DEF QueueSpec

(* A queued batch stays on the file until it is accounted for, whatever    *)
(* crashes and whoever else works on the file.                             *)
THEOREM QueuedNotLostHolds == QueueSpec => []QueuedNotLost
<1>1. QueueInv => QueuedNotLost
    BY DEF QueueInv, File, QueuedNotLost, OnDisk, Queued, Settled
<1> QED BY QueueInvariant, <1>1, PTL

(* Of the steps that store a batch, only those of a round store a queued   *)
(* one, and they store the first row in hand.                              *)
LEMMA OnlyRowsReceived ==
    ASSUME QueueInv, [QueueNext]_queueVars, NEW b \in Queued, received[b] = 0, received'[b] > 0
    PROVE  \E p \in Procs : rows[p] # <<>> /\ Row(p) = b
<1>0. QueueTypes /\ b \in Batches
    BY DEF QueueInv, Queued
<1>1. received' # received
    BY <1>0
<1>2. CASE \E p \in Procs, outcome \in Outcomes : ShipIncoming(p, outcome)
    <2>1. PICK p \in Procs : \E outcome \in Outcomes : ShipIncoming(p, outcome)
        BY <1>2
    <2>2. PICK outcome \in Outcomes : ShipIncoming(p, outcome)
        BY <2>1
    <2>3. incoming[p] # NoBatch
        BY <2>2 DEF ShipIncoming, QueueInv, Hand
    <2>4. incoming[p] \in Batches /\ incoming[p] # b
        BY <2>3, OwnBatch
    <2> QED BY <1>0, <2>2, <2>4, InnerSettles DEF ShipIncoming
<1>3. CASE \E p \in Procs, outcome \in Outcomes : ShipRow(p, outcome)
    <2>1. PICK p \in Procs : \E outcome \in Outcomes : ShipRow(p, outcome)
        BY <1>3
    <2>2. PICK outcome \in Outcomes : ShipRow(p, outcome)
        BY <2>1
    <2>3. rows[p] # <<>> /\ Row(p) \in Batches
        BY <1>0, <2>2, RowIsBatch DEF ShipRow
    <2> QED BY <1>0, <2>2, <2>3, InnerSettles DEF ShipRow
<1>4. CASE ~\E p \in Procs, outcome \in Outcomes : ShipRow(p, outcome) \/ ShipIncoming(p, outcome)
    <2>1. received' = received
        BY <1>4 DEF queueVars, QueueNext, DrainThread, RetryPending, AfterRetry, Select, DiscardRow,
           DeleteRow, DeleteBusy, RowsDone, Enqueue, EnqueueFails, ShipEnds, Elapse, Crash, Restart,
           ShipBatch, BackendChanges
    <2> QED BY <1>1, <2>1
<1> QED BY <1>2, <1>3, <1>4

(* A backlog row is stored for the first time only when all that lies      *)
(* ahead of it on the file is accounted for.                               *)
THEOREM BacklogInOrderHolds == QueueSpec => BacklogInOrder
<1>1. QueueInv /\ [QueueNext]_queueVars => FirstInOrder
    <2> SUFFICES ASSUME QueueInv, [QueueNext]_queueVars, NEW b \in Batches,
                        fate[b] = "queued", received[b] = 0, received'[b] > 0, OnDisk(b),
                        NEW j \in 1..Len(disk)
                 PROVE  \/ received[disk[j]] > 0 \/ gone[disk[j]] # {}
                        \/ \E k \in 1..j : disk[k] = b
        BY DEF FirstInOrder
    <2>1. b \in Queued
        BY DEF Queued
    <2>2. PICK p \in Procs : rows[p] # <<>> /\ Row(p) = b
        BY <2>1, OnlyRowsReceived
    <2>3. rows[p] \in Seq(Batches) /\ AheadIn(disk, rows[p], Settled)
        BY DEF QueueInv, QueueTypes, Round
    <2>4. 1 \in 1..Len(rows[p]) /\ rows[p][1] = b
        BY <2>2, <2>3 DEF Row
    <2>5. disk[j] \in Settled \/ \E k \in 1..j : disk[k] = b
        BY <2>3, <2>4 DEF AheadIn, OnDisk
    <2> QED BY <2>5 DEF Settled
<1> QED BY QueueInvariant, <1>1, PTL DEF QueueSpec, BacklogInOrder
=============================================================================
