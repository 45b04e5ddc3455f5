---------------------------- MODULE IngestProofs ----------------------------
(***************************************************************************)
(* Proofs about the two ways into the events table.                        *)
(*                                                                         *)
(* IngestPersist, for any number of batches, handlers and faults:          *)
(* Deduplicated is what OneCopyUnlessOverlapped needs to be inductive:     *)
(* what a handler read about the stored ids still holds when it inserts,   *)
(* because a batch that never had two handlers at work has one.            *)
(*                                                                         *)
(* Otlp, for any spans and requests, any limits, buffer and breaker, and   *)
(* any number of faults and restarts, whether or not the store raises: a   *)
(* batch that was answered with 200 is in exactly one place.               *)
(***************************************************************************)
EXTENDS IngestPersist, Otlp, FiniteSetTheorems, TLAPS

(* For a batch of events, an answer of 202, a finding that the ids are     *)
(* stored and an acknowledgement the SDK got are each backed by a committed *)
(* copy; a 401 and a batch the SDK dropped by a key that is looked up.     *)
Backed ==
    /\ \A b \in HasEvents : client[b] = "done" => stored[b] > 0
    /\ \A h \in Handlers :
          (at[h] = "202" /\ h[1] \in HasEvents) \/ already[h] => stored[h[1]] > 0
    /\ \A h \in Handlers : at[h] \in {"auth", "401"} => h[1] \in KeyLookedUp
    /\ \A b \in Batches : client[b] = "dropped" => b \in KeyLookedUp

OneHandler ==
    \A b \in Batches \ overlapped : \A s, t \in Slots :
        at[<<b, s>>] # "none" /\ at[<<b, t>>] # "none" => s = t

Deduplicated ==
    \A b \in HasIds \ overlapped :
        /\ stored[b] =< 1
        /\ \A s \in Slots :
               at[<<b, s>>] = "insert" /\ ~already[<<b, s>>] => stored[b] = 0

IngestInv == IngestTypeOK /\ Backed /\ OneHandler /\ Deduplicated
-----------------------------------------------------------------------------
LEMMA InitSound == Init => IngestInv
<1> SUFFICES ASSUME Init PROVE IngestInv
  OBVIOUS
<1>1. IngestTypeOK
  BY IngestAssumption DEF Init, IngestTypeOK, Places
<1>2. Backed /\ OneHandler /\ Deduplicated
  BY IngestAssumption DEF Init, Backed, OneHandler, Deduplicated, Handlers
<1> QED BY <1>1, <1>2 DEF IngestInv

(* A handler is a batch and a slot.                                        *)
LEMMA HandlerShape ==
    ASSUME NEW h \in Handlers
    PROVE  h[1] \in Batches /\ h[2] \in Slots /\ h = <<h[1], h[2]>>
  BY DEF Handlers

(* A step that only moves a handler to a later place keeps the invariant,  *)
(* as long as it answers 202 for stored batches only, if they have events, *)
(* and 401 only where a key is looked up.                                  *)
LEMMA MoveSound ==
    ASSUME IngestInv, NEW h \in Handlers, NEW place \in Places \ {"none", "insert"},
           at[h] # "none", Goto(h, place),
           place = "202" /\ h[1] \in HasEvents => stored[h[1]] > 0,
           place \in {"auth", "401"} => h[1] \in KeyLookedUp,
           UNCHANGED <<sdk, already, stored, overlapped, db, faults>>,
           evals' \in [Batches -> Nat]
    PROVE  IngestInv'
<1> USE DEF IngestInv, Goto, sdk
<1>1. at' = [at EXCEPT ![h] = place] /\ at \in [Handlers -> Places]
  BY DEF IngestTypeOK
<1>2. \A g \in Handlers : at'[g] = IF g = h THEN place ELSE at[g]
  BY <1>1
<1>3. \A b \in Batches, s \in Slots : <<b, s>> \in Handlers
  BY DEF Handlers
<1>4. IngestTypeOK'
  BY <1>1, <1>2, <1>3 DEF IngestTypeOK
<1>5. Backed'
  BY <1>2 DEF Backed
<1>6. OneHandler'
  BY <1>2, <1>3 DEF OneHandler
<1>7. Deduplicated'
  BY <1>2, <1>3, IngestAssumption DEF Deduplicated
<1> QED BY <1>4, <1>5, <1>6, <1>7

(* So does an insert, confirmed or not: with ids, and no second handler at *)
(* work, nothing was stored between the check and it.                      *)
LEMMA StoreSound ==
    ASSUME IngestInv, NEW h \in Handlers, NEW place \in {"202", "verify"},
           at[h] = "insert", ~already[h], Goto(h, place),
           stored' = [stored EXCEPT ![h[1]] = @ + 1],
           UNCHANGED <<sdk, already, evals, overlapped, db>>,
           faults' \in 0..MaxFaults
    PROVE  IngestInv'
<1> USE DEF IngestInv, Goto, sdk
<1>1. at' = [at EXCEPT ![h] = place] /\ at \in [Handlers -> Places]
  BY DEF IngestTypeOK
<1>2. \A g \in Handlers : at'[g] = IF g = h THEN place ELSE at[g]
  BY <1>1
<1>3. \A b \in Batches, s \in Slots : <<b, s>> \in Handlers
  BY DEF Handlers
<1>4. /\ stored \in [Batches -> Nat] /\ stored' \in [Batches -> Nat]
      /\ \A b \in Batches : stored'[b] = IF b = h[1] THEN stored[b] + 1 ELSE stored[b]
  BY HandlerShape DEF IngestTypeOK
<1>5. IngestTypeOK'
  <2>1. at' \in [Handlers -> Places]
    BY <1>1 DEF Places
  <2> QED BY <1>2, <1>3, <1>4, <2>1 DEF IngestTypeOK
<1>6. Backed'
  <2>1. \A b \in Batches : stored[b] > 0 => stored'[b] > 0
    BY <1>4
  <2>2. stored'[h[1]] > 0
    BY <1>4, HandlerShape
  <2> QED BY <1>2, <2>1, <2>2, HandlerShape DEF Backed
<1>7. OneHandler'
  BY <1>2, <1>3 DEF OneHandler
<1>8. Deduplicated'
  <2> SUFFICES ASSUME NEW b \in HasIds \ overlapped
               PROVE  /\ stored'[b] =< 1
                      /\ \A s \in Slots :
                             at'[<<b, s>>] = "insert" /\ ~already[<<b, s>>]
                             => stored'[b] = 0
    BY DEF Deduplicated
  <2>1. b \in Batches
    BY IngestAssumption
  <2>2. CASE b # h[1]
    <3>1. stored'[b] = stored[b] /\ \A s \in Slots : at'[<<b, s>>] = at[<<b, s>>]
      BY <1>2, <1>3, <1>4, <2>1, <2>2
    <3> QED BY <3>1 DEF Deduplicated
  <2>3. CASE b = h[1]
    <3>1. stored[b] = 0 /\ stored'[b] = 1
      BY <1>4, <2>1, <2>3, HandlerShape DEF Deduplicated
    <3>2. \A s \in Slots : at'[<<b, s>>] # "insert"
      BY <1>2, <1>3, <2>1, <2>3, HandlerShape DEF OneHandler
    <3> QED BY <3>1, <3>2
  <2> QED BY <2>2, <2>3
<1> QED BY <1>5, <1>6, <1>7, <1>8
-----------------------------------------------------------------------------
(* Every step of the SDK, the handlers and the surroundings.               *)
LEMMA NextSound == IngestInv /\ [Next]_vars => IngestInv'
<1> SUFFICES ASSUME IngestInv, [Next]_vars PROVE IngestInv'
  OBVIOUS
<1>1. /\ at \in [Handlers -> Places] /\ stored \in [Batches -> Nat]
      /\ evals \in [Batches -> Nat] /\ MaxFaults \in Nat /\ faults \in Nat
      /\ \A b \in Batches, s \in Slots : <<b, s>> \in Handlers
      /\ HasIds \subseteq Batches /\ HasEvents \subseteq Batches
  BY IngestAssumption DEF IngestInv, IngestTypeOK, Handlers
<1>2. ASSUME NEW b \in Batches, ClientTimeout(b) PROVE IngestInv'
  BY <1>1, <1>2 DEF ClientTimeout, IngestInv, IngestTypeOK, Backed, OneHandler, Deduplicated
<1>3. ASSUME NEW b \in Batches, NEW s \in Slots, Send(b, s) PROVE IngestInv'
  <2>1. PICK place \in {"auth", "evals", "check"} :
            /\ at' = [at EXCEPT ![<<b, s>>] = place]
            /\ place = "auth" => b \in KeyLookedUp
    BY <1>3 DEF Send, Goto, Begin
  <2>2. \A g \in Handlers : at'[g] = IF g = <<b, s>> THEN place ELSE at[g]
    BY <1>1, <2>1
  <2>3. IngestTypeOK'
    <3>1. at' \in [Handlers -> Places]
      BY <1>1, <2>1 DEF Places
    <3> QED BY <1>1, <1>3, <2>1, <2>2, <3>1 DEF Send, IngestInv, IngestTypeOK
  <2>4. Backed'
    <3>1. \A c \in Batches : client'[c] = IF c = b THEN "wait" ELSE client[c]
      BY <1>3 DEF Send, IngestInv, IngestTypeOK
    <3>2. /\ \A g \in Handlers : already'[g] => already[g]
          /\ stored' = stored
      BY <1>1, <1>3 DEF Send, IngestInv, IngestTypeOK
    <3>3. <<b, s>>[1] = b
      OBVIOUS
    <3> QED BY <1>1, <2>1, <2>2, <3>1, <3>2, <3>3 DEF IngestInv, Backed
  <2>5. OneHandler'
    <3> SUFFICES ASSUME NEW c \in Batches \ overlapped', NEW t \in Slots, NEW u \in Slots,
                        at'[<<c, t>>] # "none", at'[<<c, u>>] # "none"
                 PROVE  t = u
      BY DEF OneHandler
    <3>1. c \notin overlapped
      BY <1>3 DEF Send
    <3>2. CASE c # b
      BY <1>1, <2>2, <3>1, <3>2 DEF IngestInv, OneHandler
    <3>3. CASE c = b
      <4>1. \A v \in Slots : at[<<b, v>>] = "none"
        BY <1>3, <3>3 DEF Send
      <4> QED BY <1>1, <2>2, <3>3, <4>1
    <3> QED BY <3>2, <3>3
  <2>6. Deduplicated'
    BY <1>1, <1>3, <2>2 DEF Send, IngestInv, Deduplicated, IngestTypeOK
  <2> QED BY <2>3, <2>4, <2>5, <2>6 DEF IngestInv
<1>3a. ASSUME NEW h \in Handlers, Authenticate(h) PROVE IngestInv'
  <2>1. PICK place \in {"evals", "check", "401"} : Goto(h, place)
    BY <1>3a DEF Authenticate, Begin
  <2>2. at[h] = "auth" /\ h[1] \in KeyLookedUp
    BY <1>3a DEF Authenticate, IngestInv, Backed
  <2>3. place \in Places \ {"none", "insert"} /\ place # "202"
    BY DEF Places
  <2> QED BY <1>1, <1>3a, <2>1, <2>2, <2>3, MoveSound DEF Authenticate
<1>4. ASSUME NEW h \in Handlers, InsertEvals(h) PROVE IngestInv'
  <2>1. evals' \in [Batches -> Nat]
    BY <1>1, <1>4, HandlerShape DEF InsertEvals
  <2>2. PICK place \in {"check", "202"} : Goto(h, place) /\ (place = "202" => h[1] \notin HasEvents)
    BY <1>4 DEF InsertEvals
  <2>3. place \in Places \ {"none", "insert"}
    BY DEF Places
  <2> QED BY <1>4, <2>1, <2>2, <2>3, MoveSound DEF InsertEvals
<1>5. ASSUME NEW h \in Handlers, Check(h) PROVE IngestInv'
  <2>1. CASE db = "down"
    BY <1>1, <1>5, <2>1, MoveSound DEF Check, Places
  <2>2. CASE db = "up"
    <3>1. /\ at[h] = "check" /\ at' = [at EXCEPT ![h] = "insert"]
          /\ already' = [already EXCEPT ![h] = h[1] \in HasIds /\ stored[h[1]] > 0]
          /\ UNCHANGED <<sdk, stored, evals, overlapped, db, faults>>
      BY <1>5, <2>2 DEF Check, Goto
    <3>2. \A g \in Handlers : at'[g] = IF g = h THEN "insert" ELSE at[g]
      BY <1>1, <3>1
    <3>3. already \in [Handlers -> BOOLEAN]
      BY DEF IngestInv, IngestTypeOK
    <3>4. \A g \in Handlers : already'[g] = IF g = h THEN h[1] \in HasIds /\ stored[h[1]] > 0
                                                     ELSE already[g]
      BY <3>1, <3>3
    <3>5. IngestTypeOK'
      <4>1. at' \in [Handlers -> Places] /\ already' \in [Handlers -> BOOLEAN]
        BY <1>1, <3>1, <3>3 DEF Places
      <4> QED BY <1>1, <3>1, <3>2, <4>1 DEF IngestInv, IngestTypeOK, sdk
    <3>6. Backed'
      <4>1. ASSUME NEW g \in Handlers, (at'[g] = "202" /\ g[1] \in HasEvents) \/ already'[g]
            PROVE  stored[g[1]] > 0
        <5>1. CASE g = h /\ at'[g] # "202"
          BY <3>4, <4>1, <5>1
        <5>2. CASE g # h
          BY <3>2, <3>4, <4>1, <5>2 DEF IngestInv, Backed
        <5> QED BY <3>2, <5>1, <5>2
      <4>2. \A g \in Handlers : at'[g] \in {"auth", "401"} => g[1] \in KeyLookedUp
        BY <3>2 DEF IngestInv, Backed
      <4> QED BY <3>1, <4>1, <4>2 DEF IngestInv, Backed, sdk
    <3>7. OneHandler'
      BY <1>1, <3>1, <3>2 DEF IngestInv, OneHandler
    <3>8. Deduplicated'
      <4> SUFFICES ASSUME NEW b \in HasIds \ overlapped, NEW s \in Slots,
                          at'[<<b, s>>] = "insert", ~already'[<<b, s>>]
                   PROVE  stored[b] = 0
        BY <3>1 DEF IngestInv, Deduplicated
      <4>1. CASE h = <<b, s>>
        <5>1. b \in Batches /\ <<b, s>> \in Handlers /\ <<b, s>>[1] = b
          BY <1>1
        <5>2. ~(b \in HasIds /\ stored[b] > 0)
          BY <3>4, <4>1, <5>1, Zenon
        <5>3. stored[b] \in Nat
          BY <1>1, <5>1
        <5> QED BY <5>2, <5>3
      <4>2. CASE h # <<b, s>>
        BY <1>1, <3>2, <3>4, <4>2 DEF IngestInv, Deduplicated
      <4> QED BY <4>1, <4>2
    <3> QED BY <3>5, <3>6, <3>7, <3>8 DEF IngestInv
  <2> QED BY <1>5, <2>1, <2>2 DEF Check
<1>6. ASSUME NEW h \in Handlers, Insert(h) PROVE IngestInv'
  BY <1>6, StoreSound DEF Insert, IngestInv, IngestTypeOK
<1>7. ASSUME NEW h \in Handlers, InsertUnconfirmed(h) PROVE IngestInv'
  <2>1. faults' \in 0..MaxFaults
    BY <1>1, <1>7 DEF InsertUnconfirmed
  <2> QED BY <1>7, <2>1, StoreSound DEF InsertUnconfirmed
<1>8. ASSUME NEW h \in Handlers, InsertNothing(h) PROVE IngestInv'
  BY <1>1, <1>8, MoveSound DEF InsertNothing, Places
<1>9. ASSUME NEW h \in Handlers, Verify(h) PROVE IngestInv'
  <2> DEFINE place == IF AlreadyDurable(h[1]) THEN "202" ELSE "503"
  <2>1. /\ place \in Places \ {"none", "insert"} /\ place \notin {"auth", "401"}
        /\ place = "202" => stored[h[1]] > 0
    BY DEF Places, AlreadyDurable
  <2>2. at[h] # "none" /\ Goto(h, place)
        /\ UNCHANGED <<sdk, already, stored, evals, overlapped, db, faults>>
    BY <1>9 DEF Verify
  <2> HIDE DEF place
  <2> QED BY <1>1, <2>1, <2>2, MoveSound
<1>10. ASSUME NEW h \in Handlers, Reply(h) PROVE IngestInv'
  <2>1. /\ at[h] \in {"202", "401", "503"} /\ at' = [at EXCEPT ![h] = "none"]
        /\ UNCHANGED <<already, stored, evals, overlapped, db, faults>>
    BY <1>10 DEF Reply, Goto
  <2>2. \A g \in Handlers : at'[g] = IF g = h THEN "none" ELSE at[g]
    BY <1>1, <2>1
  <2>3. /\ IngestTypeOK'
        /\ \A b \in HasEvents : client'[b] = "done" => stored[b] > 0
        /\ \A b \in Batches : client'[b] = "dropped" => b \in KeyLookedUp
    <3>1. at' \in [Handlers -> Places]
      BY <1>1, <2>1 DEF Places
    <3>2. CASE client[h[1]] = "wait" /\ current[h[1]] = h[2]
      <4> PICK end \in {"done", "dropped", "hold"} :
              /\ client' = [client EXCEPT ![h[1]] = end]
              /\ current' = [current EXCEPT ![h[1]] = NoSlot]
              /\ end = "done" => at[h] = "202"
              /\ end = "dropped" => at[h] = "401"
        BY <1>10, <2>1, <3>2 DEF Reply, Outcome
      <4>1. /\ client' \in [Batches -> {"hold", "wait", "done", "dropped"}]
            /\ current' \in [Batches -> Slots \cup {NoSlot}]
            /\ \A b \in Batches : /\ client'[b] = IF b = h[1] THEN end ELSE client[b]
                                  /\ current'[b] = IF b = h[1] THEN NoSlot ELSE current[b]
        BY HandlerShape DEF IngestInv, IngestTypeOK
      <4>2. IngestTypeOK'
        BY <1>1, <2>1, <2>2, <3>1, <4>1, HandlerShape DEF IngestInv, IngestTypeOK
      <4>3. HasEvents \subseteq Batches
        BY IngestAssumption
      <4> QED BY <2>1, <4>1, <4>2, <4>3, HandlerShape DEF IngestInv, Backed
    <3>3. CASE ~(client[h[1]] = "wait" /\ current[h[1]] = h[2])
      <4>1. UNCHANGED sdk
        BY <1>10, <3>3 DEF Reply
      <4> QED BY <1>1, <2>1, <2>2, <3>1, <3>3, <4>1, HandlerShape
              DEF IngestInv, IngestTypeOK, Backed, sdk
    <3> QED BY <3>2, <3>3
  <2>4. Backed'
    BY <2>1, <2>2, <2>3 DEF IngestInv, Backed
  <2>5. OneHandler' /\ Deduplicated'
    BY <1>1, <2>1, <2>2 DEF IngestInv, OneHandler, Deduplicated
  <2> QED BY <2>3, <2>4, <2>5 DEF IngestInv
<1>11. CASE Crash
  <2>1. /\ \A h \in Handlers : at'[h] = "none"
        /\ UNCHANGED <<already, stored, evals, overlapped, db>>
    BY <1>11 DEF Crash
  <2>2. IngestTypeOK'
    BY <1>1, <1>11 DEF Crash, IngestInv, IngestTypeOK, Places
  <2>3. Backed'
    <3>1. \A b \in Batches : client'[b] = IF client[b] = "wait" THEN "hold" ELSE client[b]
      BY <1>11 DEF Crash
    <3> QED BY <1>1, <2>1, <3>1 DEF IngestInv, Backed
  <2>4. OneHandler' /\ Deduplicated'
    BY <1>1, <2>1 DEF IngestInv, OneHandler, Deduplicated
  <2> QED BY <2>2, <2>3, <2>4 DEF IngestInv
<1>12. CASE DatabaseChanges
  BY <1>1, <1>12
     DEF DatabaseChanges, IngestInv, IngestTypeOK, Backed, OneHandler, Deduplicated, sdk
<1>13. CASE UNCHANGED vars
  BY <1>13 DEF vars, sdk, IngestInv, IngestTypeOK, Backed, OneHandler, Deduplicated
<1> QED
  BY <1>2, <1>3, <1>4, <1>5, <1>6, <1>7, <1>8, <1>9, <1>10, <1>11, <1>12, <1>13, <1>3a
     DEF Next, Handle

THEOREM IngestInvariant == Spec => []IngestInv
<1> QED BY InitSound, NextSound, PTL DEF Spec

(* The variables keep their types, and an SDK waits only for a handler     *)
(* that is at work.                                                        *)
THEOREM TypeCorrect == Spec => []IngestTypeOK
<1>1. IngestInv => IngestTypeOK
  BY DEF IngestInv
<1> QED BY <1>1, IngestInvariant, PTL

(* 202 is a promise: whatever fails, an answer of 202 to a batch of events *)
(* means that it is stored, and an SDK lets go of one that is not only     *)
(* where its key had to be looked up (and the lookup failed).              *)
THEOREM PromiseHolds == Spec => []PromiseKept
<1>1. IngestInv => PromiseKept
  <2> SUFFICES ASSUME IngestInv PROVE PromiseKept
    OBVIOUS
  <2>1. HasEvents \subseteq Batches
    BY IngestAssumption
  <2>2. ASSUME NEW b \in HasEvents, NEW s \in Slots, at[<<b, s>>] = "202"
        PROVE  stored[b] > 0
    <3>1. <<b, s>> \in Handlers /\ <<b, s>>[1] = b
      BY <2>1 DEF Handlers
    <3> QED BY <2>2, <3>1 DEF IngestInv, Backed
  <2> QED BY <2>1, <2>2 DEF IngestInv, Backed, PromiseKept
<1> QED BY <1>1, IngestInvariant, PTL

(* A batch with ids is stored at most once unless two handlers of it were  *)
(* at work at the same time.                                               *)
THEOREM OneCopyHolds == Spec => []OneCopyUnlessOverlapped
<1>1. IngestInv => OneCopyUnlessOverlapped
  BY DEF IngestInv, Deduplicated, OneCopyUnlessOverlapped
<1> QED BY <1>1, IngestInvariant, PTL
-----------------------------------------------------------------------------
(* Otlp.                                                                   *)
States  == {"none", "arrived", "authorised", "looking", "refused", "shed", "task",
            "inserting", "buffered", "done", "dropped", "unmapped", "swallowed", "lost"}
Answers == {"none", "ok", "retry", "refused", "lost"}
Unanswered == {"none", "arrived", "authorised", "looking"}
Admitted   == {"task", "inserting", "buffered", "done", "dropped", "unmapped", "swallowed",
               "lost"}

OtlpTypes ==
    /\ ended \subseteq Spans /\ sent \in [Requests -> SUBSET Spans]
    /\ state \in [Requests -> States] /\ answer \in [Requests -> Answers]
    /\ inflight \in Nat
    /\ buffer \in Seq(Requests) /\ Len(buffer) <= MaxBatches
    /\ otlpStored \in [Requests -> Nat]
    /\ loop.pc = "retry" => loop.item \in Requests
    /\ loop.pc # "retry" => loop.item = None

Working == {r \in Requests : state[r] \in {"task", "inserting"}}

InBuffer(r) == \E i \in 1..Len(buffer) : buffer[i] = r

(* A buffered request waits once: in the buffer, or in the hands of the    *)
(* maintenance loop.                                                       *)
BufferSound ==
    /\ \A i \in 1..Len(buffer) : state[buffer[i]] = "buffered" /\ buffer[i] # loop.item
    /\ \A i, j \in 1..Len(buffer) : buffer[i] = buffer[j] => i = j
    /\ loop.item \in Requests => state[loop.item] = "buffered"
    /\ \A r \in Requests : state[r] = "buffered" => r = loop.item \/ InBuffer(r)

Fate(r) ==
    /\ state[r] = "none" <=> sent[r] = {}
    /\ state[r] \in Unanswered => answer[r] = "none"
    /\ answer[r] = "ok" => state[r] \in Admitted
    /\ state[r] = "done" => otlpStored[r] > 0 \/ Events(sent[r]) = {}
    /\ state[r] = "swallowed" => ~raises

OtlpInv ==
    /\ OtlpTypes /\ BufferSound
    /\ inflight = Cardinality(Working)
    /\ \A r \in Requests : Fate(r)
-----------------------------------------------------------------------------
LEMMA RequestsFinite ==
    /\ IsFiniteSet(Requests) /\ None \notin Requests /\ Requests \subseteq Nat
    /\ MaxBatches \in Nat /\ MaxBatches > 0
<1>1. MaxRequests \in Nat /\ MaxBatches \in Nat \ {0}
    BY OtlpAssumption
<1> QED BY <1>1, FS_Interval DEF Requests, None

LEMMA OtlpStart == OtlpInit => OtlpInv
<1> SUFFICES ASSUME OtlpInit PROVE OtlpInv
    OBVIOUS
<1>1. buffer = <<>> /\ Len(buffer) = 0 /\ buffer \in Seq(Requests) /\ loop.pc = "sleep" /\ loop.item = None
    BY DEF OtlpInit, Asleep
<1>2. OtlpTypes
    BY <1>1, RequestsFinite DEF OtlpInit, OtlpTypes, States, Answers
<1>3. BufferSound
    BY <1>1, RequestsFinite DEF OtlpInit, BufferSound
<1>4. Working = {}
    BY DEF OtlpInit, Working
<1>5. inflight = Cardinality(Working)
    BY <1>4, FS_EmptySet DEF OtlpInit
<1>6. \A r \in Requests : Fate(r)
    BY DEF OtlpInit, Fate, Unanswered
<1> QED BY <1>2, <1>3, <1>5, <1>6 DEF OtlpInv

(* The number of requests at work, as they come and go.                    *)
LEMMA WorkingSame ==
    ASSUME OtlpInv, inflight' = inflight,
           \A r \in Requests : state'[r] \in {"task", "inserting"}
                               <=> state[r] \in {"task", "inserting"}
    PROVE  inflight' = Cardinality(Working)'
<1>1. Working' = Working
    BY DEF Working
<1> QED BY <1>1 DEF OtlpInv

LEMMA WorkingMore ==
    ASSUME OtlpInv, NEW r \in Requests, inflight' = inflight + 1,
           state[r] \notin {"task", "inserting"}, state' = [state EXCEPT ![r] = "task"]
    PROVE  inflight' = Cardinality(Working)'
<1>1. Working' = Working \cup {r} /\ r \notin Working
    BY DEF Working, OtlpInv, OtlpTypes
<1>2. IsFiniteSet(Working)
    BY RequestsFinite, FS_Subset DEF Working
<1> QED BY <1>1, <1>2, FS_AddElement DEF OtlpInv

LEMMA WorkingLess ==
    ASSUME OtlpInv, NEW r \in Requests, Release,
           state[r] \in {"task", "inserting"}, state'[r] \notin {"task", "inserting"},
           \A q \in Requests \ {r} : state'[q] \in {"task", "inserting"}
                                     <=> state[q] \in {"task", "inserting"}
    PROVE  inflight' = Cardinality(Working)'
<1>1. Working' = Working \ {r} /\ r \in Working
    BY DEF Working
<1>2. IsFiniteSet(Working)
    BY RequestsFinite, FS_Subset DEF Working
<1>3. Cardinality(Working') = Cardinality(Working) - 1 /\ Cardinality(Working) \in Nat
    BY <1>1, <1>2, FS_RemoveElement, FS_CardinalityType
<1>4. Cardinality(Working) # 0
    BY <1>1, <1>2, FS_EmptySet
<1> QED BY <1>3, <1>4 DEF Release, OtlpInv

(* The buffer takes a request, and drops its oldest one if it is full.     *)
LEMMA EnqueueEffect ==
    ASSUME OtlpInv, NEW r \in Requests, ~InBuffer(r), Enqueue(r, "buffered")
    PROVE  \E gone \in SUBSET Requests :
              /\ r \notin gone /\ \A q \in gone : InBuffer(q)
              /\ state' = [q \in Requests |-> IF q \in gone THEN "dropped"
                                              ELSE IF q = r THEN "buffered" ELSE state[q]]
              /\ buffer' \in Seq(Requests) /\ Len(buffer') <= MaxBatches
              /\ \A i, j \in 1..Len(buffer') : buffer'[i] = buffer'[j] => i = j
              /\ \A i \in 1..Len(buffer') :
                     buffer'[i] = r \/ (InBuffer(buffer'[i]) /\ buffer'[i] \notin gone)
              /\ \A q \in Requests : q = r \/ (InBuffer(q) /\ q \notin gone) => InBuffer(q)'
<1>1. /\ buffer \in Seq(Requests) /\ Len(buffer) \in Nat /\ Len(buffer) <= MaxBatches
      /\ \A i \in 1..Len(buffer) : buffer[i] \in Requests /\ buffer[i] # r
      /\ \A i, j \in 1..Len(buffer) : buffer[i] = buffer[j] => i = j
      /\ state \in [Requests -> States]
    BY DEF OtlpInv, OtlpTypes, BufferSound, InBuffer
<1>2. CASE Len(buffer) = MaxBatches
    <2> PICK h : h = Head(buffer)
        OBVIOUS
    <2>1. /\ Len(buffer) > 0 /\ 1 \in 1..Len(buffer) /\ h = buffer[1] /\ h \in Requests /\ h # r
        BY <1>1, <1>2, RequestsFinite
    <2>2. buffer' = Append(Tail(buffer), r) /\ state' = [state EXCEPT ![r] = "buffered", ![h] = "dropped"]
        BY <1>2 DEF Enqueue
    <2> DEFINE rest == Tail(buffer)
    <2>3. /\ rest \in Seq(Requests) /\ Len(rest) = Len(buffer) - 1
          /\ \A i \in 1..Len(rest) : rest[i] = buffer[i + 1]
        BY <1>1, <2>1
    <2> HIDE DEF rest
    <2>4. /\ buffer' \in Seq(Requests) /\ Len(buffer') = Len(buffer)
          /\ \A i \in 1..(Len(buffer) - 1) : buffer'[i] = buffer[i + 1] /\ i + 1 \in 1..Len(buffer)
          /\ buffer'[Len(buffer)] = r
        <3>1. buffer' = Append(rest, r)
            BY <2>2 DEF rest
        <3> QED BY <1>1, <2>1, <2>3, <3>1
    <2>5. state' = [q \in Requests |-> IF q \in {h} THEN "dropped"
                                       ELSE IF q = r THEN "buffered" ELSE state[q]]
        BY <1>1, <2>1, <2>2
    <2>6. \A i, j \in 1..Len(buffer') : buffer'[i] = buffer'[j] => i = j
        <3> SUFFICES ASSUME NEW i \in 1..Len(buffer), NEW j \in 1..Len(buffer), buffer'[i] = buffer'[j]
                     PROVE  i = j
            BY <2>4
        <3>1. CASE i # Len(buffer) /\ j # Len(buffer)
            <4>1. i \in 1..(Len(buffer) - 1) /\ j \in 1..(Len(buffer) - 1)
                BY <1>1, <3>1
            <4>2. buffer[i + 1] = buffer[j + 1] /\ i + 1 \in 1..Len(buffer) /\ j + 1 \in 1..Len(buffer)
                BY <2>4, <4>1
            <4>3. i + 1 = j + 1
                BY <1>1, <4>2
            <4> QED BY <4>1, <4>3
        <3>2. ASSUME NEW k \in 1..Len(buffer), k # Len(buffer) PROVE buffer'[k] # r
            <4>1. k \in 1..(Len(buffer) - 1)
                BY <1>1, <3>2
            <4> QED BY <1>1, <2>4, <4>1
        <3> QED BY <2>4, <3>1, <3>2
    <2>7. ASSUME NEW i \in 1..Len(buffer')
          PROVE  buffer'[i] = r \/ (InBuffer(buffer'[i]) /\ buffer'[i] \notin {h})
        <3>1. CASE i = Len(buffer)
            BY <2>4, <3>1
        <3>2. CASE i # Len(buffer)
            <4>1. i \in 1..(Len(buffer) - 1)
                BY <1>1, <2>4, <3>2
            <4>2. buffer'[i] = buffer[i + 1] /\ i + 1 \in 1..Len(buffer) /\ i + 1 # 1
                BY <2>4, <4>1
            <4> QED BY <1>1, <2>1, <4>2 DEF InBuffer
        <3> QED BY <3>1, <3>2
    <2>8. ASSUME NEW q \in Requests, q = r \/ (InBuffer(q) /\ q \notin {h}) PROVE InBuffer(q)'
        <3>1. CASE q = r
            BY <1>1, <2>1, <2>4, <3>1 DEF InBuffer
        <3>2. CASE q # r
            <4>1. PICK k \in 1..Len(buffer) : buffer[k] = q
                BY <2>8, <3>2 DEF InBuffer
            <4>2. k # 1
                BY <2>1, <2>8, <3>2, <4>1
            <4>3. k - 1 \in 1..(Len(buffer) - 1) /\ k - 1 \in 1..Len(buffer) /\ (k - 1) + 1 = k
                BY <1>1, <4>2
            <4>4. buffer'[k - 1] = q
                BY <2>4, <4>1, <4>3
            <4> QED BY <2>4, <4>3, <4>4 DEF InBuffer
        <3> QED BY <3>1, <3>2
    <2>9. r \notin {h} /\ {h} \in SUBSET Requests /\ \A q \in {h} : InBuffer(q)
        BY <2>1 DEF InBuffer
    <2> QED BY <1>1, <2>4, <2>5, <2>6, <2>7, <2>8, <2>9
<1>3. CASE Len(buffer) # MaxBatches
    <2>1. buffer' = Append(buffer, r) /\ state' = [state EXCEPT ![r] = "buffered"]
        BY <1>3 DEF Enqueue
    <2>2. /\ buffer' \in Seq(Requests) /\ Len(buffer') = Len(buffer) + 1
          /\ \A i \in 1..Len(buffer) : buffer'[i] = buffer[i] /\ i \in 1..Len(buffer')
          /\ buffer'[Len(buffer) + 1] = r
        BY <1>1, <2>1
    <2>3. \A i \in 1..Len(buffer') : i \in 1..Len(buffer) \/ i = Len(buffer) + 1
        BY <1>1, <2>2
    <2>4. Len(buffer') <= MaxBatches
        BY <1>1, <1>3, <2>2, RequestsFinite
    <2>5. \A i, j \in 1..Len(buffer') : buffer'[i] = buffer'[j] => i = j
        BY <1>1, <2>2, <2>3
    <2>6. \A i \in 1..Len(buffer') : buffer'[i] = r \/ InBuffer(buffer'[i])
        BY <2>2, <2>3 DEF InBuffer
    <2>7. \A q \in Requests : q = r \/ InBuffer(q) => InBuffer(q)'
        <3>1. Len(buffer) + 1 \in 1..Len(buffer')
            BY <1>1, <2>2
        <3> QED BY <2>2, <3>1 DEF InBuffer
    <2>8. state' = [q \in Requests |-> IF q \in {} THEN "dropped"
                                       ELSE IF q = r THEN "buffered" ELSE state[q]]
        BY <1>1, <2>1
    <2>9. {} \in SUBSET Requests /\ r \notin {} /\ \A q \in {} : InBuffer(q)
        OBVIOUS
    <2> WITNESS {} \in SUBSET Requests
    <2> QED BY <2>2, <2>4, <2>5, <2>6, <2>7, <2>8, <2>9
<1> QED BY <1>2, <1>3
-----------------------------------------------------------------------------
(* A step that concerns no request.                                        *)
LEMMA NothingMoves ==
    ASSUME OtlpInv, raises' = raises,
           ended' \subseteq Spans, sent' = sent, state' = state, answer' = answer,
           inflight' = inflight, buffer' = buffer, otlpStored' = otlpStored, loop' = loop
    PROVE  OtlpInv'
<1>1. OtlpTypes'
    BY DEF OtlpInv, OtlpTypes
<1>2. BufferSound'
    BY DEF OtlpInv, BufferSound, InBuffer
<1>3. inflight' = Cardinality(Working)'
    BY WorkingSame
<1>4. \A r \in Requests : Fate(r)'
    BY DEF OtlpInv, Fate
<1> QED BY <1>1, <1>2, <1>3, <1>4 DEF OtlpInv

(* A step of one request that leaves the buffer alone.                     *)
LEMMA RequestMoves ==
    ASSUME OtlpInv, NEW r \in Requests, state[r] # "buffered",
           NEW to \in States \ {"buffered"}, state' = [state EXCEPT ![r] = to],
           ended' \subseteq Spans, raises' = raises,
           sent' \in [Requests -> SUBSET Spans], answer' \in [Requests -> Answers],
           otlpStored' \in [Requests -> Nat],
           \A q \in Requests \ {r} : /\ sent'[q] = sent[q] /\ answer'[q] = answer[q]
                                     /\ otlpStored'[q] = otlpStored[q],
           buffer' = buffer, loop' = loop,
           inflight' \in Nat, inflight' = Cardinality(Working)',
           Fate(r)'
    PROVE  OtlpInv'
<1>1. state \in [Requests -> States]
    BY DEF OtlpInv, OtlpTypes
<1>2. OtlpTypes'
    BY <1>1 DEF OtlpInv, OtlpTypes
<1>3. BufferSound'
    <2>1. \A q \in Requests : state'[q] = "buffered" <=> state[q] = "buffered"
        BY <1>1
    <2>2. \A i \in 1..Len(buffer) : buffer[i] \in Requests
        BY DEF OtlpInv, OtlpTypes
    <2> QED BY <2>1, <2>2 DEF OtlpInv, BufferSound, InBuffer
<1>4. ASSUME NEW q \in Requests, q # r PROVE Fate(q)'
    <2>1. state'[q] = state[q] /\ sent'[q] = sent[q] /\ answer'[q] = answer[q]
          /\ otlpStored'[q] = otlpStored[q] /\ Fate(q)
        BY <1>1, <1>4 DEF OtlpInv
    <2> QED BY <2>1 DEF Fate
<1> QED BY <1>2, <1>3, <1>4 DEF OtlpInv

LEMMA ArriveKeeps ==
    ASSUME OtlpInv, NEW r \in Requests, NextRequest(r), NEW batch \in (SUBSET Spans) \ {{}},
           Arrive(r, batch), ended' \subseteq Spans, raises' = raises, answer' = answer,
           inflight' = inflight, buffer' = buffer, otlpStored' = otlpStored, loop' = loop
    PROVE  OtlpInv'
<1>1. /\ state[r] = "none" /\ answer[r] = "none" /\ state \in [Requests -> States]
      /\ answer \in [Requests -> Answers] /\ otlpStored \in [Requests -> Nat]
      /\ sent \in [Requests -> SUBSET Spans] /\ inflight \in Nat
    BY DEF OtlpInv, OtlpTypes, Fate, NextRequest, Unanswered
<1>2. state' = [state EXCEPT ![r] = "arrived"] /\ sent' = [sent EXCEPT ![r] = batch]
    BY DEF Arrive
<1>3. inflight' = Cardinality(Working)'
    BY <1>1, <1>2, WorkingSame
<1>4. Fate(r)'
    BY <1>1, <1>2 DEF Fate, Unanswered
<1> QED BY <1>1, <1>2, <1>3, <1>4, RequestMoves DEF States

LEMMA ExporterKeeps ==
    ASSUME OtlpInv,
           \/ \E s \in Spans : End(s)
           \/ \E r \in Requests : Export(r)
           \/ \E q, r \in Requests : SendAgain(q, r)
    PROVE  OtlpInv'
<1>1. ASSUME NEW s \in Spans, End(s) PROVE OtlpInv'
    <2>1. ended' \subseteq Spans
        BY <1>1 DEF End, OtlpInv, OtlpTypes
    <2> QED BY <1>1, <2>1, NothingMoves DEF End, receiver, limits, persist, setting
<1>2. ASSUME NEW r \in Requests, Export(r) PROVE OtlpInv'
    <2>1. ended \in (SUBSET Spans) \ {{}} /\ ended' \subseteq Spans
        BY <1>2 DEF Export, OtlpInv, OtlpTypes
    <2> QED BY <1>2, <2>1, ArriveKeeps DEF Export, limits, persist, setting
<1>3. ASSUME NEW q \in Requests, NEW r \in Requests, SendAgain(q, r) PROVE OtlpInv'
    <2>1. sent[q] \in (SUBSET Spans) \ {{}} /\ ended' \subseteq Spans
        BY <1>3 DEF SendAgain, OtlpInv, OtlpTypes, Fate, Unanswered
    <2> QED BY <1>3, <2>1, ArriveKeeps DEF SendAgain, limits, persist, setting
<1> QED BY <1>1, <1>2, <1>3
-----------------------------------------------------------------------------
(* The handler and the task it starts.                                     *)
LEMMA RespondEffect ==
    ASSUME NEW r \in Requests, NEW to, NEW code, Respond(r, to, code)
    PROVE  /\ state' = [state EXCEPT ![r] = to]
           /\ answer' = [answer EXCEPT ![r] = code] \/ answer' = [answer EXCEPT ![r] = "lost"]
BY DEF Respond

(* An answer other than 200.                                               *)
LEMMA RefusedKeeps ==
    ASSUME OtlpInv, NEW r \in Requests, state[r] \in Unanswered \ {"none"},
           NEW to \in {"refused", "shed"}, NEW code \in {"refused", "retry", "lost"},
           state' = [state EXCEPT ![r] = to], answer' = [answer EXCEPT ![r] = code],
           ended' = ended, raises' = raises, sent' = sent, inflight' = inflight,
           buffer' = buffer, otlpStored' = otlpStored, loop' = loop
    PROVE  OtlpInv'
<1>1. /\ state \in [Requests -> States] /\ answer \in [Requests -> Answers] /\ Fate(r)
      /\ sent \in [Requests -> SUBSET Spans] /\ otlpStored \in [Requests -> Nat]
      /\ ended \subseteq Spans /\ inflight \in Nat
    BY DEF OtlpInv, OtlpTypes
<1>2. inflight' = Cardinality(Working)'
    BY <1>1, WorkingSame DEF Unanswered
<1>3. Fate(r)'
    BY <1>1 DEF Fate, Unanswered
<1>4. answer' \in [Requests -> Answers] /\ to \in States \ {"buffered"} /\ state[r] # "buffered"
    BY <1>1 DEF Answers, States, Unanswered
<1> QED BY <1>1, <1>2, <1>3, <1>4, RequestMoves

LEMMA AdmitKeeps ==
    ASSUME OtlpInv, NEW r \in Requests, state[r] \in Unanswered \ {"none"},
           Admit(r) \/ Deny(r),
           ended' = ended, raises' = raises, sent' = sent, buffer' = buffer, otlpStored' = otlpStored,
           loop' = loop
    PROVE  OtlpInv'
<1>1. CASE Respond(r, "shed", "retry") /\ inflight' = inflight
    BY <1>1, RespondEffect, RefusedKeeps
<1>2. CASE Respond(r, "refused", "refused") /\ inflight' = inflight
    BY <1>2, RespondEffect, RefusedKeeps
<1>3. CASE Respond(r, "task", "ok") /\ inflight' = inflight + 1
    <2>1. /\ state \in [Requests -> States] /\ answer \in [Requests -> Answers] /\ Fate(r)
          /\ sent \in [Requests -> SUBSET Spans] /\ otlpStored \in [Requests -> Nat]
          /\ ended \subseteq Spans /\ inflight \in Nat
        BY DEF OtlpInv, OtlpTypes
    <2>2. /\ state' = [state EXCEPT ![r] = "task"]
          /\ answer' = [answer EXCEPT ![r] = "ok"] \/ answer' = [answer EXCEPT ![r] = "lost"]
        BY <1>3, RespondEffect
    <2>3. inflight' = Cardinality(Working)'
        BY <1>3, <2>2, WorkingMore DEF Unanswered
    <2>4. Fate(r)'
        BY <2>1, <2>2 DEF Fate, Unanswered, Admitted
    <2>5. /\ answer' \in [Requests -> Answers]
          /\ \A q \in Requests \ {r} : answer'[q] = answer[q]
        BY <2>1, <2>2 DEF Answers
    <2>6. "task" \in States \ {"buffered"} /\ state[r] # "buffered" /\ inflight' \in Nat
        BY <1>3, <2>1 DEF States, Unanswered
    <2> QED BY <2>1, <2>2, <2>3, <2>4, <2>5, <2>6, RequestMoves
<1> QED BY <1>1, <1>2, <1>3 DEF Admit, Deny, limits

(* On the way to an answer: the key is found, the switch is looked up.     *)
LEMMA UnansweredKeeps ==
    ASSUME OtlpInv, NEW r \in Requests, state[r] \in Unanswered \ {"none"},
           NEW to \in {"authorised", "looking"}, state' = [state EXCEPT ![r] = to],
           ended' = ended, raises' = raises, sent' = sent, answer' = answer,
           inflight' = inflight, buffer' = buffer, otlpStored' = otlpStored, loop' = loop
    PROVE  OtlpInv'
<1>1. /\ state \in [Requests -> States] /\ answer \in [Requests -> Answers] /\ Fate(r)
      /\ sent \in [Requests -> SUBSET Spans] /\ otlpStored \in [Requests -> Nat]
      /\ ended \subseteq Spans /\ inflight \in Nat
    BY DEF OtlpInv, OtlpTypes
<1>2. inflight' = Cardinality(Working)'
    BY <1>1, WorkingSame DEF Unanswered
<1>3. Fate(r)'
    BY <1>1 DEF Fate, Unanswered
<1>4. to \in States \ {"buffered"} /\ state[r] # "buffered"
    BY DEF States, Unanswered
<1> QED BY <1>1, <1>2, <1>3, <1>4, RequestMoves

LEMMA HandleKeeps == ASSUME OtlpInv, NEW r \in Requests, HandleSpans(r) PROVE OtlpInv'
<1>1. CASE Refuse(r)
    BY <1>1, RefusedKeeps DEF Refuse, limits, persist, setting, Unanswered
<1>2. CASE Authorise(r)
    <2>1. /\ state[r] \in Unanswered \ {"none"} /\ ended' = ended /\ raises' = raises
          /\ sent' = sent /\ inflight' = inflight /\ buffer' = buffer
          /\ otlpStored' = otlpStored /\ loop' = loop
        BY <1>2 DEF Authorise, limits, persist, setting, Unanswered
    <2>2. CASE trusted \/ up
        BY <1>2, <2>1, <2>2, UnansweredKeeps DEF Authorise
    <2>3. CASE ~(trusted \/ up)
        BY <1>2, <2>1, <2>3, RefusedKeeps DEF Authorise
    <2> QED BY <2>2, <2>3
<1>3. CASE Cached(r)
    BY <1>3, AdmitKeeps DEF Cached, persist, setting, Unanswered
<1>4. CASE Look(r)
    BY <1>4, UnansweredKeeps DEF Look, limits, persist, setting, Unanswered
<1>5. CASE Looked(r)
    BY <1>5, AdmitKeeps DEF Looked, persist, setting, Unanswered
<1> QED BY <1>1, <1>2, <1>3, <1>4, <1>5 DEF HandleSpans

(* Some request goes into the buffer: from a task, or back from the loop.  *)
LEMMA EnqueueKeeps ==
    ASSUME OtlpInv, NEW r \in Requests, ~InBuffer(r), Enqueue(r, "buffered"),
           sent[r] # {}, answer[r] = "ok" => state[r] \in Admitted,
           state[r] \notin Unanswered,
           \/ loop' = loop /\ loop.item # r
           \/ loop.item = r /\ loop'.pc = "flush" /\ loop'.item = None,
           ended' = ended, raises' = raises, sent' = sent, answer' = answer,
           otlpStored' \in [Requests -> Nat],
           \A q \in Requests : otlpStored'[q] >= otlpStored[q],
           \/ state[r] \in {"task", "inserting"} /\ Release
           \/ state[r] = "buffered" /\ inflight' = inflight
    PROVE  OtlpInv'
<1>1. /\ state \in [Requests -> States] /\ answer \in [Requests -> Answers]
      /\ sent \in [Requests -> SUBSET Spans] /\ otlpStored \in [Requests -> Nat]
      /\ ended \subseteq Spans /\ inflight \in Nat /\ buffer \in Seq(Requests)
    BY DEF OtlpInv, OtlpTypes
<1>2. PICK gone \in SUBSET Requests :
          /\ r \notin gone /\ \A q \in gone : InBuffer(q)
          /\ state' = [q \in Requests |-> IF q \in gone THEN "dropped"
                                          ELSE IF q = r THEN "buffered" ELSE state[q]]
          /\ buffer' \in Seq(Requests) /\ Len(buffer') <= MaxBatches
          /\ \A i, j \in 1..Len(buffer') : buffer'[i] = buffer'[j] => i = j
          /\ \A i \in 1..Len(buffer') :
                 buffer'[i] = r \/ (InBuffer(buffer'[i]) /\ buffer'[i] \notin gone)
          /\ \A q \in Requests : q = r \/ (InBuffer(q) /\ q \notin gone) => InBuffer(q)'
    BY EnqueueEffect
<1>3. \A q \in gone : state[q] = "buffered" /\ q # r
    BY <1>2 DEF OtlpInv, BufferSound, InBuffer
<1>4. inflight' = Cardinality(Working)' /\ inflight' \in Nat
    <2>1. \A q \in Requests \ {r} : state'[q] \in {"task", "inserting"}
                                    <=> state[q] \in {"task", "inserting"}
        BY <1>2, <1>3
    <2>2. state'[r] = "buffered"
        BY <1>2
    <2>3. CASE state[r] \in {"task", "inserting"} /\ Release
        <3>1. inflight' = Cardinality(Working)'
            BY <2>1, <2>2, <2>3, WorkingLess
        <3>2. inflight' \in Nat
            BY <1>1, <2>3 DEF Release
        <3> QED BY <3>1, <3>2
    <2>4. CASE state[r] = "buffered" /\ inflight' = inflight
        <3>1. \A q \in Requests : state'[q] \in {"task", "inserting"}
                                  <=> state[q] \in {"task", "inserting"}
            BY <2>1, <2>2, <2>4
        <3> QED BY <1>1, <2>4, <3>1, WorkingSame
    <2> QED BY <2>3, <2>4
<1>5. OtlpTypes'
    <2>1. state' \in [Requests -> States]
        BY <1>1, <1>2 DEF States
    <2>2. /\ loop'.pc = "retry" => loop'.item \in Requests
          /\ loop'.pc # "retry" => loop'.item = None
        <3>1. CASE loop' = loop
            BY <3>1 DEF OtlpInv, OtlpTypes
        <3>2. CASE loop'.pc = "flush" /\ loop'.item = None
            BY <3>2
        <3> QED BY <3>1, <3>2
    <2> QED BY <1>1, <1>2, <1>4, <2>1, <2>2 DEF OtlpTypes
<1>6. BufferSound'
    <2>1. ASSUME NEW i \in 1..Len(buffer')
          PROVE  state'[buffer'[i]] = "buffered" /\ buffer'[i] # loop'.item
        <3>1. buffer'[i] \in Requests /\ buffer'[i] # None
            BY <1>2, RequestsFinite
        <3>2. InBuffer(buffer'[i]) =>
                  state[buffer'[i]] = "buffered" /\ buffer'[i] # loop.item
            BY DEF InBuffer, OtlpInv, BufferSound
        <3> QED BY <1>2, <3>1, <3>2
    <2>2. ASSUME NEW q \in Requests, state'[q] = "buffered"
          PROVE  q = loop'.item \/ InBuffer(q)'
        <3>1. q = r \/ (state[q] = "buffered" /\ q \notin gone)
            BY <1>2, <2>2
        <3>2. q = r \/ q = loop.item \/ (InBuffer(q) /\ q \notin gone)
            BY <3>1 DEF OtlpInv, BufferSound
        <3> QED BY <1>2, <3>2
    <2>3. ASSUME loop'.item \in Requests PROVE state'[loop'.item] = "buffered"
        <3>1. loop' = loop /\ loop.item # r /\ loop.item \in Requests
            BY <2>3, RequestsFinite
        <3>2. state[loop.item] = "buffered" /\ ~InBuffer(loop.item)
            BY <3>1 DEF OtlpInv, BufferSound, InBuffer
        <3> QED BY <1>2, <2>3, <3>1, <3>2
    <2> QED BY <1>2, <2>1, <2>2, <2>3 DEF BufferSound
<1>7. ASSUME NEW q \in Requests PROVE Fate(q)'
    <2>1. Fate(q)
        BY DEF OtlpInv
    <2>2. state'[q] = (IF q \in gone THEN "dropped" ELSE IF q = r THEN "buffered" ELSE state[q])
        BY <1>2
    <2>3. otlpStored'[q] >= otlpStored[q] /\ otlpStored'[q] \in Nat /\ otlpStored[q] \in Nat
        BY <1>1
    <2>4. CASE q \in gone \/ q = r
        <3>1. state'[q] \in {"dropped", "buffered"} /\ state[q] \notin Unanswered
            BY <1>3, <2>2, <2>4 DEF Unanswered
        <3> QED BY <2>1, <3>1 DEF Fate, Unanswered, Admitted
    <2>5. CASE q \notin gone /\ q # r
        <3>1. state'[q] = state[q]
            BY <2>2, <2>5
        <3> QED BY <2>1, <2>3, <3>1 DEF Fate
    <2> QED BY <2>4, <2>5
<1> QED BY <1>4, <1>5, <1>6, <1>7 DEF OtlpInv

(* The request that was being persisted is stored, had nothing to store,   *)
(* cannot be mapped, or failed without the store raising.                  *)
LEMMA EndKeeps ==
    ASSUME OtlpInv, NEW r \in Requests, state[r] \in {"task", "inserting"},
           NEW to \in {"done", "unmapped", "swallowed"}, state' = [state EXCEPT ![r] = to],
           to = "swallowed" => ~raises,
           Release,
           ended' = ended, raises' = raises, sent' = sent, answer' = answer,
           buffer' = buffer, loop' = loop,
           \/ otlpStored' = [otlpStored EXCEPT ![r] = @ + 1]
           \/ otlpStored' = otlpStored /\ (to = "done" => Events(sent[r]) = {})
    PROVE  OtlpInv'
<1>1. /\ state \in [Requests -> States] /\ answer \in [Requests -> Answers] /\ Fate(r)
      /\ sent \in [Requests -> SUBSET Spans] /\ otlpStored \in [Requests -> Nat]
      /\ ended \subseteq Spans /\ inflight \in Nat
    BY DEF OtlpInv, OtlpTypes
<1>2. inflight' = Cardinality(Working)' /\ inflight' \in Nat
    BY <1>1, WorkingLess DEF Release
<1>3. /\ otlpStored' \in [Requests -> Nat]
      /\ to = "done" => otlpStored'[r] > 0 \/ Events(sent[r]) = {}
      /\ \A q \in Requests \ {r} : otlpStored'[q] = otlpStored[q]
    BY <1>1
<1>4. Fate(r)'
    BY <1>1, <1>3 DEF Fate, Unanswered, Admitted
<1>5. to \in States \ {"buffered"} /\ state[r] # "buffered"
    BY DEF States
<1> QED BY <1>1, <1>2, <1>3, <1>4, <1>5, RequestMoves

LEMMA WorkingRequest ==
    ASSUME OtlpInv, NEW r \in Requests, state[r] \in {"task", "inserting"}
    PROVE  ~InBuffer(r) /\ loop.item # r /\ sent[r] # {}
BY DEF OtlpInv, BufferSound, InBuffer, Fate

LEMMA BackgroundKeeps ==
    ASSUME OtlpInv, NEW r \in Requests, Background(r) PROVE OtlpInv'
<1>1. CASE PersistOtlp(r)
    <2>1. /\ state[r] = "task" /\ ended' = ended /\ sent' = sent /\ answer' = answer
          /\ otlpStored' = otlpStored /\ loop' = loop /\ raises' = raises
        BY <1>1 DEF PersistOtlp, setting
    <2>2. CASE Events(sent[r]) = {}
        <3>1. state' = [state EXCEPT ![r] = "done"] /\ Release /\ buffer' = buffer
            BY <1>1, <2>2 DEF PersistOtlp
        <3> QED BY <2>1, <2>2, <3>1, EndKeeps
    <2>3. CASE Events(sent[r]) # {} /\ open
        <3>1. Enqueue(r, "buffered") /\ Release
            BY <1>1, <2>3 DEF PersistOtlp
        <3>2. /\ otlpStored' \in [Requests -> Nat]
              /\ \A q \in Requests : otlpStored'[q] >= otlpStored[q]
            BY <2>1 DEF OtlpInv, OtlpTypes
        <3> QED BY <2>1, <3>1, <3>2, WorkingRequest, EnqueueKeeps DEF Admitted, Unanswered
    <2>4. CASE Events(sent[r]) # {} /\ ~open
        <3>1. state' = [state EXCEPT ![r] = "inserting"] /\ buffer' = buffer /\ inflight' = inflight
            BY <1>1, <2>4 DEF PersistOtlp
        <3>2. inflight' = Cardinality(Working)'
            BY <2>1, <3>1, WorkingSame DEF OtlpInv, OtlpTypes
        <3>3. Fate(r)'
            BY <2>1, <3>1 DEF Fate, OtlpInv, OtlpTypes, Unanswered, Admitted
        <3>4. "inserting" \in States \ {"buffered"} /\ state[r] # "buffered"
            BY <2>1 DEF States
        <3> QED BY <2>1, <3>1, <3>2, <3>3, <3>4, RequestMoves DEF OtlpInv, OtlpTypes
    <2> QED BY <2>2, <2>3, <2>4
<1>2. CASE MappingFails(r)
    BY <1>2, EndKeeps DEF MappingFails, persist, setting
<1>3. CASE Inserted(r)
    BY <1>3, EndKeeps DEF Inserted, Commit, setting
<1>4. CASE InsertFailed(r)
    <2>1. /\ state[r] = "inserting" /\ Release /\ raises' = raises
          /\ ended' = ended /\ sent' = sent /\ answer' = answer /\ loop' = loop
          /\ \/ ~up /\ otlpStored' = otlpStored
             \/ up /\ otlpStored' = [otlpStored EXCEPT ![r] = @ + 1]
        BY <1>4 DEF InsertFailed, Commit, setting
    <2>2. /\ otlpStored' \in [Requests -> Nat]
          /\ \A q \in Requests : otlpStored'[q] >= otlpStored[q]
        <3>1. otlpStored \in [Requests -> Nat]
            BY DEF OtlpInv, OtlpTypes
        <3> QED BY <2>1, <3>1
    <2>3. CASE raises
        <3>1. Enqueue(r, "buffered")
            BY <1>4, <2>3 DEF InsertFailed
        <3> QED BY <2>1, <2>2, <3>1, WorkingRequest, EnqueueKeeps DEF Admitted, Unanswered
    <2>4. CASE ~raises
        <3>1. buffer' = buffer
            BY <1>4, <2>4 DEF InsertFailed
        <3>2. CASE up
            <4>1. state' = [state EXCEPT ![r] = "done"]
                BY <1>4, <2>4, <3>2 DEF InsertFailed
            <4> QED BY <2>1, <3>1, <3>2, <4>1, EndKeeps
        <3>3. CASE ~up
            <4>1. state' = [state EXCEPT ![r] = "swallowed"]
                BY <1>4, <2>4, <3>3 DEF InsertFailed
            <4> QED BY <2>1, <2>4, <3>1, <3>3, <4>1, EndKeeps
        <3> QED BY <3>2, <3>3
    <2> QED BY <2>3, <2>4
<1> QED BY <1>1, <1>2, <1>3, <1>4 DEF Background
-----------------------------------------------------------------------------
(* The maintenance loop.  Its next request is the oldest of the buffer, if *)
(* it has one left to take.                                                *)
LEMMA TakeNextEffect ==
    ASSUME OtlpInv, NEW left, TakeNext(left, buffer)
    PROVE  \/ /\ buffer' = buffer /\ loop'.pc = "flush" /\ loop'.item = None
           \/ /\ Len(buffer) > 0 /\ loop'.pc = "retry" /\ loop'.item = buffer[1]
              /\ buffer' \in Seq(Requests) /\ Len(buffer') = Len(buffer) - 1
              /\ \A i \in 1..Len(buffer') : buffer'[i] = buffer[i + 1] /\ i + 1 \in 1..Len(buffer)
<1>1. buffer \in Seq(Requests) /\ Len(buffer) \in Nat
    BY DEF OtlpInv, OtlpTypes
<1>2. CASE left > 0 /\ buffer # <<>>
    <2>1. buffer' = Tail(buffer) /\ loop'.pc = "retry" /\ loop'.item = Head(buffer)
        BY <1>2 DEF TakeNext
    <2> QED BY <1>1, <1>2, <2>1
<1>3. CASE ~(left > 0 /\ buffer # <<>>)
    BY <1>3 DEF TakeNext, Asleep
<1> QED BY <1>2, <1>3

(* So a round of the loop keeps each request in one place, if the one it   *)
(* had in its hands is done.                                               *)
LEMMA TakeNextKeeps ==
    ASSUME OtlpInv, NEW left, TakeNext(left, buffer),
           state' \in [Requests -> States],
           \A q \in Requests : IF q = loop.item THEN state'[q] # "buffered"
                                                ELSE state'[q] = state[q]
    PROVE  /\ BufferSound' /\ buffer' \in Seq(Requests) /\ Len(buffer') <= MaxBatches
           /\ loop'.pc = "retry" => loop'.item \in Requests
           /\ loop'.pc # "retry" => loop'.item = None
<1>1. /\ buffer \in Seq(Requests) /\ Len(buffer) \in Nat /\ Len(buffer) <= MaxBatches
      /\ \A i \in 1..Len(buffer) : /\ buffer[i] \in Requests /\ state[buffer[i]] = "buffered"
                                   /\ buffer[i] # loop.item
      /\ \A i, j \in 1..Len(buffer) : buffer[i] = buffer[j] => i = j
      /\ \A q \in Requests : state[q] = "buffered" => q = loop.item \/ InBuffer(q)
    BY DEF OtlpInv, OtlpTypes, BufferSound
<1>2. CASE buffer' = buffer /\ loop'.pc = "flush" /\ loop'.item = None
    <2>1. \A i \in 1..Len(buffer) : state'[buffer[i]] = "buffered" /\ buffer[i] # None
        BY <1>1, RequestsFinite
    <2>2. \A q \in Requests : state'[q] = "buffered" => InBuffer(q)
        BY <1>1
    <2>3. BufferSound'
        BY <1>1, <1>2, <2>1, <2>2, RequestsFinite DEF BufferSound, InBuffer
    <2> QED BY <1>1, <1>2, <2>3
<1>3. CASE /\ Len(buffer) > 0 /\ loop'.pc = "retry" /\ loop'.item = buffer[1]
           /\ buffer' \in Seq(Requests) /\ Len(buffer') = Len(buffer) - 1
           /\ \A i \in 1..Len(buffer') : buffer'[i] = buffer[i + 1] /\ i + 1 \in 1..Len(buffer)
    <2>1. 1 \in 1..Len(buffer) /\ Len(buffer') <= MaxBatches
        BY <1>1, <1>3, RequestsFinite
    <2>2. ASSUME NEW i \in 1..Len(buffer')
          PROVE  state'[buffer'[i]] = "buffered" /\ buffer'[i] # buffer[1]
        <3>1. buffer'[i] = buffer[i + 1] /\ i + 1 \in 1..Len(buffer) /\ i + 1 # 1
            BY <1>3
        <3> QED BY <1>1, <2>1, <3>1
    <2>3. ASSUME NEW i \in 1..Len(buffer'), NEW j \in 1..Len(buffer'), buffer'[i] = buffer'[j]
          PROVE  i = j
        <3>1. i + 1 = j + 1
            BY <1>1, <1>3, <2>3
        <3> QED BY <3>1
    <2>4. ASSUME NEW q \in Requests, state'[q] = "buffered"
          PROVE  q = buffer[1] \/ InBuffer(q)'
        <3>1. PICK k \in 1..Len(buffer) : buffer[k] = q
            BY <1>1, <2>4 DEF InBuffer
        <3>2. CASE k # 1
            <4>1. k - 1 \in 1..Len(buffer') /\ (k - 1) + 1 = k
                BY <1>1, <1>3, <3>2
            <4>2. buffer'[k - 1] = q
                BY <1>3, <3>1, <4>1
            <4> QED BY <4>1, <4>2 DEF InBuffer
        <3> QED BY <3>1, <3>2
    <2>5. state'[buffer[1]] = "buffered" /\ buffer[1] \in Requests
        BY <1>1, <2>1
    <2>6. BufferSound'
        BY <1>3, <2>2, <2>3, <2>4, <2>5 DEF BufferSound
    <2> QED BY <1>3, <2>1, <2>5, <2>6
<1> QED BY <1>2, <1>3, TakeNextEffect

LEMMA MaintainKeeps == ASSUME OtlpInv, Maintain PROVE OtlpInv'
<1>1. /\ state \in [Requests -> States] /\ answer \in [Requests -> Answers]
      /\ sent \in [Requests -> SUBSET Spans] /\ otlpStored \in [Requests -> Nat]
      /\ ended \subseteq Spans /\ inflight \in Nat
    BY DEF OtlpInv, OtlpTypes
<1>2. CASE Tick
    <2>1. /\ loop.item \notin Requests /\ TakeNext(Len(buffer), buffer)
          /\ ended' = ended /\ sent' = sent /\ state' = state /\ answer' = answer
          /\ inflight' = inflight /\ otlpStored' = otlpStored /\ raises' = raises
        BY <1>2, RequestsFinite DEF Tick, receiver, limits, setting, OtlpInv, OtlpTypes
    <2>2. /\ BufferSound' /\ buffer' \in Seq(Requests) /\ Len(buffer') <= MaxBatches
          /\ loop'.pc = "retry" => loop'.item \in Requests
          /\ loop'.pc # "retry" => loop'.item = None
        <3>1. \A q \in Requests : q # loop.item /\ state'[q] = state[q]
            BY <2>1
        <3> QED BY <1>1, <2>1, <3>1, TakeNextKeeps
    <2>3. OtlpTypes'
        BY <1>1, <2>1, <2>2 DEF OtlpTypes
    <2>4. inflight' = Cardinality(Working)'
        BY <2>1, WorkingSame
    <2>5. \A r \in Requests : Fate(r)'
        BY <2>1 DEF OtlpInv, Fate
    <2> QED BY <2>2, <2>3, <2>4, <2>5 DEF OtlpInv
<1>3. CASE Retried
    <2> PICK r : r = loop.item
        OBVIOUS
    <2> PICK to : to = IF up THEN "done" ELSE "swallowed"
        OBVIOUS
    <2>1. /\ r \in Requests /\ state[r] = "buffered" /\ TakeNext(loop.left, buffer)
          /\ state' = [state EXCEPT ![r] = to]
          /\ IF up THEN otlpStored' = [otlpStored EXCEPT ![r] = @ + 1]
                   ELSE otlpStored' = [otlpStored EXCEPT ![r] = @] /\ ~raises
          /\ ended' = ended /\ sent' = sent /\ answer' = answer /\ inflight' = inflight
          /\ raises' = raises
        BY <1>3 DEF Retried, limits, setting, OtlpInv, OtlpTypes, BufferSound
    <2>2. state' \in [Requests -> States] /\ otlpStored' \in [Requests -> Nat]
        BY <1>1, <2>1 DEF States
    <2>3. /\ BufferSound' /\ buffer' \in Seq(Requests) /\ Len(buffer') <= MaxBatches
          /\ loop'.pc = "retry" => loop'.item \in Requests
          /\ loop'.pc # "retry" => loop'.item = None
        <3>1. \A q \in Requests : IF q = loop.item THEN state'[q] # "buffered"
                                                   ELSE state'[q] = state[q]
            BY <1>1, <2>1
        <3> QED BY <2>1, <2>2, <3>1, TakeNextKeeps
    <2>4. OtlpTypes'
        BY <1>1, <2>1, <2>2, <2>3 DEF OtlpTypes
    <2>5. inflight' = Cardinality(Working)'
        BY <1>1, <2>1, WorkingSame
    <2>6. ASSUME NEW q \in Requests PROVE Fate(q)'
        <3>1. CASE q = r
            <4>1. state'[q] = to /\ (to = "done" => otlpStored'[q] > 0)
                  /\ (to # "done" => to = "swallowed" /\ ~raises)
                BY <1>1, <2>1, <3>1
            <4> QED BY <2>1, <3>1, <4>1 DEF OtlpInv, Fate, Unanswered, Admitted
        <3>2. CASE q # r
            <4>1. otlpStored'[q] = otlpStored[q] /\ state'[q] = state[q]
                BY <1>1, <2>1, <3>2
            <4> QED BY <2>1, <4>1 DEF OtlpInv, Fate
        <3> QED BY <3>1, <3>2
    <2> QED BY <2>3, <2>4, <2>5, <2>6 DEF OtlpInv
<1>4. CASE RetryFailed
    <2> PICK r : r = loop.item
        OBVIOUS
    <2>1. /\ r \in Requests /\ state[r] = "buffered" /\ ~InBuffer(r) /\ sent[r] # {}
          /\ Enqueue(r, "buffered")
          /\ loop'.pc = "flush" /\ loop'.item = None
          /\ otlpStored' = otlpStored \/ otlpStored' = [otlpStored EXCEPT ![r] = @ + 1]
          /\ ended' = ended /\ sent' = sent /\ answer' = answer /\ inflight' = inflight
          /\ raises' = raises
        BY <1>4 DEF RetryFailed, Commit, Asleep, limits, setting, OtlpInv, OtlpTypes,
                    BufferSound, InBuffer, Fate
    <2>2. /\ otlpStored' \in [Requests -> Nat]
          /\ \A q \in Requests : otlpStored'[q] >= otlpStored[q]
        BY <1>1, <2>1
    <2> QED BY <2>1, <2>2, EnqueueKeeps DEF Admitted, Unanswered
<1>5. CASE Flush
    <2>1. /\ loop.pc = "flush" /\ loop'.pc = "sleep" /\ loop'.item = None
          /\ ended' = ended /\ sent' = sent /\ state' = state /\ answer' = answer
          /\ inflight' = inflight /\ buffer' = buffer /\ otlpStored' = otlpStored
          /\ raises' = raises
        BY <1>5 DEF Flush, Asleep, receiver, limits, setting
    <2>2. OtlpTypes' /\ loop.item = None
        BY <2>1 DEF OtlpInv, OtlpTypes
    <2>3. BufferSound'
        BY <2>1, <2>2 DEF OtlpInv, BufferSound, InBuffer
    <2>4. inflight' = Cardinality(Working)'
        BY <2>1, WorkingSame
    <2>5. \A r \in Requests : Fate(r)'
        BY <2>1 DEF OtlpInv, Fate
    <2> QED BY <2>2, <2>3, <2>4, <2>5 DEF OtlpInv
<1> QED BY <1>2, <1>3, <1>4, <1>5 DEF Maintain

(* A restart empties the process.                                          *)
LEMMA RestartKeeps == ASSUME OtlpInv, Restart PROVE OtlpInv'
<1>1. /\ state \in [Requests -> States] /\ answer \in [Requests -> Answers]
      /\ sent \in [Requests -> SUBSET Spans] /\ otlpStored \in [Requests -> Nat]
      /\ ended \subseteq Spans
    BY DEF OtlpInv, OtlpTypes
<1>2. /\ state' = [r \in Requests |-> IF state[r] \in InMemory THEN "lost" ELSE state[r]]
      /\ answer' = [r \in Requests |->
             IF state[r] \in {"arrived", "authorised", "looking"} THEN "lost" ELSE answer[r]]
      /\ inflight' = 0 /\ buffer' = <<>> /\ loop'.pc = "sleep" /\ loop'.item = None
      /\ ended' = ended /\ sent' = sent /\ otlpStored' = otlpStored /\ raises' = raises
    BY DEF Restart, Asleep, setting
<1>3. Len(<<>>) = 0 /\ <<>> \in Seq(Requests)
    OBVIOUS
<1>4. OtlpTypes'
    BY <1>1, <1>2, <1>3, RequestsFinite DEF OtlpTypes, States, Answers
<1>5. BufferSound'
    BY <1>2, <1>3, RequestsFinite DEF BufferSound, InMemory
<1>6. inflight' = Cardinality(Working)'
    <2>1. Working' = {}
        BY <1>2 DEF Working, InMemory
    <2> QED BY <1>2, <2>1, FS_EmptySet
<1>7. \A r \in Requests : Fate(r)'
    BY <1>1, <1>2 DEF OtlpInv, Fate, InMemory, Unanswered, Admitted
<1> QED BY <1>4, <1>5, <1>6, <1>7 DEF OtlpInv

LEMMA OthersKeep ==
    ASSUME OtlpInv,
           \/ ToggleWrite \/ ToggleAnswered
           \/ Expire \/ Refill \/ Age \/ CloseCircuit \/ Outage \/ Recover
    PROVE  OtlpInv'
<1>1. ended \subseteq Spans
    BY DEF OtlpInv, OtlpTypes
<1> QED BY <1>1, NothingMoves
        DEF ToggleWrite, ToggleAnswered, Expire, Refill, Age, CloseCircuit, Outage, Recover,
            receiver, limits, persist, setting

(* Every request is in one place, the guard counts those at work, and no   *)
(* insert is taken for stored that failed, if the store raises.            *)
THEOREM OtlpInvariant == OtlpSpec => []OtlpInv
<1>1. OtlpInv /\ [OtlpNext]_otlpVars => OtlpInv'
    <2> SUFFICES ASSUME OtlpInv, [OtlpNext]_otlpVars PROVE OtlpInv'
        OBVIOUS
    <2>1. CASE UNCHANGED otlpVars
        BY <2>1, NothingMoves DEF otlpVars, receiver, limits, persist, setting, OtlpInv, OtlpTypes
    <2>2. CASE OtlpNext
        BY <2>2, ExporterKeeps, HandleKeeps, BackgroundKeeps, MaintainKeeps, RestartKeeps,
           OthersKeep DEF OtlpNext
    <2> QED BY <2>1, <2>2
<1> QED BY <1>1, OtlpStart, PTL DEF OtlpSpec

(* A batch answered with 200 is stored, in one place of the process, or    *)
(* gone: as the oldest of a full buffer, because it cannot be mapped, with *)
(* a restart, or with an insert whose failure the store did not raise; and *)
(* no slot of the guard leaks.                                             *)
THEOREM AcceptedKeptHolds == OtlpSpec => []AcceptedKept
<1>1. OtlpInv => AcceptedKept
    <2> SUFFICES ASSUME OtlpInv PROVE AcceptedKept
        OBVIOUS
    <2>1. \A r \in Requests : (\E i \in DOMAIN buffer : buffer[i] = r) <=> InBuffer(r)
        <3>1. DOMAIN buffer = 1..Len(buffer)
            BY DEF OtlpInv, OtlpTypes
        <3> QED BY <3>1 DEF InBuffer
    <2>2. ASSUME NEW r \in Requests, answer[r] = "ok"
          PROVE  \/ otlpStored[r] > 0 \/ Held(r) \/ state[r] \in Forfeit
                 \/ Events(sent[r]) = {}
        <3>1. Fate(r)
            BY DEF OtlpInv
        <3>2. CASE state[r] = "buffered"
            <4>1. r = loop.item \/ InBuffer(r)
                BY <3>2 DEF OtlpInv, BufferSound
            <4>2. ~(r = loop.item /\ InBuffer(r))
                BY DEF OtlpInv, BufferSound, InBuffer
            <4> QED BY <2>1, <3>2, <4>1, <4>2 DEF Held
        <3>3. CASE state[r] # "buffered"
            BY <2>2, <3>1, <3>3 DEF Fate, Held, Forfeit, Admitted
        <3> QED BY <3>2, <3>3
    <2>3. inflight = Cardinality({r \in Requests : state[r] \in {"task", "inserting"}})
        BY DEF OtlpInv, Working
    <2> QED BY <2>2, <2>3 DEF AcceptedKept
<1> QED BY <1>1, OtlpInvariant, PTL
=============================================================================
