-------------------------- MODULE IpcFanoutProofs --------------------------
(***************************************************************************)
(* Proofs about the IPC client: the connected flag of the outbox never     *)
(* outlives the reader thread that watches the connection, nothing is      *)
(* admitted after close, and every accepted publication is delivered,      *)
(* queued or counted, across wrapping counters.                            *)
(***************************************************************************)
EXTENDS IpcFanout, FiniteSetTheorems, WellFoundedInduction, TLAPS

(***************************************************************************)
(* The strengthening: a reader exists only between SpawnReader and         *)
(* JoinReader, so announcing a new connection never meets an old reader.   *)
(***************************************************************************)
ReaderLifetime ==
    worker \in {"connect", "opened", "spawn", "exited"} => reader = "none"

ConnectionInv == ConnectedMeansLiveReader /\ ReaderLifetime

\* No reader and no connection at the start.
LEMMA ConnectionInit == Init => ConnectionInv
BY DEF Init, ConnectionInv, ConnectedMeansLiveReader, ReaderLifetime

\* Every step keeps the flag and the reader's lifetime together.
LEMMA ConnectionStep == ConnectionInv /\ [Next]_vars => ConnectionInv'
<1> SUFFICES ASSUME ConnectionInv, [Next]_vars PROVE ConnectionInv'
  OBVIOUS
<1> USE DEF ConnectionInv, ConnectedMeansLiveReader, ReaderLifetime
<1>1. CASE PublisherStep
  BY <1>1 DEF PublisherStep, Admit, AdmitContended, AdmitLocked, outboxVars
<1>2. CASE WorkerExit \/ Connect \/ SpawnReader \/ NextTakes \/ NextWaits
           \/ NextEnds \/ Wake \/ WriteSucceeds \/ WriteFails \/ JoinReader
  BY <1>2 DEF WorkerExit, Connect, SpawnReader, NextTakes, NextWaits, NextEnds,
              Wake, WriteSucceeds, WriteFails, JoinReader, WorkerTo, outboxVars
<1>3. CASE AnnounceConnected
  <2>1. worker = "opened" /\ worker' = "spawn" /\ reader' = reader
    BY <1>3 DEF AnnounceConnected, WorkerTo
  <2>2. QED
    BY <2>1
<1>4. CASE Teardown
  <2>1. ~connected' /\ worker' = "join"
    BY <1>4 DEF Teardown, SetConnected, WorkerTo
  <2>2. QED
    BY <2>1
<1>5. CASE ReaderStep
  <2>1. CASE ReadEnds
    BY <2>1 DEF ReadEnds, outboxVars
  <2>2. CASE ReaderReports
    <3>1. ~connected' /\ worker' = worker /\ reader = "ended"
      BY <2>2 DEF ReaderReports, SetConnected
    <3>2. QED
      BY <3>1
  <2>3. QED
    BY <1>5, <2>1, <2>2 DEF ReaderStep
<1>6. CASE Close
  BY <1>6 DEF Close
<1>7. CASE \E c \in StateClass : Age(c)
  BY <1>7 DEF Age
<1>8. CASE UNCHANGED vars
  BY <1>8 DEF vars, outboxVars
<1>9. QED
  BY <1>1, <1>2, <1>3, <1>4, <1>5, <1>6, <1>7, <1>8 DEF Next, WorkerStep, WorkerGoesOn

(***************************************************************************)
(* The outbox never says connected once the reader thread of that          *)
(* connection has reported its end (ipc_client_loop: set_connected(true)   *)
(* before the reader is spawned, the reader joined before the next one).   *)
(***************************************************************************)
THEOREM ConnectedIsLive == Spec => []ConnectedMeansLiveReader
<1>1. ConnectionInv => ConnectedMeansLiveReader
  BY DEF ConnectionInv
<1>2. QED
  BY <1>1, ConnectionInit, ConnectionStep, PTL DEF Spec

-----------------------------------------------------------------------------
\* Arithmetic of the wrapping counters.
LEMMA Wraps ==
    ASSUME NEW m \in Nat \ {0}, NEW n \in Int
    PROVE  /\ n = m * (n \div m) + (n % m)
           /\ n % m \in 0 .. m - 1 /\ n \div m \in Int
BY SMT

LEMMA Multiple ==
    ASSUME NEW m \in Nat \ {0}, NEW k \in Int
    PROVE  (m * k) % m = 0
BY SMT

\* Dropping wraps does not change a residue of zero.
LEMMA SameResidue ==
    ASSUME NEW m \in Nat \ {0}, NEW n \in Int, NEW k \in Int, n % m = 0
    PROVE  (n + m * k) % m = 0
<1>1. n = m * (n \div m) /\ n \div m \in Int
  BY Wraps
<1>2. n + m * k = m * ((n \div m) + k)
  BY <1>1
<1>3. (n \div m) + k \in Int
  BY <1>1
<1>4. (m * ((n \div m) + k)) % m = 0
  BY <1>3, Multiple
<1> QED BY <1>2, <1>4

\* An accepted publication that is queued.
LEMMA CountedIn ==
    ASSUME NEW m \in Nat \ {0}, NEW a \in Int, NEW t \in Int, NEW e \in Int, NEW i \in Int,
           (a - t - e - i) % m = 0
    PROVE  (((a + 1) % m) - t - e - (i + 1)) % m = 0
<1> DEFINE q == (a + 1) \div m
<1>1. (a + 1) % m = a + 1 - m * q /\ q \in Int
  BY Wraps
<1> HIDE DEF q
<1>2. ((a + 1) % m) - t - e - (i + 1) = (a - t - e - i) + m * (-q)
  BY <1>1
<1>3. -q \in Int /\ a - t - e - i \in Int
  BY <1>1
<1>4. ((a - t - e - i) + m * (-q)) % m = 0
  BY <1>3, SameResidue
<1> QED BY <1>2, <1>4

\* x expired publications, and k handed to the writer, leave the queue.
LEMMA CountedOut ==
    ASSUME NEW m \in Nat \ {0}, NEW a \in Int, NEW t \in Int, NEW e \in Int, NEW i \in Int,
           NEW x \in Int, NEW k \in Int, (a - t - e - i) % m = 0
    PROVE  (a - ((t + k) % m) - ((e + x) % m) - (i - x - k)) % m = 0
<1> DEFINE q == (t + k) \div m
           r == (e + x) \div m
<1>1. (t + k) % m = t + k - m * q /\ q \in Int
  BY Wraps
<1>2. (e + x) % m = e + x - m * r /\ r \in Int
  BY Wraps
<1> HIDE DEF q, r
<1>3. a - ((t + k) % m) - ((e + x) % m) - (i - x - k) = (a - t - e - i) + m * (q + r)
  BY <1>1, <1>2
<1> QED BY <1>1, <1>2, <1>3, SameResidue

LEMMA Smallest ==
    ASSUME NEW T \in SUBSET Nat, T # {}
    PROVE  \E x \in T : \A y \in T : x <= y
<1>1. PICK x \in T : \A y \in T : ~ (<<y, x>> \in OpToRel(<, Nat))
  BY WFMin, NatLessThanWellFounded
<1>2. \A y \in T : <<y, x>> \in Nat \X Nat /\ <<y, x>>[1] = y /\ <<y, x>>[2] = x
  OBVIOUS
<1>3. \A y \in T : ~ (y < x)
  BY <1>1, <1>2, Zenon DEF OpToRel
<1> QED BY <1>3

-----------------------------------------------------------------------------
Kept == {c \in StateClass : latest[c] # "empty"}

LEMMA KeptFinite ==
    /\ IsFiniteSet(StateClass) /\ IsFiniteSet(Kept) /\ Cardinality(Kept) \in Nat
    /\ \A S \in SUBSET StateClass : IsFiniteSet(S) /\ Cardinality(S) \in Nat
<1>1. IsFiniteSet(StateClass)
  BY IpcAssumption, FS_Interval DEF IpcAssumption, StateClass
<1>2. \A S \in SUBSET StateClass : IsFiniteSet(S) /\ Cardinality(S) \in Nat
  BY <1>1, FS_Subset, FS_CardinalityType
<1> QED BY <1>1, <1>2 DEF Kept

LEMMA ScanPlaces ==
    ASSUME TypeOK
    PROVE  /\ \A k \in Int : ClassAt(k) \in Class
           /\ \A c \in Class : ClassAfter(c) \in Class
           /\ Hits # {} => FirstHit \in Hits /\ FirstHit \in Class
<1>1. NumLatest + 1 \in Nat \ {0} /\ Class = 0 .. (NumLatest + 1) - 1
  BY IpcAssumption DEF IpcAssumption, Class
<1>2. \A k \in Int : k % (NumLatest + 1) \in Class
  BY <1>1, Wraps
<1>3. nextClass \in Int /\ \A c \in Class : c + 1 \in Int
  BY DEF TypeOK, Class
<1>4. Hits # {} => FirstHit \in Hits
  <2>1. Hits \in SUBSET Nat
    BY DEF Hits, Class
  <2>2. Hits # {} => \E k \in Hits : \A j \in Hits : k <= j
    BY <2>1, Smallest
  <2> QED BY <2>2 DEF FirstHit
<1> QED BY <1>2, <1>3, <1>4 DEF ClassAt, ClassAfter, Hits

\* What a scan throws away.
LEMMA ScanExpires ==
    ASSUME TypeOK, NEW n
    PROVE  /\ ExpiredBefore(n) \subseteq Kept
           /\ Discard(n) \in [StateClass -> Slot]
           /\ {c \in StateClass : Discard(n)[c] # "empty"} = Kept \ ExpiredBefore(n)
           /\ \A c \in StateClass : latest[c] = "fresh" => c \notin ExpiredBefore(n)
           /\ Cardinality(Kept \ ExpiredBefore(n)) = Cardinality(Kept) - Cardinality(ExpiredBefore(n))
           /\ Cardinality(ExpiredBefore(n)) \in Nat
<1>1. ExpiredBefore(n) \subseteq Kept /\ ExpiredBefore(n) \subseteq StateClass
  BY DEF ExpiredBefore, Kept
<1>2. Discard(n) \in [StateClass -> Slot]
  BY DEF Discard, TypeOK, Slot
<1>3. {c \in StateClass : Discard(n)[c] # "empty"} = Kept \ ExpiredBefore(n)
  BY DEF Discard, Kept
<1>4. \A c \in StateClass : latest[c] = "fresh" => c \notin ExpiredBefore(n)
  BY DEF ExpiredBefore
<1>5. Cardinality(Kept) = Cardinality(Kept \ ExpiredBefore(n)) + Cardinality(ExpiredBefore(n))
  <2> DEFINE E == ExpiredBefore(n)
             R == Kept \ E
  <2>1. IsFiniteSet(E) /\ IsFiniteSet(R) /\ Cardinality(E) \in Nat /\ Cardinality(R) \in Nat
    BY <1>1, KeptFinite DEF Kept
  <2>2. Kept = R \cup E /\ R \cap E = {}
    BY <1>1
  <2> HIDE DEF E, R
  <2>3. Cardinality(R \cup E) = Cardinality(R) + Cardinality(E) - Cardinality(R \cap E)
    BY <2>1, FS_Union
  <2>4. Cardinality(R \cap E) = 0
    BY <2>2, FS_EmptySet
  <2>5. Cardinality(Kept) = Cardinality(R) + Cardinality(E)
    BY <2>1, <2>2, <2>3, <2>4
  <2> QED BY <2>5 DEF E, R
<1>6. Cardinality(ExpiredBefore(n)) \in Nat /\ Cardinality(Kept \ ExpiredBefore(n)) \in Nat
  BY <1>1, KeptFinite DEF Kept
<1> QED BY <1>1, <1>2, <1>3, <1>4, <1>5, <1>6

-----------------------------------------------------------------------------
LEMMA OutboxNumbers ==
    ASSUME TypeOK
    PROVE  /\ counter["accepted"] \in Int /\ counter["expired"] \in Int /\ taken \in Int
           /\ Items = Cardinality(Kept) + Len(events) /\ Items \in Int
           /\ Cardinality(Kept) \in Nat /\ Len(events) \in Nat
           /\ CounterModulus \in Nat \ {0}
           /\ \A n \in Int : n % CounterModulus \in 0 .. CounterModulus - 1
<1>1. counter["accepted"] \in Int /\ counter["expired"] \in Int /\ taken \in Int
  BY IpcAssumption DEF IpcAssumption, TypeOK, Counters
<1>2. Cardinality(Kept) \in Nat /\ Len(events) \in Nat
  BY KeptFinite DEF TypeOK
<1>3. CounterModulus \in Nat \ {0}
  BY IpcAssumption DEF IpcAssumption
<1>4. Items = Cardinality(Kept) + Len(events)
  BY DEF Items, Kept
<1>5. \A n \in Int : n % CounterModulus \in 0 .. CounterModulus - 1
  BY <1>3, Wraps
<1> QED BY <1>1, <1>2, <1>3, <1>4, <1>5

\* Steps that touch neither the queue nor its counters.
LEMMA OutboxQuiet ==
    ASSUME Conservation, EventBounds, UNCHANGED <<latest, events, eventBytes, counter, taken>>
    PROVE  Conservation' /\ EventBounds'
BY DEF Conservation, EventBounds, Items

LEMMA AgeStep == ASSUME OutboxAdds, NEW c \in StateClass, Age(c) PROVE OutboxAdds'
<1>1. TypeOK'
  BY DEF OutboxAdds, TypeOK, Age, Slot
<1>2. {d \in StateClass : latest'[d] # "empty"} = {d \in StateClass : latest[d] # "empty"}
  BY DEF OutboxAdds, TypeOK, Age
<1> QED BY <1>1, <1>2 DEF OutboxAdds, Conservation, EventBounds, Items, Age

LEMMA PublisherSteps ==
    ASSUME OutboxAdds, NEW p \in Publisher,
           \/ \E class \in Class \cup {Unknown}, len \in Lengths : Admit(p, class, len)
           \/ AdmitContended(p)
    PROVE  OutboxAdds'
<1>1. UNCHANGED <<outboxVars, worker, notified, reader>>
  BY DEF Admit, AdmitContended
<1>2. publisher' \in [Publisher -> {<<"idle">>} \cup ({"checked"} \X Class \X Lengths)]
  BY DEF OutboxAdds, TypeOK, Admit, AdmitContended
<1>3. TypeOK'
  BY <1>1, <1>2 DEF OutboxAdds, TypeOK, outboxVars
<1> QED BY <1>1, <1>3, OutboxQuiet DEF OutboxAdds, outboxVars

LEMMA AdmitLockedStep == ASSUME OutboxAdds, NEW p \in Publisher, AdmitLocked(p) PROVE OutboxAdds'
<1> DEFINE class == publisher[p][2]
           len == publisher[p][3]
<1>0. TypeOK /\ Conservation /\ EventBounds
  BY DEF OutboxAdds
<1>1. class \in Class /\ len \in Nat
  BY <1>0, IpcAssumption DEF IpcAssumption, TypeOK, AdmitLocked
<1>2. /\ UNCHANGED <<nextClass, connected, closed, taken, lastTaken, worker, reader>>
      /\ publisher' \in [Publisher -> {<<"idle">>} \cup ({"checked"} \X Class \X Lengths)]
  BY <1>0 DEF AdmitLocked, TypeOK
<1>3. notified' \in BOOLEAN
  BY <1>0 DEF AdmitLocked, TypeOK, Notify
<1>4. /\ Count("accepted") \in [Counters -> 0 .. CounterModulus - 1]
      /\ Count("accepted")["accepted"] = (counter["accepted"] + 1) % CounterModulus
      /\ Count("accepted")["expired"] = counter["expired"]
  <2>1. (counter["accepted"] + 1) % CounterModulus \in 0 .. CounterModulus - 1
    <3>1. counter["accepted"] \in Int
      BY <1>0, OutboxNumbers
    <3>2. counter["accepted"] + 1 \in Int
      BY <3>1
    <3> QED BY <1>0, <3>2, OutboxNumbers
  <2> QED BY <1>0, <2>1 DEF Count, Plus, TypeOK, Counters
<1>8. (((counter["accepted"] + 1) % CounterModulus) - taken - counter["expired"] - (Items + 1))
        % CounterModulus = 0
  <2> DEFINE a == counter["accepted"]
             e == counter["expired"]
  <2>1. a \in Int /\ e \in Int /\ taken \in Int /\ Items \in Int /\ CounterModulus \in Nat \ {0}
    BY <1>0, OutboxNumbers
  <2>2. (a - taken - e - Items) % CounterModulus = 0
    BY <1>0 DEF Conservation
  <2> HIDE DEF a, e
  <2>3. (((a + 1) % CounterModulus) - taken - e - (Items + 1)) % CounterModulus = 0
    BY <2>1, <2>2, CountedIn
  <2> QED BY <2>3 DEF a, e
<1>5. CASE UNCHANGED <<latest, events, eventBytes, counter>>
  <2>1. TypeOK'
    BY <1>0, <1>2, <1>3, <1>5 DEF TypeOK
  <2> QED BY <1>0, <1>2, <1>5, <2>1, OutboxQuiet DEF OutboxAdds
<1>6. CASE /\ class \in StateClass
           /\ latest' = [latest EXCEPT ![class] = "fresh"]
           /\ counter' = IF latest[class] = "empty" THEN Count("accepted") ELSE counter
           /\ UNCHANGED <<events, eventBytes>>
  <2>1. TypeOK'
    BY <1>0, <1>2, <1>3, <1>4, <1>6 DEF TypeOK, Slot
  <2>2. Kept' = Kept \cup {class}
    BY <1>0, <1>6 DEF Kept, TypeOK
  <2>3. Cardinality(Kept') = IF class \in Kept THEN Cardinality(Kept) ELSE Cardinality(Kept) + 1
    BY <2>2, KeptFinite, FS_AddElement
  <2>4. class \in Kept <=> latest[class] # "empty"
    BY <1>6 DEF Kept
  <2>5. Conservation'
    <3>1. CASE latest[class] # "empty"
      BY <1>0, <1>2, <1>6, <2>3, <2>4, <3>1 DEF Conservation, Items, Kept
    <3>2. CASE latest[class] = "empty"
      <4>1. /\ counter'["accepted"] = (counter["accepted"] + 1) % CounterModulus
            /\ counter'["expired"] = counter["expired"] /\ taken' = taken
        BY <1>2, <1>4, <1>6, <3>2
      <4>2. Items' = Items + 1
        <5>1. Items' = Cardinality(Kept') + Len(events') /\ Cardinality(Kept') = Cardinality(Kept) + 1
          BY <2>3, <2>4, <3>2 DEF Items, Kept
        <5> QED BY <1>0, <1>6, <5>1, OutboxNumbers
      <4> QED BY <1>0, <1>8, <4>1, <4>2 DEF Conservation
    <3> QED BY <3>1, <3>2
  <2> QED BY <1>0, <1>6, <2>1, <2>5 DEF OutboxAdds, EventBounds
<1>7. CASE /\ EventFits(len)
           /\ events' = Append(events, len) /\ eventBytes' = eventBytes + len
           /\ counter' = Count("accepted") /\ UNCHANGED latest
  <2>1. events' \in Seq(Nat) /\ Len(events') = Len(events) + 1
    BY <1>0, <1>1, <1>7 DEF TypeOK
  <2>2. TypeOK'
    BY <1>0, <1>1, <1>2, <1>3, <1>4, <1>7, <2>1 DEF TypeOK
  <2>3. Conservation'
    <3>1. /\ counter'["accepted"] = (counter["accepted"] + 1) % CounterModulus
          /\ counter'["expired"] = counter["expired"] /\ taken' = taken
      BY <1>2, <1>4, <1>7
    <3>2. Items' = Items + 1
      <4>1. Items' = Cardinality(Kept) + Len(events')
        BY <1>7 DEF Items, Kept
      <4> QED BY <1>0, <2>1, <4>1, OutboxNumbers
    <3> QED BY <1>0, <1>8, <3>1, <3>2 DEF Conservation
  <2>4. EventBounds'
    BY <1>0, <1>1, <1>7, <2>1, IpcAssumption
       DEF IpcAssumption, EventBounds, EventFits, TypeOK
  <2> QED BY <2>2, <2>3, <2>4 DEF OutboxAdds
<1> QED BY <1>5, <1>6, <1>7 DEF AdmitLocked

\* What a scan takes out of the queue it adds to the counters.
LEMMA ScanCounts ==
    ASSUME TypeOK, Conservation, NEW n, NEW k \in {0, 1},
           counter' = CountExpired(n), taken' = (taken + k) % CounterModulus,
           Items' = Items - Cardinality(ExpiredBefore(n)) - k
    PROVE  /\ counter' \in [Counters -> 0 .. CounterModulus - 1]
           /\ taken' \in 0 .. CounterModulus - 1
           /\ Conservation'
<1> DEFINE a == counter["accepted"]
           e == counter["expired"]
           x == Cardinality(ExpiredBefore(n))
<1>1. a \in Int /\ e \in Int /\ taken \in Int /\ Items \in Int /\ CounterModulus \in Nat \ {0}
  BY OutboxNumbers
<1>2. (a - taken - e - Items) % CounterModulus = 0
  BY DEF Conservation
<1>3. x \in Int /\ k \in Int
  <2>1. Cardinality(ExpiredBefore(n)) \in Nat
    BY ScanExpires
  <2> QED BY <2>1 DEF x
<1> HIDE DEF a, e, x
<1>4. e + x \in Int /\ taken + k \in Int
  BY <1>1, <1>3
<1>5. (e + x) % CounterModulus \in 0 .. CounterModulus - 1 /\ taken' \in 0 .. CounterModulus - 1
  BY <1>4, OutboxNumbers
<1>6. /\ counter' \in [Counters -> 0 .. CounterModulus - 1]
      /\ counter'["accepted"] = a /\ counter'["expired"] = (e + x) % CounterModulus
  BY <1>5 DEF CountExpired, Plus, TypeOK, Counters, a, e, x
<1>7. (a - ((taken + k) % CounterModulus) - ((e + x) % CounterModulus) - (Items - x - k))
         % CounterModulus = 0
  BY <1>1, <1>2, <1>3, CountedOut
<1>8. Items' = Items - x - k
  BY DEF x
<1> QED BY <1>5, <1>6, <1>7, <1>8 DEF Conservation

LEMMA NextTakesStep == ASSUME OutboxAdds, NextTakes PROVE OutboxAdds'
<1> DEFINE c == ClassAt(FirstHit)
           n == FirstHit
<1>0. TypeOK /\ Conservation /\ EventBounds
  BY DEF OutboxAdds
<1>1. /\ Hits # {} /\ nextClass' = ClassAfter(c) /\ lastTaken' = c
      /\ latest' = IF c = EventClass THEN Discard(n) ELSE [Discard(n) EXCEPT ![c] = "empty"]
      /\ events' = IF c = EventClass THEN Tail(events) ELSE events
      /\ eventBytes' = IF c = EventClass THEN eventBytes - Head(events) ELSE eventBytes
      /\ counter' = CountExpired(n) /\ taken' = (taken + 1) % CounterModulus
      /\ worker' = "write" /\ UNCHANGED <<connected, closed, publisher, notified, reader>>
  BY DEF NextTakes, WorkerTo, Plus
<1>2. n \in Hits /\ n \in Int /\ c \in Class /\ ClassAfter(c) \in Class /\ Deliverable(c)
  <2>1. FirstHit \in Hits /\ FirstHit \in Class
    BY <1>0, <1>1, ScanPlaces
  <2>2. FirstHit \in Int
    BY <2>1 DEF Class
  <2>3. ClassAt(FirstHit) \in Class
    BY <1>0, <2>2, ScanPlaces
  <2>4. Deliverable(ClassAt(FirstHit))
    BY <2>1 DEF Hits
  <2>5. ClassAfter(ClassAt(FirstHit)) \in Class
    BY <1>0, <2>3, ScanPlaces
  <2> QED BY <2>1, <2>2, <2>3, <2>4, <2>5 DEF c, n
<1> HIDE DEF c, n
<1>3. /\ Discard(n) \in [StateClass -> Slot]
      /\ {d \in StateClass : Discard(n)[d] # "empty"} = Kept \ ExpiredBefore(n)
      /\ \A d \in StateClass : latest[d] = "fresh" => d \notin ExpiredBefore(n)
      /\ Cardinality(Kept \ ExpiredBefore(n)) = Cardinality(Kept) - Cardinality(ExpiredBefore(n))
      /\ Cardinality(ExpiredBefore(n)) \in Nat
  BY <1>0, ScanExpires
<1>4. /\ latest' \in [StateClass -> Slot] /\ events' \in Seq(Nat)
      /\ eventBytes' \in Int /\ eventBytes' <= EventByteCapacity /\ Len(events') <= EventCapacity
      /\ Items' = Items - Cardinality(ExpiredBefore(n)) - 1
  <2>1. CASE c = EventClass
    <3>1. events # <<>>
      BY <1>2, <2>1 DEF Deliverable
    <3>2. /\ Tail(events) \in Seq(Nat) /\ Len(Tail(events)) = Len(events) - 1 /\ Head(events) \in Nat
          /\ Len(events) \in Nat
      BY <1>0, <3>1 DEF TypeOK
    <3>3. Items' = Cardinality(Kept \ ExpiredBefore(n)) + Len(events')
      BY <1>1, <1>3, <2>1 DEF Items
    <3>4. Items' = Items - Cardinality(ExpiredBefore(n)) - 1
      <4>1. Items = Cardinality(Kept) + Len(events) /\ Cardinality(Kept) \in Nat
        BY <1>0, OutboxNumbers
      <4>2. Len(events') = Len(events) - 1
        BY <1>1, <2>1, <3>2
      <4>3. Items' = (Cardinality(Kept) - Cardinality(ExpiredBefore(n))) + (Len(events) - 1)
        BY <1>3, <3>3, <4>2
      <4> QED BY <1>3, <3>2, <4>1, <4>3
    <3>5. eventBytes - Head(events) \in Int /\ eventBytes - Head(events) <= EventByteCapacity
      BY <1>0, <3>2, IpcAssumption DEF IpcAssumption, TypeOK, EventBounds
    <3>6. Len(Tail(events)) <= EventCapacity
      BY <1>0, <3>2, IpcAssumption DEF IpcAssumption, EventBounds
    <3> QED BY <1>1, <1>3, <2>1, <3>2, <3>4, <3>5, <3>6
  <2>2. CASE c # EventClass
    <3>1. c \in StateClass /\ latest[c] = "fresh"
      BY <1>2, <2>2, IpcAssumption DEF IpcAssumption, Deliverable, Class, StateClass, EventClass
    <3>2. c \in Kept \ ExpiredBefore(n)
      BY <1>3, <3>1 DEF Kept
    <3>3. latest' = [Discard(n) EXCEPT ![c] = "empty"] /\ events' = events /\ eventBytes' = eventBytes
      BY <1>1, <2>2
    <3>4. latest' \in [StateClass -> Slot]
      BY <1>3, <3>3 DEF Slot
    <3>5. {d \in StateClass : latest'[d] # "empty"} = (Kept \ ExpiredBefore(n)) \ {c}
      BY <1>3, <3>1, <3>3
    <3>6. Cardinality((Kept \ ExpiredBefore(n)) \ {c}) = Cardinality(Kept \ ExpiredBefore(n)) - 1
      BY <3>2, KeptFinite, FS_RemoveElement DEF Kept
    <3>7. Items' = Items - Cardinality(ExpiredBefore(n)) - 1
      <4>1. Items' = Cardinality((Kept \ ExpiredBefore(n)) \ {c}) + Len(events)
        BY <3>3, <3>5 DEF Items
      <4> QED BY <1>0, <1>3, <3>6, <4>1, OutboxNumbers
    <3> QED BY <1>0, <3>3, <3>4, <3>7 DEF TypeOK, EventBounds
  <2> QED BY <2>1, <2>2
<1>5. /\ counter' \in [Counters -> 0 .. CounterModulus - 1]
      /\ taken' \in 0 .. CounterModulus - 1 /\ Conservation'
  BY <1>0, <1>1, <1>4, ScanCounts
<1>6. TypeOK'
  BY <1>0, <1>1, <1>2, <1>4, <1>5 DEF TypeOK
<1> QED BY <1>4, <1>5, <1>6 DEF OutboxAdds, EventBounds

LEMMA NextWaitsStep == ASSUME OutboxAdds, NextWaits PROVE OutboxAdds'
<1> DEFINE n == NumLatest + 1
<1>0. TypeOK /\ Conservation /\ EventBounds
  BY DEF OutboxAdds
<1>1. /\ latest' = Discard(n) /\ counter' = CountExpired(n) /\ worker' = "wait" /\ notified' = FALSE
      /\ UNCHANGED <<events, eventBytes, nextClass, connected, closed, taken, lastTaken, publisher,
                     reader>>
  BY DEF NextWaits, WorkerTo
<1> HIDE DEF n
<1>2. /\ Discard(n) \in [StateClass -> Slot]
      /\ {d \in StateClass : Discard(n)[d] # "empty"} = Kept \ ExpiredBefore(n)
      /\ Cardinality(Kept \ ExpiredBefore(n)) = Cardinality(Kept) - Cardinality(ExpiredBefore(n))
      /\ Cardinality(ExpiredBefore(n)) \in Nat
  BY <1>0, ScanExpires
<1>3. Items' = Items - Cardinality(ExpiredBefore(n)) - 0
  <2>1. Items' = Cardinality(Kept \ ExpiredBefore(n)) + Len(events)
    BY <1>1, <1>2 DEF Items
  <2> QED BY <1>0, <1>2, <2>1, OutboxNumbers
<1>4. taken' = (taken + 0) % CounterModulus
  <2>1. CounterModulus \in Nat \ {0} /\ taken \in 0 .. CounterModulus - 1
    BY <1>0, OutboxNumbers DEF TypeOK
  <2>2. taken = taken + 0 /\ taken % CounterModulus = taken
    BY <2>1
  <2> QED BY <1>1, <2>2
<1>5. /\ counter' \in [Counters -> 0 .. CounterModulus - 1]
      /\ taken' \in 0 .. CounterModulus - 1 /\ Conservation'
  BY <1>0, <1>1, <1>3, <1>4, ScanCounts
<1>6. TypeOK'
  BY <1>0, <1>1, <1>2, <1>5 DEF TypeOK
<1> QED BY <1>0, <1>1, <1>5, <1>6 DEF OutboxAdds, EventBounds

\* The steps that only move the threads.
LEMMA ThreadSteps ==
    ASSUME OutboxAdds,
           \/ WorkerExit \/ Connect \/ AnnounceConnected \/ SpawnReader \/ NextEnds \/ Wake
           \/ WriteSucceeds \/ WriteFails \/ Teardown \/ JoinReader \/ ReaderStep \/ Close
           \/ UNCHANGED vars
    PROVE  OutboxAdds'
<1>1. UNCHANGED <<latest, events, eventBytes, nextClass, counter, taken, lastTaken, publisher>>
  BY DEF WorkerExit, Connect, AnnounceConnected, SpawnReader, NextEnds, Wake, WriteSucceeds,
         WriteFails, Teardown, JoinReader, ReaderStep, ReadEnds, ReaderReports, Close, vars,
         outboxVars
<1>2. /\ worker' \in {"connect", "opened", "spawn", "next", "wait", "write", "teardown", "join",
                      "exited"}
      /\ reader' \in {"none", "reading", "ended", "done"}
  BY DEF OutboxAdds, TypeOK, WorkerExit, Connect, AnnounceConnected, SpawnReader, NextEnds, Wake,
         WriteSucceeds, WriteFails, Teardown, JoinReader, ReaderStep, ReadEnds, ReaderReports,
         Close, vars, WorkerTo
<1>3. connected' \in BOOLEAN /\ closed' \in BOOLEAN /\ notified' \in BOOLEAN
  BY Zenon DEF OutboxAdds, TypeOK, WorkerExit, Connect, AnnounceConnected, SpawnReader, NextEnds,
         Wake, WriteSucceeds, WriteFails, Teardown, JoinReader, ReaderStep, ReadEnds,
         ReaderReports, Close, vars, outboxVars, SetConnected, Notify
<1>4. TypeOK'
  BY <1>1, <1>2, <1>3 DEF OutboxAdds, TypeOK
<1> QED BY <1>1, <1>4, OutboxQuiet DEF OutboxAdds

(***************************************************************************)
(* For any number of topics, publishers and any bounds: every accepted     *)
(* publication was handed to the writer, counted as expired, or is still   *)
(* queued, across the wrap of the counters, and the event queue keeps its  *)
(* two bounds (admit_before_lock, next).                                   *)
(***************************************************************************)
THEOREM OutboxAccounts == Spec => []OutboxAdds
<1>1. Init => OutboxAdds
  <2> SUFFICES ASSUME Init PROVE OutboxAdds
    OBVIOUS
  <2>1. TypeOK
    <3>1. 0 \in Class /\ 0 \in 0 .. CounterModulus - 1
      BY IpcAssumption DEF IpcAssumption, Class
    <3>2. /\ latest \in [StateClass -> Slot] /\ events \in Seq(Nat) /\ eventBytes \in Int
          /\ counter \in [Counters -> 0 .. CounterModulus - 1]
          /\ nextClass \in Class /\ taken \in 0 .. CounterModulus - 1
          /\ lastTaken \in Class \cup {NoClass}
      BY <3>1 DEF Init, Slot
    <3>3. publisher \in [Publisher -> {<<"idle">>} \cup ({"checked"} \X Class \X Lengths)]
      BY DEF Init
    <3>4. connected \in BOOLEAN /\ closed \in BOOLEAN /\ notified \in BOOLEAN
      BY DEF Init
    <3> QED BY <3>2, <3>3, <3>4 DEF Init, TypeOK
  <2>2. Items = 0
    <3>1. {c \in StateClass : latest[c] # "empty"} = {} /\ Len(events) = 0
      BY DEF Init
    <3> QED BY <3>1, FS_EmptySet DEF Items
  <2>3. counter["accepted"] = 0 /\ counter["expired"] = 0 /\ taken = 0
    BY DEF Init, Counters
  <2>4. Conservation
    BY <2>2, <2>3, IpcAssumption DEF IpcAssumption, Conservation
  <2>5. EventBounds
    BY IpcAssumption DEF IpcAssumption, Init, EventBounds
  <2> QED BY <2>1, <2>4, <2>5 DEF OutboxAdds
<1>2. OutboxAdds /\ [Next]_vars => OutboxAdds'
  BY AgeStep, PublisherSteps, AdmitLockedStep, NextTakesStep, NextWaitsStep, ThreadSteps
     DEF Next, PublisherStep, WorkerStep, WorkerGoesOn
<1> QED BY <1>1, <1>2, PTL DEF Spec

(***************************************************************************)
(* After close nothing enters the queue, for any number of publishers that *)
(* had checked `closed' before they took the lock (admit_before_lock's     *)
(* second check).                                                          *)
(***************************************************************************)
THEOREM CloseIsFinal == Spec => NoAdmissionAfterClose
<1>1. OutboxAdds /\ [Next]_vars =>
        [closed => Items' <= Items /\ counter'["accepted"] = counter["accepted"]]_vars
  <2> SUFFICES ASSUME OutboxAdds, Next, closed
               PROVE  Items' <= Items /\ counter'["accepted"] = counter["accepted"]
    OBVIOUS
  <2>1. TypeOK /\ Items \in Int
    BY OutboxNumbers DEF OutboxAdds
  <2>2. CASE \E c \in StateClass : Age(c)
    <3>1. PICK c \in StateClass : Age(c)
      BY <2>2
    <3>2. {d \in StateClass : latest'[d] # "empty"} = {d \in StateClass : latest[d] # "empty"}
      BY <2>1, <3>1 DEF TypeOK, Age
    <3>3. Items' = Items /\ counter' = counter
      BY <3>1, <3>2 DEF Age, Items
    <3> QED BY <2>1, <3>3
  <2>3. CASE ~ \E c \in StateClass : Age(c)
    <3>1. UNCHANGED <<latest, events, counter>>
      BY <2>3 DEF Next, PublisherStep, WorkerStep, WorkerGoesOn, ReaderStep, Admit, AdmitContended,
         AdmitLocked, StillOpen, WorkerExit, Connect, AnnounceConnected, SpawnReader, NextTakes,
         NextWaits, NextEnds, Wake, WriteSucceeds, WriteFails, Teardown, JoinReader, ReadEnds,
         ReaderReports, Close, outboxVars
    <3> QED BY <2>1, <3>1 DEF Items
  <2> QED BY <2>2, <2>3
<1> QED BY <1>1, OutboxAccounts, PTL DEF Spec, NoAdmissionAfterClose
=============================================================================
