------------------------------ MODULE IpcFanout ------------------------------
(***************************************************************************)
(* The runtime side of the Unix-socket bridge between marengo-pi and       *)
(* marengo-gateway: the bounded publication outbox (ipc_outbox.rs) and the *)
(* client thread that drains it over one connection at a time, with a      *)
(* reader thread per connection (ipc.rs).                                  *)
(*                                                                         *)
(* The queue mutex makes every outbox method one step; what matters is     *)
(* what happens between methods: a publisher that checked `closed' before  *)
(* it took the lock, a reader thread that reports the end of a connection, *)
(* the writer asleep on the condition variable.  Payloads are their        *)
(* lengths; the age of a state publication is the bit "older than          *)
(* STATE_MAX_AGE".  Of the AtomicU64 counters the two that account for     *)
(* accepted publications are kept, wrapping at CounterModulus; the others  *)
(* only ever count a refusal, a replacement or a failed write.             *)
(***************************************************************************)
EXTENDS Integers, Sequences, FiniteSets, SequencesExt

CONSTANTS
    NumLatest,          \* LATEST_TOPICS.len()
    EventCapacity,      \* EVENT_CAPACITY
    EventByteCapacity,  \* EVENT_BYTE_CAPACITY
    MaxPayload,         \* MAX_PAYLOAD_BYTES
    Lengths,            \* payload lengths the publishers use
    Publisher,          \* threads that call forward_runtime_to_gateway
    CounterModulus      \* 2^64 in the code

ASSUME IpcAssumption ==
    /\ NumLatest \in Nat \ {0}
    /\ EventCapacity \in Nat \ {0}
    /\ EventByteCapacity \in Nat /\ MaxPayload \in Nat
    /\ Lengths \subseteq Nat
    /\ CounterModulus \in Nat /\ CounterModulus > NumLatest + EventCapacity

VARIABLES
    latest,      \* [class -> slot]: one state publication per topic
    events,      \* queue of event payload lengths
    eventBytes,  \* Queue.event_bytes
    nextClass,   \* Queue.next_class: round robin over topics and the events
    connected, closed,
    counter,     \* the accepted and expired counters of IpcQueueStats
    taken,       \* publications `next' handed to the writer (wrapping)
    lastTaken,   \* class of the latest one
    publisher,   \* [Publisher -> where in admit_before_lock it is]
    worker,      \* the client thread
    notified,    \* the condition variable was signalled while it waited
    reader       \* the reader thread of the current connection

outboxVars == <<latest, events, eventBytes, nextClass, connected, closed,
                counter, taken, lastTaken>>
vars == <<outboxVars, publisher, worker, notified, reader>>

StateClass == 0 .. NumLatest - 1
EventClass == NumLatest
Class == 0 .. NumLatest
NoClass == NumLatest + 1
Unknown == NumLatest + 2   \* a topic of neither class

Slot == {"empty", "fresh", "old"}
Counters == {"accepted", "expired"}

TypeOK ==
    /\ latest \in [StateClass -> Slot]
    /\ events \in Seq(Nat)
    /\ eventBytes \in Int
    /\ nextClass \in Class
    /\ connected \in BOOLEAN /\ closed \in BOOLEAN
    /\ counter \in [Counters -> 0 .. CounterModulus - 1]
    /\ taken \in 0 .. CounterModulus - 1
    /\ lastTaken \in Class \cup {NoClass}
    /\ publisher \in [Publisher ->
           {<<"idle">>} \cup ({"checked"} \X Class \X Lengths)]
    /\ worker \in {"connect", "opened", "spawn", "next", "wait", "write",
                   "teardown", "join", "exited"}
    /\ notified \in BOOLEAN
    /\ reader \in {"none", "reading", "ended", "done"}

Plus(n, k) == (n + k) % CounterModulus
Count(c) == [counter EXCEPT ![c] = Plus(@, 1)]

Init ==
    /\ latest = [c \in StateClass |-> "empty"]
    /\ events = <<>>
    /\ eventBytes = 0
    /\ nextClass = 0
    /\ connected = FALSE
    /\ closed = FALSE
    /\ counter = [c \in Counters |-> 0]
    /\ taken = 0
    /\ lastTaken = NoClass
    /\ publisher = [p \in Publisher |-> <<"idle">>]
    /\ worker = "connect"
    /\ notified = FALSE
    /\ reader = "none"

\* notify_one / notify_all: the client thread is the only waiter, and a
\* notification nobody waits for is lost.
Notify_NoSignal == UNCHANGED notified   \* mutant: close and admit signal nobody
Notify == notified' = (notified \/ worker = "wait")

\* STATE_MAX_AGE passes over a queued state publication.
Age(c) ==
    /\ latest[c] = "fresh"
    /\ latest' = [latest EXCEPT ![c] = "old"]
    /\ UNCHANGED <<events, eventBytes, nextClass, connected, closed, counter,
                   taken, lastTaken, publisher, worker, notified, reader>>

(***************************************************************************)
(* Publishers                                                              *)
(***************************************************************************)

\* admit_before_lock, up to the lock: the refusals that need no lock.
Admit(p, class, len) ==
    /\ publisher[p] = <<"idle">>
    /\ IF closed \/ len > MaxPayload \/ class = Unknown
       THEN UNCHANGED publisher
       ELSE publisher' = [publisher EXCEPT ![p] = <<"checked", class, len>>]
    /\ UNCHANGED <<outboxVars, worker, notified, reader>>

\* try_lock found the mutex held: the publication is dropped, never awaited.
AdmitContended(p) ==
    /\ publisher[p] # <<"idle">>
    /\ publisher' = [publisher EXCEPT ![p] = <<"idle">>]
    /\ UNCHANGED <<outboxVars, worker, notified, reader>>

EventFits_ItemsOnly(len) == Len(events) < EventCapacity   \* mutant: no byte bound
EventFits(len) ==
    /\ Len(events) < EventCapacity
    /\ eventBytes + len <= EventByteCapacity

\* The second `closed' check, under the lock.
StillOpen_Unchecked == TRUE   \* mutant: the first check is trusted
StillOpen == ~closed

\* admit_before_lock under the lock.
AdmitLocked(p) ==
    /\ publisher[p] # <<"idle">>
    /\ publisher' = [publisher EXCEPT ![p] = <<"idle">>]
    /\ LET class == publisher[p][2]
           len == publisher[p][3]
       IN \/ /\ ~StillOpen
             /\ UNCHANGED <<latest, events, eventBytes, counter, notified>>
          \/ /\ StillOpen /\ class \in StateClass
             /\ latest' = [latest EXCEPT ![class] = "fresh"]
             /\ counter' = IF latest[class] = "empty" THEN Count("accepted") ELSE counter
             /\ Notify
             /\ UNCHANGED <<events, eventBytes>>
          \/ /\ StillOpen /\ class = EventClass /\ ~EventFits(len)
             /\ UNCHANGED <<latest, events, eventBytes, counter, notified>>
          \/ /\ StillOpen /\ class = EventClass /\ EventFits(len)
             /\ events' = Append(events, len)
             /\ eventBytes' = eventBytes + len
             /\ counter' = Count("accepted")
             /\ Notify
             /\ UNCHANGED latest
    /\ UNCHANGED <<nextClass, connected, closed, taken, lastTaken, worker, reader>>

(***************************************************************************)
(* Connection state                                                        *)
(***************************************************************************)

SetConnected(c) == connected' = (c /\ ~closed) /\ Notify

\* IpcFanout::shutdown, or its Drop.
Close ==
    /\ ~closed
    /\ closed' = TRUE
    /\ connected' = FALSE
    /\ Notify
    /\ UNCHANGED <<latest, events, eventBytes, nextClass, counter, taken,
                   lastTaken, publisher, worker, reader>>

(***************************************************************************)
(* The client thread: ipc_client_loop                                      *)
(***************************************************************************)

WorkerTo(pc) == worker' = pc

\* The loop condition, and connect_with_retry's check before each attempt.
WorkerExit ==
    /\ worker = "connect" /\ closed
    /\ WorkerTo("exited")
    /\ UNCHANGED <<outboxVars, publisher, notified, reader>>

\* A connection attempt succeeds (a failed attempt or clone stays here).
Connect ==
    /\ worker = "connect" /\ ~closed
    /\ WorkerTo("opened")
    /\ UNCHANGED <<outboxVars, publisher, notified, reader>>

AnnounceConnected ==
    /\ worker = "opened"
    /\ SetConnected(TRUE)
    /\ WorkerTo("spawn")
    /\ UNCHANGED <<latest, events, eventBytes, nextClass, closed, counter, taken,
                   lastTaken, publisher, reader>>

SpawnReader ==
    /\ worker = "spawn"
    /\ reader' = "reading"
    /\ WorkerTo("next")
    /\ UNCHANGED <<outboxVars, publisher, notified>>

\* Class k places after next_class, and what the scan of `next' finds there.
ClassAt(k) == (nextClass + k) % (NumLatest + 1)
Deliverable(c) == IF c = EventClass THEN events # <<>> ELSE latest[c] = "fresh"
Occupied(c) == IF c = EventClass THEN events # <<>> ELSE latest[c] # "empty"
Hits == {k \in Class : Deliverable(ClassAt(k))}
FirstHit == CHOOSE k \in Hits : \A j \in Hits : k <= j

\* The slots a scan of n classes empties because they are past the age bound.
ExpiredBefore(n) == {c \in StateClass : latest[c] = "old" /\ \E k \in 0 .. n - 1 : ClassAt(k) = c}
CountExpired_Silent(n) == counter   \* mutant: expiry is not counted
CountExpired(n) ==
    [counter EXCEPT !["expired"] = Plus(@, Cardinality(ExpiredBefore(n)))]
Discard(n) == [c \in StateClass |-> IF c \in ExpiredBefore(n) THEN "empty" ELSE latest[c]]

\* Where the next scan starts.
ClassAfter_NoWrap(c) == c + 1   \* mutant: the index runs off the end
ClassAfter_Restart(c) == 0      \* mutant: every scan starts at the first topic
ClassAfter(c) == (c + 1) % (NumLatest + 1)

\* Outbox::next with a peer and something to send.
NextTakes ==
    /\ worker = "next" /\ ~closed /\ connected
    /\ Hits # {}
    /\ LET c == ClassAt(FirstHit)
       IN /\ nextClass' = ClassAfter(c)
          /\ latest' = IF c = EventClass THEN Discard(FirstHit)
                       ELSE [Discard(FirstHit) EXCEPT ![c] = "empty"]
          /\ events' = IF c = EventClass THEN Tail(events) ELSE events
          /\ eventBytes' = IF c = EventClass THEN eventBytes - Head(events) ELSE eventBytes
          /\ lastTaken' = c
    /\ counter' = CountExpired(FirstHit)
    /\ taken' = Plus(taken, 1)
    /\ WorkerTo("write")
    /\ UNCHANGED <<connected, closed, publisher, notified, reader>>

\* A full scan found nothing to send: wait on the condition variable.
NextWaits ==
    /\ worker = "next" /\ ~closed /\ connected
    /\ Hits = {}
    /\ latest' = Discard(NumLatest + 1)
    /\ counter' = CountExpired(NumLatest + 1)
    /\ WorkerTo("wait")
    /\ notified' = FALSE
    /\ UNCHANGED <<events, eventBytes, nextClass, connected, closed, taken,
                   lastTaken, publisher, reader>>

\* Closed or without a peer, `next' returns None and the session is torn down.
NextEnds ==
    /\ worker = "next"
    /\ closed \/ ~connected
    /\ WorkerTo("teardown")
    /\ UNCHANGED <<outboxVars, publisher, notified, reader>>

\* The wait returns: signalled, or spuriously.
Wake ==
    /\ worker = "wait"
    /\ WorkerTo("next")
    /\ notified' = FALSE
    /\ UNCHANGED <<outboxVars, publisher, reader>>

\* write_with_deadline ends within one second, one way or the other.
WriteSucceeds ==
    /\ worker = "write"
    /\ WorkerTo("next")
    /\ UNCHANGED <<outboxVars, publisher, notified, reader>>

WriteFails ==
    /\ worker = "write"
    /\ WorkerTo("teardown")
    /\ UNCHANGED <<outboxVars, publisher, notified, reader>>

\* set_connected(false), then the socket is shut down in both directions.
Teardown ==
    /\ worker = "teardown"
    /\ SetConnected(FALSE)
    /\ WorkerTo("join")
    /\ UNCHANGED <<latest, events, eventBytes, nextClass, closed, counter, taken,
                   lastTaken, publisher, reader>>

JoinReader ==
    /\ worker = "join"
    /\ reader = "done"
    /\ reader' = "none"
    /\ WorkerTo("connect")
    /\ UNCHANGED <<outboxVars, publisher, notified>>

(***************************************************************************)
(* The reader thread                                                       *)
(***************************************************************************)

\* read_inbound_commands returns: end of stream, a read error, a bad frame.
ReadEnds ==
    /\ reader = "reading"
    /\ reader' = "ended"
    /\ UNCHANGED <<outboxVars, publisher, worker, notified>>

ReaderReports_Silent ==   \* mutant: the reader leaves without clearing connected
    /\ reader = "ended"
    /\ reader' = "done"
    /\ UNCHANGED <<outboxVars, publisher, worker, notified>>
ReaderReports ==
    /\ reader = "ended"
    /\ reader' = "done"
    /\ SetConnected(FALSE)
    /\ UNCHANGED <<latest, events, eventBytes, nextClass, closed, counter, taken,
                   lastTaken, publisher, worker>>

------------------------------------------------------------------------------
PublisherStep ==
    \E p \in Publisher :
        \/ \E class \in Class \cup {Unknown}, len \in Lengths : Admit(p, class, len)
        \/ AdmitContended(p)
        \/ AdmitLocked(p)

WorkerGoesOn ==
    \/ WorkerExit \/ AnnounceConnected \/ SpawnReader
    \/ NextTakes \/ NextWaits \/ NextEnds
    \/ WriteSucceeds \/ WriteFails \/ Teardown \/ JoinReader
WorkerStep == WorkerGoesOn \/ Connect \/ Wake

ReaderStep == ReadEnds \/ ReaderReports

Next ==
    \/ PublisherStep \/ WorkerStep \/ ReaderStep \/ Close
    \/ \E c \in StateClass : Age(c)

Spec == Init /\ [][Next]_vars

(***************************************************************************)
(* Fairness: the operating system runs both threads.  A signalled wait     *)
(* returns, a read on a shut-down socket returns; an idle read, a spurious *)
(* wake-up, a connection attempt and the publishers are under no           *)
(* obligation.                                                             *)
(***************************************************************************)
Fairness ==
    /\ WF_vars(WorkerGoesOn)
    /\ WF_vars(notified /\ Wake)
    /\ WF_vars(worker = "join" /\ ReadEnds)
    /\ WF_vars(ReaderReports)

FairSpec == Spec /\ Fairness

------------------------------------------------------------------------------
Items == Cardinality({c \in StateClass : latest[c] # "empty"}) + Len(events)

(***************************************************************************)
(* Every accepted publication is accounted for: handed to the writer,      *)
(* counted as expired, or still queued.  Coalescing keeps the number of    *)
(* queued items, so it is not part of the sum (ForwardOutcome, stats).     *)
(***************************************************************************)
Conservation ==
    (counter["accepted"] - taken - counter["expired"] - Items) % CounterModulus = 0

\* Both bounds of the event queue hold.
EventBounds == eventBytes <= EventByteCapacity /\ Len(events) <= EventCapacity

\* What was accepted is accounted for, within the outbox's bounds.
OutboxAdds == TypeOK /\ Conservation /\ EventBounds

(***************************************************************************)
(* event_bytes is the exact number of queued event bytes, so that its      *)
(* subtraction in `next' can never underflow.                              *)
(***************************************************************************)
EventBytesExact == eventBytes = FoldSeq(LAMBDA n, acc : n + acc, 0, events)

(***************************************************************************)
(* The outbox never says connected once the reader of that connection has  *)
(* reported its end: a dead peer is not left looking alive, and a late     *)
(* report never belongs to an older connection.                            *)
(***************************************************************************)
ConnectedMeansLiveReader ==
    connected => /\ worker \in {"spawn", "next", "wait", "write", "teardown"}
                 /\ reader # "done"

(***************************************************************************)
(* After close no publication enters the queue, whatever a publisher had   *)
(* checked before it took the lock.                                        *)
(***************************************************************************)
NoAdmissionAfterClose ==
    [][closed => Items' <= Items /\ counter'["accepted"] = counter["accepted"]]_vars

(***************************************************************************)
(* Round robin: publishers that keep replacing state publications cannot   *)
(* keep a queued event from being sent while the peer stays connected.     *)
(***************************************************************************)
EventsAreServed ==
    (events # <<>> /\ connected /\ lastTaken # EventClass)
        ~> (lastTaken = EventClass \/ ~connected)

(***************************************************************************)
(* IpcFanout::shutdown joins the client thread: after close it always      *)
(* exits, also from the condition variable and from a blocked reader.      *)
(***************************************************************************)
ShutdownCompletes == closed ~> worker = "exited"
==============================================================================
