---------------------------- MODULE StoreIngest ----------------------------
(***************************************************************************)
(* What fills log_events.  The gateway queues LogEvents in a bounded       *)
(* channel; a batch writer task drains it and inserts batches, never       *)
(* blocking the producer (bins/marengo-gateway/src/logs.rs).  The nightly  *)
(* log CLI imports the journal of marengo-can from a stored cursor, in     *)
(* batches whose rows and cursor commit together (journal.rs).  Either     *)
(* process may die between two steps.                                      *)
(***************************************************************************)
EXTENDS Naturals, Sequences, FiniteSets, SequencesExt

CONSTANTS MaxEvents,      \* LogEvents the producer sends
          QueueSize,      \* BATCH_QUEUE_CAPACITY
          BatchSize,      \* BATCH_MAX and IMPORT_BATCH
          MaxLines,       \* journal lines
          Unparsable,     \* lines parse_journal_line skips, or over the size cap
          MaxIngestFaults

VARIABLES sent,           \* events 1..sent were handed to ingest_log_event
          dropped,        \* the dropped counter
          queue, buffer, flight,  \* the channel, the writer's buffer, the insert it awaits
          eventRows,      \* event rows, in insertion order
          lostEvents,     \* events lost with a failed insert or a dead gateway
          lines,          \* journal lines 1..lines exist
          cursor,         \* journal_import_cursor
          reader,         \* the import: idle, or its position and batch
          lineRows,       \* imported rows, in insertion order
          ingestFaults

bvars == <<sent, dropped, queue, buffer, flight, eventRows, lostEvents, lines, cursor, reader,
           lineRows, ingestFaults>>

NotReading == [at |-> 0, batch |-> <<>>, on |-> FALSE]

IngestInit ==
  /\ sent = 0 /\ dropped = {} /\ queue = <<>> /\ buffer = <<>> /\ flight = <<>>
  /\ eventRows = <<>> /\ lostEvents = {}
  /\ lines = 0 /\ cursor = 0 /\ reader = NotReading /\ lineRows = <<>> /\ ingestFaults = 0

JournalSide == <<lines, cursor, reader, lineRows>>
GatewaySide == <<sent, dropped, queue, buffer, flight, eventRows, lostEvents>>

----------------------------------------------------------------------------
(* ingest_log_event and the batch writer.                                  *)

\* try_send: a full queue drops the row and counts it.
IngestEvent ==
  /\ sent < MaxEvents /\ sent' = sent + 1
  /\ IF Len(queue) < QueueSize
     THEN queue' = Append(queue, sent + 1) /\ UNCHANGED dropped
     ELSE dropped' = dropped \cup {sent + 1} /\ UNCHANGED queue
  /\ UNCHANGED <<buffer, flight, eventRows, lostEvents, ingestFaults, JournalSide>>

\* recv: a full buffer is flushed at once.
Receive ==
  /\ queue # <<>> /\ flight = <<>>
  /\ queue' = Tail(queue)
  /\ LET b == Append(buffer, Head(queue)) IN
       IF Len(b) >= BatchSize THEN buffer' = <<>> /\ flight' = b
                              ELSE buffer' = b /\ UNCHANGED flight
  /\ UNCHANGED <<sent, dropped, eventRows, lostEvents, ingestFaults, JournalSide>>

\* The interval flushes what there is.
FlushTick ==
  /\ flight = <<>> /\ buffer # <<>>
  /\ flight' = buffer /\ buffer' = <<>>
  /\ UNCHANGED <<sent, dropped, queue, eventRows, lostEvents, ingestFaults, JournalSide>>

\* The bug of keeping the batch after its insert was started.
Inserted_Keeps == /\ eventRows' = eventRows \o flight
                  /\ flight' = <<>> /\ buffer' = flight \o buffer

Inserted == /\ eventRows' = eventRows \o flight
            /\ flight' = <<>> /\ UNCHANGED buffer

InsertBatch ==
  /\ flight # <<>> /\ Inserted
  /\ UNCHANGED <<sent, dropped, queue, lostEvents, ingestFaults, JournalSide>>

\* A failed insert is logged; its batch was already taken.
InsertFails ==
  /\ flight # <<>> /\ ingestFaults < MaxIngestFaults
  /\ lostEvents' = lostEvents \cup ToSet(flight) /\ flight' = <<>>
  /\ ingestFaults' = ingestFaults + 1
  /\ UNCHANGED <<sent, dropped, queue, buffer, eventRows, JournalSide>>

GatewayDies ==
  /\ ingestFaults < MaxIngestFaults /\ ingestFaults' = ingestFaults + 1
  /\ lostEvents' = lostEvents \cup ToSet(queue \o buffer \o flight) \cup dropped
  /\ queue' = <<>> /\ buffer' = <<>> /\ flight' = <<>> /\ dropped' = {}
  /\ UNCHANGED <<sent, eventRows, JournalSide>>

----------------------------------------------------------------------------
(* import_journal.                                                         *)

Log == /\ lines < MaxLines /\ lines' = lines + 1
       /\ UNCHANGED <<cursor, reader, lineRows, ingestFaults, GatewaySide>>

\* journalctl --after-cursor with the stored cursor.
StartImportJournal ==
  /\ ~reader.on
  /\ reader' = [at |-> cursor, batch |-> <<>>, on |-> TRUE]
  /\ UNCHANGED <<lines, cursor, lineRows, ingestFaults, GatewaySide>>


\* drain_import_batch: rows and cursor in one transaction.
Drained(batch) ==
  /\ lineRows' = lineRows \o batch /\ cursor' = Last(batch)
  /\ reader' = [reader EXCEPT !.batch = <<>>]

\* A line that does not parse is passed over; its cursor is not stored.
ReadLine ==
  /\ reader.on /\ reader.at < lines /\ Len(reader.batch) < BatchSize
  /\ reader' = [reader EXCEPT !.at = @ + 1,
                              !.batch = IF reader.at + 1 \in Unparsable THEN @
                                        ELSE Append(@, reader.at + 1)]
  /\ UNCHANGED <<lines, cursor, lineRows, ingestFaults, GatewaySide>>

Drain ==
  /\ reader.on /\ reader.batch # <<>>
  /\ Len(reader.batch) = BatchSize \/ reader.at = lines
  /\ Drained(reader.batch)
  /\ UNCHANGED <<lines, ingestFaults, GatewaySide>>

EndImport ==
  /\ reader.on /\ reader.batch = <<>> /\ reader.at = lines
  /\ reader' = NotReading
  /\ UNCHANGED <<lines, cursor, lineRows, ingestFaults, GatewaySide>>

\* The CLI dies, or an insert fails and ends the import.
ImportDies ==
  /\ reader.on /\ ingestFaults < MaxIngestFaults
  /\ ingestFaults' = ingestFaults + 1 /\ reader' = NotReading
  /\ UNCHANGED <<lines, cursor, lineRows, GatewaySide>>

IngestNext ==
  \/ IngestEvent \/ Receive \/ FlushTick \/ InsertBatch \/ InsertFails \/ GatewayDies
  \/ Log \/ StartImportJournal \/ ReadLine \/ Drain \/ EndImport \/ ImportDies

IngestFairness ==
  /\ WF_bvars(Receive) /\ WF_bvars(FlushTick) /\ WF_bvars(InsertBatch)

IngestSpec == IngestInit /\ [][IngestNext]_bvars

----------------------------------------------------------------------------
(* Every event handed over is in exactly one place, and rows keep the      *)
(* order of the events: queued, buffered, in flight, stored, counted as    *)
(* dropped, or lost with a failure (ingest_log_event, flush_batch_async).  *)
EventsAreAccounted ==
  LET path == eventRows \o flight \o buffer \o queue IN
  /\ \A i, j \in DOMAIN path : i < j => path[i] < path[j]
  /\ ToSet(path) \cup dropped \cup lostEvents = 1..sent
  /\ ToSet(path) \cap (dropped \cup lostEvents) = {}

(* A parsable journal line up to the cursor is in the store exactly once,  *)
(* and none beyond it, whenever the import dies                            *)
(* (insert_log_events_with_cursor).                                        *)
LinesImportedOnce ==
  lineRows = SelectSeq([i \in 1..cursor |-> i], LAMBDA i : i \notin Unparsable)

(* No row is duplicated, reordered or lost but by a counted drop or a      *)
(* failure (logs.rs, journal.rs).                                          *)
IngestHolds == EventsAreAccounted /\ LinesImportedOnce

(* An event that was queued is stored unless its insert failed: the batch  *)
(* writer's interval flushes a short batch (spawn_batch_writer).           *)
QueuedIsWritten ==
  \A e \in 1..MaxEvents : e \in ToSet(queue) ~> e \in ToSet(eventRows) \cup lostEvents
=============================================================================
