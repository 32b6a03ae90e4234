---------------------------- MODULE ImuPublisher ----------------------------
(***************************************************************************)
(* The torso IMU: the BNO085 driver of crates/marengo-imu/src/driver.rs    *)
(* with the packet helpers of shtp.rs, and the publisher thread of         *)
(* bins/marengo-pi/src/imu.rs that owns it.  The thread opens a session    *)
(* (reset, product id, feature), polls once a report interval, publishes   *)
(* what a poll returns, and restarts the session, after a backoff, when    *)
(* the bus fails, the set-up times out or the sensor falls silent.         *)
(*                                                                         *)
(* The sensor is external: it queues one packet an interval while its      *)
(* rotation vector is enabled, and a brownout clears the feature and the   *)
(* queue without a word to the host.  A tick is one report interval.       *)
(***************************************************************************)
EXTENDS Naturals, Sequences, SequencesExt

CONSTANTS Batches,        \* channel-3 batches, as sequences of report kinds
          QueueMax,       \* packets the sensor holds
          IdWait,         \* PRODUCT_ID_TIMEOUT, in ticks
          FeatureWait,    \* DEFAULT_TIMEOUT of enable_feature, in ticks
          Silence,        \* silence_limit, in ticks
          MaxErrors,      \* consecutive poll errors that end a session
          InitialBackoff, MaxBackoff,
          SeqWidth,       \* width of sample_seq
          MaxImuFaults    \* brownouts, bus errors and bad batches; late ticks

VARIABLES sensor,    \* [feature, queue, quiet]: quiet is a ghost, ticks off
          drv,       \* Bno085: [verified, enabled, pending, seq, used, age]
          ses,       \* the session: [pc, attempt, wait, errors, silent, ...]
          stopping,  \* the process-wide shutdown flag
          out,       \* the last publication, judged as it was made
          faults,
          late       \* ghost: ticks the thread slept through

mvars == <<sensor, drv, ses, stopping, out, faults, late>>

\* Bno085::new and the state soft_reset returns to.  `used' and `age' are
\* ghosts of last_rotation: it was published, and ticks since it was read.
FreshDriver == [verified |-> FALSE, enabled |-> FALSE, pending |-> FALSE,
                seq |-> 0, used |-> FALSE, age |-> 0]

NothingOut == [used |-> FALSE, age |-> 0, repeated |-> FALSE, beat |-> FALSE]

ImuInit ==
  /\ sensor = [feature |-> FALSE, queue |-> <<>>, quiet |-> 0]
  /\ drv = FreshDriver
  /\ ses = [pc |-> "open", attempt |-> 0, wait |-> 0, errors |-> 0,
            silent |-> 0, delivered |-> FALSE, backoff |-> InitialBackoff,
            shown |-> 0, due |-> TRUE]
  /\ stopping = FALSE
  /\ out = NothingOut
  /\ faults = 0
  /\ late = 0

Fault == faults < MaxImuFaults /\ faults' = faults + 1

(***************************************************************************)
(* Packets.                                                                *)
(***************************************************************************)

\* split_batch_reports: the reports before the first one of unknown length
\* or cut short by the end of the packet.
SplitBatch(reports) ==
  LET bad == {i \in DOMAIN reports : reports[i] \in {"unknown", "cut"}}
  IN  IF bad = {} THEN reports
      ELSE SubSeq(reports, 1, (CHOOSE i \in bad : \A j \in bad : i <= j) - 1)

\* handle_packet: a zero-norm rotation and the meta reports leave no sample.
HandlePacket(d, packet) ==
  LET reports == SplitBatch(packet.reports)
      seen    == Range(reports)
      n       == IF packet.channel # 3 THEN 0
                 ELSE Len(SelectSeq(reports, LAMBDA r : r = "rotation"))
  IN  [verified |-> d.verified \/ "product" \in seen,
       enabled  |-> d.enabled \/ "feature" \in seen,
       pending  |-> d.pending \/ n > 0,
       seq      |-> (d.seq + n) % SeqWidth,
       used     |-> d.used /\ n = 0,
       age      |-> IF n > 0 THEN 0 ELSE d.age]

\* The driver after process_available_packets handled the first k packets.
Handled(k) == FoldLeft(HandlePacket, drv, SubSeq(sensor.queue, 1, k))

\* The sensor after those reads (try_read_packet).
Taken(k) == [sensor EXCEPT !.queue = SubSeq(@, k + 1, Len(@))]


Least(a, b) == IF a < b THEN a ELSE b

\* Ghost clocks saturate here.
Horizon == 2 * Silence + MaxImuFaults + 2

\* The session now does x, with its next step due.
Goes(pc, wait) == [ses EXCEPT !.pc = pc, !.wait = wait, !.due = TRUE]

\* restart_backoff, then the doubling of run_imu_loop.
SessionFails(s) ==
  LET b == IF s.delivered THEN InitialBackoff ELSE s.backoff
  IN  [s EXCEPT !.pc = "backoff", !.wait = b, !.due = FALSE,
                !.backoff = Least(2 * b, MaxBackoff)]

\* initialize_while: a failed product id check retries from the reset twice.
AttemptFails ==
  IF ses.attempt < 2
  THEN [Goes("reset", 0) EXCEPT !.attempt = @ + 1]
  ELSE SessionFails(ses)

\* soft_reset before its writes.
ResetDriver == FreshDriver

(***************************************************************************)
(* The publisher thread.                                                   *)
(***************************************************************************)

\* run_imu_loop starts a session, or returns once shutdown is set.
OpenSession ==
  /\ ses.pc = "open"
  /\ IF stopping
     THEN ses' = Goes("ended", 0) /\ UNCHANGED <<drv, faults>>
     ELSE LET s == [Goes("reset", 0) EXCEPT !.attempt = 0,
                                            !.delivered = FALSE, !.shown = 0]
          IN  \/ ses' = s /\ drv' = FreshDriver /\ UNCHANGED faults
              \/ Fault /\ ses' = SessionFails(s) /\ UNCHANGED drv
  /\ UNCHANGED <<sensor, stopping, out, late>>

\* One attempt of initialize_while up to the end of soft_reset, which reads
\* off whatever the sensor says while it boots.
SoftReset ==
  /\ ses.pc = "reset"
  /\ IF stopping
     THEN ses' = SessionFails(ses) /\ UNCHANGED <<sensor, drv, faults>>
     ELSE /\ drv' = ResetDriver
          /\ sensor' = [sensor EXCEPT !.feature = FALSE, !.queue = <<>>]
          /\ \/ ses' = Goes("ask", 0) /\ UNCHANGED faults
             \/ Fault /\ ses' = SessionFails(ses)
  /\ UNCHANGED <<stopping, out, late>>

\* check_product_id_while sends its request.
AskProduct ==
  /\ ses.pc = "ask"
  /\ \/ /\ sensor' = [sensor EXCEPT !.queue =
                        Append(@, [channel |-> 2, reports |-> <<"product">>])]
        /\ ses' = Goes("id", IdWait)
        /\ UNCHANGED faults
     \/ Fault /\ ses' = AttemptFails /\ UNCHANGED sensor
  /\ UNCHANGED <<drv, stopping, out, late>>

\* One round of the product id wait; a bus error may end it after k packets.
AwaitProduct ==
  /\ ses.pc = "id" /\ ses.due
  /\ IF stopping
     THEN ses' = AttemptFails /\ UNCHANGED <<sensor, drv, faults>>
     ELSE \E k \in 0..Len(sensor.queue) :
            /\ drv' = Handled(k)
            /\ sensor' = Taken(k)
            /\ \/ /\ k = Len(sensor.queue)
                  /\ ses' = IF drv'.verified THEN Goes("set", 0)
                            ELSE IF ses.wait = 0 THEN AttemptFails
                            ELSE [ses EXCEPT !.due = FALSE]
                  /\ UNCHANGED faults
               \/ Fault /\ ses' = AttemptFails
  /\ UNCHANGED <<stopping, out, late>>

\* enable_feature sends the set-feature report, unless shutdown came first.
SetFeature ==
  /\ ses.pc = "set"
  /\ IF stopping
     THEN ses' = Goes("ended", 0) /\ UNCHANGED <<sensor, faults>>
     ELSE \/ /\ sensor' = [sensor EXCEPT !.feature = TRUE, !.quiet = 0,
               !.queue = Append(@, [channel |-> 2, reports |-> <<"feature">>])]
             /\ ses' = Goes("feature", FeatureWait)
             /\ UNCHANGED faults
          \/ Fault /\ ses' = SessionFails(ses) /\ UNCHANGED sensor
  /\ UNCHANGED <<drv, stopping, out, late>>

\* One round of the feature wait, which does not look at shutdown.
AwaitFeature ==
  /\ ses.pc = "feature" /\ ses.due
  /\ \E k \in 0..Len(sensor.queue) :
       /\ drv' = Handled(k)
       /\ sensor' = Taken(k)
       /\ \/ /\ k = Len(sensor.queue)
             /\ ses' = IF drv'.enabled
                       THEN [Goes("poll", 0) EXCEPT !.errors = 0, !.silent = 0]
                       ELSE IF ses.wait = 0 THEN SessionFails(ses)
                       ELSE [ses EXCEPT !.due = FALSE]
             /\ UNCHANGED faults
          \/ Fault /\ ses' = SessionFails(ses)
  /\ UNCHANGED <<stopping, out, late>>

\* Bno085::poll hands out last_rotation only when one arrived since.
HandedOut_Keeps(d) == d
HandedOut(d) == [d EXCEPT !.pending = FALSE]

\* The end of a turn of run_imu_session: silence has a limit of its own.
TurnEnds_Patient(s) == [s EXCEPT !.due = FALSE]
TurnEnds(s) == IF s.silent >= Silence THEN SessionFails(s)
               ELSE [s EXCEPT !.due = FALSE]

\* A turn of run_imu_session whose poll succeeds.
Poll ==
  /\ ses.pc = "poll" /\ ses.due
  /\ LET d == Handled(Len(sensor.queue))
     IN  IF stopping
         THEN ses' = Goes("ended", 0) /\ UNCHANGED <<sensor, drv, out>>
         ELSE /\ sensor' = Taken(Len(sensor.queue))
              /\ IF d.pending
                 THEN /\ drv' = [HandedOut(d) EXCEPT !.used = TRUE]
                      /\ out' = [used |-> d.used, age |-> d.age,
                                 repeated |-> ses.delivered /\ ses.shown = d.seq,
                                 beat |-> ~out.beat]
                      /\ ses' = TurnEnds([ses EXCEPT !.errors = 0, !.silent = 0,
                                            !.delivered = TRUE, !.shown = d.seq])
                 ELSE /\ drv' = d
                      /\ ses' = TurnEnds([ses EXCEPT !.errors = 0])
                      /\ UNCHANGED out
  /\ UNCHANGED <<stopping, faults, late>>

\* A turn whose poll meets a bus error after k packets.
PollFails ==
  /\ ses.pc = "poll" /\ ses.due /\ ~stopping /\ Fault
  /\ \E k \in 0..Len(sensor.queue) : drv' = Handled(k) /\ sensor' = Taken(k)
  /\ LET s == [ses EXCEPT !.errors = @ + 1]
     IN  ses' = IF s.errors >= MaxErrors THEN SessionFails(s) ELSE TurnEnds(s)
  /\ UNCHANGED <<stopping, out, late>>

\* run_imu_loop's backoff wait ends.
BackoffEnds ==
  /\ ses.pc = "backoff" /\ (stopping \/ ses.wait = 0)
  /\ ses' = Goes("open", 0)
  /\ UNCHANGED <<sensor, drv, stopping, out, faults, late>>

(***************************************************************************)
(* Time, the sensor and the process.                                       *)
(***************************************************************************)

\* A batch that carries a rotation sample the driver will take.
Sound(b) == HandlePacket(FreshDriver, [channel |-> 3, reports |-> b]).pending

\* One report interval passes.
Interval ==
  /\ IF sensor.feature
     THEN \E b \in Batches :
            /\ IF Sound(b) THEN UNCHANGED faults ELSE Fault
            /\ sensor' = [sensor EXCEPT !.quiet = 0, !.queue =
                 IF Len(@) < QueueMax
                 THEN Append(@, [channel |-> 3, reports |-> b]) ELSE @]
     ELSE sensor' = [sensor EXCEPT !.quiet = Least(@ + 1, Horizon)] /\ UNCHANGED faults
  /\ drv' = [drv EXCEPT !.age = Least(@ + 1, Horizon)]
  /\ UNCHANGED <<stopping, out>>

Tick ==
  /\ \/ ses.pc \in {"id", "feature", "poll"} /\ ~ses.due
     \/ ses.pc = "backoff" /\ ses.wait > 0
  /\ Interval
  /\ ses' = [ses EXCEPT !.due = ses.pc # "backoff", !.silent = Least(@ + 1, Silence),
                        !.wait = IF @ > 0 THEN @ - 1 ELSE 0]
  /\ UNCHANGED late

\* The thread wakes up a whole interval late for its poll.
LateTick ==
  /\ ses.pc = "poll" /\ ses.due
  /\ late < MaxImuFaults /\ late' = late + 1
  /\ Interval
  /\ ses' = [ses EXCEPT !.silent = Least(@ + 1, Silence)]

\* A brownout or an ESD event resets the sensor behind the host's back.
Brownout ==
  /\ Fault
  /\ sensor' = [sensor EXCEPT !.feature = FALSE, !.queue = <<>>]
  /\ UNCHANGED <<drv, ses, stopping, out, late>>

ShutdownRequested ==
  /\ ~stopping /\ stopping' = TRUE
  /\ UNCHANGED <<sensor, drv, ses, out, faults, late>>

Thread == \/ OpenSession \/ SoftReset \/ AskProduct \/ AwaitProduct
          \/ SetFeature \/ AwaitFeature \/ Poll \/ PollFails \/ BackoffEnds

ImuNext == Thread \/ Tick \/ LateTick \/ Brownout \/ ShutdownRequested

\* The thread is scheduled and time passes; no fault is ever owed.
ImuFairness == WF_mvars(Thread) /\ WF_mvars(Tick)

ImuSpec == ImuInit /\ [][ImuNext]_mvars /\ ImuFairness

(***************************************************************************)
(* Properties.                                                             *)
(***************************************************************************)

Polling == ses.pc = "poll"

\* What the publisher sends was read from the sensor since the previous
\* publication, no longer ago than the silence limit and the thread's own
\* delay, and under a sequence number the session has not shown yet: a bus
\* error that cut a poll short, or a brownout, never re-stamps a held pose.
PublishedIsFresh ==
  ~out.used /\ ~out.repeated /\ out.age <= Silence + late

\* A sensor that lost its feature is noticed: the session polling it ends
\* within the silence limit, counted from the last sample it could still
\* publish: a poll cut short may hold one over a run of failing polls.
BrownoutIsNoticed == Polling => sensor.quiet <= Silence + (MaxErrors - 1) + late

ImuHolds == PublishedIsFresh /\ BrownoutIsNoticed

\* After the last fault the robot gets samples again and again, unless the
\* process shuts down; and shutdown always ends the thread, whatever the
\* sensor does meanwhile.
ImuServes ==
  /\ stopping ~> (ses.pc = "ended")
  /\ []<>(out.beat \/ stopping) /\ []<>(~out.beat \/ stopping)
=============================================================================
