------------------------------ MODULE MCThreads ------------------------------
(***************************************************************************)
(* The threads around the supervisor on small instances, one of them in    *)
(* each behaviour (`part`):                                                *)
(*   "fanout"     the IPC client's outbox and its two threads;             *)
(*   "server"     the IPC listener and two connections;                    *)
(*   "log"        the log quota, two threads over two seconds;             *)
(*   "imu"        the IMU thread, bus errors and brownouts;                *)
(*   "reference"  one order to acquire a reference.                        *)
(* Variables that a part does not use are Off, or rest in the initial      *)
(* state of the IPC client.                                                *)
(***************************************************************************)
EXTENDS IpcFanout, Reference

VARIABLES
    part,
    \* IpcServer; `faults` is also ImuPublisher's
    listener, peer, active, delivery, isClosed, dead, readers, wire, told, sender,
    client, faults, clock, stray,
    sensor, drv, ses, stopping, out, late,             \* ImuPublisher
    second, bucket, dropped, caller, seen, granted     \* LogLayer

Server == INSTANCE IpcServer WITH
    MaxConns <- 2, MaxUp <- 1, MaxDown <- 1, Kinds <- {"telemetry", "topic"}, Scratch <- 3,
    GiveUpAfter <- 2, Window <- 1, MaxClock <- 0, MaxIpcFaults <- 2, reader <- readers
Imu == INSTANCE ImuPublisher WITH
    Batches <- {<<"meta", "rotation", "cut">>, <<"zero", "unknown", "rotation">>},
    QueueMax <- 2, IdWait <- 1, FeatureWait <- 1, Silence <- 3, MaxErrors <- 2,
    InitialBackoff <- 1, MaxBackoff <- 2, SeqWidth <- 6, MaxImuFaults <- 2
Log == INSTANCE LogLayer WITH
    Threads <- {"t1", "t2"}, Classes <- {"urgent", "normal"},
    Limit <- [urgent |-> 1, normal |-> 2], CountMask <- 3, MaxSeconds <- 2, MaxLogEvents <- 4

ASSUME ThreadAssumptions == Server!IpcServerAssumption /\ Log!LogAssumption

Off == "off"
ServerOff ==
    /\ listener = Off /\ peer = Off /\ active = Off /\ delivery = Off
    /\ isClosed = Off /\ dead = Off /\ readers = Off /\ wire = Off
    /\ told = Off /\ sender = Off /\ client = Off /\ clock = Off
    /\ stray = Off
ImuOff ==
    /\ sensor = Off /\ drv = Off /\ ses = Off /\ stopping = Off /\ out = Off
    /\ late = Off
LogOff ==
    /\ second = Off /\ bucket = Off /\ dropped = Off /\ caller = Off
    /\ seen = Off /\ granted = Off
ReferenceOff ==
    /\ rRes = Off /\ rSeq = Off /\ rTxn = Off /\ rPend = Off /\ rJobs = Off
    /\ rAuth = Off /\ rDev = Off /\ rEcho = Off /\ rStop = Off
    /\ rFault = Off /\ rEstop = Off /\ rPolicy = Off /\ rDue = Off
    /\ rOut = Off /\ rAt = Off /\ rRx = Off /\ rDrive = Off /\ rQ = Off
    /\ rDefer = Off /\ rMishaps = Off /\ rOrders = Off /\ rLoose = Off
    /\ rSpoilt = Off /\ rBad = Off
serverVars ==
    <<listener, peer, active, delivery, isClosed, dead, readers, wire, told,
      sender, client, clock, stray>>
imuVars ==
    <<sensor, drv, ses, stopping, out, late>>
logVars ==
    <<second, bucket, dropped, caller, seen, granted>>
allVars == <<part, vars, rvars, serverVars, faults, imuVars, logVars>>

MCInit ==
    /\ Init
    /\ \/ /\ part = "fanout"
          /\ ServerOff /\ faults = Off /\ ImuOff /\ LogOff /\ ReferenceOff
       \/ part = "server" /\ Server!ServerInit /\ ImuOff /\ LogOff /\ ReferenceOff
       \/ part = "log" /\ Log!LogInit /\ ServerOff /\ faults = Off /\ ImuOff /\ ReferenceOff
       \/ part = "imu" /\ Imu!ImuInit /\ ServerOff /\ LogOff /\ ReferenceOff
       \/ part = "reference" /\ ReferenceInit /\ ServerOff /\ faults = Off /\ ImuOff /\ LogOff

\* An action of one part leaves the variables of the others as they are.
InFanout(A) ==
    part = "fanout" /\ A /\ UNCHANGED <<part, serverVars, faults, imuVars, logVars, rvars>>
InServer(A) == part = "server" /\ A /\ UNCHANGED <<part, vars, imuVars, logVars, rvars>>
InLog(A) ==
    part = "log" /\ A /\ UNCHANGED <<part, vars, serverVars, faults, imuVars, rvars>>
InImu(A) == part = "imu" /\ A /\ UNCHANGED <<part, vars, serverVars, logVars, rvars>>
InReference(A) ==
    part = "reference" /\ A /\ UNCHANGED <<part, vars, serverVars, faults, imuVars, logVars>>

\* Publications, connections, faults and orders are bounded: every part may end.
MCNext ==
    \/ InFanout(Next) \/ InServer(Server!ServerNext) \/ InLog(Log!LogNext)
    \/ InImu(Imu!ImuNext) \/ InReference(ReferenceNext)

(***************************************************************************)
(* The fairness of IpcFanout, IpcServer, ImuPublisher and Reference.  A    *)
(* part never changes, so that fairness of a disjunction over the parts is *)
(* the fairness of each part's own action.                                 *)
(***************************************************************************)
MCSpec ==
    /\ MCInit /\ [][MCNext]_allVars
    /\ WF_allVars(\/ InFanout(WorkerGoesOn) \/ InServer(Server!ListenerStep)
                  \/ InImu(Imu!Thread) \/ InReference(Work))
    /\ WF_allVars(\/ InFanout(notified /\ Wake) \/ InServer(Server!ReaderStep(1))
                  \/ InImu(Imu!Tick) \/ InReference(PhaseExpires))
    /\ WF_allVars(\/ InFanout(worker = "join" /\ ReadEnds) \/ InServer(Server!ReaderStep(2))
                  \/ InReference(JournalAnswers))
    /\ WF_allVars(InFanout(ReaderReports) \/ InReference(Pump))
    /\ WF_allVars(InReference(PumpEstop))
------------------------------------------------------------------------------
\* The outbox's byte count is exact (IpcFanout), a retired connection or a stale
\* command is never served (IpcServer), the log quota is never exceeded (LogLayer),
\* and what the IMU thread publishes is fresh and a silent sensor is noticed
\* (ImuPublisher).
ThreadsHold ==
    /\ EventBytesExact
    /\ part = "server" => Server!ServerHolds
    /\ part = "log" => Log!QuotaHolds
    /\ part = "imu" => Imu!ImuHolds

(***************************************************************************)
(* What each part owes and how it is paid, numbered together:              *)
(*   fanout     EventsAreServed, ShutdownCompletes;                        *)
(*   server     LossIsReported for both connections, ListenerStops;        *)
(*   imu        ImuServes: samples come again and again, and shutdown ends *)
(*              the thread;                                                *)
(*   reference  ReferencesAreAnswered, for both transactions.              *)
(***************************************************************************)
Waits(k) ==
    CASE part = "fanout" ->
            <<events # <<>> /\ connected /\ lastTaken # EventClass, closed, FALSE>>[k]
      [] part = "server" -> IF k < 3 THEN active = k /\ wire[k].shut ELSE isClosed
      [] part = "imu" -> <<~out.beat, out.beat, stopping>>[k]
      [] part = "reference" -> rQ.flight = k
      [] OTHER -> FALSE

Done(k) ==
    CASE part = "fanout" ->
            IF k = 1 THEN lastTaken = EventClass \/ ~connected ELSE worker = "exited"
      [] part = "server" -> IF k < 3 THEN active # k ELSE listener.at = "done"
      [] part = "imu" -> IF k < 3 THEN stopping \/ out.beat = (k = 1) ELSE ses.pc = "ended"
      [] part = "reference" -> rQ.flight # k
      [] OTHER -> TRUE

ThreadsAnswer == \A k \in 1..3 : Waits(k) ~> Done(k)
==============================================================================
