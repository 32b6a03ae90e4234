--------------------------------- MODULE MCOps ---------------------------------
(***************************************************************************)
(* The processes and laws around the supervisor on small instances, one    *)
(* of them in each behaviour (`part`):                                     *)
(*   "operators"     the gateway's answers to two limit patches;           *)
(*   "managers"      its evidence for a restart, over three connections;   *)
(*   "commands"      its command routes and token buckets;                 *)
(*   "streams"       its HTTP and WebTransport streams, two viewers;       *)
(*   "viewer"        one viewer that falls behind;                         *)
(*   "certificates"  the TLS renewal task across restarts;                 *)
(*   "deploys"       the deploy job ledger, two update runs;               *)
(*   "profile"       the profile transaction across power losses;          *)
(*   "scope"         two operators that change the commissioning scope;    *)
(*   "archive", "files"  marengo-log-cli, two tools or two kinds of file;  *)
(*   "recovery"      two processes that open and migrate the store;        *)
(*   "ingest"        the log writer and the journal import;                *)
(*   "fuses"         position-hold fuses, one joint;                       *)
(*   "law", "descent"  the hold reference with a free arm and one that     *)
(*                   follows;                                              *)
(*   "server"        the IPC listener, two commands, one fault;            *)
(*   "outbox"        the IPC client's outbox, two publishers;              *)
(*   "codec"         reference documents, one damaged byte;                *)
(*   "policy"        boot, tuning and hand edits of the configuration.     *)
(* The parts share the variables c1 .. c15: each module's variables are    *)
(* the first of them, in the order it declares them, and the rest are Off. *)
(***************************************************************************)
EXTENDS Integers, Sequences, FiniteSets

VARIABLES part, c1, c2, c3, c4, c5, c6, c7, c8, c9, c10, c11, c12, c13, c14, c15


--------------------------------------------------------------------------------
\* Token buckets are counted in quarter tokens, and the callers of one behaviour
\* use one group of routes.
QuarterTokens(n) ==
    [b \in {"tuning", "motion", "diagnostics", "poll", "testing"} |-> n]
RouteGroups ==
    {{"enable", "stop"}, {"set_zero", "disable"}, {"acquire", "release"}, {"poll"},
     {"testing", "home"}, {"tuning_persist"}, {"tuning", "tuning_firmware"}}

LimitEdits ==
    {[lo |-> 0, hi |-> 5, slo |-> -99, shi |-> -99, cap |-> 0],
     [lo |-> 1, hi |-> 4, slo |-> 2, shi |-> -99, cap |-> 1]}

WavePlan ==
    [samples |-> <<[target |-> 2, moving |-> TRUE], [target |-> 3, moving |-> TRUE],
                   [target |-> 3, moving |-> FALSE], [target |-> 0, moving |-> TRUE]>>,
     end |-> 0]

\* What a transaction staged, and robots of a joint and a link.
EvidenceSamples ==
    {[position |-> 0, order |-> 0, frames |-> 2, stamped |-> 1, accepted |-> 2, ack |-> 1],
     [position |-> 1, order |-> 1, frames |-> 2, stamped |-> 30, accepted |-> 31, ack |-> 23]}
UrdfJoints ==
    {[type |-> <<1>>, parent |-> [link |-> <<>>], dynamics |-> {}, mimic |-> {}],
     [type |-> <<2>>, parent |-> [link |-> <<7>>],
      dynamics |-> {[damping |-> 1, friction |-> 2]},
      mimic |-> {[joint |-> <<5>>, multiplier |-> {}, offset |-> {}]}],
     [type |-> <<3>>, parent |-> [link |-> <<7, 8>>], dynamics |-> {},
      mimic |-> {[joint |-> <<5>>, multiplier |-> {3}, offset |-> {4}]}]}
UrdfLinks ==
    {[inertial |-> [mass |-> [value |-> 1]], visual |-> v] :
        v \in {<<>>,
               <<[geometry |-> [kind |-> "sphere", radius |-> 1],
                  material |-> {[name |-> <<4>>, texture |-> {<<3>>}]}],
                 [geometry |-> [kind |-> "mesh", filename |-> <<6>>, scale |-> {2}],
                  material |-> {}]>>}}

\* Configurations: an arm of two joints that boots, and that arm with one field
\* at a time set to a value at, inside or outside what validation allows; the
\* first four are ConfigPolicy's.
NonFinite == 10000
Unset == -10000
NoSubset == {"every joint"}
NoProfile == [none |-> TRUE]
ArmRobot == [urdf |-> "arm.urdf", max_joint_torque |-> 6, joints |-> <<"a", "b">>]
ArmMotor(j, id) ==
    [joint |-> j, can_interface |-> "can0", device_id |-> id, motor_type |-> "rs03",
     direction |-> 1, gear_ratio |-> 1, lower |-> -3, upper |-> 3,
     velocity_limit |-> 5, torque_limit |-> 5]
ArmMotors == <<ArmMotor("a", 1), ArmMotor("b", 2)>>
ArmJoint ==
    [motor_type |-> "rs03", gravity_comp |-> [kp |-> 0, kd |-> 0, ki |-> 0],
     kp |-> 2, kd |-> 1, ki |-> 0, fc |-> 1, fv |-> 0, fo |-> 0, k |-> 0,
     fs |-> Unset, v_b |-> Unset, velocity_max |-> Unset, slew |-> 1, max_lead |-> 2,
     threshold |-> 1, trajectory_velocity |-> 2, accel |-> 1, deadband |-> 0, trim |-> 0,
     on_drive_loss |-> "disable_all", position_law |-> "legacy", e0 |-> Unset,
     integral_band |-> Unset, integral_leak |-> Unset, integral_cap |-> Unset,
     host_damping |-> Unset, damping_filter |-> Unset, ff_step_max |-> Unset,
     margin_min |-> 0, margin_k_v |-> 0, margin_k_stop |-> 0,
     fault_slack |-> 1, soft_lower |-> -2, soft_upper |-> 2]
ArmType == [kp_max |-> 3, kd_max |-> 2, tau_ff_max |-> 3, velocity_max |-> 4]
TopZone ==
    [name |-> "top", joint |-> "b", position_above |-> 2, velocity_below |-> 0,
     action |-> "clamp_velocity", max_velocity |-> 1, max_torque |-> Unset]
LossPlan ==
    [hold_window |-> 1, lower_velocity |-> 1, lower_settle |-> 1, lower_max |-> 2,
     tau_margin |-> 0]
ArmControl ==
    [loop_hz |-> 4, state_hz |-> 2, comm_watchdog |-> 1, drain_quiet |-> 3, tau_ff_rate |-> 1,
     motor_type_defaults |-> [rs03 |-> ArmType],
     actuator_groups |-> [wrist |-> [joints |-> <<"b">>, velocity_max |-> 3]],
     joints |-> [a |-> ArmJoint, b |-> ArmJoint], danger_zones |-> <<TopZone>>,
     sign |-> [expected |-> -1, min_velocity |-> 1, min_ticks |-> 2], drive_loss |-> LossPlan]
ByHand ==
    [method |-> "manual_reference", offset |-> Unset, velocity |-> Unset, torque |-> Unset,
     timeout |-> Unset, backoff |-> Unset, sensors |-> <<>>]
ArmHoming ==
    [tolerance |-> 1,
     defaults |-> [offset |-> 0, velocity |-> 1, torque |-> 1, timeout |-> 3, backoff |-> 0],
     joints |-> [a |-> ByHand, b |-> ByHand, c |-> ByHand]]
Hall == [ByHand EXCEPT !.method = "hall_three_sensor", !.sensors = <<1, 2, 3>>]
HallHoming(h) == [ArmHoming EXCEPT !.joints["b"] = h]
ArmProfile ==
    [robot |-> ArmRobot, motors |-> ArmMotors, control |-> ArmControl, homing |-> ArmHoming]

RobotEdits ==
    {ArmRobot, [ArmRobot EXCEPT !.joints = <<"a">>], [ArmRobot EXCEPT !.joints = <<"a", "a">>],
     [ArmRobot EXCEPT !.max_joint_torque = 1]}
MotorEdits ==
    {ArmMotors, <<ArmMotor("a", 1)>>, <<ArmMotor("a", 1), ArmMotor("b", 1)>>,
     [ArmMotors EXCEPT ![2].torque_limit = 0, ![2].lower = -1],
     [ArmMotors EXCEPT ![1].lower = 3], [ArmMotors EXCEPT ![1].motor_type = "rs00"]}
JointEdits ==
    {[ArmJoint EXCEPT !.kp = 4], [ArmJoint EXCEPT !.fs = 2], [ArmJoint EXCEPT !.fs = 0],
     [ArmJoint EXCEPT !.fs = 4], [ArmJoint EXCEPT !.velocity_max = 1],
     [ArmJoint EXCEPT !.velocity_max = 2], [ArmJoint EXCEPT !.velocity_max = 0],
     [ArmJoint EXCEPT !.trajectory_velocity = 4],
     [ArmJoint EXCEPT !.trajectory_velocity = NonFinite],
     [ArmJoint EXCEPT !.position_law = "scaled_pd", !.max_lead = 0],
     [ArmJoint EXCEPT !.position_law = "scaled_pd", !.e0 = 1], [ArmJoint EXCEPT !.e0 = 2],
     [ArmJoint EXCEPT !.integral_cap = 9], [ArmJoint EXCEPT !.host_damping = -1],
     [ArmJoint EXCEPT !.host_damping = 0, !.v_b = 1], [ArmJoint EXCEPT !.soft_lower = 3],
     [ArmJoint EXCEPT !.soft_lower = -5], [ArmJoint EXCEPT !.soft_lower = Unset],
     [ArmJoint EXCEPT !.gravity_comp.kp = 1], [ArmJoint EXCEPT !.on_drive_loss = "shed_subtree"],
     [ArmJoint EXCEPT !.margin_min = -1], [ArmJoint EXCEPT !.trim = NonFinite]}
ControlEdits ==
    {ArmControl}
    \cup {[ArmControl EXCEPT !.joints[j] = e] : j \in {"a", "b"}, e \in JointEdits}
    \cup {[ArmControl EXCEPT !.loop_hz = hz] : hz \in {0, 5, 13}}
    \cup {[ArmControl EXCEPT !.actuator_groups = g] :
            g \in {[wrist |-> [joints |-> <<"b">>, velocity_max |-> 3],
                    arm |-> [joints |-> <<"a", "b">>, velocity_max |-> 2]],
                   [wrist |-> [joints |-> <<"a", "b">>, velocity_max |-> 2]],
                   [wrist |-> [joints |-> <<>>, velocity_max |-> 2]]}}
    \cup {[ArmControl EXCEPT !.danger_zones = z] :
            z \in {<<TopZone, TopZone>>, <<[TopZone EXCEPT !.action = "clamp_torque"]>>,
                   <<[TopZone EXCEPT !.joint = "z"]>>}}
    \cup {[ArmControl EXCEPT !.state_hz = 5], [ArmControl EXCEPT !.drive_loss = NoProfile],
          [ArmControl EXCEPT !.drive_loss.lower_max = 0],
          [ArmControl EXCEPT !.drive_loss = NoProfile,
                             !.joints["b"].on_drive_loss = "shed_subtree"],
          [ArmControl EXCEPT !.sign.min_ticks = 0],
          [ArmControl EXCEPT !.motor_type_defaults = [rs03 |-> ArmType, rs09 |-> ArmType]],
          [ArmControl EXCEPT !.joints = [a |-> ArmJoint]],
          [ArmControl EXCEPT !.joints = [a |-> ArmJoint, b |-> ArmJoint, c |-> ArmJoint]]}
HomingEdits ==
    {ArmHoming, HallHoming(Hall), HallHoming([Hall EXCEPT !.velocity = 3]),
     HallHoming([Hall EXCEPT !.sensors = <<1, 1, 2>>]), HallHoming([Hall EXCEPT !.torque = 3]),
     [ArmHoming EXCEPT !.tolerance = 0], [ArmHoming EXCEPT !.defaults.timeout = 9],
     [ArmHoming EXCEPT !.joints = [a |-> ByHand]]}
ProfileSet ==
    {[ArmProfile EXCEPT !.control = c, !.homing = h] :
        c \in ControlEdits, h \in {ArmHoming, HallHoming([Hall EXCEPT !.velocity = 2])}}
    \cup {[ArmProfile EXCEPT !.robot = r, !.motors = m] : r \in RobotEdits, m \in MotorEdits}
    \cup {[ArmProfile EXCEPT !.robot = r, !.homing = h] : r \in RobotEdits, h \in HomingEdits}
    \cup {[ArmProfile EXCEPT !.motors = m, !.homing = h] : m \in MotorEdits, h \in HomingEdits}
EditedRobots == {ArmRobot, [ArmRobot EXCEPT !.joints = <<"a">>]}
EditedMotors == {[ArmMotors EXCEPT ![2].torque_limit = 0, ![2].lower = -1]}
EditedHomings == {ArmHoming, HallHoming([Hall EXCEPT !.velocity = 3])}
SubsetSet == {NoSubset, {"a"}, {"a", "b"}, {"z"}}
TuningValues == {3, 4, -1, NonFinite}
--------------------------------------------------------------------------------
Gate == INSTANCE Gateway WITH
    Patches <- {"p1", "p2"}, MaxEvents <- 2, MaxChanges <- 1, MaxModes <- 1,
    gHolder <- c1, gState <- c2, gReq <- c3, gManage <- c4, gPi <- c5, gInbox <- c6,
    gWire <- c7, gSpent <- c8
Manager == INSTANCE Gateway WITH
    Patches <- {"p1"}, MaxEvents <- 2, MaxChanges <- 3, MaxModes <- 2,
    gHolder <- c1, gState <- c2, gReq <- c3, gManage <- c4, gPi <- c5, gInbox <- c6,
    gWire <- c7, gSpent <- c8
Edge == INSTANCE GatewayCommands WITH
    CmdClients <- {"a", "b"}, CmdSlots <- {1, 2}, CmdJoints <- {"j"},
    Burst <- QuarterTokens(8), Refill <- QuarterTokens(4), BucketTtl <- 2,
    MaxCmdTicks <- 2, CmdFocuses <- RouteGroups, cBuckets <- c1, cReq <- c2,
    cLast <- c3, cLink <- c4, cTime <- c5, cSent <- c6, cFocus <- c7
Streams == INSTANCE GatewayStreams WITH
    Viewers <- {"v", "w"}, RingSize <- 1, StreamPermits <- 1, MaxFrames <- 2,
    sRing <- c1, sView <- c2, sHttp <- c3, sWt <- c4
Viewer == INSTANCE GatewayStreams WITH
    Viewers <- {"v"}, RingSize <- 1, StreamPermits <- 1, MaxFrames <- 3,
    sRing <- c1, sView <- c2, sHttp <- c3, sWt <- c4
Tls == INSTANCE TlsRenewal WITH
    Lifetime <- 6, RenewBefore <- 4, MaxHours <- 14, MaxFailures <- 2,
    MaxTlsCrashes <- 2, tFiles <- c1, tServed <- c2, tFinger <- c3, tUp <- c4,
    tStep <- c5, tNew <- c6, tHour <- c7, tFails <- c8, tCrashes <- c9
Deploy == INSTANCE DeployLedger WITH
    Runs <- {"r1", "r2"}, Revs <- {"v1", "v2"}, MaxAge <- 1, OrphanAge <- 0,
    MaxPolls <- 1, dFile <- c1, dWriter <- c2, dRun <- c3, dRev <- c4, dWww <- c5,
    dEver <- c6, dGate <- c7, dPoll <- c8, dPolls <- c9
Profile == INSTANCE ProfileFiles WITH
    Position <- 0 .. 5, SoftInset <- 1, LimitPatches <- LimitEdits, Tunings <- {1, 2},
    Uploads <- {"u1"},
    Contributors <- {[lower |-> 0, upper |-> 3, geometry |-> "g1"]}, MaxWrites <- 3,
    MaxPowerLosses <- 1, motors <- c1, control <- c2, urdf <- c3, liveLimits <- c4,
    profileLock <- c5, txn <- c6, staging <- c7, archive <- c8, activation <- c9,
    writesBegun <- c10, powerLosses <- c11, committed <- c12, torn <- c13,
    narrowed <- c14, promoted <- c15
Scope == INSTANCE Commissioning WITH
    MasterJoints <- {"a", "b"}, ScopeClients <- {"c", "d"}, MaxScopeCalls <- 2,
    ceiling <- c1, scopeFile <- c2, put <- c3, facets <- c4, enabling <- c5,
    scopeCalls <- c6, scopeWrites <- c7, lastGrowth <- c8, targets <- c9
Archive == INSTANCE StoreArchive WITH
    Captures <- {1, 2}, Kinds <- {1}, Candump <- 1, Tools <- {"t1", "t2"}, Keep <- 1,
    DiskBudget <- 1, MaxToolDeaths <- 1, MaxStuck <- 0, MaxCleared <- 0,
    hotFiles <- c1, blobs <- c2, sessions <- c3, tool <- c4, recorded <- c5,
    aged <- c6, toolDeaths <- c7, stuck <- c8, unlisted <- c9, condemned <- c10,
    overlapped <- c11
Files == INSTANCE StoreArchive WITH
    Captures <- {1, 2}, Kinds <- {1, 2}, Candump <- 2, Tools <- {"t1"}, Keep <- 1,
    DiskBudget <- 3, MaxToolDeaths <- 1, MaxStuck <- 1, MaxCleared <- 1,
    hotFiles <- c1, blobs <- c2, sessions <- c3, tool <- c4, recorded <- c5,
    aged <- c6, toolDeaths <- c7, stuck <- c8, unlisted <- c9, condemned <- c10,
    overlapped <- c11
Recovery == INSTANCE StoreRecovery WITH
    Openers <- {"o1", "o2"}, Rows <- {"r1", "r2"}, MaxStoreFaults <- 3, disk <- c1,
    stage <- c2, recoverPc <- c3, pinned <- c4, opener <- c5, storeFaults <- c6,
    original <- c7, intruders <- c8
Ingest == INSTANCE StoreIngest WITH
    MaxEvents <- 4, QueueSize <- 2, BatchSize <- 2, MaxLines <- 4, Unparsable <- {2},
    MaxIngestFaults <- 2, sent <- c1, dropped <- c2, queue <- c3, buffer <- c4,
    flight <- c5, eventRows <- c6, lostEvents <- c7, lines <- c8, cursor <- c9,
    reader <- c10, lineRows <- c11, ingestFaults <- c12
Fuses == INSTANCE HoldFuses WITH
    FuseJoints <- <<"a">>, Levels <- {-2, 0, 3}, Goals <- {3, -2},
    WavePlans <- {WavePlan}, Speeds <- {"full", "slow"}, HomeTol <- 1, Band <- 1,
    Threshold <- 0, Renew <- 1, Budget <- 2, MaxOrders <- 3, hold <- c1, wave <- c2,
    outcome <- c3, orders <- c4, log <- c5
Law == INSTANCE HoldReference WITH
    HardLo <- -2, HardHi <- 6, MarginPerSpeed <- 1, Goals <- {-2, 0, 5},
    Laws <- {"legacy", "scaled"}, Fractions <- {2}, Resync <- 1, Seed <- 1,
    FreezeMax <- 2, HomeMax <- 3, LowSpan <- 4, PullThrough <- 1, StuckLead <- 1,
    OnsetLead <- 3, OnsetTicks <- 1, SettleTicks <- 1, MaxLead <- 2, Slew <- 2,
    Cruise <- 3, FarMove <- 3, Accel <- 1, Deadband <- 1, ExitRate <- 2, E0 <- 1,
    E1 <- 3, CapAbove <- 3, CapRate <- 2, ArmStep <- 1, Rates <- {-2, 2},
    Arm <- "free", MaxOrders <- 2, arm <- c1, latch <- c2, ref <- c3, policy <- c4,
    cmd <- c5, was <- c6, orders <- c7
Descent == INSTANCE HoldReference WITH
    HardLo <- -2, HardHi <- 12, MarginPerSpeed <- 1, Goals <- {0, 1, 5, 12},
    Laws <- {"legacy", "scaled"}, Fractions <- {1, 2}, Resync <- 1, Seed <- 2,
    FreezeMax <- 4, HomeMax <- 5, LowSpan <- 6, PullThrough <- 1, StuckLead <- 1,
    OnsetLead <- 5, OnsetTicks <- 1, SettleTicks <- 30, MaxLead <- 3, Slew <- 2,
    Cruise <- 3, FarMove <- 3, Accel <- 1, Deadband <- 1, ExitRate <- 2, E0 <- 1,
    E1 <- 3, CapAbove <- 3, CapRate <- 2, ArmStep <- 2, Rates <- {-2, 0, 2},
    Arm <- "follows", MaxOrders <- 3, arm <- c1, latch <- c2, ref <- c3, policy <- c4,
    cmd <- c5, was <- c6, orders <- c7
Server == INSTANCE IpcServer WITH
    MaxConns <- 2, MaxUp <- 1, MaxDown <- 2, Kinds <- {"telemetry", "topic"},
    Scratch <- 3, GiveUpAfter <- 2, Window <- 0, MaxClock <- 1, MaxIpcFaults <- 1,
    listener <- c1, peer <- c2, active <- c3, delivery <- c4, isClosed <- c5,
    dead <- c6, reader <- c7, wire <- c8, told <- c9, sender <- c10, client <- c11,
    faults <- c12, clock <- c13, stray <- c14
Outbox == INSTANCE IpcFanout WITH
    NumLatest <- 1, EventCapacity <- 2, EventByteCapacity <- 3, MaxPayload <- 2,
    Lengths <- {1, 2, 3}, Publisher <- {"p1", "p2"}, CounterModulus <- 2, latest <- c1,
    events <- c2, eventBytes <- c3, nextClass <- c4, connected <- c5, closed <- c6,
    counter <- c7, taken <- c8, lastTaken <- c9, publisher <- c10, worker <- c11,
    notified <- c12, reader <- c13
Codec == INSTANCE ReferenceCodec WITH
    Base <- 24, BodyCapacity <- 190, NodeCapacity <- 55, CollectionCapacity <- 8,
    DepthCapacity <- 7, Tolerance <- 1, Captures <- EvidenceSamples,
    Robots <- [joint : UrdfJoints, link : UrdfLinks], Junk <- {0, 2, 5, 18, 23},
    MaxDamage <- 1, stage <- c1, doc <- c2, row <- c3, damage <- c4, seen <- c5
Policy == INSTANCE ConfigPolicy WITH
    Profiles <- ProfileSet, RobotFiles <- EditedRobots, MotorFiles <- EditedMotors,
    HomingFiles <- EditedHomings, Subsets <- SubsetSet,
    TunedParams <- {"kp", "fc", "velocity_max"}, TunedValues <- TuningValues,
    MaxHz <- 12, MaxTimeout <- 5, MaxTolerance <- 1, MaxIntegralCap <- 5,
    PersistQueue <- 1, MaxTunings <- 2, MaxEdits <- 1, MaxBoots <- 1, files <- c1,
    running <- c2, drafts <- c3, loaded <- c4, saved <- c5, tunings <- c6, edits <- c7,
    boots <- c8

ASSUME OpsAssumptions ==
    /\ Edge!BucketTtlAssumption /\ Tls!RenewAssumption /\ Fuses!FuseAssumption
    /\ Law!HoldReferenceAssumption /\ Descent!HoldReferenceAssumption
    /\ Server!IpcServerAssumption /\ Codec!CodecAssumption

Off == "off"
Off15 == c15 = Off
Off14 == c14 = Off /\ Off15
Off13 == c13 = Off /\ Off14
Off12 == c12 = Off /\ Off13
Off10 == c10 = Off /\ c11 = Off /\ Off12
Off9 == c9 = Off /\ Off10
Off8 == c8 = Off /\ Off9
Off6 == c6 = Off /\ c7 = Off /\ Off8
Off5 == c5 = Off /\ Off6
rest15 == <<c15>>
rest14 == <<c14, rest15>>
rest13 == <<c13, rest14>>
rest12 == <<c12, rest13>>
rest10 == <<c10, c11, rest12>>
rest9 == <<c9, rest10>>
rest8 == <<c8, rest9>>
rest6 == <<c6, c7, rest8>>
rest5 == <<c5, rest6>>
allVars == <<part, c1, c2, c3, c4, c5, c6, c7, c8, c9, c10, c11, c12, c13, c14, c15>>

MCInit ==
    \/ /\ Off5
       /\ \/ part = "streams" /\ Streams!StreamsInit
          \/ part = "viewer" /\ Viewer!StreamsInit
    \/ /\ Off6
       /\ \/ part = "fuses" /\ Fuses!HoldInit
          \/ part = "codec" /\ Codec!CodecInit
    \/ /\ Off8
       /\ \/ part = "commands" /\ Edge!CommandsInit
          \/ part = "law" /\ Law!LawInit
          \/ part = "descent" /\ Descent!LawInit
    \/ /\ Off9
       /\ \/ part = "operators" /\ Gate!GatewayInit
          \/ part = "managers" /\ Manager!GatewayInit
          \/ part = "recovery" /\ Recovery!StoreInit
          \/ part = "policy" /\ Policy!PolicyInit
    \/ /\ Off10
       /\ \/ part = "certificates" /\ Tls!TlsInit
          \/ part = "deploys" /\ Deploy!DeployInit
          \/ part = "scope" /\ Scope!CommissionInit
    \/ /\ Off12
       /\ \/ part = "archive" /\ Archive!ArchiveInit
          \/ part = "files" /\ Files!ArchiveInit
    \/ /\ Off13
       /\ \/ part = "ingest" /\ Ingest!IngestInit
    \/ /\ Off14
       /\ \/ part = "outbox" /\ Outbox!Init
    \/ /\ Off15
       /\ \/ part = "server" /\ Server!ServerInit
    \/ part = "profile" /\ Profile!ProfileInit

\* Every part is bounded and may end.
MCNext ==
    /\ UNCHANGED part
    /\ \/ /\ UNCHANGED rest5
          /\ \/ part = "streams" /\ Streams!StreamsNext
             \/ part = "viewer" /\ Viewer!StreamsNext
       \/ /\ UNCHANGED rest6
          /\ \/ part = "fuses" /\ Fuses!HoldNext
             \/ part = "codec" /\ Codec!CodecNext
       \/ /\ UNCHANGED rest8
          /\ \/ part = "commands" /\ Edge!CommandsNext
             \/ part = "law" /\ Law!LawNext
             \/ part = "descent" /\ Descent!LawNext
       \/ /\ UNCHANGED rest9
          /\ \/ part = "operators" /\ Gate!GatewayNext
             \/ part = "managers" /\ Manager!GatewayNext
             \/ part = "recovery" /\ Recovery!StoreNext
             \/ part = "policy" /\ Policy!PolicyNext
       \/ /\ UNCHANGED rest10
          /\ \/ part = "certificates" /\ Tls!TlsNext
             \/ part = "deploys" /\ Deploy!DeployNext
             \/ part = "scope" /\ Scope!CommissionNext
       \/ /\ UNCHANGED rest12
          /\ \/ part = "archive" /\ Archive!ArchiveNext
             \/ part = "files" /\ Files!ArchiveNext
       \/ /\ UNCHANGED rest13
          /\ \/ part = "ingest" /\ Ingest!IngestNext
       \/ /\ UNCHANGED rest14
          /\ \/ part = "outbox" /\ Outbox!Next
       \/ /\ UNCHANGED rest15
          /\ \/ part = "server" /\ Server!ServerNext
       \/ part = "profile" /\ Profile!ProfileNext

MCSpec == MCInit /\ [][MCNext]_allVars
--------------------------------------------------------------------------------

\* Commands are capped and authorized and a stop never is (GatewayCommands), a
\* slow viewer is told what it lost (GatewayStreams), and the certificate
\* served has the fingerprint shown and has not expired (TlsRenewal).
EdgeHolds ==
    /\ part = "commands" => Edge!CommandEdgeHolds
    /\ part = "streams" => Streams!StreamsHold
    /\ part = "viewer" => Viewer!StreamsHold
    /\ part = "certificates" => Tls!TlsHolds




\* A retired connection or a stale command is never served (IpcServer), and the
\* outbox adds up within its bounds (IpcFanout).
IpcHolds ==
    /\ part = "server" => Server!ServerHolds
    /\ part = "outbox" => Outbox!OutboxAdds /\ Outbox!EventBytesExact

\* What the journal shows of a document is what was staged (ReferenceCodec).
CodecHolds == part = "codec" => Codec!CodecHolds

\* What runs was validated, and what is saved boots (ConfigPolicy).
PolicyHolds == part = "policy" => Policy!PolicyHolds
================================================================================
