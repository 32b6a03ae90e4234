------------------------------- MODULE MCDrives -------------------------------
(***************************************************************************)
(* The drives, their bus and their owners on small instances, one of them  *)
(* in each behaviour (`part`):                                             *)
(*   "loss"       two drives that die and return, faults, refused writes;  *)
(*   "stall"      the host stalls between any two steps of a tick;         *)
(*   "alone"      one drive falls silent and nothing else goes wrong;      *)
(*   "disabled"   one drive, and an operator who also disables;            *)
(*   "echo"       one interface, several writes and another writer;        *)
(*   "replies"    two interfaces, replies of two communication types;      *)
(*   "clock"      receive stamps under steps of the wall clock;            *)
(*   "owners"     marengo-pi and two tools that stop or zero drives;       *)
(*   "tools"      the tools alone;                                         *)
(*   "reporting"  leases and slots of active reporting, three drives.      *)
(* Variables that a part does not use are Off, or rest in the initial      *)
(* state of the drive-loss model.                                          *)
(***************************************************************************)
EXTENDS DriveLoss

CONSTANT NoTime   \* the model value ReportingLeases calls Never

VARIABLES
    part,
    \* CanReceive
    tx, rx, pending, dropped, reported, cursor, nextStart, poll, writes,
    traffic, trouble, wire, admitted, failed,
    \* RxClock; `heard` is also DriveOwners'
    now, offset, arrivals, jumps, queued, read, floor, emptyAt, fellBack, heard,
    \* DriveOwners; `drive` is also ReportingLeases'
    claim, down, opc, next, result, foreign, sig, reach, sent, drive, busy, faults,
    \* ReportingLeases
    leases, rep, slots, beat, host, waiting, calls, mishaps

\* An arm of three joints: losing the elbow sheds it and the wrist, losing the
\* wrist sheds the wrist, the shoulder has no plan.
MCSubtree == [j \in {"elbow", "wrist"} |->
                 IF j = "elbow" THEN {"elbow", "wrist"} ELSE {"wrist"}]
Accepting == {{}}
SomeRefused == {{}, {"wrist"}}
SheddingCommands == {"enable", "mode", "lower"}
Stall == INSTANCE DriveLoss WITH
    Watchdog <- 2, Grace <- 2, Returns <- {}, Commands <- SheddingCommands,
    Modes <- {"GravityComp", "Position", "TorqueOnly"}, Hazardous <- FALSE,
    Refusing <- Accepting, Stalls <- TRUE
Alone == INSTANCE DriveLoss WITH
    Watchdog <- 2, Grace <- 2, Mortal <- {"elbow"}, Returns <- {"Reset"},
    Commands <- SheddingCommands \cup {"reenable", "facet", "sync"},
    Modes <- {"GravityComp", "Position", "TorqueOnly"}, Hazardous <- FALSE,
    Refusing <- Accepting, Paced <- FALSE

Disabled == INSTANCE DriveLoss WITH
    Mortal <- {"elbow"}, Returns <- {"Reset", "Run"},
    Commands <- SheddingCommands \cup {"disable"}, Hazardous <- FALSE

Echo == INSTANCE CanReceive WITH
    NumSources <- 1, Devices <- {1}, Strangers <- {}, OwnCommands <- {"enable"},
    OtherCommands <- {"enable"}, DriveTypes <- {2}, TxQueue <- 1, RxQueue <- 2,
    MaxPending <- 3, MaxPollFrames <- 2, MaxPollReads <- 3, DropModulus <- 16,
    MaxWrites <- 3, MaxTraffic <- 2, MaxTrouble <- 1
Replies == INSTANCE CanReceive WITH
    NumSources <- 2, Devices <- {1}, Strangers <- {}, OwnCommands <- {"off"},
    OtherCommands <- {"read"}, DriveTypes <- {17, 24}, TxQueue <- 1, RxQueue <- 1,
    MaxPending <- 3, MaxPollFrames <- 2, MaxPollReads <- 5, DropModulus <- 16,
    MaxWrites <- 1, MaxTraffic <- 2, MaxTrouble <- 1
Clock == INSTANCE RxClock WITH
    MaxNow <- 3, MaxArrivals <- 2, MaxJumps <- 1, Jumps <- {2}, MaxRxAge <- 2

Tools == [pi |-> "pi", sz |-> "set-zero", off |-> "disable", st |-> "status",
          ins |-> "inspect"]
Owners == INSTANCE DriveOwners WITH
    Interfaces <- {1, 2}, Procs <- {"pi", "sz", "off"}, Command <- Tools,
    Attempts <- 3, MaxBusy <- 2, MaxFaults <- 1, pc <- opc, outcome <- result
Readers == INSTANCE DriveOwners WITH
    Interfaces <- {1, 2}, Procs <- {"sz", "ins", "st"}, Command <- Tools,
    Attempts <- 3, MaxBusy <- 1, MaxFaults <- 1, pc <- opc, outcome <- result
Reporting == INSTANCE ReportingLeases WITH
    Motors <- <<"a", "b", "c">>, Interface <- [a |-> "can0", b |-> "can0", c |-> "can1"],
    LeaseIds <- {"l1"}, MaxLeases <- 1, Ttl <- 4, Stale <- 2, Heartbeat <- 3,
    BlackoutFrom <- 1, Quiet <- 3, ExitWait <- 2, Never <- NoTime, Diagnostics <- FALSE,
    MaxLeaseCalls <- 2, MaxReportFaults <- 2

ASSUME DriveAssumptions ==
    /\ Echo!CanAssumption /\ Replies!CanAssumption /\ Clock!RxAssumption
    /\ Owners!OwnersConstants /\ Readers!OwnersConstants

Off == "off"
CanOff ==
    /\ tx = Off /\ rx = Off /\ pending = Off /\ dropped = Off /\ reported = Off
    /\ cursor = Off /\ nextStart = Off /\ poll = Off /\ writes = Off
    /\ traffic = Off /\ trouble = Off /\ wire = Off /\ admitted = Off /\ failed = Off
ClockOff ==
    /\ now = Off /\ offset = Off /\ arrivals = Off /\ jumps = Off /\ queued = Off
    /\ read = Off /\ floor = Off /\ emptyAt = Off /\ fellBack = Off
OwnersOff ==
    /\ claim = Off /\ down = Off /\ opc = Off /\ next = Off /\ result = Off
    /\ foreign = Off /\ sig = Off /\ reach = Off /\ sent = Off /\ busy = Off
    /\ faults = Off
ReportingOff ==
    /\ leases = Off /\ rep = Off /\ slots = Off /\ beat = Off /\ host = Off
    /\ waiting = Off /\ calls = Off /\ mishaps = Off
canVars == <<tx, rx, pending, dropped, reported, cursor, nextStart, poll, writes,
             traffic, trouble, wire, admitted, failed>>
clockVars == <<now, offset, arrivals, jumps, queued, read, floor, emptyAt, fellBack>>
ownerVars == <<claim, down, opc, next, result, foreign, sig, reach, sent, busy, faults>>
leaseVars == <<leases, rep, slots, beat, host, waiting, calls, mishaps>>
allVars == <<part, vars, canVars, clockVars, heard, ownerVars, drive, leaseVars>>

LossParts == {"loss", "stall", "alone", "disabled"}

MCInit ==
    \/ /\ part \in LossParts
       /\ Init /\ CanOff /\ ClockOff /\ heard = Off /\ OwnersOff /\ drive = Off /\ ReportingOff
    \/ /\ Init /\ ClockOff /\ heard = Off /\ OwnersOff /\ drive = Off /\ ReportingOff
       /\ \/ part = "echo" /\ Echo!CanInit
          \/ part = "replies" /\ Replies!CanInit
    \/ /\ part = "clock"
       /\ Clock!RxInit /\ Init /\ CanOff /\ OwnersOff /\ drive = Off /\ ReportingOff
    \/ /\ Init /\ CanOff /\ ClockOff /\ ReportingOff
       /\ \/ part = "owners" /\ Owners!OwnersInit
          \/ part = "tools" /\ Readers!OwnersInit
    \/ /\ part = "reporting"
       /\ Reporting!ReportingInit /\ Init /\ CanOff /\ ClockOff /\ heard = Off /\ OwnersOff

MCNext ==
    /\ UNCHANGED part
    /\ \/ /\ UNCHANGED <<canVars, clockVars, heard, ownerVars, drive, leaseVars>>
          /\ \/ part = "loss" /\ Next
             \/ part = "stall" /\ Stall!Next
             \/ part = "alone" /\ Alone!Next
             \/ part = "disabled" /\ Disabled!Next
       \/ /\ UNCHANGED <<vars, clockVars, heard, ownerVars, drive, leaseVars>>
          /\ \/ part = "echo" /\ Echo!CanNext
             \/ part = "replies" /\ Replies!CanNext
       \/ /\ part = "clock" /\ Clock!RxNext
          /\ UNCHANGED <<vars, canVars, ownerVars, drive, leaseVars>>
       \/ /\ UNCHANGED <<vars, canVars, clockVars, leaseVars>>
          /\ \/ part = "owners" /\ Owners!OwnersNext
             \/ part = "tools" /\ Readers!OwnersNext
       \/ /\ part = "reporting" /\ Reporting!ReportingNext
          /\ UNCHANGED <<vars, canVars, clockVars, heard, ownerVars>>
       \* Frames, arrivals, tools and lease calls are bounded: these parts end.
       \/ part \notin LossParts /\ UNCHANGED allVars

MCSpec == MCInit /\ [][MCNext]_allVars
LossSpec == part = "loss" /\ MCInit /\ [][MCNext]_allVars
------------------------------------------------------------------------------
\* The type invariant and the story an episode tells, with the constants of
\* the part that runs; alone, a silent drive's episode also runs its course.
EpisodeIsTold ==
    /\ EventsTellTheEpisode
    /\ IF part = "stall" THEN Stall!TypeOK ELSE IF part = "alone" THEN Alone!TypeOK ELSE TypeOK
    /\ part = "alone" => EpisodeRunsItsCourse

\* Nothing moves past the deadline of an episode in a host that keeps its
\* period, and neither a stall of the host nor one silent drive drops the arm
\* (DriveLoss).
ArmIsKept ==
    [][/\ part # "stall" => MovesInTime
       /\ part \in {"stall", "alone"} => DropHasCause]_vars

\* What was received is accounted for: echoes, drops, stale and foreign frames
\* (CanReceive); no frame is stamped younger than it is (RxClock); the drives
\* have one owner at a time, and what an ended tool says of them is true
\* (DriveOwners).
BusHolds ==
    /\ part = "echo" => Echo!ReceiveHolds
    /\ part = "replies" => Replies!ReceiveHolds
    /\ part = "clock" => Clock!StampsAreHonest
    /\ part = "owners" => Owners!OwnersHold
    /\ part = "tools" => Readers!OwnersHold

\* A reporting stream is switched when it is owed and never in a drive's
\* blackout (ReportingLeases).
ReportingHolds == part = "reporting" => Reporting!ReportingHolds
==============================================================================
