----------------------------- MODULE CanReceive -----------------------------
(***************************************************************************)
(* The receive side of the robstride CAN driver as its motor owner uses    *)
(* it: one SocketCAN socket per interface, each with the kernel's queue,   *)
(* the ledger of frames this socket wrote and has not read back            *)
(* (EchoLedger), the cumulative drop count, and the bounded poll (drain)   *)
(* that reads the sockets in rounds and classifies what it read.           *)
(*                                                                         *)
(* The environment is the wire: this owner's frames leave its transmit     *)
(* queue one by one, other writers and drives put frames on the same bus,  *)
(* the interface goes bus-off and loses what was queued, and a full kernel *)
(* queue drops frames.  A frame carries who really put it on the wire (a   *)
(* ghost the code cannot read) and, for this owner's, its number.          *)
(***************************************************************************)
EXTENDS Naturals, Sequences, FiniteSets

CONSTANTS
    NumSources,     \* interfaces in the router
    Devices,        \* configured drives; the bus may carry others
    Strangers,      \* device ids on the bus that are not configured
    OwnCommands,    \* commands this owner writes in this instance
    OtherCommands,  \* commands another writer puts on the bus
    DriveTypes,     \* communication types drives send in this instance
    TxQueue,        \* txqueuelen of an interface
    RxQueue,        \* frames a socket's receive queue holds
    MaxPending,     \* MAX_PENDING_ECHOES
    MaxPollFrames,  \* MAX_RX_FRAMES_PER_POLL, or a narrower limit
    MaxPollReads,   \* MAX_RX_ATTEMPTS_PER_POLL, or a narrower limit
    DropModulus,    \* 2^32: the kernel's drop count wraps
    MaxWrites,      \* bound: frames this owner writes
    MaxTraffic,     \* bound: frames others put on the bus
    MaxTrouble      \* bound: bus-off events, read errors and interruptions

CanAssumption ==
    /\ NumSources \in Nat \ {0}
    /\ MaxPollFrames \in Nat /\ MaxPollReads \in Nat
    /\ DropModulus > MaxWrites + MaxTraffic + MaxTrouble

-----------------------------------------------------------------------------
(***************************************************************************)
(* The extended identifiers of the robstride protocol and what a received  *)
(* frame is taken for (bus.rs, comm.rs, lifecycle.rs, identity.rs,         *)
(* params.rs, version.rs).  An identifier has a communication type, a      *)
(* middle byte (bits 15..8) and a low byte: a host's command carries the   *)
(* host in the middle and the drive low, a drive's frame the other way     *)
(* around.  A payload is "std" (the eight bytes the encoder of that type   *)
(* writes), "alt" (eight other bytes: a reporting On, a version reply) or  *)
(* "short".                                                                *)
(***************************************************************************)
HostId == 253       \* DEFAULT_HOST_ID
ReplyMarker == 254  \* DEVICE_ID_REPLY_MARKER

Envelope(type, mid, low, body) ==
    [kind |-> "data", type |-> type, mid |-> mid, low |-> low, body |-> body]
ErrorFrame == [kind |-> "error", type |-> 0, mid |-> 0, low |-> 0, body |-> "std"]

\* What the host's encoders write to drive d.  An MIT command carries torque
\* where the other commands carry the host, so its middle byte is anything.
EncodedCommand(d) ==
    [identity |-> Envelope(0, HostId, d, "std"),
     mit      |-> Envelope(1, d, d, "alt"),
     enable   |-> Envelope(3, HostId, d, "std"),
     disable  |-> Envelope(4, HostId, d, "std"),
     version  |-> Envelope(4, HostId, d, "alt"),
     set_zero |-> Envelope(6, HostId, d, "std"),
     read     |-> Envelope(17, HostId, d, "alt"),
     off      |-> Envelope(24, HostId, d, "std"),
     on       |-> Envelope(24, HostId, d, "alt")]

\* What drive d puts on the bus.
DriveFrames(d) ==
    {Envelope(0, d, ReplyMarker, "alt"), Envelope(2, d, HostId, "std"),
     Envelope(2, d, HostId, "alt"), Envelope(17, d, HostId, "alt"),
     Envelope(21, d, HostId, "alt"), Envelope(24, d, HostId, "std")}

\* TX_COMMUNICATION_TYPES, validate_can_tx.
Transmittable(e) == e.type \in {0, 1, 3, 4, 6, 17, 18, 24}

IsHostCommand_ByType(e) == e.type \in {1, 3, 4, 6, 7, 18, 22, 23, 25}
IsHostCommand(e) ==
    \/ e.type \in {1, 3, 4, 6, 7, 18, 22, 23, 25}
    \/ e.type \in {0, 17, 24} /\ e.mid = HostId

\* ingest_host_echo: exactly the frame this host's encoder writes.
EchoOf(e, devices) ==
    IF e.mid = HostId /\ e.body = "std" /\ e.low \in devices THEN "echo" ELSE "skipped"

\* ingest_reply_frame: complete replies, to this host, of a configured drive.
ReplyOf(e, devices) ==
    LET decodes == IF e.type = 0 THEN e.low = ReplyMarker ELSE e.low = HostId
    IN  IF e.body # "short" /\ decodes /\ e.mid \in devices
        THEN (IF e.type = 0 THEN "identity" ELSE "parameter") ELSE "skipped"

\* ingest_feedback_frames, a status, report or fault of a configured drive.
FeedbackOf(e) ==
    CASE e.body = "short" -> "malformed"
      [] e.type = 21 /\ e.body # "short" -> "fault"
      [] e.type = 2 /\ e.body = "alt" -> "version"
      [] OTHER -> "status"

\* ingest_feedback_frames, in its order.
Class(e, devices) ==
    LET device == IF e.type \in {2, 21, 24} THEN e.mid ELSE e.low
    IN  CASE e.kind = "error" -> "transport"
          [] e.kind # "error" /\ e.type \in {0, 17} -> ReplyOf(e, devices)
          [] e.kind # "error" /\ e.type \in {3, 6} -> EchoOf(e, devices)
          [] e.kind # "error" /\ e.type \in {2, 21, 24} /\ device = HostId ->
                IF e.type = 24 THEN EchoOf(e, devices) ELSE "skipped"
          [] e.kind # "error" /\ e.type \in {2, 21, 24} /\ device \in devices -> FeedbackOf(e)
          [] OTHER -> "skipped"

\* What can only come from a drive.
DriveEvidence == {"identity", "parameter", "status", "version", "fault", "malformed"}
-----------------------------------------------------------------------------
Sources == 1..NumSources

VARIABLES
    tx,        \* per source: own frames written and not yet on the wire
    rx,        \* per source: the socket's receive queue
    pending,   \* per source: EchoLedger::pending
    dropped,   \* per source: the kernel's cumulative drop count
    reported,  \* per source: drops_reported
    cursor, nextStart,   \* SocketCanRouter's round-robin
    poll,      \* the poll in progress, or the answer of the last one
    writes, traffic, trouble,   \* what the bounds have left
    wire,      \* ghost, per source: numbers of the own frames that went out
    admitted,  \* ghost, per source: what was taken as an own host command
    failed     \* ghost, per source: a failed read or an error frame was seen

cvars2 == <<tx, rx, pending, dropped, reported, cursor, nextStart, poll,
            writes, traffic, trouble, wire, admitted, failed>>

-----------------------------------------------------------------------------
(* Frames: an envelope, who put it on the wire and its number.             *)

Frame(from, envelope, number) ==
    [from |-> from, env |-> envelope, number |-> number]

\* EchoLedger::claim: only a complete data frame, exactly as written.
Matching(s, f) ==
    {i \in 1..Len(pending[s]) : f.env.body # "short" /\ pending[s][i] = f.env}
Claimed(s, f) ==
    IF Matching(s, f) = {} THEN pending[s]
    ELSE LET first == CHOOSE i \in Matching(s, f) :
                         \A j \in Matching(s, f) : i <= j
         IN  SubSeq(pending[s], 1, first - 1)
                \o SubSeq(pending[s], first + 1, Len(pending[s]))

\* EchoLedger::admit, the frame not claimed by the ledger.
Refused(s, f) ==
    f.env.kind # "error" /\ IsHostCommand(f.env) /\ Matching(s, f) = {}

\* The kernel queues a frame with the drop count as it stands, or drops it.
Queued(s, f) ==
    IF Len(rx[s]) < RxQueue
    THEN /\ rx' = [rx EXCEPT ![s] = Append(@, [frame |-> f, count |-> dropped[s]])]
         /\ UNCHANGED dropped
    ELSE /\ dropped' = [dropped EXCEPT ![s] = (@ + 1) % DropModulus]
         /\ UNCHANGED rx

Quiescent(answer) == [active |-> FALSE, answer |-> answer]

CanInit ==
    /\ tx = [s \in Sources |-> <<>>]
    /\ rx = [s \in Sources |-> <<>>]
    /\ pending = [s \in Sources |-> <<>>]
    /\ dropped = [s \in Sources |-> 0]
    /\ reported = [s \in Sources |-> 0]
    /\ cursor = 1 /\ nextStart = 1
    /\ poll = Quiescent("none")
    /\ writes = 0 /\ traffic = 0 /\ trouble = 0
    /\ wire = [s \in Sources |-> <<>>]
    /\ admitted = [s \in Sources |-> <<>>]
    /\ failed = [s \in Sources |-> FALSE]

-----------------------------------------------------------------------------
(* The owner writes.                                                       *)

\* EchoLedger::transmitted.
Transmitted(s, env) ==
    pending' = [pending EXCEPT ![s] =
        Append(IF Len(@) = MaxPending THEN Tail(@) ELSE @, env)]

\* SocketCanBus::send_frame: one write; a full transmit queue refuses it and
\* nothing is recorded.
Send(s, env) ==
    /\ ~poll.active /\ writes < MaxWrites
    /\ Transmittable(env) /\ Len(tx[s]) < TxQueue
    /\ writes' = writes + 1
    /\ tx' = [tx EXCEPT ![s] = Append(@, Frame("own", env, writes + 1))]
    /\ Transmitted(s, env)
    /\ UNCHANGED <<rx, dropped, reported, cursor, nextStart, poll, traffic,
                   trouble, wire, admitted, failed>>

-----------------------------------------------------------------------------
(* The bus.                                                                *)

\* A frame of this owner goes out; every socket on the interface, its own
\* included, is handed it.
GoesOut(s) ==
    /\ tx[s] # <<>>
    /\ tx' = [tx EXCEPT ![s] = Tail(@)]
    /\ wire' = [wire EXCEPT ![s] = Append(@, Head(tx[s]).number)]
    /\ Queued(s, Head(tx[s]))
    /\ UNCHANGED <<pending, reported, cursor, nextStart, poll, writes, traffic,
                   trouble, admitted, failed>>

\* Another writer's command, whole or truncated, or a drive's frame.
OtherTraffic(s, f) ==
    /\ traffic < MaxTraffic
    /\ traffic' = traffic + 1
    /\ Queued(s, f)
    /\ UNCHANGED <<tx, pending, reported, cursor, nextStart, poll, writes,
                   trouble, wire, admitted, failed>>

\* Bus-off: what waited to be sent is lost and the kernel says so.
BusOff(s) ==
    /\ trouble < MaxTrouble
    /\ trouble' = trouble + 1
    /\ tx' = [tx EXCEPT ![s] = <<>>]
    /\ Queued(s, Frame("kernel", ErrorFrame, 0))
    /\ UNCHANGED <<pending, reported, cursor, nextStart, poll, writes, traffic,
                   wire, admitted, failed>>

-----------------------------------------------------------------------------
(* The poll.                                                               *)

\* drain up to its loop, and SocketCanRouter::begin_receive.  `ahead` is a
\* ghost: how much of each queue stood there when the poll began.
BeginPoll(budget) ==
    /\ ~poll.active
    /\ cursor' = nextStart
    /\ nextStart' = (nextStart % NumSources) + 1
    /\ poll' = [active |-> TRUE, budget |-> budget, frames |-> 0, reads |-> 0,
                round |-> 0, idle |-> TRUE, lastIdle |-> FALSE, error |-> FALSE,
                quiet |-> FALSE, evidence |-> {}, done |-> "no",
                ahead |-> [s \in Sources |-> Len(rx[s])]]
    /\ UNCHANGED <<tx, rx, pending, dropped, reported, writes, traffic, trouble,
                   wire, admitted, failed>>

Polling == poll.active /\ poll.done = "no"
AtCap == poll.frames >= MaxPollFrames \/ poll.reads >= MaxPollReads

Completes(why) ==
    /\ poll' = [poll EXCEPT !.done = why]
    /\ UNCHANGED <<tx, rx, pending, dropped, reported, cursor, nextStart, writes,
                   traffic, trouble, wire, admitted, failed>>

\* The work limit is looked at before the clock, and neither reads ahead.
HitLimit == Polling /\ AtCap /\ Completes("work_limit")
HitDeadline ==
    /\ Polling /\ ~AtCap
    /\ Completes(IF poll.round = 0 /\ poll.lastIdle THEN "idle" ELSE "deadline")

\* After the last read of a round: a failure ends the poll, an idle round ends
\* a zero-budget poll, and otherwise the next round begins.  A positive budget
\* may go on waiting while reads for a whole round are left.
EndOfRound(p) ==
    IF p.round # NumSources THEN {p}
    ELSE LET next == [p EXCEPT !.round = 0, !.idle = TRUE, !.lastIdle = p.idle]
         IN  CASE p.error -> {[next EXCEPT !.done = "failed"]}
               [] ~p.error /\ ~p.idle -> {next}
               [] ~p.error /\ p.idle /\ ~p.budget -> {[next EXCEPT !.done = "idle"]}
               [] OTHER ->
                    {[next EXCEPT !.done = why] :
                        why \in {"idle"} \cup (IF p.quiet THEN {"quiet"} ELSE {})}
                    \cup (IF p.reads + NumSources <= MaxPollReads THEN {next} ELSE {})

\* One read attempt on the source under the cursor, which moves on whatever
\* the attempt brings (SocketCanRouter::recv_one_nonblocking).
Advances == cursor' = (cursor % NumSources) + 1
Attempted == [poll EXCEPT !.reads = @ + 1, !.round = @ + 1]

\* new_kernel_drops: the count attached to the frame differs from the last one
\* reported.
NewDrops_Ignored(s) == FALSE
NewDrops(s) == Head(rx[s]).count # reported[s]

\* settle_read: a drop report fails the read, but the
\* frame's ledger entry is consumed first.
ReadFrame ==
    LET s == cursor
        f == Head(rx[s]).frame
        bad == NewDrops(s) \/ Refused(s, f)
    IN  /\ Polling /\ ~AtCap /\ rx[s] # <<>>
        /\ rx' = [rx EXCEPT ![s] = Tail(@)]
        /\ reported' = [reported EXCEPT ![s] = Head(rx[s]).count]
        /\ pending' = [pending EXCEPT ![s] = Claimed(s, f)]
        /\ Advances
        /\ poll' \in EndOfRound(
             [Attempted EXCEPT !.idle = FALSE,
                               !.frames = IF bad THEN @ ELSE @ + 1,
                               !.error = @ \/ bad,
                               !.quiet = @ \/ (poll.budget /\ ~bad),
                               !.evidence = IF bad THEN @ ELSE @ \cup {<<Class(f.env, Devices), f.from>>},
                               !.ahead[s] = IF @ > 0 THEN @ - 1 ELSE 0])
        /\ failed' = [failed EXCEPT ![s] = @ \/ bad \/ f.env.kind = "error"]
        /\ admitted' = IF bad \/ ~IsHostCommand(f.env) \/ failed[s] THEN admitted
                       ELSE [admitted EXCEPT ![s] = Append(@, f.number)]
        /\ UNCHANGED <<tx, dropped, nextStart, writes, traffic, trouble, wire>>

ReadEmpty ==
    /\ Polling /\ ~AtCap /\ rx[cursor] = <<>>
    /\ Advances
    /\ poll' \in EndOfRound(Attempted)
    /\ UNCHANGED <<tx, rx, pending, dropped, reported, nextStart, writes, traffic,
                   trouble, wire, admitted, failed>>

\* EINTR, or a read error of another kind.
ReadTrouble(error) ==
    /\ Polling /\ ~AtCap /\ trouble < MaxTrouble
    /\ trouble' = trouble + 1
    /\ Advances
    /\ poll' \in EndOfRound([Attempted EXCEPT !.idle = FALSE, !.error = @ \/ error])
    /\ failed' = [failed EXCEPT ![cursor] = @ \/ error]
    /\ UNCHANGED <<tx, rx, pending, dropped, reported, nextStart, writes, traffic,
                   wire, admitted>>

\* feedback_from_raw: a report with neither evidence nor error, for which the
\* caller was ready to wait, is a timeout.
Answer ==
    CASE poll.error -> "error"
      [] ~poll.error /\ poll.budget /\ (\A e \in poll.evidence : e[1] = "skipped") -> "timeout"
      [] OTHER -> "report"
EndPoll ==
    /\ poll.active /\ poll.done # "no"
    /\ poll' = Quiescent(Answer)
    /\ UNCHANGED <<tx, rx, pending, dropped, reported, cursor, nextStart, writes,
                   traffic, trouble, wire, admitted, failed>>

CanNext ==
    \/ \E s \in Sources :
          \/ \E c \in OwnCommands, d \in Devices : Send(s, EncodedCommand(d)[c])
          \/ GoesOut(s)
          \/ \E c \in OtherCommands, d \in Devices \cup Strangers, short \in BOOLEAN :
                OtherTraffic(s, Frame("other",
                    IF short THEN [EncodedCommand(d)[c] EXCEPT !.body = "short"]
                    ELSE EncodedCommand(d)[c], 0))
          \/ \E d \in Devices \cup Strangers : \E e \in DriveFrames(d) :
                e.type \in DriveTypes /\ OtherTraffic(s, Frame("drive", e, 0))
          \/ BusOff(s)
    \/ \E budget \in BOOLEAN : BeginPoll(budget)
    \/ HitLimit \/ HitDeadline
    \/ ReadFrame \/ ReadEmpty
    \/ \E error \in BOOLEAN : ReadTrouble(error)
    \/ EndPoll

CanSpec == CanInit /\ [][CanNext]_cvars2

-----------------------------------------------------------------------------
(* Properties.                                                             *)

\* Wire-order evidence is genuine (EchoLedger).  As long as a source has
\* shown no failure, its own commands come back in the order they went out
\* and none is missed or refused; and once nothing is under way and no drop
\* is left to report, what was taken as its own is exactly what it sent.
\* Another writer's identical command can stand in for an echo only while
\* that echo is still to come, and never unnoticed: not when the kernel
\* drops the echo, nor when the interface loses the frame.
EchoesAreOwn ==
    \A s \in Sources :
        LET own == SelectSeq(admitted[s], LAMBDA n : n # 0)
            settled == tx[s] = <<>> /\ rx[s] = <<>> /\ dropped[s] = reported[s]
        IN  ~failed[s] =>
              /\ Len(own) <= Len(wire[s]) /\ own = SubSeq(wire[s], 1, Len(own))
              /\ settled => admitted[s] = wire[s]

\* A poll that reports Idle or Quiet has read, from every interface, all that
\* was queued when it began (drain): completion rests on one whole idle round,
\* never on a partial one, an interrupted read or an earlier idle round.
IdleReadEverything ==
    poll.active /\ poll.done \in {"idle", "quiet"} =>
        \A s \in Sources : poll.ahead[s] = 0

\* What reads as a drive's evidence was put on the bus by a drive, and what
\* reads as an echo was written by a host (ingest_feedback_frames): no request
\* is its own answer, whatever else shares its communication type.
EvidenceHasItsSource ==
    poll.active => \A e \in poll.evidence :
        /\ e[1] \in DriveEvidence => e[2] = "drive"
        /\ e[1] = "echo" => e[2] \in {"own", "other"}

ReceiveHolds == EvidenceHasItsSource /\ EchoesAreOwn /\ IdleReadEverything

-----------------------------------------------------------------------------
=============================================================================
