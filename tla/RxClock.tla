------------------------------- MODULE RxClock -------------------------------
(***************************************************************************)
(* When a received CAN frame is said to have arrived (rx_time.rs and the   *)
(* read in SocketCanBus::recv_one_nonblocking).  The kernel stamps a frame *)
(* with the wall clock when it is queued; the driver maps that stamp onto  *)
(* the monotonic clock, between the floor and the read.  The wall clock    *)
(* may be stepped at any time, a stamp may be missing, and the host may    *)
(* stall anywhere between two clock reads.                                 *)
(***************************************************************************)
EXTENDS Integers, Sequences, FiniteSetsExt

CONSTANTS
    MaxNow,      \* bound: ticks of the monotonic clock
    MaxArrivals, \* bound: frames
    MaxJumps,    \* bound: steps of the wall clock
    Jumps,       \* sizes of such a step, either way
    MaxRxAge     \* MAX_KERNEL_RX_AGE

RxAssumption == MaxNow \in Nat /\ Jumps \subseteq Nat /\ MaxRxAge \in Nat

NoStamp == <<>>   \* a stamp is a sequence of at most one time

VARIABLES
    now, offset,     \* the monotonic clock, and the wall clock minus it
    arrivals, jumps, \* what the bounds have left
    queued,          \* the socket's receive queue: when it arrived, its stamp
    read,            \* the read in progress
    floor,           \* RxClock::floor
    emptyAt,         \* ghost: when the last empty read began
    fellBack,        \* ghost: some frame had no usable kernel time
    heard            \* what was delivered

xvars == <<now, offset, arrivals, jumps, queued, read, floor, emptyAt, fellBack,
           heard>>

NoRead == [at |-> "no"]

RxInit ==
    /\ now = 0 /\ offset = 0 /\ arrivals = 0 /\ jumps = 0
    /\ queued = <<>> /\ read = NoRead
    /\ floor = 0 /\ emptyAt = 0 /\ fellBack = FALSE /\ heard = <<>>

RxTick ==
    /\ now < MaxNow
    /\ now' = now + 1
    /\ UNCHANGED <<offset, arrivals, jumps, queued, read, floor, emptyAt, fellBack, heard>>

\* The wall clock is stepped (time synchronisation).  Every frame waiting or
\* under way now has a stamp of the clock before.
Jump(d) ==
    /\ jumps < MaxJumps
    /\ jumps' = jumps + 1
    /\ offset' = offset + d
    /\ queued' = [i \in DOMAIN queued |-> [queued[i] EXCEPT !.steady = FALSE]]
    /\ read' = IF read.at \in {"got", "sampled"}
               THEN [read EXCEPT !.frame.steady = (read.at = "sampled" /\ @)] ELSE read
    /\ UNCHANGED <<now, arrivals, floor, emptyAt, fellBack, heard>>

\* A frame is queued, with the kernel's stamp or without one.
FrameArrives(stamped) ==
    /\ arrivals < MaxArrivals
    /\ arrivals' = arrivals + 1
    /\ queued' = Append(queued,
         [at |-> now, stamp |-> IF stamped THEN <<now + offset>> ELSE NoStamp,
          steady |-> TRUE, emptied |-> emptyAt])
    /\ UNCHANGED <<now, offset, jumps, read, floor, emptyAt, fellBack, heard>>

\* recv_one_nonblocking: before_read, the read, the wall clock, the monotonic
\* clock.
BeginRead ==
    /\ read = NoRead
    /\ read' = [at |-> "begun", before |-> now]
    /\ UNCHANGED <<now, offset, arrivals, jumps, queued, floor, emptyAt, fellBack, heard>>

\* RxClock::observe_empty.
FoundEmpty ==
    /\ read.at = "begun" /\ queued = <<>>
    /\ floor' = Max({floor, read.before})
    /\ emptyAt' = read.before
    /\ read' = NoRead
    /\ UNCHANGED <<now, offset, arrivals, jumps, queued, fellBack, heard>>

GotFrame ==
    /\ read.at = "begun" /\ queued # <<>>
    /\ read' = [at |-> "got", frame |-> Head(queued)]
    /\ queued' = Tail(queued)
    /\ UNCHANGED <<now, offset, arrivals, jumps, floor, emptyAt, fellBack, heard>>

SampleWall ==
    /\ read.at = "got"
    /\ read' = [at |-> "sampled", frame |-> read.frame, wall |-> now + offset,
                when |-> now]
    /\ UNCHANGED <<now, offset, arrivals, jumps, queued, floor, emptyAt, fellBack, heard>>

\* map_kernel_rx_time.
MapKernelRxTime_Unfloored(stamp, wall, instant, low) ==
    IF stamp = NoStamp THEN [at |-> instant, source |-> "missing"]
    ELSE IF wall < stamp[1] THEN [at |-> instant, source |-> "clock_backward"]
    ELSE [at |-> instant - (wall - stamp[1]), source |-> "kernel"]
MapKernelRxTime(stamp, wall, instant, low) ==
    IF stamp = NoStamp THEN [at |-> instant, source |-> "missing"]
    ELSE IF wall < stamp[1] THEN [at |-> instant, source |-> "clock_backward"]
    ELSE LET at == instant - (wall - stamp[1])
             stale == wall - stamp[1] > MaxRxAge
             least == Min({low, instant})
         IN  IF at >= least
             THEN [at |-> at, source |-> IF stale THEN "stale" ELSE "kernel"]
             ELSE [at |-> least, source |-> IF stale THEN "stale" ELSE "floored"]

\* RxClock::stamp.
StampFrame ==
    LET f == read.frame
        mapped == MapKernelRxTime(f.stamp, read.wall, now, floor)
    IN  /\ read.at = "sampled"
        /\ floor' = Max({floor, mapped.at})
        /\ fellBack' = (fellBack \/ mapped.source \in {"missing", "clock_backward"})
        /\ heard' = Append(heard,
             [arrived |-> f.at, at |-> mapped.at, read |-> now, emptied |-> f.emptied,
              slack |-> now - read.when, steady |-> f.steady /\ ~fellBack',
              source |-> mapped.source])
        /\ read' = NoRead
        /\ UNCHANGED <<now, offset, arrivals, jumps, queued, emptyAt>>

RxNext ==
    \/ RxTick
    \/ \E d \in Jumps : Jump(d) \/ Jump(-d)
    \/ \E stamped \in BOOLEAN : FrameArrives(stamped)
    \/ BeginRead \/ FoundEmpty \/ GotFrame \/ SampleWall \/ StampFrame

RxSpec == RxInit /\ [][RxNext]_xvars

-----------------------------------------------------------------------------
\* Arrival times can be acted on (map_kernel_rx_time, RxClock).  Whatever the
\* wall clock does, a frame is never dated after it was read, nor before the
\* empty read that preceded its arrival, nor before the frame ahead of it; and
\* while the wall clock was steady and every stamp usable, it is never dated
\* before it arrived, and later only by the stall between the two clock reads.
StampsAreHonest ==
    \A i \in DOMAIN heard :
        LET h == heard[i] IN
        /\ h.at <= h.read /\ h.at >= h.emptied
        /\ i > 1 => heard[i - 1].at <= h.at
        /\ h.steady => h.arrived <= h.at
        /\ h.steady /\ (i > 1 => heard[i - 1].at <= h.arrived) => h.at <= h.arrived + h.slack
=============================================================================
