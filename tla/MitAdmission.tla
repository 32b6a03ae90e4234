---------------------------- MODULE MitAdmission ----------------------------
(***************************************************************************)
(* Admission of MIT batches in Davout (crates/davout/src/lib.rs,           *)
(* total_torque.rs and armee-kinematics/src/limits.rs): every command of a *)
(* batch is filtered (limits, envelope, danger zones, torque slew, total   *)
(* torque, wrong-sign watchdog), the batch is refused or written as a      *)
(* whole, and the limiter and watchdog advance only with what was written. *)
(*                                                                         *)
(* Positions, velocities, torques and gains are integers on a grid; time   *)
(* is counted in units and every age saturates one past the bound it is    *)
(* compared with.  A setpoint the total-torque clamp scales is a fraction  *)
(* n/d.  Feedback that would latch a fault on its own (EnableSession) and  *)
(* a lost drive (DriveLoss) are other modules' business.                   *)
(***************************************************************************)
EXTENDS Integers, FiniteSets

CONSTANTS
    MitJoints,      \* the joints of the Active set
    Requests,       \* commands a controller may ask: [q, dq, kp, kd, tau]
    Poses,          \* feedback a drive may report: [q, dq, tau]
    Profiles,       \* limits on offer: [urdf, bench, soft], each <<lower, upper>>
    VelCap, TauCap, KpMax, KdMax,
    MarginMin, MarginPerVel, MarginPerVel2,   \* LimitMarginConfig
    Slack,          \* measured_fault_slack_rad
    Horizon,        \* position error per unit of speed over the horizon
    VelMargin,      \* TOTAL_TORQUE_VELOCITY_MARGIN_RAD_S
    Zones,          \* danger zones: [joint, above, below, action, max]
    Rate,           \* tau_ff_rate_limit_nm_per_s, per unit of time
    MinDt, MaxDt,   \* the bounds of a tick's slew credit
    Watchdog,       \* comm_watchdog_ms
    Grace, MinOpposition, MinSpeed, ExpectedSign,  \* wrong_sign_watchdog
    CtlModes,       \* control modes the controller uses
    None            \* the absent value

VARIABLES
    sup,    \* Supervisor: mode, control mode, limits, latch, limiter state
    fed,    \* per joint: Enable written, pose, age of the unanswered solicit
    wire    \* per joint: what its drive received in this session (history)

mitvars == <<sup, fed, wire>>

Abs(x) == IF x < 0 THEN -x ELSE x
AtMost(x, y) == IF x < y THEN x ELSE y
AtLeast(x, y) == IF x > y THEN x ELSE y
\* f64::clamp
Clamp(x, lo, hi) == AtMost(AtLeast(x, lo), hi)
Sign(x) == IF x > 0 THEN 1 ELSE IF x < 0 THEN -1 ELSE 0
Val(x) == IF x = None THEN 0 ELSE x

-----------------------------------------------------------------------------
(* The position envelope (ADR 0009). *)

\* build_limits: the hard range is what the URDF and the bench both allow, the
\* soft range is clamped into it; an empty one is refused.
Overlaps(p) == AtLeast(p.urdf[1], p.bench[1]) < AtMost(p.urdf[2], p.bench[2])
BuildLimits(p) ==
    LET lo == AtLeast(p.urdf[1], p.bench[1])
        hi == AtMost(p.urdf[2], p.bench[2])
    IN  [lo |-> lo, hi |-> hi,
         softLo |-> Clamp(p.soft[1], lo, hi), softHi |-> Clamp(p.soft[2], lo, hi)]
Ranges == {BuildLimits(p) : p \in {x \in Profiles : Overlaps(x)}}

LimitMargin(dq) == MarginMin + MarginPerVel * Abs(dq) + MarginPerVel2 * dq * dq

\* The commandable interval; it collapses onto the soft point nearest the
\* measured position when the margin consumes the range.
EffectiveBounds(r, q, dq) ==
    LET lo == AtLeast(IF dq < 0 THEN AtMost(r.lo + LimitMargin(dq), r.hi)
                                ELSE r.lo, r.softLo)
        hi == AtMost(IF dq > 0 THEN AtLeast(r.hi - LimitMargin(dq), r.lo)
                               ELSE r.hi, r.softHi)
        point == Clamp(q, AtMost(r.softLo, r.softHi), AtLeast(r.softLo, r.softHi))
    IN  IF lo <= hi THEN <<lo, hi>> ELSE <<point, point>>

InEnvelope(r, q, dq, position) ==
    LET b == EffectiveBounds(r, q, dq) IN Clamp(position, b[1], b[2])

MeasuredFault(r, q) == q < r.lo - Slack \/ q > r.hi + Slack

-----------------------------------------------------------------------------
(* Feedback. *)

\* pose_is_current: a pose of this session, and no solicit left unanswered
\* for longer than the watchdog.
Current(j) == fed[j].pose # None /\ fed[j].silent <= Watchdog

\* published_state, Active or not.
Published(j) == IF sup.mode = "Active" THEN Current(j) ELSE fed[j].pose # None

\* check_comm_watchdog: an inert batch may go out on absent pose inside the
\* enable deadline, nothing else may.
CommWatchdog(neutral) ==
    \E j \in MitJoints :
        /\ ~Current(j)
        /\ ~(neutral /\ sup.bootAge <= Watchdog)

-----------------------------------------------------------------------------
(* The filter. *)

Keepalive(c) == c.kp = 0 /\ c.kd = 0 /\ c.tau = 0

\* apply_danger_zone_clamps
ZonesOn(j, q, dq) ==
    {z \in Zones : z.joint = j /\ q > z.above /\ dq < z.below}
ZoneVelocity(zs, dq) ==
    IF zs = {} THEN dq
    ELSE LET cap == CHOOSE m \in {z.max : z \in zs} : \A z \in zs : m <= z.max
         IN  Clamp(dq, -cap, cap)
ZoneTorqueCap(zs) ==
    IF zs = {} THEN TauCap
    ELSE AtMost(TauCap, CHOOSE m \in {z.max : z \in zs} : \A z \in zs : m <= z.max)

\* Time credited to a tick: a late one banks nothing beyond MaxDt.
Credit(since) == IF since = None THEN MaxDt ELSE Clamp(since, MinDt, MaxDt)

RateLimit_BanksLateTicks(previous, target, since, cap) ==
    LET prev == Clamp(Val(previous), -cap, cap)
        step == Rate * (IF since = None THEN MaxDt ELSE AtLeast(since, MinDt))
    IN  Clamp(prev + Clamp(Clamp(target, -cap, cap) - prev, -step, step), -cap, cap)

RateLimit(previous, target, since, cap) ==
    LET prev == Clamp(Val(previous), -cap, cap)
        step == Rate * Credit(since)
    IN  Clamp(prev + Clamp(Clamp(target, -cap, cap) - prev, -step, step), -cap, cap)

Margin(c, dq) ==
    c.kp * AtLeast(Abs(dq), Abs(c.dq)) * Horizon + c.kd * VelMargin

\* clamp_total_torque: scale both errors toward feedback by reachable / pd.
TotalTorque(c, q, dq, cap) ==
    LET e  == c.q - q
        ed == c.dq - dq
        pd == c.kp * e + c.kd * ed
        up == cap - Margin(c, dq) - c.tau
        lo == Margin(c, dq) - cap - c.tau
        target == IF lo <= up THEN Clamp(pd, lo, up) ELSE -c.tau
        reach  == Clamp(target, AtMost(pd, 0), AtLeast(pd, 0))
        s == Sign(pd)
    IN  IF reach = pd
        THEN [clamped |-> FALSE, qn |-> c.q, dqn |-> c.dq, den |-> 1]
        ELSE [clamped |-> TRUE, qn |-> s * (q * pd + reach * e),
              dqn |-> s * (dq * pd + reach * ed), den |-> Abs(pd)]

\* The refusals after the total-torque clamp: the scaled setpoint lies between
\* the request and the measured pose, which may itself be out of range.
StillWithin(r, t) ==
    /\ Abs(t.dqn) <= VelCap * t.den
    /\ t.clamped => r.lo * t.den <= t.qn /\ t.qn <= r.hi * t.den

\* filter_mit_core on one command: the frame to send, or a refusal.  `meas`
\* is what the torque prediction and the envelope were fed.
Filter(j, c) ==
    LET r == sup.range
        q == IF Published(j) THEN fed[j].pose.q ELSE c.q
        dq == IF Published(j) THEN fed[j].pose.dq ELSE 0
        fast == IF Abs(c.dq) >= Abs(dq) THEN c.dq ELSE dq
        pos == IF Keepalive(c) THEN c.q ELSE InEnvelope(r, q, fast, c.q)
        zs == ZonesOn(j, q, dq)
        vel == ZoneVelocity({z \in zs : z.action = "clamp_velocity"}, c.dq)
        cap == ZoneTorqueCap({z \in zs : z.action = "clamp_torque"})
        tau == RateLimit(sup.lastTau[j], c.tau, sup.sinceTick, cap)
        shaped == [c EXCEPT !.q = pos, !.dq = vel, !.tau = tau]
        bounded == Clamp(dq, -VelCap, VelCap)
        t == TotalTorque(shaped, q, bounded, cap)
    IN  [ok |-> /\ c.kp <= KpMax /\ c.kd <= KdMax
                /\ pos \in r.lo .. r.hi
                /\ Abs(vel) <= VelCap
                /\ StillWithin(r, t),
         cap |-> cap, margin |-> Margin(shaped, bounded), kp |-> c.kp, kd |-> c.kd, tau |-> tau,
         qn |-> t.qn, dqn |-> t.dqn, den |-> t.den,
         measQ |-> q, measDq |-> dq]

Neutral(f) == f.kp = 0 /\ f.kd = 0 /\ f.tau = 0 /\ f.dqn = 0

\* wrong_sign_step: the next watchdog state for a filtered command.
Opposes(f) ==
    LET expected == IF f.measQ >= 0 THEN ExpectedSign ELSE -ExpectedSign
    IN  f.tau # 0 /\ Sign(f.tau) # expected
WrongSignStep(w, f) ==
    LET t == [w EXCEPT !.ticks = AtMost(@ + 1, Grace + 1)]
    IN  IF sup.ctl # "GravityComp" THEN w
        ELSE IF t.ticks <= Grace \/ Abs(f.measDq) <= MinSpeed THEN t
        ELSE IF Opposes(f) THEN [t EXCEPT !.opposed = @ + 1]
        ELSE [t EXCEPT !.opposed = 0]

-----------------------------------------------------------------------------
(* Sessions. *)

NoWatch == [ticks |-> 0, opposed |-> 0]
NoFeed == [written |-> FALSE, pose |-> None, silent |-> 0]
NoFrame == [sound |-> TRUE, base |-> None, since |-> None, run |-> 0]

MitInit ==
    /\ sup \in {[mode |-> "Disabled", ctl |-> "Disabled", range |-> r,
                 latch |-> None, bootAge |-> 0, sinceTick |-> None,
                 lastTau |-> [j \in MitJoints |-> None],
                 wrong |-> [j \in MitJoints |-> NoWatch]] : r \in Ranges}
    /\ fed = [j \in MitJoints |-> NoFeed]
    /\ wire = [j \in MitJoints |-> NoFrame]

\* perform_stop_paced, as far as admission sees it.
StoppedFor(class) ==
    [sup EXCEPT !.mode = "Disabled", !.ctl = "Disabled", !.latch = class,
                !.bootAge = 0, !.sinceTick = None,
                !.lastTau = [j \in MitJoints |-> None],
                !.wrong = [j \in MitJoints |-> NoWatch]]

StopFeeds == fed' = [j \in MitJoints |-> [NoFeed EXCEPT !.pose = fed[j].pose]]

MitDisable ==
    /\ sup.mode = "Active"
    /\ sup' = StoppedFor(None)
    /\ StopFeeds
    /\ UNCHANGED wire

\* enable_targets.  A fresh pose past the hard limits latches before any
\* Enable is written (check_disabled_poses_at_enable).
MitEnable ==
    /\ sup.mode = "Disabled" /\ sup.latch = None
    /\ IF \E j \in MitJoints : fed[j].pose # None /\ MeasuredFault(sup.range, fed[j].pose.q)
       THEN /\ sup' = StoppedFor("Feedback")
            /\ StopFeeds
            /\ UNCHANGED wire
       ELSE /\ sup' = [sup EXCEPT !.mode = "Active", !.bootAge = 0,
                                  !.sinceTick = None,
                                  !.lastTau = [j \in MitJoints |-> None],
                                  !.wrong = [j \in MitJoints |-> NoWatch]]
            /\ fed' = [j \in MitJoints |-> NoFeed]
            /\ wire' = [j \in MitJoints |-> NoFrame]

\* A held Enable of the session is written (and its echo read).
EnableWritten(j) ==
    /\ sup.mode = "Active" /\ ~fed[j].written
    /\ sup.bootAge <= Watchdog
    /\ fed' = [fed EXCEPT ![j].written = TRUE]
    /\ UNCHANGED <<sup, wire>>

\* A drive's status: a session pose only after its own Enable.
Status(j) ==
    /\ sup.mode = "Active" => fed[j].written
    /\ \E p \in Poses :
        /\ ~MeasuredFault(sup.range, p.q)
        /\ fed' = [fed EXCEPT ![j].pose = p, ![j].silent = 0]
    /\ UNCHANGED <<sup, wire>>

\* apply_limit_patch: Disabled only, the measured pose inside the new range.
PatchLimits ==
    /\ sup.mode = "Disabled" /\ sup.latch = None
    /\ \E r \in Ranges :
        /\ \A j \in MitJoints : fed[j].pose # None /\ fed[j].pose.q \in r.lo .. r.hi
        /\ sup' = [sup EXCEPT !.range = r]
    /\ UNCHANGED <<fed, wire>>

\* set_control_mode_inner with its reseed: Position keeps slewing from what
\* was sent, any other mode starts from the measured torque.
Seeds(to, j) ==
    /\ sup.ctl # "Disabled" /\ sup.ctl # to
    /\ to = "Position" => sup.lastTau[j] = None
Seeded(to, j) ==
    IF Seeds(to, j)
    THEN Clamp(IF Published(j) THEN fed[j].pose.tau ELSE 0, -TauCap, TauCap)
    ELSE sup.lastTau[j]
SetControlMode(to) ==
    /\ sup.mode = "Active"
    /\ sup.ctl # to
    /\ sup' = [sup EXCEPT !.ctl = to,
                          !.lastTau = [j \in MitJoints |-> Seeded(to, j)]]
    /\ wire' = [j \in MitJoints |->
                   [wire[j] EXCEPT !.base = IF Seeds(to, j) THEN Seeded(to, j) ELSE @]]
    /\ UNCHANGED fed

\* Time passes: every age grows to its cap.
Elapse ==
    /\ sup.mode = "Active"
    /\ sup' = [sup EXCEPT !.bootAge = AtMost(@ + 1, Watchdog + 1),
                          !.sinceTick = IF @ = None THEN @ ELSE AtMost(@ + 1, MaxDt + 1)]
    /\ fed' = [j \in MitJoints |->
                  [fed[j] EXCEPT !.silent = IF @ = 0 THEN 0 ELSE AtMost(@ + 1, Watchdog + 1)]]
    /\ wire' = [j \in MitJoints |->
                  [wire[j] EXCEPT !.since = IF @ = None THEN @ ELSE AtMost(@ + 1, MaxDt + 1)]]

-----------------------------------------------------------------------------
(* One batch. *)

\* The frame is inside the limits in force: position in the hard range,
\* velocity and torque under their caps, and the torque the drive's PD adds at
\* the measured pose under the cap too, unless the feed-forward and the margins
\* alone exceed it.
InBounds(f) ==
    LET r == sup.range
        dq == Clamp(f.measDq, -VelCap, VelCap)
        pd == f.kp * (f.qn - f.measQ * f.den) + f.kd * (f.dqn - dq * f.den)
        alone == Abs(f.tau) + f.margin
    IN  /\ r.lo * f.den <= f.qn /\ f.qn <= r.hi * f.den
        /\ Abs(f.dqn) <= VelCap * f.den
        /\ Abs(f.tau) <= f.cap
        /\ Abs(pd + f.tau * f.den) + f.margin * f.den <= AtLeast(f.cap, alone) * f.den

\* Its torque is within one credited step of what the drive had before it,
\* however late the tick and whatever was refused in between; only a cap that
\* shrank below the previous torque may cut it further.
SmallStep(w, f) ==
    LET from == Val(w.base)
        step == Rate * (IF w.since = None THEN MaxDt ELSE Clamp(w.since, MinDt, MaxDt))
    IN  \/ Abs(f.tau - from) <= step
        \/ Abs(from) > f.cap /\ Abs(f.tau - Clamp(from, -f.cap, f.cap)) <= step

\* What drive j has received once frame f reached it.
Received(j, f) ==
    [sound |-> wire[j].sound /\ InBounds(f) /\ SmallStep(wire[j], f),
     base |-> f.tau, since |-> 0,
     run |-> IF sup.ctl = "GravityComp" /\ sup.wrong[j].ticks >= Grace
                /\ Abs(f.measDq) > MinSpeed
             THEN IF Opposes(f) THEN wire[j].run + 1 ELSE 0
             ELSE wire[j].run]

\* prepare_mit_batch: what one command stages.
Stage(j, c) ==
    LET f == Filter(j, c) IN [joint |-> j, f |-> f, watch |-> WrongSignStep(sup.wrong[j], f)]

\* A field of joint j's entry in the staged batch, or what stood before.
Of(staged, j, Field(_), before) ==
    IF \E s \in staged : s.joint = j
    THEN Field(CHOOSE s \in staged : s.joint = j) ELSE before

\* write_mit_wires: no frame to a drive whose Enable is not yet written.
Writable(staged) == {s \in staged : fed[s.joint].written}

Written(staged) ==
    LET Of1(s) == Received(s.joint, s.f)
    IN  wire' = [j \in MitJoints |-> Of(staged, j, Of1, wire[j])]

\* The staged state of a written batch; the solicits of the whole session age
\* from this write.
Commit(staged) ==
    LET Tau(s) == s.f.tau
        Watch(s) == s.watch
    IN  /\ sup' = [sup EXCEPT
                     !.lastTau = [j \in MitJoints |-> Of(staged, j, Tau, @[j])],
                     !.wrong = [j \in MitJoints |-> Of(staged, j, Watch, @[j])],
                     !.sinceTick = 0]
        /\ fed' = [j \in MitJoints |->
                      [fed[j] EXCEPT !.silent = IF @ = 0 THEN 1 ELSE @]]

\* The first command in error decides, and the order is the controller's.
\* Some errors of admission stop the robot, the others only refuse.  An early
\* stale pose inside the enable deadline is no latch (record_runtime_error).
Verdicts(staged) ==
    LET refused == {s \in staged : ~s.f.ok}
        tripped == {s \in staged \ refused : s.watch.opposed >= MinOpposition}
        stale == CommWatchdog(\A s \in staged : Neutral(s.f))
    IN  IF refused \cup tripped # {}
        THEN {v \in {"refuse", "WrongSign"} : /\ v = "refuse" => refused # {}
                                              /\ v = "WrongSign" => tripped # {}}
        ELSE IF ~stale THEN {"send"}
        ELSE IF sup.bootAge <= Watchdog THEN {"refuse"} ELSE {"Communication"}

\* admit_and_send_mit_with on a staged batch.  A refusal leaves everything as
\* it was; a failing bus delivers only a part before the stop.
Batch(staged) ==
    \E verdict \in Verdicts(staged) :
        \/ verdict = "refuse" /\ UNCHANGED mitvars
        \/ verdict = "send" /\ Written(Writable(staged)) /\ Commit(staged)
        \/ /\ verdict = "send"
           /\ \E part \in SUBSET Writable(staged) :
                  part # Writable(staged) /\ Written(part)
           /\ sup' = StoppedFor("Transport")
           /\ StopFeeds
        \/ /\ verdict \in {"WrongSign", "Communication"}
           /\ sup' = StoppedFor(verdict)
           /\ StopFeeds
           /\ UNCHANGED wire

SendMit ==
    /\ sup.mode = "Active" /\ sup.ctl # "Disabled"
    /\ \E js \in SUBSET MitJoints \ {{}} : \E c \in [js -> Requests] :
           Batch({Stage(j, c[j]) : j \in js})

MitNext ==
    \/ MitEnable
    \/ MitDisable
    \/ \E j \in MitJoints : EnableWritten(j) \/ Status(j)
    \/ PatchLimits
    \/ \E to \in CtlModes : SetControlMode(to)
    \/ Elapse
    \/ SendMit

MitSpec == MitInit /\ [][MitNext]_mitvars

-----------------------------------------------------------------------------
(* Properties. *)

\* The limiter and the wrong-sign watchdog describe the wire: a batch refused,
\* skipped or lost in the bus banks no step and counts no tick, and the drives
\* never see the opposing command that trips the watchdog.
BookkeepingFollowsWire ==
    sup.mode = "Active" =>
        \A j \in MitJoints :
            /\ Val(sup.lastTau[j]) = Val(wire[j].base)
            /\ sup.wrong[j].opposed = wire[j].run
            /\ wire[j].run < MinOpposition

\* Every frame a drive receives is inside the limits in force and one slew step
\* away from the one before, and Davout's own record of what it sent is what
\* the drives received (admit_and_send_mit_with, filter_mit_core,
\* rate_limit_tau_ff, clamp_total_torque, wrong_sign_step).
AdmissionHolds ==
    /\ BookkeepingFollowsWire
    /\ \A j \in MitJoints : wire[j].sound
=============================================================================
