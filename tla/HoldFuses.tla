------------------------------ MODULE HoldFuses ------------------------------
(* Berthier's position hold (crates/berthier/src/position_hold.rs): latched *)
(* targets, the in-loop wave and the no-progress fuses that stop a joint    *)
(* which is commanded to move and does not.  Positions are levels of the    *)
(* feedback grid and time is counted in ticks.  Where the arm really is,    *)
(* and whether the net commanded torque pushes away from the target, is the *)
(* environment's choice each tick: the fuses may not rely on either law,    *)
(* whose references are module HoldReference.                               *)
EXTENDS Integers, Sequences, FiniteSets, SequencesExt

CONSTANTS
    FuseJoints,   \* the joints of the loop, as the sequence it walks
    Levels,       \* measured positions
    Goals,        \* targets an operator asks for, clamped already
    WavePlans,        \* waves, each a sequence of [target, moving]
    Speeds,       \* speed fractions of a hold-at; "full" is one of them
    HomeTol,      \* home_target_tolerance
    Band,         \* POSITION_RETURN_RESYNC_RAD = POSITION_HOLD_TRACKING_BAND_RAD
    Threshold,    \* Davout's progress threshold
    Renew,        \* motion that renews the wave budget
    Budget,       \* POSITION_ASCENT_STALL_FAULT_MS in ticks
    MaxOrders     \* bound: operator calls

FuseAssumption ==
    /\ Band \in Nat /\ Threshold \in Nat /\ Renew \in Nat /\ Budget \in Nat \ {0}
    /\ "full" \in Speeds

VARIABLES
    hold,    \* per joint: the latch, its budgets and whether the drive is commanded
    wave,    \* the in-loop wave, or << >>
    outcome, \* what the last tick returned
    orders,  \* operator calls so far
    log      \* history: per joint, the last ticks since the hold was armed

hvars == <<hold, wave, outcome, orders, log>>

FJ == ToSet(FuseJoints)
Sgn(n) == IF n > 0 THEN 1 ELSE IF n < 0 THEN -1 ELSE 0
Mag(n) == IF n < 0 THEN -n ELSE n

-----------------------------------------------------------------------------
(* The budgets.  << >> is an episode not begun, <<credited, stalled>> one   *)
(* that credits only a new best level.                                      *)

Stall(b) == IF b = << >> THEN 0 ELSE b[2]

\* A budget that rebases on every level it sees
Observe_Rebases(b, level) ==
    IF b = << >> THEN <<level, 1>>
    ELSE IF level - b[1] > Threshold THEN <<level, 0>> ELSE <<level, b[2] + 1>>

\* ProgressBudget::observe
Observe(b, level) ==
    IF b = << >> THEN <<level, 1>>
    ELSE IF level - b[1] > Threshold THEN <<level, 0>> ELSE <<b[1], b[2] + 1>>

\* outbound_stall_direction, travel_stall_direction
Travel(target, q) ==
    CASE target # 0 /\ (target - q) * Sgn(target) > Band ->
             [dir |-> Sgn(target), side |-> "outbound"]
      [] Mag(target - q) > Band /\ ~(target # 0 /\ (target - q) * Sgn(target) > Band) ->
             [dir |-> Sgn(target - q), side |-> "return"]
      [] OTHER -> [dir |-> 0, side |-> "outbound"]

NoTravel == [dir |-> 0, side |-> "outbound"]
NoAscent == [dir |-> 0, side |-> "outbound", budget |-> << >>]

\* AscentRecovery::update
Ascend(a, way, q) ==
    IF way.dir = 0 THEN [a EXCEPT !.dir = 0, !.budget = << >>]
    ELSE [dir |-> way.dir, side |-> way.side,
          budget |-> Observe(IF a.dir = way.dir THEN a.budget ELSE << >>, way.dir * q)]

NoWatch == [anchor |-> << >>, stalled |-> 0]

\* WaveMotionWatch::update; `moving' is a commanded speed above the dwell's
Watch(w, q, moving) ==
    LET anchor == IF w.anchor = << >> THEN q ELSE w.anchor[1] IN
    IF Mag(q - anchor) > Renew THEN [anchor |-> <<q>>, stalled |-> 0]
    ELSE [anchor |-> <<anchor>>, stalled |-> w.stalled + (IF moving THEN 1 ELSE 0)]

\* hold_tracking_opposed
Opposed(target, q, push) == Mag(target - q) > Band /\ push

\* HoldTracking::update
Track(b, armed, target, q) == IF armed THEN Observe(b, -Mag(q - target)) ELSE << >>

-----------------------------------------------------------------------------
(* The latch *)

\* home_classified
Classified(target) == IF Mag(target) <= HomeTol THEN 0 ELSE target

FreshJoint == [armed |-> FALSE, target |-> 0, speed |-> "full", commanded |-> TRUE,
               ascent |-> NoAscent, track |-> << >>, watch |-> NoWatch]

\* PositionHold::arm with init_planners: every budget and fraction begins anew
Armed(h, targets) ==
    [j \in FJ |-> [FreshJoint EXCEPT !.armed = TRUE, !.target = Classified(targets[j]),
                                     !.commanded = h[j].commanded]]

IsArmed == \E j \in FJ : hold[j].armed

\* mark_retarget that forgives what the joint has used up so far
Retargeted_Renews(h, j, target, speed) ==
    IF h[j].target = target THEN h
    ELSE [h EXCEPT ![j].target = target, ![j].speed = speed,
                   ![j].ascent = NoAscent, ![j].track = << >>]

\* set_clamped_target, mark_retarget and the rest of apply_retarget on an
\* armed hold: the same target changes nothing, another one no budget
Retargeted(h, j, target, speed) ==
    IF h[j].target = target THEN h
    ELSE [h EXCEPT ![j].target = target, ![j].speed = speed]

\* ControlLoop::ensure_position_hold: arm every joint at its measured level
EnsureArmed(h, q) == IF IsArmed THEN h ELSE Armed(h, q)

\* latch_joint_target: the wave writes the latch, never the fraction
Latch(h, j, target) == [h EXCEPT ![j].target = Classified(target)]

-----------------------------------------------------------------------------
(* One tick *)

Owned(w, j) == w # << >> /\ w[1].joint = j

\* tick: a wave runs at its own admitted speed
WaveSpeed(h, w) == [j \in FJ |-> IF Owned(w, j) THEN [h[j] EXCEPT !.speed = "full"] ELSE h[j]]

\* advance: the wave's sample, or its end once the samples are used up
Sampled(h, w) ==
    IF w = << >> THEN h
    ELSE Latch(h, w[1].joint, IF w[1].left = << >> THEN w[1].end ELSE Head(w[1].left).target)

\* A wave left in place when its samples are used up
AfterWave_Stays(w) ==
    IF w = << >> \/ w[1].left = << >> THEN w
    ELSE <<[w[1] EXCEPT !.left = Tail(@)]>>

\* The samples used up: the wave leaves with the tick that found it so,
\* whatever that tick returns
AfterWave(w) ==
    IF w = << >> \/ w[1].left = << >> THEN << >>
    ELSE <<[w[1] EXCEPT !.left = Tail(@)]>>

\* advance_planners for one joint: its budgets
AdvanceJoint(h, w, j, q) ==
    IF Owned(w, j)
    THEN [h EXCEPT !.ascent = NoAscent,
                   !.watch = IF h.commanded
                             THEN Watch(h.watch, q, w[1].left # << >> /\ Head(w[1].left).moving)
                             ELSE NoWatch]
    ELSE [h EXCEPT !.watch = NoWatch,
                   !.ascent = Ascend(h.ascent, IF h.commanded THEN Travel(h.target, q) ELSE NoTravel, q)]

\* compose: hold tracking is armed only off a wave that is still running
TrackArmed(h, w, j, q, push) ==
    h.commanded /\ ~Owned(AfterWave(w), j) /\ Opposed(h.target, q, push)

\* compose for one joint, in the order it looks: the outbound fuse, the
\* wave's, hold tracking, the return fuse
TripOf(h, w, j, q, push) ==
    LET armed == TrackArmed(h, w, j, q, push)
        spent == Stall(h.ascent.budget) >= Budget
        track == Track(h.track, armed, h.target, q)
    IN  CASE spent /\ h.ascent.side = "outbound" -> "AscentStall"
          [] ~(spent /\ h.ascent.side = "outbound") /\ h.watch.stalled >= Budget -> "WaveStall"
          [] ~(spent /\ h.ascent.side = "outbound") /\ h.watch.stalled < Budget
                /\ (Stall(track) >= Budget \/ (spent /\ armed)) -> "HoldTracking"
          [] ~(spent /\ h.ascent.side = "outbound") /\ h.watch.stalled < Budget
                /\ Stall(track) < Budget /\ spent /\ ~armed -> "ReturnStall"
          [] OTHER -> "none"

-----------------------------------------------------------------------------

\* What a reader of the joint's trace sees of a tick, before any budget
Seen(old, h, w, j, q, push) ==
    LET way == IF Owned(w, j) \/ ~h.commanded THEN NoTravel ELSE Travel(h.target, q)
        last == IF old = << >> THEN [dir |-> 0, top |-> 0, armed |-> FALSE, near |-> 0]
                ELSE old[Len(old)]
        armed == TrackArmed(h, w, j, q, push)
        gap == Mag(q - h.target)
    IN  [q |-> q, dir |-> way.dir, side |-> way.side, gap |-> gap, armed |-> armed,
         top |-> IF way.dir # 0 /\ last.dir = way.dir /\ last.top > way.dir * q
                 THEN last.top ELSE way.dir * q,
         near |-> IF armed /\ last.armed /\ last.near < gap THEN last.near ELSE gap,
         moving |-> Owned(w, j) /\ h.commanded /\ w[1].left # << >> /\ Head(w[1].left).moving,
         waved |-> Owned(w, j) /\ h.commanded,
         over |-> Owned(w, j) /\ w[1].left = << >>,
         speed |-> h.speed]

Kept(s) == IF Len(s) > Budget + 1 THEN Tail(s) ELSE s

HoldInit ==
    /\ hold = [j \in FJ |-> FreshJoint]
    /\ wave = << >>
    /\ outcome = [kind |-> "none", joint |-> "none"]
    /\ orders = 0
    /\ log = [j \in FJ |-> << >>]

Running == outcome.kind \in {"none", "ok"}
Order == orders < MaxOrders /\ orders' = orders + 1

\* Where the joints are measured as an operator calls; it matters to an
\* unarmed hold only
Measured == IF IsArmed THEN {[j \in FJ |-> hold[j].target]} ELSE [FJ -> Levels]

\* ControlLoop::set_position_target on a hold it arms where needed
HoldAt(j, goal, speed, q) ==
    LET ready == EnsureArmed(hold, q)
        target == Classified(goal)
        changed == ready[j].target # target
    IN  /\ Running /\ Order
        /\ hold' = Retargeted(ready, j, target, speed)
        /\ wave' = IF changed /\ Owned(wave, j) THEN << >> ELSE wave
        /\ log' = IF IsArmed THEN log ELSE [i \in FJ |-> << >>]
        /\ UNCHANGED outcome

\* ControlLoop::start_position_wave
StartWave(j, samples, end, q) ==
    /\ Running /\ Order
    /\ hold' = EnsureArmed(hold, q)
    /\ wave' = <<[joint |-> j, left |-> samples, end |-> end]>>
    /\ log' = IF IsArmed THEN log ELSE [i \in FJ |-> << >>]
    /\ UNCHANGED outcome

\* A Disable, a mode change or the loop's answer to a failed tick: clear
ClearHold ==
    /\ Order \/ (~Running /\ UNCHANGED orders)
    /\ IsArmed
    /\ hold' = [j \in FJ |-> FreshJoint]
    /\ wave' = << >>
    /\ outcome' = [kind |-> "none", joint |-> "none"]
    /\ log' = [j \in FJ |-> << >>]

\* A drive joins or leaves the session: set_commanded_joint before a tick
Drives(commanded) ==
    /\ Running /\ Order
    /\ hold' = [j \in FJ |-> [hold[j] EXCEPT !.commanded = j \in commanded]]
    /\ UNCHANGED <<wave, outcome, log>>

\* PositionHold::tick: a joint that trips ends the walk over the joints, so
\* the tracking of those behind it is not updated
HoldTick(q, push) ==
    LET sampled == Sampled(WaveSpeed(hold, wave), wave)
        advanced == [j \in FJ |-> AdvanceJoint(sampled[j], wave, j, q[j])]
        trips == {i \in DOMAIN FuseJoints :
                    LET j == FuseJoints[i] IN TripOf(advanced[j], wave, j, q[j], push[j]) # "none"}
        first == CHOOSE i \in trips : \A k \in trips : i <= k
        reached == {FuseJoints[i] : i \in {k \in DOMAIN FuseJoints : trips = {} \/ k <= first}}
    IN  /\ Running /\ IsArmed
        /\ hold' = [j \in FJ |->
                      IF j \in reached
                      THEN [advanced[j] EXCEPT
                              !.track = Track(@, TrackArmed(advanced[j], wave, j, q[j], push[j]),
                                              advanced[j].target, q[j])]
                      ELSE advanced[j]]
        /\ wave' = AfterWave(wave)
        /\ outcome' = IF trips = {} THEN [kind |-> "ok", joint |-> "none"]
                      ELSE [kind |-> TripOf(advanced[FuseJoints[first]], wave, FuseJoints[first],
                                            q[FuseJoints[first]], push[FuseJoints[first]]),
                            joint |-> FuseJoints[first]]
        /\ log' = [j \in FJ |-> Kept(Append(log[j], Seen(log[j], advanced[j], wave, j, q[j], push[j])))]
        /\ UNCHANGED orders

HoldNext ==
    \/ \E j \in FJ, goal \in Goals, speed \in Speeds, q \in Measured : HoldAt(j, goal, speed, q)
    \/ \E j \in FJ, w \in WavePlans, q \in Measured : StartWave(j, w.samples, w.end, q)
    \/ ClearHold
    \/ \E commanded \in SUBSET FJ : Drives(commanded)
    \/ \E q \in [FJ -> Levels], push \in [FJ -> BOOLEAN] : HoldTick(q, push)

HoldSpec == HoldInit /\ [][HoldNext]_hvars

-----------------------------------------------------------------------------
(* Properties, stated of the trace alone *)

Window(j, n) == SubSeq(log[j], Len(log[j]) - n + 1, Len(log[j]))
Enough(j, n) == Len(log[j]) >= n

OneWay(w) == w[1].dir # 0 /\ \A i \in DOMAIN w : w[i].dir = w[1].dir

\* No level of the window lies past where the joint stood as it began
Stands(w) == OneWay(w) /\ \A i \in DOMAIN w : w[1].dir * w[i].q <= w[1].dir * w[1].q
Sags(w) == \A i \in DOMAIN w : w[i].armed /\ w[i].gap >= w[1].gap
Jammed(w) == \A i \in DOMAIN w : w[i].moving /\ w[i].q = w[1].q

\* The window shows no level that is a new best by more than the threshold
Unmoved(w) == OneWay(w) /\ \A i \in DOMAIN w : w[1].dir * w[i].q <= w[1].top + Threshold
Unclosed(w) == \A i \in DOMAIN w : w[i].armed /\ w[i].gap >= w[1].near - Threshold
Quiet(w) == \A i, k \in DOMAIN w : w[i].waved /\ Mag(w[i].q - w[k].q) <= 2 * Renew

\* A joint that the loop commands to move and that for the whole budget has
\* not gone past where it stood, has sagged away under its own command, or has
\* stood still under a moving wave, stops the loop at the latest on that tick,
\* however often it was retargeted meanwhile (position_hold.rs mark_retarget).
StalledJointTrips ==
    \A j \in FJ :
        Enough(j, Budget + 1) =>
            LET w == Window(j, Budget + 1) IN
            (Stands(w) \/ Sags(w) \/ Jammed(w)) => ~Running

\* A fuse trips only on what its report says: no progress in that direction
\* for the whole budget, and on the side of home it names.
TripIsDeserved ==
    ~Running =>
        LET j == outcome.joint
            w == Window(j, Budget)
            e == log[j][Len(log[j])]
        IN  /\ Enough(j, Budget)
            /\ outcome.kind = "AscentStall" => Unmoved(w) /\ e.side = "outbound"
            /\ outcome.kind = "ReturnStall" => Unmoved(w) /\ e.side = "return" /\ ~e.armed
            /\ outcome.kind = "HoldTracking" =>
                  e.armed /\ (Unclosed(w) \/ (Unmoved(w) /\ e.side = "return"))
            /\ outcome.kind = "WaveStall" => Quiet(w)

\* A slowed hold-at slows neither the wave that replaces it nor the hold after
\* the wave, and a wave that ran out is gone after the tick that found it so.
WaveIsWhole ==
    \A j \in FJ :
        log[j] # << >> =>
            LET e == log[j][Len(log[j])] IN
            /\ e.waved => e.speed = "full"
            /\ e.over /\ Owned(wave, j) => wave[1].left # << >>

FusesHold == StalledJointTrips /\ TripIsDeserved /\ WaveIsWhole
=============================================================================
