---------------------------- MODULE HoldReference ----------------------------
(* The references of Berthier's position hold for one joint: the trapezoid  *)
(* planner with its recovery policy (position_setpoint.rs,                  *)
(* position_trajectory.rs, position_profile.rs, ADR 0007) and the governed  *)
(* reference of the scaled law (position_law.rs, ADR 0039), with the limit  *)
(* envelope (armee-kinematics limits.rs).  Positions are grid levels and    *)
(* speeds levels per tick; a fraction of a speed is rounded towards rest.   *)
(* A tolerance below one level is equality.  Torques are left out: what     *)
(* matters is where the reference goes and what position is commanded.      *)
EXTENDS Integers, FiniteSets

CONSTANTS
    HardLo, HardHi,   \* the hard limits, the soft limits too
    MarginPerSpeed,   \* kinetic margin, levels per speed
    Goals,            \* targets an operator asks for
    Laws,             \* laws the configuration may select
    Fractions,        \* divisors of the configured speeds, 1 is full speed
    Resync,           \* POSITION_RETURN_RESYNC_RAD
    Seed,             \* POSITION_RETURN_DESCENT_SEED_RAD
    FreezeMax,        \* POSITION_RETURN_FREEZE_Q_MAX_RAD
    HomeMax,          \* POSITION_HOME_BREAKAWAY_Q_MAX_RAD
    LowSpan,          \* LOW_ANGLE_SPAN_MAX_RAD
    PullThrough,      \* POSITION_HOME_FINAL_PULL_THROUGH_RAD
    StuckLead,        \* POSITION_DESCENT_STUCK_LEAD_RAD
    OnsetLead,        \* POSITION_HOLD_ONSET_MAX_LEAD_RAD
    OnsetTicks,       \* POSITION_HOLD_ONSET_MS in ticks
    SettleTicks,      \* bound: ticks counted since the last operator call
    MaxLead,          \* position_slew_max_lead_rad
    Slew, Cruise,     \* the two configured speeds
    FarMove,          \* position_trajectory_threshold_rad
    Accel,            \* a_max
    Deadband,         \* velocity deadband
    ExitRate,         \* the first rate above the stuck-exit velocity
    E0, E1,           \* governor lead band
    CapAbove, CapRate,\* descent cap of the danger zones
    ArmStep,          \* bound: levels the arm moves in a tick
    Rates,            \* filtered rates the arm may show
    Arm,              \* "free": any motion, "follows": towards the command
    MaxOrders         \* bound: operator calls

HoldReferenceAssumption ==
    /\ HardLo < HardHi /\ Slew <= Cruise /\ Accel > 0 /\ E0 <= E1
    /\ Deadband <= ExitRate /\ StuckLead <= OnsetLead /\ FreezeMax <= HomeMax
    /\ Arm \in {"free", "follows"}

VARIABLES
    arm,     \* measured level and rate
    latch,   \* target, law, speed divisor and ticks since the retarget
    ref,     \* the planner: level, rate and phase
    policy,  \* frozen, recovering, breakaway, stuck
    cmd,     \* the commanded level and the lead it was bounded by
    was,     \* history: the last tick's reference before and after, and its inputs
    orders   \* operator calls so far

lvars == <<arm, latch, ref, policy, cmd, was, orders>>

Dir(n) == IF n > 0 THEN 1 ELSE IF n < 0 THEN -1 ELSE 0
Size(n) == IF n < 0 THEN -n ELSE n
Low(a, b) == IF a < b THEN a ELSE b
High(a, b) == IF a > b THEN a ELSE b
Into(x, lo, hi) == Low(High(x, lo), hi)

-----------------------------------------------------------------------------
(* The limit envelope (limits.rs) *)

\* limit_margin_rad
Margin(v) == MarginPerSpeed * Size(v)

\* effective_command_bounds
CommandBounds(q, v) ==
    LET lo == IF v < 0 THEN Low(HardLo + Margin(v), HardHi) ELSE HardLo
        hi == IF v > 0 THEN High(HardHi - Margin(v), HardLo) ELSE HardHi
        point == Into(q, HardLo, HardHi)
    IN  IF lo <= hi THEN [lo |-> lo, hi |-> hi] ELSE [lo |-> point, hi |-> point]

\* clamp_position_in_envelope without the bounds check
InEnvelope_Unbounded(q, v, x) == x

\* clamp_position_in_envelope
InEnvelope(q, v, x) == LET b == CommandBounds(q, v) IN Into(x, b.lo, b.hi)

\* approach_velocity_cap
ApproachCap(q, v, vmax) ==
    LET m == Margin(v)
        left == IF v < 0 THEN q - (HardLo + m) ELSE (HardHi - m) - q
    IN  IF vmax <= 0 THEN 0
        ELSE IF v = 0 \/ m = 0 \/ left >= m THEN vmax
        ELSE (vmax * Into(left, 0, m)) \div m

\* clamp_hold_target with envelope_dq_cmd_for_hold_clamp: the bottom, home
\* from above and the top are goals, any other target keeps the margin
HoldTarget(q, asked, v) ==
    LET slow == IF \/ asked <= High(HardLo, 0) /\ q > asked /\ v < 0
                   \/ asked >= HardHi /\ q < asked /\ v > 0
                THEN Dir(v) * Low(Size(v), Slew) ELSE v
        soft == Into(asked, HardLo, HardHi)
    IN  IF (soft = HardLo \/ soft = 0) /\ q > soft THEN soft
        ELSE IF soft = HardHi /\ q < HardHi THEN soft
        ELSE InEnvelope(q, slow, soft)

-----------------------------------------------------------------------------
(* Speeds (position_profile.rs, HoldJointParams::at_speed_fraction) *)

\* position_profile_v_max, position_hold_v_max
SpeedFor(dist, rate, f) ==
    IF dist <= FarMove /\ Size(rate) <= Slew \div f THEN Slew \div f ELSE Cruise \div f

\* DescentCap::limit
DescentLimit(vmax, at, q, target) ==
    IF target < at /\ High(at, q) > CapAbove THEN Low(vmax, CapRate) ELSE vmax

-----------------------------------------------------------------------------
(* The trapezoid (position_trajectory.rs) *)

At(q) == [q |-> q, v |-> 0, phase |-> "Hold"]
Latched(target) == At(target)
Cruising(q, v) == [q |-> q, v |-> v, phase |-> "Cruise"]

\* JointPositionPlanner::new_for_target, reset_target
ResetAt(q, target) == [At(q) EXCEPT !.phase = IF q = target THEN "Hold" ELSE "Accelerate"]

SquareRoot(n) == CHOOSE r \in 0..n : r * r <= n /\ (r + 1) * (r + 1) > n

\* trapezoid_step
Trapezoid(p, target, vmax) ==
    LET dir == Dir(target - p.q)
        dist == Size(target - p.q)
        along == p.v * dir
        braking == p.v * p.v >= 2 * Accel * dist
        speed == CASE braking -> Low(High(along - Accel, 0), SquareRoot(2 * Accel * dist))
                   [] ~braking /\ along < vmax -> Low(along + Accel, vmax)
                   [] OTHER -> High(along - Accel, vmax)
        next == p.q + dir * speed
    IN  IF dist = 0 \/ (target - next) * dir <= 0 THEN At(target)
        ELSE [q |-> next, v |-> dir * speed,
              phase |-> IF braking THEN "Decelerate"
                        ELSE IF speed >= vmax THEN "Cruise" ELSE "Accelerate"]

\* is_gravity_assisted_return
GravityReturn(q, target) == q * target > 0 /\ Size(target) < Size(q)

\* is_descent_return
DescentReturn(q, target) ==
    target # q /\ Size(q) > Seed /\ (target = 0 \/ GravityReturn(q, target))

\* downward_return_seed_velocity
SeedSpeed(q, target, vmax, f) ==
    LET base == Low(Slew \div f, vmax) IN
    IF ~DescentReturn(q, target) \/ Size(q - target) <= 4 * Seed THEN base
    ELSE Low(vmax, High(base, (vmax * 35) \div 100))

\* reset_target, then seed_downward_return_if_needed
SeededReset(q, target, vmax, f) ==
    LET seed == SeedSpeed(q, target, vmax, f) IN
    IF DescentReturn(q, target) /\ target < q - Seed /\ seed > 0
    THEN [q |-> q, v |-> -seed, phase |-> "Accelerate"] ELSE ResetAt(q, target)

-----------------------------------------------------------------------------
(* The planner's recovery policy (position_setpoint.rs) *)

\* return_settle_band: home settles to the level, any other target to Resync
SettleBand(target) == IF target = 0 THEN 0 ELSE Resync

\* home_final_approach_stuck
HomeFinal(q, target) == target = 0 /\ q > 0 /\ q <= HomeMax

\* low_angle_breakaway_active
LowAngle(q, target, approaching) ==
    /\ q >= 0 /\ q <= LowSpan
    /\ HomeFinal(q, target) \/ (~approaching /\ target <= LowSpan /\ target < q)

\* position_hold_effective_max_lead
EffectiveLead(q, target, onset, approaching) ==
    LET outbound == Size(q) <= HomeMax /\ approaching /\ target - q > Seed
        homeward == GravityReturn(q, target) /\ target - q < -Seed
    IN  IF LowAngle(q, target, approaching) \/ (onset /\ (outbound \/ homeward))
        THEN High(MaxLead, OnsetLead) ELSE MaxLead

Still(rate) == Size(rate) < Deadband
PastTarget(q, target) ==
    IF target >= 0 THEN q > target + Resync ELSE q < target - Resync

\* planner_should_resync_stuck_lead
StuckAtLead(p, q, target, rate, lead) ==
    /\ target # q /\ Still(rate)
    /\ ~(DescentReturn(q, target) /\ target < q /\ q > p.q /\ p.phase # "Hold")
    /\ Size(q - p.q) >= lead

\* planner_premature_hold, planner_overshot_at_hold
PrematureHold(p, q, target) ==
    p.phase = "Hold" /\ Size(q - target) > SettleBand(target) /\ p.q = target
OvershotHold(p, q, target) == p.phase = "Hold" /\ p.q = target /\ PastTarget(q, target)

\* planner_should_reopen_premature_hold, planner_overshoot_hold_while_moving
Reopens(p, q, target, rate) ==
    /\ ~Still(rate)
    /\ \/ OvershotHold(p, q, target)
          /\ IF target >= 0 THEN rate > Deadband ELSE rate < -Deadband
       \/ PrematureHold(p, q, target)

\* reopen_planner_from_premature_hold
Reopened(p, q, target, vmax) ==
    LET dir == Dir(target - q) IN
    Cruising(CASE dir > 0 -> High(p.q, q) [] dir < 0 -> Low(p.q, q) [] OTHER -> p.q, dir * vmax)

\* planner_should_lead_follow_hold_short
LeadFollows(p, q, target) ==
    /\ CASE target = 0 -> q > 0
         [] target > 0 -> q < target
         [] target < 0 -> q > target
    /\ CASE p.phase = "Hold" -> Size(p.q - target) <= Resync
         [] p.phase = "Cruise" -> p.q = target /\ p.v # 0
         [] OTHER -> FALSE

\* apply_lead_follow_hold_short
LeadFollowed(q, target, lead, f) ==
    LET dir == Dir(target - q) IN
    IF dir = 0 THEN Latched(target)
    ELSE Cruising(q + dir * Low(Size(target - q), lead), dir * (Slew \div f))

\* planner_drifted_from_measurement
Drifted(p, q, target, lead) ==
    /\ ~PrematureHold(p, q, target) /\ ~OvershotHold(p, q, target)
    /\ ~(target > q /\ q > p.q + lead)
    /\ ~(target < q /\ q < p.q - lead)
    /\ ~(DescentReturn(q, target) /\ q > p.q + lead /\ p.phase # "Hold")
    /\ \/ Size(q - p.q) > lead /\ target # q
       \/ p.phase = "Hold" /\ Size(q - target) > SettleBand(target) /\ q # p.q

\* planner_should_freeze_on_descent
FreezesOnDescent(was_frozen, p, q, target, rate) ==
    LET lag == q - p.q IN
    /\ target = 0 /\ ~HomeFinal(q, target) /\ q <= FreezeMax
    /\ Size(q) <= Seed /\ Size(q) > SettleBand(target)
    /\ ~(was_frozen /\ Size(lag) < Resync)
    /\ target < q /\ lag > Resync /\ lag < MaxLead /\ p.v < 0
    /\ IF was_frozen THEN rate > -ExitRate ELSE Still(rate)

\* planner_should_recover_ascent_stall
Recovers(was_recovering, p, q, target, rate) ==
    /\ target # 0 /\ Size(q - target) > SettleBand(target)
    /\ ~(target > q /\ rate >= ExitRate)
    /\ was_recovering \/ (target > q /\ p.q - q > Resync /\ Still(rate))

\* lead_follow_stuck_residual
StuckResidual(p, q, target, rate) ==
    LeadFollows(p, q, target) /\ target > 0 /\ target - q > Resync /\ Still(rate)

\* planner_should_latch_on_overshoot_hold
LatchesOvershoot(p, q, target, rate) ==
    Size(target) > FreezeMax /\ p.q = target /\ PastTarget(q, target) /\ Still(rate)

-----------------------------------------------------------------------------
(* The scaled law (position_law.rs) *)

\* time_scale_target, governor_scale: the speed limit left at this lead
Governed(vmax, at, q, target) ==
    LET lead == at - q IN
    IF lead * (target - at) <= 0 \/ Size(lead) <= E0 THEN vmax
    ELSE IF Size(lead) >= E1 THEN 0
    ELSE (vmax * (E1 - Size(lead))) \div (E1 - E0)

\* braking_speed: the highest speed that per-tick braking still stops in time
BrakingSpeed(dist) == CHOOSE v \in 0..(2 * dist + Accel) :
    v * (v + Accel) <= 2 * Accel * dist /\ (v + 1) * (v + 1 + Accel) > 2 * Accel * dist


\* reference_step
ReferenceStep(p, target, vmax) ==
    LET dist == Size(target - p.q)
        dir == IF dist = 0 THEN -Dir(p.v) ELSE Dir(target - p.q)
        along == p.v * dir
        speed == Low(High(Low(vmax, BrakingSpeed(dist)), along - Accel), along + Accel)
        next == p.q + dir * speed
        arrived == dist > 0 /\ (target - next) * (target - p.q) <= 0
    IN  IF Size(p.v) <= Accel /\ (dist = 0 \/ arrived) THEN At(target)
        ELSE [q |-> next, v |-> dir * speed,
              phase |-> IF speed < along THEN "Decelerate"
                        ELSE IF vmax > 0 /\ speed >= vmax THEN "Cruise" ELSE "Accelerate"]

-----------------------------------------------------------------------------
(* One tick *)

Approaching(p, q, target) == p.v * (target - q) > 0

\* advance_planners, scaled branch: the speed limit and the reference
ScaledLimit(p, q, target, f) ==
    Governed(ApproachCap(q, p.v, DescentLimit(SpeedFor(Size(target - p.q), p.v, f), p.q, q, target)),
             p.q, q, target)

\* advance_planners, legacy branch: resync, reopen, lead-follow or reset first
Repaired(p, q, target, rate, lead, vmax, f) ==
    IF StuckAtLead(p, q, target, rate, lead) THEN SeededReset(q, target, vmax, f)
    ELSE IF Reopens(p, q, target, rate) THEN Reopened(p, q, target, vmax)
    ELSE IF LeadFollows(p, q, target) THEN LeadFollowed(q, target, lead, f)
    ELSE IF Drifted(p, q, target, lead) THEN SeededReset(q, target, vmax, f)
    ELSE p

\* then the latches, and the trapezoid unless the planner is frozen
LegacyAdvance(p, pol, q, target, rate, onset, f) ==
    LET vmax == SpeedFor(Size(target - q), p.v, f)
        lead == EffectiveLead(q, target, onset, Approaching(p, q, target))
        p1 == Repaired(p, q, target, rate, lead, vmax, f)
        follow == LeadFollows(p1, q, target)
        residual == StuckResidual(p1, q, target, rate)
        freeze == FreezesOnDescent(pol.frozen, p1, q, target, rate) \/ (follow /\ ~residual)
        recover == (~follow \/ residual) /\ Recovers(pol.recovering, p1, q, target, rate)
        p2 == IF LatchesOvershoot(p1, q, target, rate) THEN Latched(target) ELSE p1
        p3 == IF freeze THEN p2 ELSE Trapezoid(p2, target, ApproachCap(q, p2.v, vmax))
        p4 == IF freeze THEN p3 ELSE [p3 EXCEPT !.q = InEnvelope(q, p3.v, @)]
    IN  [ref |-> p4, frozen |-> freeze, recovering |-> recover, residual |-> residual, vmax |-> vmax]

\* clamp_trajectory_setpoint without the bound on the lead
Setpoint_Unbounded(p, q, target, lead) == InEnvelope(q, p.v, p.q)

\* clamp_trajectory_setpoint
Setpoint(p, q, target, lead) ==
    LET b == CommandBounds(q, p.v)
        near == Into(p.q, q - lead, q + lead)
        followed ==
            CASE target > q /\ q > p.q /\ q - p.q < Resync -> High(near, q)
              [] target < q /\ q < p.q
                    /\ (p.q - q < Resync \/ (target = 0 /\ Size(q) < FreezeMax)) ->
                        Low(near, High(q, b.lo))
              [] OTHER -> near
        arrived ==
            CASE p.q = target /\ PastTarget(q, target) /\ Size(target) > FreezeMax ->
                     Into(target, b.lo, b.hi)
              [] ~(p.q = target /\ PastTarget(q, target) /\ Size(target) > FreezeMax)
                    /\ target < q /\ p.q <= target -> High(Low(High(followed, target), q), b.lo)
              [] ~(p.q = target /\ PastTarget(q, target) /\ Size(target) > FreezeMax)
                    /\ target > q /\ p.q >= target -> Low(High(Low(followed, target), q), b.hi)
              [] OTHER -> followed
    IN  InEnvelope(q, p.v, arrived)

\* home_final_approach_stuck_pull_rad
StuckPull(q, target) ==
    IF HomeFinal(q, target) THEN Into(q - target + PullThrough, StuckLead, OnsetLead) ELSE StuckLead

\* descent_stuck_mit_pull
DescentStuck(q, target, rate) ==
    /\ target < q /\ Still(rate)
    /\ (GravityReturn(q, target) /\ q - target > Seed) \/ HomeFinal(q, target)

\* compose: the pulls of a stuck joint on top of the setpoint
LegacyCompose(adv, pol, q, target, rate, onset) ==
    LET p == adv.ref
        lead == EffectiveLead(q, target, onset, Approaching(p, q, target))
        stuck == DescentStuck(q, target, rate)
        breakaway == pol.breakaway \/ ((pol.stuck \/ stuck) /\ target < q /\ rate <= -ExitRate)
        base == Setpoint(p, q, target, lead)
        down == IF stuck /\ ~breakaway THEN Low(base, q - StuckPull(q, target)) ELSE base
        up == IF adv.residual THEN High(down, Low(target + PullThrough, q + lead)) ELSE down
    IN  [cmd |-> [q |-> InEnvelope(q, p.v, up), lead |-> lead],
         policy |-> [frozen |-> adv.frozen, recovering |-> adv.recovering,
                     breakaway |-> breakaway, stuck |-> pol.stuck \/ stuck]]

-----------------------------------------------------------------------------

NoPolicy == [frozen |-> FALSE, recovering |-> FALSE, breakaway |-> FALSE, stuck |-> FALSE]

LawInit ==
    /\ \E q \in HardLo..HardHi :
          /\ arm = [q |-> q, rate |-> 0]
          /\ latch \in [target : {q}, law : Laws, f : {1}, age : {OnsetTicks + 1}]
          /\ ref = At(q)
          /\ cmd = [q |-> q, lead |-> MaxLead]
          /\ was = [law |-> "none", from |-> At(q), to |-> At(q), vmax |-> 0, q |-> q, target |-> q,
                    calm |-> SettleTicks]
    /\ policy = NoPolicy
    /\ orders = 0

\* estimated_retarget_dq_cmd: the speed the move will be planned at
MoveSpeed(q, asked) ==
    Dir(asked - q) * (IF Size(asked - q) <= FarMove THEN Slew ELSE Cruise)

\* apply_joint_retarget, apply_retarget: another target ends the policy
\* episode; only the trapezoid restarts at the arm
Retarget(asked, f) ==
    LET target == HoldTarget(arm.q, asked, MoveSpeed(arm.q, asked))
        vmax == (IF Size(target - arm.q) <= FarMove THEN Slew ELSE Cruise) \div f
    IN  /\ orders < MaxOrders /\ orders' = orders + 1
        /\ target # latch.target
        /\ latch' = [latch EXCEPT !.target = target, !.f = f, !.age = 0]
        /\ policy' = NoPolicy
        /\ ref' = IF latch.law = "legacy" THEN SeededReset(arm.q, target, vmax, f) ELSE ref
        /\ was' = [was EXCEPT !.calm = 0]
        /\ UNCHANGED <<arm, cmd>>

\* set_joint_law: the reference continues
SelectLaw(law) ==
    /\ orders < MaxOrders /\ orders' = orders + 1
    /\ law # latch.law
    /\ latch' = [latch EXCEPT !.law = law]
    /\ was' = [was EXCEPT !.calm = 0]
    /\ UNCHANGED <<arm, ref, policy, cmd>>

\* What the arm may measure next: `rate' is its filtered rate, which the
\* scaled reference does not look at
Moves ==
    IF Arm = "follows"
    THEN LET q == arm.q + Into(cmd.q - arm.q, -ArmStep, ArmStep) IN {[q |-> q, rate |-> q - arm.q]}
    ELSE {m \in [q : (HardLo - 1)..(HardHi + 1), rate : IF latch.law = "scaled" THEN {0} ELSE Rates] :
              Size(m.q - arm.q) <= ArmStep}

\* PositionHold::tick
LawTick(m) ==
    LET onset == latch.age <= OnsetTicks
        target == latch.target
        adv == LegacyAdvance(ref, policy, m.q, target, m.rate, onset, latch.f)
        out == LegacyCompose(adv, policy, m.q, target, m.rate, onset)
        limit == ScaledLimit(ref, m.q, target, latch.f)
        next == ReferenceStep(ref, target, limit)
    IN  /\ arm' = m
        /\ latch' = [latch EXCEPT !.age = Low(@ + 1, OnsetTicks + 1)]
        /\ IF latch.law = "legacy"
           THEN /\ ref' = adv.ref /\ policy' = out.policy /\ cmd' = out.cmd
           ELSE /\ ref' = next /\ policy' = [policy EXCEPT !.frozen = FALSE, !.recovering = FALSE]
                /\ cmd' = [q |-> InEnvelope(m.q, next.v, next.q), lead |-> E1]
        /\ was' = [law |-> latch.law, from |-> ref, to |-> ref', q |-> m.q, target |-> target,
                   vmax |-> IF latch.law = "legacy" THEN adv.vmax ELSE limit,
                   calm |-> Low(was.calm + 1, SettleTicks)]
        /\ UNCHANGED orders

LawNext ==
    \/ \E asked \in Goals, f \in Fractions : Retarget(asked, f)
    \/ \E law \in Laws : SelectLaw(law)
    \/ \E m \in Moves : LawTick(m)

LawSpec == LawInit /\ [][LawNext]_lvars

-----------------------------------------------------------------------------
(* Properties *)

\* The joint is never commanded past a hard limit, and the trapezoid's command
\* is never further from the arm than the lead allowed this tick or the pull of
\* a stuck joint, unless the arm is past a target its planner has reached: then
\* the command is no further than the target (clamp_trajectory_setpoint, compose).
CommandIsBounded ==
    /\ cmd.q >= HardLo /\ cmd.q <= HardHi
    /\ was.law = "legacy" /\ was.q \in HardLo..HardHi =>
          \/ Size(cmd.q - was.q) <= High(cmd.lead, OnsetLead)
          \/ /\ was.to.q = was.target /\ PastTarget(was.q, was.target)
             /\ Size(cmd.q - was.q) <= Size(was.target - was.q)

\* The scaled reference never changes speed by more than one tick's
\* acceleration, whatever the retargets, the caps and the arm did, and a
\* reference that leads the arm by the whole governor band only brakes.
ReferenceIsGoverned ==
    was.law = "scaled" =>
        /\ Size(was.to.v - was.from.v) <= Accel
        /\ LET lead == was.from.q - was.q
               ahead == (was.target - was.from.q) * lead > 0
           IN  ahead /\ Size(lead) >= E1 =>
                  was.to.v * Dir(lead) <= High(0, was.from.v * Dir(lead) - Accel)

\* A reference is above the speed its move was given only while it bleeds off
\* an earlier one.
SpeedIsEarned == Size(was.to.v) <= High(was.vmax, Size(was.from.v))

\* An arm that follows its command arrives: however the moves before were cut
\* short, SettleTicks after the last operator call the arm rests within the settle
\* band of its target, so neither law hunts around a target it can reach.
MoveFinishes ==
    Arm = "follows" /\ was.calm = SettleTicks =>
        Size(arm.q - latch.target) <= SettleBand(latch.target) /\ arm.rate = 0

LawHolds == CommandIsBounded /\ ReferenceIsGoverned /\ SpeedIsEarned /\ MoveFinishes
=============================================================================
