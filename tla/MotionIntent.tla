---------------------------- MODULE MotionIntent ----------------------------
(* Berthier's facade (crates/berthier/src/loop.rs, gain_runtime.rs, *)
(* torque_cmd.rs, mit_feedforward.rs): what the operator asked of the loop  *)
(* (a control mode, a latched hold, a wave, torque commands, gain overrides *)
(* and the gain ramp) and when a tick may still act on it.  Davout stops    *)
(* and re-enables the drives behind the loop's back; every call and every   *)
(* tick compares the stop generation it last saw with Davout's.             *)
(* `ctl' is the loop's own state, `sup' what the loop can see of Davout.    *)
(* No drive-loss plan is installed here, so every loss stops every drive;   *)
(* module DriveLoss has the degraded episodes.  The fuses of the hold are   *)
(* in HoldFuses: here a hold tick may fail.                                 *)
EXTENDS Naturals, FiniteSets

CONSTANTS
    IntentJoints,   \* the joints of the loop
    Scope,          \* the joints an Enable targets
    AskedPoses,          \* positions an operator asks for; 0 is "where it was measured"
    RampTicks,      \* ticks of a gain ramp
    WaveTicks,      \* ticks of a wave
    MaxAsks,        \* bound: operator calls
    MaxUpsets       \* bound: failures and stops the operator did not ask for

VARIABLES
    ctl,      \* the control loop
    sup,      \* Davout as the loop sees it
    sent,     \* the last MIT batch and what it was computed from
    asks,     \* operator calls so far
    upsets    \* failures and unasked stops so far

ivars == <<ctl, sup, sent, asks, upsets>>

NoWave == [j |-> "none"]
NoRamp == [left |-> 0, gen |-> 0]
NoHold == << >>
Nothing == [kind |-> "nothing"]

-----------------------------------------------------------------------------
(* Davout, as loop.rs calls it *)

\* perform_stop: the generation moves, the session ends
Stopped(s) ==
    [s EXCEPT !.gen = @ + 1, !.active = FALSE, !.session = 0, !.pending = {},
              !.told = "Disabled", !.ref = FALSE]

\* Supervisor::latch_control_fault
Latched(s) == IF s.fault THEN s ELSE [Stopped(s) EXCEPT !.fault = TRUE]

\* Supervisor::drain_feedback when nothing is wrong: what was queued is read
Drained(s) == [s EXCEPT !.fresh = @ \cup s.queued, !.queued = {}]

\* Supervisor::enable_targets: a new session has no pose of its targets
Enabled(s) ==
    IF s.active THEN s
    ELSE [Drained(s) EXCEPT !.active = TRUE, !.session = s.gen + 1,
                            !.pending = Scope, !.fresh = @ \ Scope]

\* Supervisor::set_control_mode
Told(s, m) == IF s.ref THEN s ELSE [s EXCEPT !.told = m]

-----------------------------------------------------------------------------
(* The loop's own state *)

AllowsOverride(m) == m \in {"Impedance", "Position"}

\* GainRuntime::on_mode_enter
EnterGains(c, m, gen) ==
    [c EXCEPT !.over = IF AllowsOverride(m) THEN @ ELSE {},
              !.ramp = CASE m = "Disabled" -> NoRamp
                         [] m # "Disabled" /\ c.mode # "Disabled" -> [left |-> RampTicks, gen |-> gen]
                         [] OTHER -> @]

\* set_control_mode_inner
ModeInner(c, m, gen) ==
    [EnterGains(c, m, gen) EXCEPT
        !.mode = m, !.modeGen = gen,
        !.hold = IF m = "Position" THEN @ ELSE NoHold,
        !.wave = IF m = "Position" THEN @ ELSE NoWave,
        !.torque = IF c.mode = "TorqueOnly" /\ m # "TorqueOnly" THEN {} ELSE @]

\* discard_motion_intent
Discard(c, gen) == [ModeInner(c, "Disabled", gen) EXCEPT !.torque = {}, !.grace = 0]

\* A failed call or tick discards and takes note of the generation it saw
Discarded(c, s) == [Discard(c, s.gen) EXCEPT !.lastStop = s.gen]

\* A loop that compares the enable session instead of the stop generation
Synchronize_BySession(c, s) ==
    IF s.session = 0 /\ c.lastStop # s.gen THEN Discarded(c, s) ELSE c

\* synchronize_stop_generation
Synchronize(c, s) == IF s.gen # c.lastStop THEN Discarded(c, s) ELSE c

\* ControlLoop::set_control_mode, outside a degraded episode
SetMode(c, s, m) ==
    IF s.ref THEN [c |-> c, s |-> s, ok |-> TRUE]
    ELSE [c |-> ModeInner(Synchronize(c, s), m, s.gen), s |-> Told(s, m), ok |-> TRUE]

-----------------------------------------------------------------------------
(* A call is a chain of steps that each succeed or refuse; an outcome is    *)
(* [c, s, ok], and a step that refuses ends the call with what it changed.  *)

Ok(c, s) == [c |-> c, s |-> s, ok |-> TRUE]
Refuse(c, s) == [c |-> c, s |-> s, ok |-> FALSE]
Then(outcomes, Step(_, _)) ==
    UNION {IF o.ok THEN Step(o.c, o.s) ELSE {o} : o \in outcomes}

\* A Davout call that can stop the drives: it works, or it stopped them
Tried(s) == {[s |-> Drained(s), ok |-> TRUE], [s |-> Stopped(s), ok |-> FALSE],
             [s |-> Latched(s), ok |-> FALSE]}

\* refresh_joint_positions
Refresh(c, s) ==
    LET c1 == Synchronize(c, s) IN
    {IF t.ok /\ ~t.s.fault THEN Ok(c1, t.s) ELSE Refuse(Discarded(c1, t.s), t.s) : t \in Tried(s)}

\* ensure_active_for_motion
EnsureActive(c, s) ==
    LET c1 == Synchronize(c, s) IN
    IF s.fault \/ s.ref \/ (~s.active /\ c1.forbidden)
    THEN {Refuse(c1, s)}
    ELSE IF s.active THEN {Ok(c1, s)}
    ELSE {IF t.ok THEN Ok(c1, Enabled(t.s)) ELSE Refuse(c1, t.s) : t \in Tried(s)}

\* enable_completion
Complete(s) == s.active /\ s.pending = {} /\ Scope \subseteq s.fresh
RequireComplete(c, s) == {IF Complete(s) THEN Ok(c, s) ELSE Refuse(c, s)}

\* motion_positions
MotionPositions(c, s) == Then(Then(Refresh(c, s), EnsureActive), RequireComplete)

\* A joint's latch: where to, and under which stop generation it was asked
Latch(s, to) == [to |-> to, gen |-> s.gen, old |-> FALSE]

\* latch_position_from_q
LatchMeasured(s) == [j \in IntentJoints |-> Latch(s, 0)]

\* arm_from_measured that trusts whatever is armed
ArmFromMeasured_Keeps(c, s) ==
    [c EXCEPT !.hold = IF @ = NoHold THEN LatchMeasured(s) ELSE @]

\* arm_from_measured: outside Position an armed hold is stale
ArmFromMeasured(c, s) ==
    [c EXCEPT !.hold = IF c.mode # "Position" \/ @ = NoHold THEN LatchMeasured(s) ELSE @]

\* apply_joint_retarget: only a new target cancels the joint's wave
ApplyRetarget(c, s, j, p) ==
    [c EXCEPT !.hold[j] = Latch(s, p),
              !.wave = IF @.j = j /\ c.hold[j].to # p THEN NoWave ELSE @]

\* set_joint_position_setpoint_at_speed
SetSetpoint(c, s, j, p) ==
    LET Apply(c1, s1) == {Ok(ApplyRetarget(ArmFromMeasured(c1, s1), s1, j, p), s1)}
    IN  Then(Then(Refresh(c, s), RequireComplete), Apply)

\* enter_position_hold
EnterHold(c, s) ==
    LET Apply(c1, s1) == {SetMode([c1 EXCEPT !.hold = LatchMeasured(s1)], s1, "Position")}
    IN  Then(MotionPositions(c, s), Apply)

\* enter_position_hold_at_speed
EnterHoldAt(c, s, j, p) ==
    LET Point(c1, s1) == SetSetpoint(c1, s1, j, p)
        Enter(c1, s1) == {SetMode(c1, s1, "Position")}
    IN  Then(Then(MotionPositions(c, s), Point), Enter)

\* The Testing batch's retarget of a loop already in Position (marengo-pi)
Retarget(c, s, j, p) ==
    LET Point(c1, s1) == SetSetpoint(c1, s1, j, p)
    IN  IF c.mode = "Position" THEN Then(EnsureActive(c, s), Point) ELSE EnterHoldAt(c, s, j, p)

\* start_position_wave: validate_wave_motion or the start tolerance may refuse
StartWave(c, s, j) ==
    LET Start(c1, s1) ==
            LET o == SetMode(ArmFromMeasured(c1, s1), s1, "Position")
            IN  {Refuse(c1, s1),
                 [o EXCEPT !.c.wave = [j |-> j, left |-> WaveTicks, gen |-> s1.gen]]}
    IN  Then(MotionPositions(c, s), Start)

\* set_torque_cmd
SetTorque(c, s, j) ==
    IF s.ref THEN {Refuse(c, s)}
    ELSE LET c1 == Synchronize(c, s) IN
         IF s.fault THEN {Refuse(c1, s)}
         ELSE LET o == IF c1.mode # "TorqueOnly" THEN SetMode(c1, s, "TorqueOnly") ELSE Ok(c1, s)
              IN  {[o EXCEPT !.c.torque = {t \in @ : t.j # j} \cup {[j |-> j, gen |-> s.gen]}]}

\* enter_torque_only_zero
TorqueZero(c, s) ==
    IF s.ref THEN {Refuse(c, s)} ELSE {SetMode([c EXCEPT !.torque = {}], s, "TorqueOnly")}

\* try_set_control_mode
TryMode(c, s, m) == IF s.ref THEN {Refuse(c, s)} ELSE {SetMode(c, s, m)}

\* apply_gain_override / clear_gain_override
Override(c, s, j) ==
    IF s.ref \/ ~AllowsOverride(c.mode) THEN {Refuse(c, s)}
    ELSE {Ok([c EXCEPT !.over = {t \in @ : t.j # j} \cup {[j |-> j, gen |-> s.gen]}], s)}
ClearOverride(c, s, j) == {Ok([c EXCEPT !.over = {t \in @ : t.j # j}], s)}

\* marengo-pi's HoldOff: clear_position_hold, then Disabled
HoldOff(c, s) == {SetMode([c EXCEPT !.hold = NoHold, !.wave = NoWave], s, "Disabled")}

\* Operator Disable and Enable (marengo-pi over disable_all / enable_targets)
DisableAsked(c, s) ==
    {SetMode([c EXCEPT !.forbidden = TRUE], Stopped(s), "Disabled")}
EnableAsked(c, s) ==
    IF s.fault \/ s.ref THEN {Refuse(c, s)}
    ELSE {IF t.ok THEN Ok([c EXCEPT !.forbidden = FALSE], Enabled(t.s)) ELSE Refuse(c, t.s)
            : t \in Tried(s)}

\* inhibit_motion_for_shutdown
Inhibit(c, s) == {Ok(Discard(c, s.gen), s)}

\* request_reference: admitted while Disabled in mode and control mode
BeginReferenceWork(c, s) ==
    {IF s.active \/ s.told # "Disabled" \/ s.fault THEN Refuse(c, s)
     ELSE Ok(c, [s EXCEPT !.ref = TRUE])}

-----------------------------------------------------------------------------
(* The tick *)

\* FeedbackGaps::fail_tick
GapFails(s, grace) ==
    IF ~(Scope \subseteq s.fresh) THEN grace = 0 ELSE ~(IntentJoints \subseteq s.fresh)

\* grace of a new enable session, even one no tick saw Disabled before
Grace(c, s) == IF s.session # 0 /\ s.session # c.lastSession THEN 2 ELSE c.grace

\* the grace runs only once every Enable is written
GraceAfter(grace, s) ==
    IF grace = 0 \/ Scope \subseteq s.fresh THEN 0
    ELSE IF s.pending = {} THEN grace - 1 ELSE grace

\* What a computed batch rests on: generations of the intents, poses, modes
Batch(c, s) ==
    [kind |-> "computed", at |-> s.gen, active |-> s.active, told |-> s.told, mode |-> c.mode,
     whole |-> IntentJoints \subseteq s.fresh,
     born |-> {c.modeGen}
        \cup (IF c.mode = "Position" THEN {c.hold[j].gen : j \in Scope} ELSE {})
        \cup (IF c.mode = "Position" /\ c.wave # NoWave THEN {c.wave.gen} ELSE {})
        \cup (IF c.mode = "TorqueOnly" THEN {t.gen : t \in c.torque} ELSE {})
        \cup (IF AllowsOverride(c.mode) THEN {t.gen : t \in c.over} ELSE {})
        \cup (IF c.ramp # NoRamp THEN {c.ramp.gen} ELSE {}),
     old |-> c.mode = "Position" /\ \E j \in Scope : c.hold[j].old]

\* PositionHold::tick as far as the wave goes: the wave owns its joint's target
Advanced(c) ==
    LET w == c.wave
        c1 == IF c.mode # "Position" \/ w = NoWave THEN c
              ELSE [c EXCEPT !.hold[w.j] = [@ EXCEPT !.to = 0, !.gen = w.gen],
                             !.wave = IF w.left = 1 THEN NoWave ELSE [@ EXCEPT !.left = @ - 1]]
    IN  [c1 EXCEPT !.ramp = IF @.left <= 1 THEN NoRamp ELSE [@ EXCEPT !.left = @ - 1]]

\* A tick of reference work: intent is discarded, Davout advances or ends it
ReferenceTick(c, s) ==
    LET c1 == Discard(c, s.gen) IN
    {[c |-> [c1 EXCEPT !.lastStop = t.gen, !.lastSession = 0], s |-> t, sent |-> Nothing]
        : t \in {s, Stopped(s)}}

\* A tick that failed: what the error latches, and nothing kept
FailTick(c, s) == [c |-> Discarded(c, s), s |-> s, sent |-> Nothing]

\* the computed batch goes out, or the hold or Davout refuses it
SendTick(c, s) ==
    IF c.mode = "Position" /\ c.hold = NoHold
    THEN {[FailTick(c, Latched(s)) EXCEPT !.sent = [kind |-> "unarmed"]]}
    ELSE {[c |-> Advanced(c), s |-> Drained(s), sent |-> Batch(c, s)],
          FailTick(c, Latched(s)), FailTick(c, Stopped(s))}

\* tick_inner after the drain
JudgeTick(c, s) ==
    LET grace == Grace(c, s)
        needs == s.active /\ c.mode # "Disabled"
        c1 == [c EXCEPT !.lastSession = s.session, !.grace = GraceAfter(grace, s)]
        bootstrap == needs /\ ~(Scope \subseteq s.fresh) /\ grace > 0
    IN  IF needs /\ GapFails(s, grace) THEN {FailTick(c1, Latched(s)), FailTick(c1, Stopped(s))}
        ELSE IF needs /\ ~bootstrap THEN SendTick(c1, s)
        ELSE {[c |-> c1, s |-> Drained(s),
               sent |-> IF s.active THEN [kind |-> "neutral"] ELSE Nothing]}

\* ControlLoop::tick
TickOutcomes(c, s) ==
    LET c1 == Synchronize(c, s) IN
    IF s.ref THEN ReferenceTick(c1, s)
    ELSE UNION {IF t.ok THEN JudgeTick(c1, t.s) ELSE {FailTick(c1, t.s)} : t \in Tried(s)}

-----------------------------------------------------------------------------
\* ControlLoop::from_repo_inner: a new loop forbids an implicit enable
IntentInit ==
    /\ ctl = [mode |-> "Disabled", modeGen |-> 0, hold |-> NoHold, wave |-> NoWave,
              torque |-> {}, over |-> {}, ramp |-> NoRamp, lastStop |-> 0,
              lastSession |-> 0, grace |-> 0, forbidden |-> TRUE]
    /\ sup = [active |-> FALSE, fault |-> FALSE, gen |-> 0, session |-> 0, pending |-> {},
              queued |-> {}, fresh |-> {}, told |-> "Disabled", ref |-> FALSE]
    /\ sent = Nothing /\ asks = 0 /\ upsets = 0

\* a latch made outside Position is an old one by the time of the next call
Aged(c) ==
    IF c.mode = "Position" \/ c.hold = NoHold THEN c
    ELSE [c EXCEPT !.hold = [j \in IntentJoints |-> [@[j] EXCEPT !.old = TRUE]]]

\* Stops and latches nobody asked for are bounded
WithinUpsets(s, unasked) ==
    LET n == unasked + (IF s.fault /\ ~sup.fault THEN 1 ELSE 0)
    IN  upsets + n <= MaxUpsets /\ upsets' = upsets + n

Call(Op(_, _), asksStop) ==
    /\ asks < MaxAsks /\ asks' = asks + 1
    /\ \E o \in Op(Aged(ctl), sup) :
         /\ ctl' = o.c /\ sup' = o.s
         /\ WithinUpsets(o.s, IF o.s.gen > sup.gen /\ ~asksStop THEN 1 ELSE 0)
    /\ UNCHANGED sent

AskHold == Call(EnterHold, FALSE)
AskHoldAt(j, p) == LET Op(c, s) == EnterHoldAt(c, s, j, p) IN Call(Op, FALSE)
AskRetarget(j, p) == LET Op(c, s) == Retarget(c, s, j, p) IN Call(Op, FALSE)
AskWave(j) == LET Op(c, s) == StartWave(c, s, j) IN Call(Op, FALSE)
AskMode(m) == LET Op(c, s) == TryMode(c, s, m) IN Call(Op, FALSE)
AskTorqueZero == Call(TorqueZero, FALSE)
AskTorque(j) == LET Op(c, s) == SetTorque(c, s, j) IN Call(Op, FALSE)
AskOverride(j) == LET Op(c, s) == Override(c, s, j) IN Call(Op, FALSE)
AskClearOverride(j) == LET Op(c, s) == ClearOverride(c, s, j) IN Call(Op, FALSE)
AskHoldOff == Call(HoldOff, FALSE)
AskDisable == Call(DisableAsked, TRUE)
AskEnable == Call(EnableAsked, FALSE)
AskReference == Call(BeginReferenceWork, FALSE)
AskInhibit == Call(Inhibit, FALSE)

Tick ==
    \E o \in TickOutcomes(Aged(ctl), sup) :
      /\ ctl' = o.c /\ sup' = o.s /\ sent' = o.sent
      /\ WithinUpsets(o.s, IF o.s.gen > sup.gen /\ ~sup.ref THEN 1 ELSE 0)
      /\ UNCHANGED asks

\* A drive answers: its pose is queued until the next drain
Reply(j) ==
    /\ j \notin sup.pending \cup sup.queued \cup sup.fresh
    /\ sup' = [sup EXCEPT !.queued = @ \cup {j}]
    /\ UNCHANGED <<ctl, sent, asks, upsets>>

\* A staggered Enable is written
WriteEnable(j) ==
    /\ j \in sup.pending
    /\ sup' = [sup EXCEPT !.pending = @ \ {j}]
    /\ UNCHANGED <<ctl, sent, asks, upsets>>

\* A pose goes stale
GoStale(j) ==
    /\ j \in sup.fresh /\ upsets < MaxUpsets
    /\ sup' = [sup EXCEPT !.fresh = @ \ {j}] /\ upsets' = upsets + 1
    /\ UNCHANGED <<ctl, sent, asks>>

\* Davout stops the drives outside any call of the loop
SafetyStop ==
    /\ upsets < MaxUpsets
    /\ sup' = Stopped(sup) /\ upsets' = upsets + 1
    /\ UNCHANGED <<ctl, sent, asks>>

IntentNext ==
    \/ AskHold \/ AskTorqueZero \/ AskHoldOff \/ AskDisable \/ AskEnable
    \/ AskReference \/ AskInhibit \/ Tick \/ SafetyStop
    \/ \E j \in IntentJoints :
         \/ AskWave(j) \/ AskTorque(j) \/ AskOverride(j) \/ AskClearOverride(j)
         \/ Reply(j) \/ WriteEnable(j) \/ GoStale(j)
         \/ \E p \in AskedPoses : AskHoldAt(j, p) \/ AskRetarget(j, p)
    \/ \E m \in {"GravityComp", "Impedance", "Disabled"} : AskMode(m)

IntentSpec == IntentInit /\ [][IntentNext]_ivars

-----------------------------------------------------------------------------
(* Whatever a computed batch rests on was asked since the last stop: no     *)
(* mode, hold target, wave, torque command, gain override or ramp of before *)
(* a Disable (asked or not) reaches the drives after it, even when Disable  *)
(* and Enable both fell between two ticks (synchronize_stop_generation).    *)
IntentIsCurrent ==
    sent.kind = "computed" => sent.born = {sent.at} /\ sent.active /\ sent.told = sent.mode

(* Position never commands a pose latched before it was entered: what a     *)
(* retarget armed outside Position is re-measured, and a Position tick      *)
(* always finds its latch (arm_from_measured, PositionHold::tick).          *)
NeverAnOldPose ==
    /\ sent.kind # "unarmed"
    /\ sent.kind = "computed" => ~sent.old

(* Gravity and PD are computed only from the poses of this session: the     *)
(* ticks before them send neutral keepalives (feedback_bootstrap).          *)
ComputedFromRealPoses == sent.kind = "computed" => sent.whole

(* The loop's promise to the drives, as one invariant. *)
IntentHolds == IntentIsCurrent /\ NeverAnOldPose /\ ComputedFromRealPoses
=============================================================================
