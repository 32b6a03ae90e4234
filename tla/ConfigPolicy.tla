---------------------------- MODULE ConfigPolicy ----------------------------
(***************************************************************************)
(* The configuration policy of marengo-config: which robot, motors,        *)
(* control and homing files a controller accepts, and how a tuning saved   *)
(* by the operator gets back into control.yaml.                            *)
(*                                                                         *)
(* Davout loads the four files at boot, narrows them to the joint subset   *)
(* of the environment and validates them together.  A tuning edits a draft *)
(* of the control policy in memory, the draft is validated against the     *)
(* loaded (narrowed) files, queued for the persist worker when it is to be *)
(* kept, and then installed.  The worker validates the draft again against *)
(* the files on disk, which hold every joint and may have been edited.     *)
(*                                                                         *)
(* Numbers are integers; NonFinite stands for NaN and the infinities and   *)
(* Unset for an absent optional key.  Set Limits, which also rewrites      *)
(* motors.yaml, is ProfileFiles.                                           *)
(***************************************************************************)
EXTENDS Integers, Sequences, FiniteSets

CONSTANTS
    Profiles,         \* the four files as they may stand on disk
    RobotFiles, MotorFiles, HomingFiles,   \* files an edit may put there
    Subsets,          \* MARENGO_JOINT_SUBSET, or NoSubset
    TunedParams,      \* the parameters a tuning names
    TunedValues,
    MaxHz,            \* 1_000_000: the microseconds of a second
    MaxTimeout,       \* 300 s
    MaxTolerance,     \* 0.1 rad
    MaxIntegralCap,   \* DEFAULT_POSITION_INTEGRAL_CAP_NM
    PersistQueue,     \* bound: drafts waiting for the worker
    MaxTunings, MaxEdits, MaxBoots   \* bounds

NonFinite == 10000
Unset == -10000
NoSubset == {"every joint"}
NoProfile == [none |-> TRUE]

VARIABLES
    files,       \* robot.yaml, motors.yaml, control.yaml, homing.yaml
    running,     \* the policy of the running controller
    drafts,      \* control policies queued for control.yaml
    loaded,      \* history: control.yaml as the last boot read it
    saved,       \* history: control.yaml is what the worker wrote
    tunings, edits, boots

countersP == <<tunings, edits, boots>>
polvars == <<files, running, drafts, loaded, saved, countersP>>

-----------------------------------------------------------------------------
(* The validators.                                                         *)

Finite(v) == v # NonFinite
Nonnegative(v) == Finite(v) /\ v >= 0
Positive(v) == Finite(v) /\ v > 0
Optional(v, Check(_)) == v = Unset \/ Check(v)
Named(s) == s \notin {"", " "}
NoDuplicate(s) == \A i, k \in DOMAIN s : s[i] = s[k] => i = k
Members(s) == {s[i] : i \in DOMAIN s}

ValidRobot(robot) ==
    /\ Named(robot.urdf) /\ Nonnegative(robot.max_joint_torque)
    /\ \A i \in DOMAIN robot.joints : Named(robot.joints[i])
    /\ NoDuplicate(robot.joints)

ValidMotorsFile(motors) ==
    /\ NoDuplicate([i \in DOMAIN motors |-> motors[i].joint])
    /\ NoDuplicate([i \in DOMAIN motors |-> <<motors[i].can_interface, motors[i].device_id>>])
    /\ \A i \in DOMAIN motors :
         LET motor == motors[i] IN
         /\ Named(motor.joint) /\ Named(motor.can_interface)
         /\ motor.direction \in {-1, 1} /\ Positive(motor.gear_ratio)
         /\ Finite(motor.lower) /\ Finite(motor.upper) /\ motor.lower < motor.upper
         /\ Nonnegative(motor.velocity_limit) /\ Nonnegative(motor.torque_limit)

ValidMotorsAgainstRobot(robot, motors) ==
    /\ ValidRobot(robot)
    /\ ValidMotorsFile(motors)
    /\ \A i \in DOMAIN motors : motors[i].joint \in Members(robot.joints)

(* actuator_groups is a map: the joints of a group are a list.             *)
ValidActuatorGroups(control) ==
    LET groups == control.actuator_groups IN
    \A g \in DOMAIN groups :
        /\ Positive(groups[g].velocity_max)
        /\ groups[g].joints # <<>> /\ NoDuplicate(groups[g].joints)
        /\ \A joint \in Members(groups[g].joints) :
             /\ joint \in DOMAIN control.joints
             /\ \A other \in DOMAIN groups \ {g} : joint \notin Members(groups[other].joints)

LimitMarginFieldsValid(entry) ==
    /\ \A field \in {"margin_min", "margin_k_v", "margin_k_stop", "fault_slack"} :
         Nonnegative(entry[field])
    /\ Optional(entry.soft_lower, Finite) /\ Optional(entry.soft_upper, Finite)
    /\ Unset \notin {entry.soft_lower, entry.soft_upper} => entry.soft_lower <= entry.soft_upper

StaticFriction(entry) == IF entry.fs = Unset THEN entry.fc ELSE entry.fs

ValidEntryGains(control, entry) ==
    /\ entry.motor_type \in DOMAIN control.motor_type_defaults
    /\ LET defaults == control.motor_type_defaults[entry.motor_type] IN
       /\ \A field \in {"kp", "kd", "ki", "fc", "fv", "k"} : Nonnegative(entry[field])
       /\ \A field \in {"kp_max", "kd_max", "tau_ff_max"} : Nonnegative(defaults[field])
       /\ Finite(entry.fo)
       /\ entry.kp <= defaults.kp_max /\ entry.kd <= defaults.kd_max
       /\ entry.ki <= defaults.kp_max
       /\ entry.fc <= defaults.tau_ff_max
       /\ StaticFriction(entry) <= defaults.tau_ff_max

ValidScaledPd(entry) ==
    /\ Optional(entry.e0, LAMBDA v : Nonnegative(v) /\ v < entry.max_lead)
    /\ \A field \in {"integral_band", "damping_filter", "ff_step_max", "integral_leak", "v_b"} :
         Optional(entry[field], Positive)
    /\ Optional(entry.integral_cap, LAMBDA v : Positive(v) /\ v <= MaxIntegralCap)
    /\ Optional(entry.host_damping, Nonnegative)
    /\ Optional(entry.fs, LAMBDA v : Finite(v) /\ v >= entry.fc)
    /\ entry.position_law = "scaled_pd" => Positive(entry.max_lead)

ValidJointNumbers(joint, entry) ==
    /\ Named(joint)
    /\ \A field \in {"slew", "max_lead", "threshold", "deadband"} : Nonnegative(entry[field])
    /\ Positive(entry.trajectory_velocity) /\ Positive(entry.accel) /\ Finite(entry.trim)
    /\ ValidScaledPd(entry)

ValidDangerZones(control) ==
    /\ NoDuplicate([i \in DOMAIN control.danger_zones |-> control.danger_zones[i].name])
    /\ \A i \in DOMAIN control.danger_zones :
         LET rule == control.danger_zones[i] IN
         /\ Named(rule.name) /\ rule.joint \in DOMAIN control.joints
         /\ rule.action \in {"clamp_velocity", "clamp_torque"}
         /\ rule.action = "clamp_torque" => rule.max_torque # Unset
         /\ Finite(rule.position_above) /\ Finite(rule.velocity_below)
         /\ Nonnegative(rule.max_velocity) /\ Optional(rule.max_torque, Nonnegative)

ValidDriveLoss(control) ==
    IF control.drive_loss = NoProfile
    THEN \A j \in DOMAIN control.joints : control.joints[j].on_drive_loss # "shed_subtree"
    ELSE /\ \A field \in {"hold_window", "lower_velocity", "lower_settle", "lower_max"} :
              Positive(control.drive_loss[field])
         /\ Nonnegative(control.drive_loss.tau_margin)

ValidRates(control) ==
    /\ control.loop_hz \in 1..MaxHz
    /\ control.state_hz \in 1..control.loop_hz
    /\ control.comm_watchdog > 0
    /\ control.drain_quiet \in 1..(MaxHz \div control.loop_hz)
    /\ Nonnegative(control.tau_ff_rate)

ValidMotorTypes(control) ==
    \A type \in DOMAIN control.motor_type_defaults :
        /\ type \in {"rs00", "rs02", "rs03", "rs04"}
        /\ \A field \in {"kp_max", "kd_max", "tau_ff_max"} :
             Nonnegative(control.motor_type_defaults[type][field])
        /\ Positive(control.motor_type_defaults[type].velocity_max)

ValidSign(control) ==
    /\ control.sign.expected \in {-1, 1}
    /\ Nonnegative(control.sign.min_velocity) /\ control.sign.min_ticks > 0

ValidControlNumbers(control) ==
    /\ ValidRates(control)
    /\ ValidMotorTypes(control)
    /\ \A j \in DOMAIN control.joints :
         ValidJointNumbers(j, control.joints[j]) /\ ValidEntryGains(control, control.joints[j])
    /\ ValidDangerZones(control)
    /\ ValidSign(control)
    /\ ValidDriveLoss(control)

ValidControlFile(control) ==
    /\ ValidActuatorGroups(control)
    /\ \A j \in DOMAIN control.joints :
         /\ LimitMarginFieldsValid(control.joints[j])
         /\ Optional(control.joints[j].velocity_max, Positive)
         /\ \A field \in {"kp", "kd", "ki"} : control.joints[j].gravity_comp[field] = 0
    /\ ValidControlNumbers(control)

(* Joint, then group, then motor type; Unset when no source has a cap.     *)
VelocityCap(joint, type, control) ==
    LET groups == {g \in DOMAIN control.actuator_groups :
                     joint \in Members(control.actuator_groups[g].joints)}
        own == IF joint \in DOMAIN control.joints THEN control.joints[joint].velocity_max ELSE Unset
        cap == CASE own # Unset -> own
                 [] own = Unset /\ groups # {} ->
                      control.actuator_groups[CHOOSE g \in groups : TRUE].velocity_max
                 [] own = Unset /\ groups = {} /\ type \in DOMAIN control.motor_type_defaults ->
                      control.motor_type_defaults[type].velocity_max
                 [] OTHER -> Unset
    IN  IF Positive(cap) THEN cap ELSE Unset

MotorFor(motors, joint) == motors[CHOOSE i \in DOMAIN motors : motors[i].joint = joint]
HasMotor(motors, joint) == \E i \in DOMAIN motors : motors[i].joint = joint

JointCoverage(robot, control) == Members(robot.joints) \subseteq DOMAIN control.joints

ValidControlAgainstLimits(robot, motors, control) ==
    /\ ValidMotorsAgainstRobot(robot, motors)
    /\ ValidControlFile(control)
    /\ JointCoverage(robot, control)
    /\ DOMAIN control.joints \subseteq Members(robot.joints)
    /\ \A joint \in Members(robot.joints) :
         /\ HasMotor(motors, joint)
         /\ LET entry == control.joints[joint]
                motor == MotorFor(motors, joint)
                cap == VelocityCap(joint, motor.motor_type, control)
            IN  /\ entry.motor_type = motor.motor_type
                /\ \A bound \in {entry.soft_lower, entry.soft_upper} :
                     Optional(bound, LAMBDA v : v \in motor.lower..motor.upper)
                /\ cap # Unset /\ entry.trajectory_velocity <= cap

-----------------------------------------------------------------------------
(* Homing: defaults, and the overrides of each joint merged over them.     *)

HomingFields == {"offset", "velocity", "torque", "timeout", "backoff"}

EffectiveHoming(homing, joint) ==
    [f \in HomingFields |-> IF homing.joints[joint][f] = Unset THEN homing.defaults[f]
                            ELSE homing.joints[joint][f]]

ValidHomingNumbers(h) ==
    /\ Finite(h.offset) /\ Positive(h.velocity) /\ Nonnegative(h.torque)
    /\ Positive(h.timeout) /\ h.timeout <= MaxTimeout /\ Nonnegative(h.backoff)

ValidHoming(homing) ==
    /\ Positive(homing.tolerance) /\ homing.tolerance <= MaxTolerance
    /\ ValidHomingNumbers(homing.defaults)
    /\ \A joint \in DOMAIN homing.joints :
         LET sensors == homing.joints[joint].sensors IN
         /\ Named(joint) /\ ValidHomingNumbers(EffectiveHoming(homing, joint))
         /\ homing.joints[joint].method = "hall_three_sensor" => sensors # <<>>
         /\ NoDuplicate(sensors)

MinOfThree(a, b, c) == CHOOSE v \in {a, b, c} : \A w \in {a, b, c} : v <= w

ValidSafetyConfig(robot, motors, control, homing) ==
    /\ ValidControlAgainstLimits(robot, motors, control)
    /\ ValidHoming(homing)
    /\ \A joint \in Members(robot.joints) :
         /\ joint \in DOMAIN homing.joints
         /\ homing.joints[joint].method = "hall_three_sensor" =>
              LET motor == MotorFor(motors, joint)
                  effective == EffectiveHoming(homing, joint)
                  defaults == control.motor_type_defaults[motor.motor_type]
              IN  /\ effective.velocity <= VelocityCap(joint, motor.motor_type, control)
                  /\ effective.torque <= MinOfThree(robot.max_joint_torque, motor.torque_limit,
                                                    defaults.tau_ff_max)

-----------------------------------------------------------------------------
(* Boot: load each file, narrow to the subset, validate together.          *)

Restricted(map, keys) == [k \in DOMAIN map \cap keys |-> map[k]]

KeptGroups(groups, keep) ==
    LET narrowed == [g \in DOMAIN groups |->
                       [groups[g] EXCEPT !.joints = SelectSeq(@, LAMBDA j : j \in keep)]]
    IN  Restricted(narrowed, {g \in DOMAIN groups : narrowed[g].joints # <<>>})

(* apply_joint_subset                                                      *)
Narrowed(profile, subset) ==
    IF subset = NoSubset THEN profile ELSE
    [profile EXCEPT
       !.robot.joints = SelectSeq(@, LAMBDA j : j \in subset),
       !.motors = SelectSeq(@, LAMBDA m : m.joint \in subset),
       !.control.joints = Restricted(@, subset),
       !.control.actuator_groups = KeptGroups(@, subset),
       !.control.danger_zones = SelectSeq(@, LAMBDA z : z.joint \in subset)]

SubsetApplies(profile, subset) ==
    subset # NoSubset =>
       /\ subset # {} /\ subset \subseteq Members(profile.robot.joints)
       /\ Narrowed(profile, subset).motors # <<>>

Loads(profile) ==
    /\ ValidRobot(profile.robot) /\ ValidMotorsFile(profile.motors)
    /\ ValidControlFile(profile.control) /\ ValidHoming(profile.homing)

Accepts(profile, subset) ==
    /\ Loads(profile) /\ SubsetApplies(profile, subset)
    /\ LET p == Narrowed(profile, subset)
       IN  ValidSafetyConfig(p.robot, p.motors, p.control, p.homing)

Boot(subset) ==
    /\ running = NoProfile /\ boots < MaxBoots
    /\ boots' = boots + 1
    /\ Accepts(files, subset) = TRUE   \* a value: TLC splits no validator into steps
    /\ running' = Narrowed(files, subset)
    /\ loaded' = files.control
    /\ saved' = FALSE
    /\ UNCHANGED <<files, drafts, tunings, edits>>

(* A boot that refuses the files exits.                                    *)
BootRefused(subset) ==
    /\ running = NoProfile /\ boots < MaxBoots
    /\ boots' = boots + 1
    /\ ~Accepts(files, subset)
    /\ UNCHANGED <<files, running, drafts, loaded, saved, tunings, edits>>

(* The process stops: the worker writes what is queued before it exits,    *)
(* or the drafts are lost with it.                                         *)
Exit ==
    /\ running # NoProfile
    /\ running' = NoProfile /\ drafts' = <<>>
    /\ UNCHANGED <<files, loaded, saved, countersP>>

-----------------------------------------------------------------------------
(* Tuning.                                                                 *)

TunableParams == {"kp", "kd", "ki", "fc", "fv", "fo", "k"}

(* apply_joint_config_param                                                *)
ParamAccepted(param, value) ==
    /\ Finite(value)
    /\ param \in TunableParams
    /\ param \in TunableParams \ {"fo"} => value >= 0

Draft(joint, param, value) == [running.control EXCEPT !.joints[joint][param] = value]

(* As if the apply were trusted to keep the policy valid.                  *)
ValidCandidate_ParamOnly(control) == TRUE

(* Supervisor::validate_control_candidate                                  *)
ValidCandidate(control) ==
    ValidSafetyConfig(running.robot, running.motors, control, running.homing)

TuneLive(joint, param, value, persist) ==
    /\ running # NoProfile /\ tunings < MaxTunings
    /\ joint \in DOMAIN running.control.joints
    /\ ParamAccepted(param, value)
    /\ ValidCandidate(Draft(joint, param, value)) = TRUE
    /\ persist => Len(drafts) < PersistQueue
    /\ drafts' = IF persist THEN Append(drafts, Draft(joint, param, value)) ELSE drafts
    /\ running' = [running EXCEPT !.control = Draft(joint, param, value)]
    /\ tunings' = tunings + 1
    /\ UNCHANGED <<files, loaded, saved, edits, boots>>

(* As if the worker trusted the validation made when the tuning was        *)
(* admitted, against the narrowed files in memory.                         *)
Writable_Trusts(control) == Loads(files)

(* write_control_config_from                                               *)
Writable(control) ==
    /\ ValidRobot(files.robot) /\ ValidMotorsFile(files.motors) /\ ValidHoming(files.homing)
    /\ ValidSafetyConfig(files.robot, files.motors, control, files.homing)

WriteDraft ==
    /\ drafts # <<>>
    /\ drafts' = Tail(drafts)
    /\ Writable(Head(drafts)) = TRUE
    /\ files' = [files EXCEPT !.control = Head(drafts)]
    /\ saved' = TRUE
    /\ UNCHANGED <<running, loaded, countersP>>

(* The worker reports the persist failed; the tuning stays live.           *)
DraftRefused ==
    /\ drafts # <<>>
    /\ drafts' = Tail(drafts)
    /\ ~Writable(Head(drafts))
    /\ UNCHANGED <<files, running, loaded, saved, countersP>>

(* A person or a deployment replaces one of the files.                     *)
EditFile ==
    /\ edits < MaxEdits
    /\ edits' = edits + 1
    /\ \/ \E f \in RobotFiles : files' = [files EXCEPT !.robot = f]
       \/ \E f \in MotorFiles : files' = [files EXCEPT !.motors = f]
       \/ \E f \in HomingFiles : files' = [files EXCEPT !.homing = f]
    /\ saved' = FALSE
    /\ UNCHANGED <<running, drafts, loaded, tunings, boots>>

-----------------------------------------------------------------------------
PolicyInit ==
    /\ files \in Profiles
    /\ running = NoProfile /\ drafts = <<>>
    /\ loaded = files.control /\ saved = FALSE
    /\ tunings = 0 /\ edits = 0 /\ boots = 0

PolicyNext ==
    \/ \E s \in Subsets : Boot(s) \/ BootRefused(s)
    \/ Exit
    \/ \E p \in TunedParams, v \in TunedValues, persist \in BOOLEAN :
         running # NoProfile /\ \E j \in DOMAIN running.control.joints : TuneLive(j, p, v, persist)
    \/ WriteDraft \/ DraftRefused
    \/ EditFile

PolicySpec == PolicyInit /\ [][PolicyNext]_polvars

-----------------------------------------------------------------------------
(* 4 * the time-scale band e0 of an entry: a quarter of e1 when not given. *)
BandQuarters(entry) == IF entry.e0 = Unset THEN entry.max_lead ELSE 4 * entry.e0

(* commanded_position_window                                               *)
CommandedWindow(entry, motor) ==
    IF Unset \in {entry.soft_lower, entry.soft_upper} THEN {}
    ELSE {v \in motor.lower..motor.upper : entry.soft_lower <= v /\ v <= entry.soft_upper}

(* Whatever was tuned, and however the files were narrowed, each joint of  *)
(* the running controller has one drive, a velocity cap that its planner   *)
(* and its autonomous homing search stay within whatever group order the   *)
(* map iterates in, gains and breakaway friction under the drive's limits, *)
(* a time scale that never divides by zero, and a commanded window inside  *)
(* the hard range that is not empty when it is given (the consumers of     *)
(* validate_safety_config read these without checking again).              *)
LivePolicyIsUsable ==
    running # NoProfile =>
    /\ MaxHz \div running.control.loop_hz >= running.control.drain_quiet
    /\ \A joint \in Members(running.robot.joints) :
         LET entry == running.control.joints[joint]
             owners == {i \in DOMAIN running.motors : running.motors[i].joint = joint}
             motor == MotorFor(running.motors, joint)
             defaults == running.control.motor_type_defaults[motor.motor_type]
             caps == IF entry.velocity_max # Unset THEN {entry.velocity_max}
                     ELSE IF \E g \in DOMAIN running.control.actuator_groups :
                               joint \in Members(running.control.actuator_groups[g].joints)
                     THEN {running.control.actuator_groups[g].velocity_max :
                             g \in {h \in DOMAIN running.control.actuator_groups :
                                 joint \in Members(running.control.actuator_groups[h].joints)}}
                     ELSE {defaults.velocity_max}
             search == EffectiveHoming(running.homing, joint)
         IN  /\ Cardinality(owners) = 1 /\ Cardinality(caps) = 1
             /\ \A cap \in caps :
                  /\ entry.trajectory_velocity <= cap
                  /\ running.homing.joints[joint].method = "hall_three_sensor" =>
                       search.velocity <= cap /\ search.torque <= defaults.tau_ff_max
             /\ entry.kp <= defaults.kp_max /\ entry.kd <= defaults.kd_max
             /\ entry.fc <= StaticFriction(entry) /\ StaticFriction(entry) <= defaults.tau_ff_max
             /\ entry.position_law = "scaled_pd" => BandQuarters(entry) < 4 * entry.max_lead
             /\ Unset \notin {entry.soft_lower, entry.soft_upper} =>
                  CommandedWindow(entry, motor) # {}

(* A control.yaml the worker wrote is one the next boot accepts ("a        *)
(* control.yaml the next boot would refuse is never written"), for every   *)
(* joint and not just the subset that was running; and for the joints that *)
(* robot.yaml names it differs from the file that was loaded only in the   *)
(* parameters a tuning may set: a narrowed controller never writes its     *)
(* narrowed file over the full one.                                        *)
SavedPolicyBoots ==
    saved =>
    LET kept == Members(files.robot.joints)
        before == Narrowed([files EXCEPT !.control = loaded], kept).control
    IN  /\ Accepts(files, NoSubset)
        /\ kept \subseteq DOMAIN loaded.joints
        /\ files.control = [before EXCEPT !.joints =
               [j \in kept |-> [f \in DOMAIN @[j] |->
                   IF f \in TunableParams THEN files.control.joints[j][f] ELSE @[j][f]]]]

(* What the running controller uses and what it saves are both policies    *)
(* the validators of marengo-config admit, at every reachable state.       *)
PolicyHolds == LivePolicyIsUsable /\ SavedPolicyBoots
=============================================================================
