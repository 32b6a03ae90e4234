------------------------------- MODULE MCMotion -------------------------------
(***************************************************************************)
(* Motion and consent on small instances, one of them in each behaviour    *)
(* (`part`):                                                               *)
(*   "pair"    the enable session of two drives on one interface;          *)
(*   "pi"      marengo-pi's loop, stdin and Chappe commands;               *)
(*   "intent"  Berthier's facade, two joints of which one in scope;        *)
(*   "mit"     MIT admission for one joint, several requests and ranges;   *)
(*   "batch"   MIT admission for batches of two joints.                    *)
(* Variables that a part does not use are Off, or rest in an initial state *)
(* of the enable session and of the loop.                                  *)
(***************************************************************************)
EXTENDS EnableSession, PiLoop, TLC

CONSTANT NoValue   \* the model value MitAdmission calls None

VARIABLES
    part,
    ctl, sent, asks, upsets,                  \* MotionIntent
    fed, wire,                                \* MitAdmission
    sup                                       \* both

MCRoute == [j \in Joint |-> CHOOSE b \in Bus : TRUE]
NoStopFailure == {{}}
\* A latched process never enables again: what follows is not explored.
UntilLatched == ~Latched
JointSymmetry == Permutations(Joint)

ASSUME LoopAssumption == PiConstants

Intent == INSTANCE MotionIntent WITH
    IntentJoints <- {"a", "b"}, Scope <- {"a"}, AskedPoses <- {1}, RampTicks <- 2,
    WaveTicks <- 2, MaxAsks <- 5, MaxUpsets <- 1

Still == [q |-> 0, dq |-> 0, kp |-> 0, kd |-> 0, tau |-> 0]
OneJointRequests ==
    {Still, [Still EXCEPT !.tau = 4], [Still EXCEPT !.tau = -4],
     [q |-> 3, dq |-> 1, kp |-> 2, kd |-> 1, tau |-> 1], [Still EXCEPT !.dq = -2, !.kd = 3]}
OneJointRanges ==
    {[urdf |-> <<-3, 3>>, bench |-> <<-4, 3>>, soft |-> <<-2, 2>>],
     [urdf |-> <<-3, 3>>, bench |-> <<-2, 2>>, soft |-> <<-5, 5>>],
     [urdf |-> <<2, 3>>, bench |-> <<-2, 2>>, soft |-> <<-5, 5>>]}
OneJointZones ==
    {[joint |-> "a", above |-> 1, below |-> -1, action |-> "clamp_torque", max |-> 1],
     [joint |-> "b", above |-> 1, below |-> -1, action |-> "clamp_velocity", max |-> 1]}
Mit == INSTANCE MitAdmission WITH
    MitJoints <- {"a"}, Requests <- OneJointRequests,
    Poses <- {[q |-> 2, dq |-> -2, tau |-> 2], [q |-> 0, dq |-> 0, tau |-> -4],
              [q |-> -3, dq |-> 1, tau |-> 0]},
    Profiles <- OneJointRanges, Zones <- OneJointZones,
    VelCap <- 2, TauCap <- 5, KpMax <- 2, KdMax <- 2,
    MarginMin <- 0, MarginPerVel <- 1, MarginPerVel2 <- 0, Slack <- 1, Horizon <- 1,
    VelMargin <- 1, None <- NoValue, CtlModes <- {"GravityComp", "Position", "TorqueOnly"},
    Rate <- 1, MinDt <- 1, MaxDt <- 2, Watchdog <- 2, Grace <- 1, MinOpposition <- 2,
    MinSpeed <- 0, ExpectedSign <- -1
Batch == INSTANCE MitAdmission WITH
    MitJoints <- {"a", "b"},
    Requests <- {Still, [Still EXCEPT !.tau = 2], [Still EXCEPT !.tau = 2, !.kp = 9]},
    Poses <- {[q |-> 1, dq |-> 1, tau |-> 1]},
    Profiles <- {[urdf |-> <<-2, 2>>, bench |-> <<-2, 2>>, soft |-> <<-2, 2>>]}, Zones <- {},
    VelCap <- 2, TauCap <- 3, KpMax <- 2, KdMax <- 2,
    MarginMin <- 0, MarginPerVel <- 1, MarginPerVel2 <- 0, Slack <- 1, Horizon <- 0,
    VelMargin <- 0, None <- NoValue, CtlModes <- {"GravityComp", "Position"},
    Rate <- 1, MinDt <- 1, MaxDt <- 2, Watchdog <- 1, Grace <- 0, MinOpposition <- 2,
    MinSpeed <- 0, ExpectedSign <- -1

Off == "off"
SessionRests == Init /\ streaming = {}
LoopRests == PiInit /\ pOwner = "stdin"
IntentOff == ctl = Off /\ sent = Off /\ asks = Off /\ upsets = Off
MitOff == fed = Off /\ wire = Off
intentVars == <<ctl, sent, asks, upsets>>
mitVars == <<fed, wire>>
allVars == <<part, vars, pvars, intentVars, mitVars, sup>>

MCInit ==
    \/ part = "pair" /\ Init /\ LoopRests /\ IntentOff /\ MitOff /\ sup = Off
    \/ part = "pi" /\ SessionRests /\ PiInit /\ IntentOff /\ MitOff /\ sup = Off
    \/ part = "intent" /\ SessionRests /\ LoopRests /\ Intent!IntentInit /\ MitOff
    \/ part = "mit" /\ SessionRests /\ LoopRests /\ IntentOff /\ Mit!MitInit
    \/ part = "batch" /\ SessionRests /\ LoopRests /\ IntentOff /\ Batch!MitInit

MCNext ==
    /\ UNCHANGED part
    /\ \/ part = "pair" /\ Next /\ UNCHANGED <<pvars, intentVars, mitVars, sup>>
       \/ part = "pi" /\ PiNext /\ UNCHANGED <<vars, intentVars, mitVars, sup>>
       \/ part = "intent" /\ Intent!IntentNext /\ UNCHANGED <<vars, pvars, mitVars>>
       \/ part = "mit" /\ Mit!MitNext /\ UNCHANGED <<vars, pvars, intentVars>>
       \/ part = "batch" /\ Batch!MitNext /\ UNCHANGED <<vars, pvars, intentVars>>
       \* All but "pair" may come to rest: commands and faults are bounded.
       \/ part # "pair" /\ UNCHANGED allVars

MCSpec == MCInit /\ [][MCNext]_allVars
------------------------------------------------------------------------------
\* Motion intent belongs to the current session, starts from a pose measured
\* in it and is computed from real poses (MotionIntent).
IntentHolds == part = "intent" => Intent!IntentHolds

\* What a drive is told stays within the limits and the slew of what was sent
\* before, and the bookkeeping follows the wire (MitAdmission).
AdmissionHolds ==
    /\ part = "mit" => Mit!AdmissionHolds
    /\ part = "batch" => Batch!AdmissionHolds
==============================================================================
