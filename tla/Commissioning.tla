--------------------------- MODULE Commissioning ---------------------------
(***************************************************************************)
(* Which joints an Enable may energise: the commissioning scope on disk    *)
(* (commissioning_scope.rs), written by the gateway's PUT and DELETE       *)
(* (hardware.rs), the MARENGO_JOINT_SUBSET ceiling and the joints' facets  *)
(* (homing_facets.rs), read by Davout's Enable in the other process.       *)
(*                                                                         *)
(* A PUT loads the scope, judges whether the new one widens it and saves;  *)
(* only the save takes the file's lock, so two PUTs may overlap.           *)
(***************************************************************************)
EXTENDS Integers, FiniteSets

CONSTANTS
    MasterJoints,   \* robot.joints
    ScopeClients,   \* operators with a PUT under way
    MaxScopeCalls   \* bound: PUTs, DELETEs and Enables

VARIABLES
    ceiling,      \* MARENGO_JOINT_SUBSET: {} when it is not set
    scopeFile,    \* <<>> when there is no file, else <<joints>>
    put,          \* each client's PUT
    facets,       \* Davout's view of each master joint
    enabling,     \* the Enable under way
    scopeCalls,
    scopeWrites,  \* history: writes of the scope file so far
    lastGrowth,   \* history: how the last save grew the effective scope
    targets       \* history: the last Enable's targets, with what it read

ovars == <<ceiling, scopeFile, put, facets, enabling, scopeCalls, scopeWrites, lastGrowth, targets>>

IdlePut == [at |-> "idle"]
NoEnable == [at |-> "idle"]
NoTargets == [joints |-> {}, scope |-> <<>>, facets |-> {}]

Loaded == IF ceiling = {} THEN MasterJoints ELSE ceiling \cap MasterJoints
Effective(joints) == IF ceiling = {} THEN joints ELSE joints \cap ceiling
EffectiveFile == IF scopeFile = <<>> THEN {} ELSE Effective(scopeFile[1])

ScopeWidens_Narrows(previous, next) == ~(previous \subseteq next)   \* mutant: swapped arguments
ScopeWidens(previous, next) == ~(next \subseteq previous)

CommissionInit ==
    /\ ceiling \in SUBSET MasterJoints
    /\ scopeFile = <<>>
    /\ put = [c \in ScopeClients |-> IdlePut]
    /\ facets = [j \in MasterJoints |-> [online |-> FALSE, verified |-> FALSE, unhealthy |-> FALSE]]
    /\ enabling = NoEnable
    /\ scopeCalls = 0 /\ scopeWrites = 0
    /\ lastGrowth = "none"
    /\ targets = NoTargets

\* put_commissioning_scope: the joints are validated, the file is loaded and
\* a widening that is not confirmed is refused
BeginPut(c, joints, confirm) ==
    /\ put[c].at = "idle" /\ scopeCalls < MaxScopeCalls
    /\ scopeCalls' = scopeCalls + 1
    /\ put' = [put EXCEPT ![c] =
         IF ScopeWidens(EffectiveFile, Effective(joints)) /\ ~confirm THEN IdlePut
         ELSE [at |-> "save", joints |-> joints, confirm |-> confirm, writes |-> scopeWrites]]
    /\ UNCHANGED <<ceiling, scopeFile, facets, enabling, scopeWrites, lastGrowth, targets>>

SavePut(c) ==
    /\ put[c].at = "save"
    /\ lastGrowth' =
         IF Effective(put[c].joints) \subseteq EffectiveFile THEN "none"
         ELSE IF put[c].confirm THEN "confirmed"
         ELSE IF put[c].writes # scopeWrites THEN "overlapped"
         ELSE "unconfirmed"
    /\ scopeFile' = <<put[c].joints>>
    /\ scopeWrites' = scopeWrites + 1
    /\ put' = [put EXCEPT ![c] = IdlePut]
    /\ UNCHANGED <<ceiling, facets, enabling, scopeCalls, targets>>

DeleteScope ==
    /\ scopeCalls < MaxScopeCalls
    /\ scopeCalls' = scopeCalls + 1
    /\ scopeFile' = <<>>
    /\ scopeWrites' = scopeWrites + 1
    /\ lastGrowth' = "none"
    /\ UNCHANGED <<ceiling, put, facets, enabling, targets>>

\* A loaded joint's drive answers or falls silent, is referenced or loses its
\* reference, or is found faulted or out of limits (never cleared in process).
FacetChanges(j) ==
    /\ j \in Loaded
    /\ \E online, verified, unhealthy \in BOOLEAN :
         /\ facets[j].unhealthy => unhealthy
         /\ facets' = [facets EXCEPT ![j] =
              [online |-> online, verified |-> verified, unhealthy |-> unhealthy]]
    /\ UNCHANGED <<ceiling, scopeFile, put, enabling, scopeCalls, scopeWrites, lastGrowth, targets>>

\* scoped_enable_targets: the scope file is read first, the facets after the drain
EnableReads ==
    /\ enabling.at = "idle" /\ scopeCalls < MaxScopeCalls
    /\ scopeCalls' = scopeCalls + 1
    /\ enabling' = [at |-> "drain", scope |-> scopeFile]
    /\ UNCHANGED <<ceiling, scopeFile, put, facets, scopeWrites, lastGrowth, targets>>

ReadyHealthy(j) == facets[j].verified /\ ~facets[j].unhealthy
Built(j) == j \in Loaded \/ facets[j].online
RobotReady ==
    /\ \E j \in MasterJoints : Built(j)
    /\ \A j \in MasterJoints : Built(j) => ReadyHealthy(j)
Eligible(j) == facets[j].online /\ ReadyHealthy(j)

SelectTargets(scope) ==
    IF scope # <<>> THEN {j \in Loaded \cap Effective(scope[1]) : Eligible(j)}
    ELSE IF RobotReady THEN {j \in Loaded : Eligible(j)} ELSE {}

EnableSelects ==
    /\ enabling.at = "drain"
    /\ targets' = [joints |-> SelectTargets(enabling.scope), scope |-> enabling.scope,
                   facets |-> {j \in MasterJoints : ReadyHealthy(j)}]
    /\ enabling' = NoEnable
    /\ UNCHANGED <<ceiling, scopeFile, put, facets, scopeCalls, scopeWrites, lastGrowth>>

CommissionNext ==
    \/ \E c \in ScopeClients, joints \in SUBSET MasterJoints, confirm \in BOOLEAN :
         BeginPut(c, joints, confirm)
    \/ \E c \in ScopeClients : SavePut(c)
    \/ DeleteScope
    \/ \E j \in MasterJoints : FacetChanges(j)
    \/ EnableReads \/ EnableSelects

CommissionSpec == CommissionInit /\ [][CommissionNext]_ovars

(***************************************************************************)
(* A save that grows the joints an Enable may energise was confirmed by    *)
(* its operator (hardware.rs put_commissioning_scope), unless another      *)
(* write of the file came between its load and its save: the check and the *)
(* save are not one step.                                                  *)
(***************************************************************************)
ScopeGrowsKnowingly == lastGrowth # "unconfirmed"

(***************************************************************************)
(* An Enable without a scope energises something only when every joint of  *)
(* the loaded robot is referenced and healthy (homing_facets.rs            *)
(* robot_ready); with a scope, joints outside it or outside the ceiling    *)
(* are never energised, however the scope and the facets change meanwhile. *)
(***************************************************************************)
TargetsAreCommissioned ==
    /\ targets.joints \subseteq Loaded \cap targets.facets
    /\ targets.scope = <<>> /\ targets.joints # {} => Loaded \subseteq targets.facets
    /\ targets.scope # <<>> => targets.joints \subseteq Effective(targets.scope[1])

\* The joints an Enable energises are the ones the operators chose.
CommissioningHolds == ScopeGrowsKnowingly /\ TargetsAreCommissioned
==============================================================================
