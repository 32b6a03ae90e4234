---------------------------- MODULE ProfileFiles ----------------------------
(***************************************************************************)
(* The master configuration on disk: motors.yaml (hard bounds),            *)
(* control.yaml (soft bounds, velocity) and the URDF (the hard envelope    *)
(* the kinematics read), as marengo-config's transactions and the          *)
(* gateway's URDF lifecycle (hardware.rs) write them.                      *)
(*                                                                         *)
(* Three writers share the files: marengo-pi's persist worker, the         *)
(* limit-sync tool and the gateway's URDF activation.  Each holds the      *)
(* flock of the config directory while it reads, merges and writes.  A     *)
(* file is replaced by a rename, so it is old or new and never half        *)
(* written; but the files are renamed one by one, and a write may fail or  *)
(* the power be lost between two of them.                                  *)
(*                                                                         *)
(* One joint; positions are integers.  A write that fails leaves the file  *)
(* as it was (the failure after the rename is LimitPersist's DiskValid).   *)
(***************************************************************************)
EXTENDS Integers, FiniteSets

CONSTANTS
    Position,        \* joint positions, a range of integers
    SoftInset,       \* DEFAULT_SOFT_INSET_RAD
    LimitPatches,    \* the patches operators send
    Tunings,         \* trajectory velocities a tuning saves
    Uploads,         \* upload ids
    Contributors,    \* the URDFs operators upload
    MaxWrites,       \* bound: transactions begun
    MaxPowerLosses   \* bound

NoSoft == -99        \* a soft bound that is not given
NoFile == [none |-> TRUE]
NoUpload == "none"
Fields == {"lower", "upper", "geometry"}
Choices == {"master", "contributor"}

VARIABLES
    motors, control, urdf,    \* the files
    liveLimits,               \* marengo-pi's motors and control in memory
    profileLock,              \* who holds the flock of the config directory
    txn,                      \* each writer's transaction
    staging, archive,         \* the upload directories
    activation,               \* the gateway's activation in progress
    writesBegun, powerLosses,
    committed,                \* history: the last pair written or rolled back to
    torn,                     \* history: a pair left mixed by a power loss or a failed rollback
    narrowed,                 \* history: an activation chose an envelope inside the hard bounds
    promoted                  \* history: the last upload made live, and what it replaced

fileVariables == <<motors, control, urdf>>
uploadVars == <<staging, archive, activation, promoted>>
fvars == <<fileVariables, liveLimits, profileLock, txn, uploadVars, writesBegun,
           powerLosses, committed, torn, narrowed>>

Writers == {"worker", "tool", "tuning"}
IdleTxn == [at |-> "idle"]
IdleActivation == [at |-> "idle"]
NoPromotion == [upload |-> NoUpload]
EmptyArchive == [contributor |-> NoFile, replaced |-> NoFile, manifest |-> NoFile]

MinOf(a, b) == IF a <= b THEN a ELSE b
Clamp(x, lo, hi) == IF x < lo THEN lo ELSE IF x > hi THEN hi ELSE x

(***************************************************************************)
(* The rules of one joint's limits.                                        *)
(***************************************************************************)
SoftWithInset(lo, hi) ==
    LET inset == MinOf(SoftInset, (hi - lo) \div 4) IN <<lo + inset, hi - inset>>

\* ensure_soft_inset: a soft side that is given is kept
EnsureSoft(p) ==
    LET soft == SoftWithInset(p.lo, p.hi)
    IN [p EXCEPT !.slo = IF p.slo = NoSoft THEN soft[1] ELSE p.slo,
                 !.shi = IF p.shi = NoSoft THEN soft[2] ELSE p.shi]

ValidPatch(p) ==
    /\ p.lo < p.hi
    /\ NoSoft \in {p.slo, p.shi} \/ p.slo <= p.shi

PatchedMotors(p) == [lo |-> p.lo, hi |-> p.hi]

\* a soft bound the patch leaves out is kept, and every soft bound is pulled
\* inside the new hard bounds
PatchedSoft(given, kept, p) ==
    LET soft == IF given = NoSoft THEN kept ELSE given
    IN IF soft = NoSoft THEN NoSoft ELSE Clamp(soft, p.lo, p.hi)
PatchedControl(c, p) ==
    [c EXCEPT !.slo = PatchedSoft(p.slo, c.slo, p),
              !.shi = PatchedSoft(p.shi, c.shi, p),
              !.cap = IF p.cap = 0 THEN c.cap ELSE p.cap]

ValidMotors(m) == m.lo < m.hi
ValidControl(c) == c.cap > 0 /\ (NoSoft \in {c.slo, c.shi} \/ c.slo <= c.shi)
ValidSafety(m, c) ==
    /\ ValidMotors(m) /\ ValidControl(c)
    /\ \A soft \in {c.slo, c.shi} \ {NoSoft} : m.lo <= soft /\ soft <= m.hi
    /\ c.trajectory <= c.cap

\* commanded_position_window: the positions an operator may command
CommandWindow(m, c) ==
    IF NoSoft \in {c.slo, c.shi} THEN {}
    ELSE {x \in Position : c.slo <= x /\ m.lo <= x /\ x <= c.shi /\ x <= m.hi}

CoversMotors(u, m) == u.lower <= m.lo /\ m.hi <= u.upper

\* expand_urdf_joint_hard: the envelope grows and never shrinks
ExpandedUrdf_Set(u, m) == [u EXCEPT !.lower = m.lo, !.upper = m.hi]   \* mutant: it is set to the motors' bounds
ExpandedUrdf(u, m) ==
    [u EXCEPT !.lower = MinOf(u.lower, m.lo),
              !.upper = IF u.upper >= m.hi THEN u.upper ELSE m.hi]

(***************************************************************************)
(* The URDF merge: the fields that differ must each be resolved; the rest  *)
(* of the master is kept.                                                  *)
(***************************************************************************)
FieldDiffs(master, contributor) == {f \in Fields : master[f] # contributor[f]}
UnresolvedFields(master, contributor, resolutions) ==
    FieldDiffs(master, contributor) \ DOMAIN resolutions
MergedUrdf(master, contributor, resolutions) ==
    [f \in Fields |->
        IF f \in FieldDiffs(master, contributor) /\ resolutions[f] = "contributor"
        THEN contributor[f] ELSE master[f]]
ValidUrdf(u) == u.lower <= u.upper

----------------------------------------------------------------------------
ProfileInit ==
    /\ motors = [lo |-> 1, hi |-> 2]
    /\ control = [slo |-> 1, shi |-> 2, cap |-> 2, trajectory |-> 1]
    /\ urdf = [lower |-> 0, upper |-> 2, geometry |-> "g0"]
    /\ liveLimits = <<motors, control>>
    /\ profileLock = "free"
    /\ txn = [w \in Writers |-> IdleTxn]
    /\ staging = [u \in Uploads |-> NoFile]
    /\ archive = [u \in Uploads |-> EmptyArchive]
    /\ activation = IdleActivation
    /\ writesBegun = 0 /\ powerLosses = 0
    /\ committed = <<motors, control>>
    /\ torn = FALSE /\ narrowed = FALSE
    /\ promoted = NoPromotion

BeginWrite(w, t) ==
    /\ txn[w].at = "idle" /\ writesBegun < MaxWrites
    /\ txn' = [txn EXCEPT ![w] = t]
    /\ writesBegun' = writesBegun + 1

\* the control thread applies a patch live and hands the worker a snapshot of
\* its whole configuration
BeginWorker(p) ==
    LET m == PatchedMotors(p)
        c == PatchedControl(liveLimits[2], p)
    IN /\ ValidPatch(p) /\ ValidSafety(m, c)
       /\ BeginWrite("worker", [at |-> "lock", motors |-> m, control |-> c])
       /\ liveLimits' = <<m, c>>
       /\ UNCHANGED <<fileVariables, profileLock, uploadVars, powerLosses, committed, torn, narrowed>>

\* the limit-sync tool: the patch is merged into the files under the lock
BeginTool(p) ==
    /\ ValidPatch(p)
    /\ BeginWrite("tool", [at |-> "lock", patch |-> EnsureSoft(p)])
    /\ UNCHANGED <<fileVariables, liveLimits, profileLock, uploadVars, powerLosses, committed,
                   torn, narrowed>>

\* a tuning save writes the live control.yaml alone
BeginTuning(v) ==
    LET c == [liveLimits[2] EXCEPT !.trajectory = v]
    IN /\ ValidSafety(liveLimits[1], c)
       /\ BeginWrite("tuning", [at |-> "lock", motors |-> NoFile, control |-> c])
       /\ liveLimits' = [liveLimits EXCEPT ![2] = c]
       /\ UNCHANGED <<fileVariables, profileLock, uploadVars, powerLosses, committed, torn, narrowed>>

\* what the transaction will write, known once the lock is held
Candidate(w) ==
    IF w = "tool" THEN <<PatchedMotors(txn[w].patch), PatchedControl(control, txn[w].patch)>>
    ELSE IF w = "tuning" THEN <<motors, txn[w].control>>
    ELSE <<txn[w].motors, txn[w].control>>

Locked(w) == profileLock = w
LockProfile(who) == profileLock = "free" /\ profileLock' = who
Release(w) == profileLock' = "free" /\ txn' = [txn EXCEPT ![w] = IdleTxn]
Goto(w, at) == txn' = [txn EXCEPT ![w].at = at]

LockAndValidate(w) ==
    LET cand == Candidate(w)
    IN /\ txn[w].at = "lock"
       /\ \/ /\ LockProfile(w)
             /\ ValidSafety(cand[1], cand[2])
             /\ txn' = [txn EXCEPT ![w] =
                  [at |-> IF w = "tuning" THEN "only control" ELSE "urdf",
                   motors |-> cand[1], control |-> cand[2],
                   urdfBackup |-> urdf, backup |-> <<motors, control>>]]
          \/ /\ profileLock = "free" /\ ~ValidSafety(cand[1], cand[2])
             /\ txn' = [txn EXCEPT ![w] = IdleTxn] /\ UNCHANGED profileLock
       /\ UNCHANGED <<fileVariables, liveLimits, uploadVars, writesBegun, powerLosses, committed,
                      torn, narrowed>>

\* URDF first: a restart must not meet wider motors in a narrow envelope
WriteUrdf(w) ==
    /\ Locked(w) /\ txn[w].at = "urdf"
    /\ \/ /\ urdf' = ExpandedUrdf(urdf, txn[w].motors)
          /\ Goto(w, "motors") /\ UNCHANGED profileLock
       \/ /\ ~CoversMotors(urdf, txn[w].motors) /\ Release(w) /\ UNCHANGED urdf
    /\ UNCHANGED <<motors, control, liveLimits, uploadVars, writesBegun, powerLosses, committed,
                   torn, narrowed>>

WriteMotors(w) ==
    /\ Locked(w) /\ txn[w].at = "motors"
    /\ \/ motors' = txn[w].motors /\ Goto(w, "control")
       \/ Goto(w, "restore urdf") /\ UNCHANGED motors
    /\ UNCHANGED <<control, urdf, liveLimits, profileLock, uploadVars, writesBegun, powerLosses,
                   committed, torn, narrowed>>

WriteControl(w) ==
    /\ Locked(w) /\ txn[w].at \in {"control", "only control"}
    /\ \/ /\ control' = txn[w].control /\ Release(w)
          /\ committed' = <<motors, control'>>
          /\ torn' = (torn /\ txn[w].at = "only control")
          /\ narrowed' = (narrowed /\ txn[w].at = "only control")
       \/ /\ txn[w].at = "control" /\ Goto(w, "restore motors")
          /\ UNCHANGED <<control, profileLock, committed, torn, narrowed>>
       \/ /\ txn[w].at = "only control" /\ Release(w)
          /\ UNCHANGED <<control, committed, torn, narrowed>>
    /\ UNCHANGED <<motors, urdf, liveLimits, uploadVars, writesBegun, powerLosses>>

\* the rollback: motors.yaml, then the URDF if no one else changed it
RestoredMotors_None(w) == motors   \* mutant: the first file is left new
RestoredMotors(w) == txn[w].backup[1]
RestoreMotors(w) ==
    /\ Locked(w) /\ txn[w].at = "restore motors"
    /\ \/ motors' = RestoredMotors(w) /\ UNCHANGED torn
       \/ torn' = TRUE /\ UNCHANGED motors
    /\ Goto(w, "restore urdf")
    /\ UNCHANGED <<control, urdf, liveLimits, profileLock, uploadVars, writesBegun, powerLosses,
                   committed, narrowed>>

RestoreUrdf(w) ==
    /\ Locked(w) /\ txn[w].at = "restore urdf"
    /\ \/ urdf' = txn[w].urdfBackup
       \/ UNCHANGED urdf
    /\ Release(w)
    /\ UNCHANGED <<motors, control, liveLimits, uploadVars, writesBegun, powerLosses, committed,
                   torn, narrowed>>

(***************************************************************************)
(* The gateway: upload, sweep, activate, restore.                          *)
(***************************************************************************)
filesAndTxns == <<fileVariables, liveLimits, txn, powerLosses, committed, torn>>
Stage(u, contributor) ==
    /\ staging[u] = NoFile /\ archive[u] = EmptyArchive   \* a fresh id
    /\ activation.at # "idle" => activation.upload # u
    /\ staging' = [staging EXCEPT ![u] = contributor]
    /\ UNCHANGED <<filesAndTxns, profileLock, writesBegun, archive, activation, promoted, narrowed>>

UploadUrdf(u, contributor) == Stage(u, contributor)

\* an archived contributor is staged again under a fresh id
RestoreArchive(old, u) ==
    /\ archive[old].contributor # NoFile
    /\ Stage(u, archive[old].contributor)

\* the next upload sweeps a stage nobody activated within the hour
SweepStaging(u) ==
    /\ staging[u] # NoFile
    /\ staging' = [staging EXCEPT ![u] = NoFile]
    /\ UNCHANGED <<filesAndTxns, profileLock, writesBegun, archive, activation, promoted, narrowed>>

\* (the mode, heartbeat and persist flags are Gateway's)
BeginActivate(u, resolutions) ==
    /\ activation.at = "idle" /\ writesBegun < MaxWrites
    /\ staging[u] # NoFile
    /\ activation' = [at |-> "lock", upload |-> u, resolutions |-> resolutions]
    /\ writesBegun' = writesBegun + 1
    /\ UNCHANGED <<filesAndTxns, profileLock, staging, archive, promoted, narrowed>>

\* The master is read, and the merge judged, under the lock the writers hold.
Mergeable(u, resolutions) ==
    /\ staging[u] # NoFile
    /\ UnresolvedFields(urdf, staging[u], resolutions) = {}
    /\ ValidUrdf(MergedUrdf(urdf, staging[u], resolutions))

ActivationLock_None == "free"   \* mutant: only the URDF file's own directory is locked
ActivationLock == "gateway"

LockActivation ==
    LET u == activation.upload
    IN /\ activation.at = "lock" /\ profileLock = "free"
       /\ \/ /\ Mergeable(u, activation.resolutions)
             /\ profileLock' = ActivationLock
             /\ activation' =
                  [at |-> "contributor", upload |-> u, replaced |-> urdf, contributor |-> staging[u],
                   merged |-> MergedUrdf(urdf, staging[u], activation.resolutions)]
             /\ promoted' = IF promoted.upload = u THEN [promoted EXCEPT !.again = TRUE]
                            ELSE promoted
          \/ /\ ~Mergeable(u, activation.resolutions)
             /\ activation' = IdleActivation /\ UNCHANGED <<profileLock, promoted>>
       /\ UNCHANGED <<filesAndTxns, writesBegun, staging, archive, narrowed>>

\* the archive is written before the live file: contributor, what is replaced, manifest
ArchiveOrder == [contributor |-> "replaced", replaced |-> "manifest", manifest |-> "promote"]
ArchivedContent ==
    [contributor |-> activation.contributor, replaced |-> activation.replaced,
     manifest |-> activation.merged]
ArchiveFile ==
    /\ activation.at \in DOMAIN ArchiveOrder
    /\ \/ /\ archive' = [archive EXCEPT ![activation.upload][activation.at] = ArchivedContent[activation.at]]
          /\ activation' = [activation EXCEPT !.at = ArchiveOrder[activation.at]]
          /\ UNCHANGED profileLock
       \/ /\ activation' = IdleActivation /\ profileLock' = "free" /\ UNCHANGED archive
    /\ UNCHANGED <<filesAndTxns, writesBegun, staging, promoted, narrowed>>

Promote ==
    /\ activation.at = "promote"
    /\ \/ /\ urdf' = activation.merged
          /\ promoted' = [upload |-> activation.upload, replaced |-> activation.replaced,
                          again |-> FALSE]
          /\ narrowed' = (narrowed \/ ~CoversMotors(urdf', motors))
          /\ activation' = [activation EXCEPT !.at = "unstage"] /\ UNCHANGED profileLock
       \/ /\ activation' = IdleActivation /\ profileLock' = "free"
          /\ UNCHANGED <<urdf, promoted, narrowed>>
    /\ UNCHANGED <<motors, control, liveLimits, txn, powerLosses, committed, torn, writesBegun,
                   staging, archive>>

Unstage ==
    /\ activation.at = "unstage"
    /\ staging' = [staging EXCEPT ![activation.upload] = NoFile]
    /\ activation' = IdleActivation /\ profileLock' = "free"
    /\ UNCHANGED <<filesAndTxns, writesBegun, archive, promoted, narrowed>>

----------------------------------------------------------------------------
\* Every process dies with its locks; the boot reads the files, and the pi
\* starts only from a pair validate_safety_config accepts.
PowerLoss ==
    /\ powerLosses < MaxPowerLosses
    /\ powerLosses' = powerLosses + 1
    /\ torn' = (torn \/ committed # <<motors, control>>)
    /\ txn' = [w \in Writers |-> IdleTxn]
    /\ activation' = IdleActivation /\ profileLock' = "free"
    /\ liveLimits' = IF ValidSafety(motors, control) THEN <<motors, control>> ELSE liveLimits
    /\ UNCHANGED <<fileVariables, staging, archive, promoted, writesBegun, committed, narrowed>>

AllResolutions ==
    {[f \in Fields |-> "master"], [f \in Fields |-> "contributor"],
     [f \in {"geometry"} |-> "contributor"], [lower |-> "master", upper |-> "contributor",
                                              geometry |-> "master"]}

WriterStep(w) ==
    \/ LockAndValidate(w) \/ WriteUrdf(w) \/ WriteMotors(w) \/ WriteControl(w)
    \/ RestoreMotors(w) \/ RestoreUrdf(w)

ProfileNext ==
    \/ \E p \in LimitPatches : BeginWorker(p) \/ BeginTool(p)
    \/ \E v \in Tunings : BeginTuning(v)
    \/ \E w \in Writers : WriterStep(w)
    \/ \E u \in Uploads, c \in Contributors : UploadUrdf(u, c)
    \/ \E old, u \in Uploads : RestoreArchive(old, u)
    \/ \E u \in Uploads : SweepStaging(u)
    \/ \E u \in Uploads, r \in AllResolutions : BeginActivate(u, r)
    \/ LockActivation \/ ArchiveFile \/ Promote \/ Unstage
    \/ PowerLoss

ProfileSpec == ProfileInit /\ [][ProfileNext]_fvars

(***************************************************************************)
(* Whatever write fails and wherever the power is lost, the next boot      *)
(* never meets hard bounds wider than the URDF's envelope (urdf_expand.rs: *)
(* URDF first), unless the operator's own merge narrowed the envelope or   *)
(* the rollback itself failed.                                             *)
(***************************************************************************)
BootIsCovered == CoversMotors(urdf, motors) \/ narrowed \/ torn

(***************************************************************************)
(* Between transactions motors.yaml and control.yaml are the pair one      *)
(* transaction wrote, and a valid one: a failed write is rolled back whole *)
(* (profile_txn.rs).  Only a power loss between the two renames or a       *)
(* failed rollback leaves them mixed, until the next full write.           *)
(***************************************************************************)
PairIsWhole ==
    (profileLock = "free" /\ ~torn)
        => /\ <<motors, control>> = committed
           /\ ValidSafety(motors, control)
           /\ NoSoft \notin {control.slo, control.shi} => CommandWindow(motors, control) # {}

(***************************************************************************)
(* The archive of the upload that is live holds what it replaced and what  *)
(* it became (hardware.rs post_activate: archive, then promote), so the    *)
(* replaced URDF can be had back.  Only a second activation of the same    *)
(* upload, possible after a power loss between the promotion and the       *)
(* removal of its stage, may overwrite it.                                 *)
(***************************************************************************)
PromotionIsArchived ==
    LET u == promoted.upload
    IN (u # NoUpload /\ ~promoted.again)
           => /\ archive[u].replaced = promoted.replaced
              /\ archive[u].contributor # NoFile /\ archive[u].manifest # NoFile

\* The files of the profile survive failed writes and power losses.
ProfileHolds == BootIsCovered /\ PairIsWhole /\ PromotionIsArchived
==============================================================================
