---------------------------- MODULE LimitPersist ----------------------------
(***************************************************************************)
(* marengo-pi's write-behind of the configuration: limit patches and       *)
(* tuning applied live by the control thread (overlay.rs) are written to   *)
(* motors.yaml and control.yaml by one worker thread (limit_persist.rs).   *)
(*                                                                         *)
(* The slot between them holds one request.  A later request replaces one  *)
(* that is not yet started, so it must hold what it replaces, and each     *)
(* replaced limit patch is still owed its own completion event: the        *)
(* gateway waits for it.                                                   *)
(*                                                                         *)
(* A patch sets a joint's hard bound (motors) and soft bound (control); a  *)
(* tuning sets a gain (control).  The owner's own checks (the expected     *)
(* revision, the mode, validation of the candidate) refuse a command       *)
(* without effect and are left out: a command here is one they let through.*)
(* The URDF, which is only ever widened, is left out too.                  *)
(***************************************************************************)
EXTENDS Integers, FiniteSets

CONSTANTS
    Joint,
    Bound,        \* values of a joint's bounds
    Gain,         \* values of the tuned gain
    MaxCommands,  \* bound: commands the operator issues
    CanFail,      \* a write may fail
    CanSyncFail,  \* the directory sync after a rename may fail
    CanUnwind     \* the worker may panic

ASSUME LimitPersistAssumption ==
    /\ Bound \subseteq Nat /\ Bound # {} /\ Gain # {}
    /\ MaxCommands \in Nat /\ {CanFail, CanSyncFail, CanUnwind} \subseteq BOOLEAN

VARIABLES
    \* the control thread
    owner, live, unsaved, report,
    \* PersistSlot, shared under its lock
    request, carried, writing, accepting, workerDone, workerError, failed,
    wake,         \* the one-place wake channel
    \* the worker
    worker, hand, handCarried, wrote,
    \* the files, and each session's completion ("Pending": accepted, none yet)
    disk, issued, told

ownerVars == <<owner, live, unsaved, report>>
slotVars == <<request, carried, writing, accepting, workerDone, workerError, failed>>
workerVars == <<worker, hand, handCarried, wrote>>
fileVars == <<disk, issued, told>>
vars == <<ownerVars, slotVars, wake, workerVars, fileVars>>

Session == 1 .. MaxCommands
NoMotors == [j \in {} |-> 0]
Motors == [Joint -> Bound]
Control == [soft : Motors, gain : Gain]
Files == [motors : Motors, control : Control]
Request ==
    [session : Session, kind : {"limit"}, joint : Joint, motors : Motors, control : Control]
    \cup [session : Session, kind : {"control"}, motors : Motors \cup {NoMotors},
          control : Control]
NoRequest == [session |-> 0]
Carried == [session : Session, joint : Joint, hard : Bound, soft : Bound]

TypeOK ==
    /\ owner \in {"running", "closed", "reported"}
    /\ live \in Files /\ unsaved \in BOOLEAN
    /\ report \in {"none", "Complete", "CompletedWithFailures", "TimedOut", "WorkerFailed"}
    /\ request \in Request \cup {NoRequest} /\ carried \subseteq Carried
    /\ request = NoRequest => carried = {}
    /\ writing \in BOOLEAN /\ accepting \in BOOLEAN
    /\ workerDone \in BOOLEAN /\ workerError \in BOOLEAN /\ failed \in BOOLEAN
    /\ wake \in BOOLEAN
    /\ worker \in {"check", "recv", "empty", "take", "write", "publish", "finish",
                   "leave", "unwind", "ending", "exited"}
    /\ hand \in Request \cup {NoRequest} /\ handCarried \subseteq Carried
    /\ wrote \in BOOLEAN
    /\ disk \in Files
    /\ issued \in 0 .. MaxCommands
    /\ told \in [Session -> {"none", "Pending", "Replaced", "Durable", "Failed"}]

\* A configuration that passed validation at boot, live and on disk alike.
\* Gains are only compared with each other: any of them will do.
Init ==
    /\ \E b \in Bound :
        live = [motors |-> [j \in Joint |-> b],
                control |-> [soft |-> [j \in Joint |-> b], gain |-> CHOOSE g \in Gain : TRUE]]
    /\ disk = live
    /\ owner = "running" /\ unsaved = FALSE /\ report = "none"
    /\ request = NoRequest /\ carried = {}
    /\ writing = FALSE /\ accepting = TRUE
    /\ workerDone = FALSE /\ workerError = FALSE /\ failed = FALSE
    /\ wake = FALSE
    /\ worker = "check" /\ hand = NoRequest /\ handCarried = {} /\ wrote = FALSE
    /\ issued = 0 /\ told = [s \in Session |-> "none"]

------------------------------------------------------------------------------
\* validate_safety_config, as far as it relates the two files.
Valid(motors, control) == \A j \in Joint : control.soft[j] <= motors[j]

Pending == request # NoRequest
PendingPatch == Pending /\ request.kind = "limit"

\* carry_pending_limit_patch, and the motors a pending control save carries:
\* a request that writes no motors takes the bounds of the one it replaces.
Coalesced_Plain(latest) == latest   \* mutant: the latest request as it came
Coalesced(latest) ==
    CASE Pending /\ latest.motors = NoMotors /\ PendingPatch ->
            [latest EXCEPT !.motors = request.motors,
                           !.control.soft[request.joint] = request.control.soft[request.joint]]
      [] Pending /\ latest.motors = NoMotors /\ ~PendingPatch ->
            [latest EXCEPT !.motors = request.motors]
      [] OTHER -> latest

\* A replaced limit patch keeps its own completion.
Carry_Nothing == carried   \* mutant: it is dropped
Carry ==
    IF ~PendingPatch THEN carried
    ELSE carried \cup {[session |-> request.session, joint |-> request.joint,
                        hard |-> request.motors[request.joint],
                        soft |-> request.control.soft[request.joint]]}

WakeSent_None == wake   \* mutant: only the condition variable is signalled
WakeSent == TRUE

\* enqueue, which refuses a closed queue without effect.
Enqueue(latest) ==
    /\ accepting /\ ~workerDone /\ ~workerError
    /\ wake' = WakeSent
    /\ request' = Coalesced(latest)
    /\ carried' = Carry
    /\ issued' = latest.session
    /\ told' = [s \in Session |->
                   IF s = latest.session THEN "Pending"
                   ELSE IF Pending /\ ~PendingPatch /\ s = request.session THEN "Replaced"
                   ELSE told[s]]
    /\ UNCHANGED <<writing, accepting, workerDone, workerError, failed, workerVars, disk>>

(***************************************************************************)
(* The control thread.                                                     *)
(***************************************************************************)
\* apply_limit_patch_command: applied live, then queued with the whole live
\* configuration; a refused enqueue is rolled back.
LimitPatch(j, b) ==
    /\ owner = "running" /\ issued < MaxCommands
    /\ live' = [live EXCEPT !.motors[j] = b, !.control.soft[j] = b]
    /\ Enqueue([session |-> issued + 1, kind |-> "limit", joint |-> j,
                motors |-> live'.motors, control |-> live'.control])
    /\ unsaved' = FALSE
    /\ UNCHANGED <<owner, report>>

\* apply_tuning_change with persist: queued, then applied live.
SaveTuning(g) ==
    /\ owner = "running" /\ issued < MaxCommands
    /\ live' = [live EXCEPT !.control.gain = g]
    /\ Enqueue([session |-> issued + 1, kind |-> "control",
                motors |-> NoMotors, control |-> live'.control])
    /\ unsaved' = FALSE
    /\ UNCHANGED <<owner, report>>

\* apply_tuning_change without persist.
Tune(g) ==
    /\ owner = "running" /\ issued < MaxCommands
    /\ live' = [live EXCEPT !.control.gain = g]
    /\ unsaved' = TRUE
    /\ issued' = issued + 1
    /\ UNCHANGED <<owner, report, slotVars, wake, workerVars, disk, told>>

\* close_admission, from finish_owner_shutdown.
AcceptingAfterClose_Still == accepting   \* mutant: only the wake is sent
AcceptingAfterClose == FALSE
CloseAdmission ==
    /\ owner = "running"
    /\ owner' = "closed"
    /\ accepting' = AcceptingAfterClose /\ wake' = TRUE
    /\ UNCHANGED <<live, unsaved, report, request, carried, writing, workerDone,
                   workerError, failed, workerVars, fileVars>>

\* PersistDrainReport::from_slot
Status_Idle(terminated) ==   \* mutant: an idle slot counts as complete
    CASE workerError -> "WorkerFailed"
      [] ~workerError /\ Pending -> "TimedOut"
      [] ~workerError /\ ~Pending /\ failed -> "CompletedWithFailures"
      [] OTHER -> "Complete"
Status(terminated) ==
    CASE workerError -> "WorkerFailed"
      [] ~workerError /\ (~terminated \/ Pending \/ writing) -> "TimedOut"
      [] ~workerError /\ terminated /\ ~Pending /\ ~writing /\ failed ->
            "CompletedWithFailures"
      [] OTHER -> "Complete"

\* close_and_drain returns when the thread has ended or its time is over.
DrainReturns(terminated) ==
    /\ owner = "closed"
    /\ terminated => worker = "exited"
    /\ owner' = "reported" /\ report' = Status(terminated)
    /\ UNCHANGED <<live, unsaved, slotVars, wake, workerVars, fileVars>>

(***************************************************************************)
(* persist_worker.  Each step that reads or writes the slot holds its lock.*)
(***************************************************************************)
MayLeave == ~accepting /\ ~Pending
WorkerChecks ==
    /\ worker = "check"
    /\ worker' = IF MayLeave THEN "leave" ELSE "recv"
    /\ UNCHANGED <<ownerVars, slotVars, wake, hand, handCarried, wrote, fileVars>>

\* recv_timeout: woken, or back to the check after 200 ms.
WorkerWoken ==
    /\ worker = "recv" /\ wake
    /\ wake' = FALSE /\ worker' = "empty"
    /\ UNCHANGED <<ownerVars, slotVars, hand, handCarried, wrote, fileVars>>

WorkerTimesOut ==
    /\ worker = "recv" /\ ~wake
    /\ worker' = "check"
    /\ UNCHANGED <<ownerVars, slotVars, wake, hand, handCarried, wrote, fileVars>>

\* Wakes that arrived meanwhile are taken too.
WorkerEmptiesWakes ==
    /\ worker = "empty"
    /\ wake' = FALSE /\ worker' = "take"
    /\ UNCHANGED <<ownerVars, slotVars, hand, handCarried, wrote, fileVars>>

CarriedLeft_Copied == carried   \* mutant: copied, not taken
CarriedLeft == {}
WorkerTakes ==
    /\ worker = "take" /\ Pending
    /\ hand' = request /\ handCarried' = carried
    /\ request' = NoRequest /\ carried' = CarriedLeft /\ writing' = TRUE
    /\ worker' = "write"
    /\ UNCHANGED <<ownerVars, accepting, workerDone, workerError, failed, wake, wrote,
                   fileVars>>

WorkerFindsNothing ==
    /\ worker = "take" /\ ~Pending
    /\ worker' = "check"
    /\ UNCHANGED <<ownerVars, slotVars, wake, hand, handCarried, wrote, fileVars>>

\* write_motors_control_and_urdf, or write_control_config_from, which
\* validates against the motors on disk.
Merged(r) == [motors |-> IF r.motors = NoMotors THEN disk.motors ELSE r.motors,
              control |-> r.control]
Accepted_Always(r) == TRUE   \* mutant: a control save is not checked against the motors
Accepted(r) == Valid(Merged(r).motors, Merged(r).control)

WorkerWrites ==
    /\ worker = "write"
    /\ wrote' = Accepted(hand)
    /\ disk' = IF Accepted(hand) THEN Merged(hand) ELSE disk
    /\ worker' = "publish"
    /\ UNCHANGED <<ownerVars, slotVars, wake, hand, handCarried, issued, told>>

\* An I/O error before a rename; what was written of the pair is rolled back.
WorkerWriteFails ==
    /\ worker = "write" /\ CanFail
    /\ wrote' = FALSE /\ worker' = "publish"
    /\ UNCHANGED <<ownerVars, slotVars, wake, hand, handCarried, fileVars>>

\* write_atomic fails after its rename.  The file stays new: the rollback
\* restores only the files before it, and its own writes may fail as well.
WorkerSyncFails ==
    /\ worker = "write" /\ CanSyncFail /\ Accepted(hand)
    /\ \E m \in {disk.motors, Merged(hand).motors}, c \in {disk.control, hand.control} :
          disk' = [motors |-> m, control |-> c]
    /\ wrote' = FALSE /\ worker' = "publish"
    /\ UNCHANGED <<ownerVars, slotVars, wake, hand, handCarried, issued, told>>

\* CarriedBounds::written_by
WrittenBy_Any(c, r) == TRUE   \* mutant: every carried patch shares the outcome
WrittenBy(c, r) ==
    /\ r.motors # NoMotors
    /\ r.motors[c.joint] = c.hard /\ r.control.soft[c.joint] = c.soft

\* The completion events: the request's own and each carried patch's.
WorkerPublishes ==
    /\ worker = "publish"
    /\ told' = [s \in Session |->
            IF s = hand.session THEN IF wrote THEN "Durable" ELSE "Failed"
            ELSE IF \E c \in handCarried : c.session = s
            THEN IF wrote /\ \A c \in handCarried : c.session = s => WrittenBy(c, hand)
                 THEN "Durable" ELSE "Failed"
            ELSE told[s]]
    /\ worker' = "finish"
    /\ UNCHANGED <<ownerVars, slotVars, wake, hand, handCarried, wrote, disk, issued>>

WorkerFinishes ==
    /\ worker = "finish"
    /\ writing' = FALSE /\ failed' = (failed \/ ~wrote)
    /\ hand' = NoRequest /\ handCarried' = {}
    /\ worker' = "take"
    /\ UNCHANGED <<ownerVars, request, carried, accepting, workerDone, workerError, wake,
                   wrote, fileVars>>

\* A panic of the writer; nothing it had in hand is completed.
WorkerUnwinds ==
    /\ worker \in {"write", "publish"} /\ CanUnwind
    /\ worker' = "unwind"
    /\ UNCHANGED <<ownerVars, slotVars, wake, hand, handCarried, wrote, fileVars>>

\* WorkerCompletion's drop, on either way out.
WorkerCompletes ==
    /\ worker \in {"leave", "unwind"}
    /\ accepting' = FALSE /\ workerDone' = TRUE
    /\ workerError' = (workerError \/ worker = "unwind")
    /\ worker' = "ending"
    /\ UNCHANGED <<ownerVars, request, carried, writing, failed, wake, hand, handCarried,
                   wrote, fileVars>>

WorkerExits ==
    /\ worker = "ending"
    /\ worker' = "exited"
    /\ UNCHANGED <<ownerVars, slotVars, wake, hand, handCarried, wrote, fileVars>>

------------------------------------------------------------------------------
OwnerStep ==
    \/ \E j \in Joint, b \in Bound : LimitPatch(j, b)
    \/ \E g \in Gain : SaveTuning(g) \/ Tune(g)
    \/ CloseAdmission
    \/ \E terminated \in BOOLEAN : DrainReturns(terminated)

\* The process, and its worker with it, exits after the report.
WorkerStep ==
    /\ owner # "reported"
    /\ \/ WorkerChecks \/ WorkerWoken \/ WorkerTimesOut \/ WorkerEmptiesWakes
       \/ WorkerTakes \/ WorkerFindsNothing
       \/ WorkerWrites \/ WorkerWriteFails \/ WorkerSyncFails
       \/ WorkerPublishes \/ WorkerFinishes
       \/ WorkerUnwinds \/ WorkerCompletes \/ WorkerExits
Exited == owner = "reported" /\ UNCHANGED vars

Next == OwnerStep \/ WorkerStep \/ Exited

Spec == Init /\ [][Next]_vars

\* The worker thread is scheduled; the operator may stop at any time.
FairSpec == Spec /\ WF_vars(WorkerStep)

------------------------------------------------------------------------------
(***************************************************************************)
(* What a session is told is so: at the moment a limit patch or a save is  *)
(* reported Durable, the files hold its bounds or its gain, and a boot     *)
(* would accept them, whatever write failed before.                        *)
(***************************************************************************)
DurableIsOnDisk ==
    [][\A s \in Session : told[s] # "Durable" /\ told'[s] = "Durable" =>
        /\ Valid(disk.motors, disk.control)
        /\ \A c \in handCarried : c.session = s =>
               disk.motors[c.joint] = c.hard /\ disk.control.soft[c.joint] = c.soft
        /\ s = hand.session =>
               /\ disk.control = hand.control
               /\ hand.kind = "limit" => disk.motors[hand.joint] = hand.motors[hand.joint]]_vars

(***************************************************************************)
(* An accepted command that has not been answered is in the slot of a      *)
(* worker still in its loop or in its hands, unless it panicked:           *)
(* coalescing loses no completion and leaving the loop loses no request.   *)
(***************************************************************************)
Left == worker \in {"leave", "ending", "exited"}
Owed(s) ==
    /\ ~Left
    /\ \/ s \in {request.session, hand.session}
       \/ \E c \in carried \cup handCarried : c.session = s
NothingForgotten ==
    workerError \/ worker = "unwind" \/ \A s \in Session : told[s] = "Pending" => Owed(s)

(***************************************************************************)
(* With nothing queued or in hand and no failed write, the files are the   *)
(* live configuration: no coalescing order drops a bound or a gain.        *)
(***************************************************************************)
DiskFollowsLive ==
    ~Pending /\ hand = NoRequest /\ ~failed /\ ~unsaved => disk = live


(***************************************************************************)
(* A shutdown drain that says Complete left nothing behind: every command  *)
(* is answered and the files are the live configuration.                   *)
(***************************************************************************)
CompleteIsComplete ==
    report = "Complete" =>
        /\ \A s \in Session : told[s] # "Pending"
        /\ ~unsaved => disk = live

\* The files are the live configuration whenever nothing is pending, failed or
\* unsaved, and when a shutdown drain says Complete.
DiskIsLive == TypeOK /\ DiskFollowsLive /\ CompleteIsComplete

(***************************************************************************)
(* No wake is lost: every accepted command is answered, unless the worker  *)
(* panics or the shutdown drain says that it ran out of time.              *)
(***************************************************************************)
EveryCommandAnswered ==
    \A s \in Session :
        told[s] = "Pending" ~> told[s] # "Pending" \/ workerError \/ report = "TimedOut"

\* Closing the queue ends the worker, unless the drain gave up on it first.
CloseEndsWorker ==
    owner = "closed" ~> worker = "exited" \/ report \in {"TimedOut", "WorkerFailed"}
==============================================================================
