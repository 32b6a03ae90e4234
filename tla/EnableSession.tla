---------------------------- MODULE EnableSession ----------------------------
(***************************************************************************)
(* Davout's Active session on a bus that echoes the host's transmissions   *)
(* (SocketCAN): how the supervisor brings a set of drives from Reset to    *)
(* Run, and what it takes for session feedback and motion.                 *)
(*                                                                         *)
(*   enable_targets -> drain -> type-24 Off per target -> drain -> Active  *)
(*     -> (Off echo read, one control period) -> Enable, staggered         *)
(*     -> (Enable echo read) -> Run expected, poses admitted -> servo      *)
(*                                                                         *)
(* A write only queues a frame, a frame is on the wire before its drive    *)
(* acts on it, and a drive may send a report it built earlier.  These four *)
(* queues (tx, inbox, out, rx) are modelled one frame at a time; frames    *)
(* written together to several drives of one interface form one group.     *)
(*                                                                         *)
(* Time is counted in control periods.  Instants are kept as ages that     *)
(* saturate where no comparison of the code can tell them apart, so        *)
(* behaviours are unbounded and the state space is finite.                 *)
(*                                                                         *)
(* The supervisor configured without drive-loss plans (drive_loss.plans is *)
(* empty, so no loss is answered by a shed); module DriveLoss models that. *)
(***************************************************************************)
EXTENDS Integers, Sequences, FiniteSets

CONSTANTS
    Joint,         \* configured joints, one drive each
    Bus,           \* CAN interfaces
    Route,         \* [Joint -> Bus]
    Watchdog,      \* comm_watchdog_ms, in periods
    Quiet,         \* POST_SET_ZERO_QUIET
    BlackoutFrom,  \* POST_SET_ZERO_BLACKOUT_FROM
    Deaf,          \* when a zeroed drive really stops listening, until Quiet
    Sensed,        \* joints some client holds a live reporting lease for
    PromptWire,    \* frames reach the wire within one control period
    PromptDrain,   \* what was received is read within one control period
    Zeroed,        \* joints a reference workflow may zero
    Mortal,        \* drives that may go silent for good
    Faulty,        \* drives that may lose power and return in Reset
    StopFailures,  \* sets of drives whose stop write one stop may lose
    MaxTx, MaxRx   \* bounds on the queues of one interface, in frame groups

ASSUME SessionAssumption ==
    /\ Route \in [Joint -> Bus]
    /\ Watchdog \in Nat \ {0}
    /\ Quiet \in Nat /\ BlackoutFrom \in 0 .. Quiet
    /\ Deaf \in BlackoutFrom .. Quiet
    /\ Sensed \subseteq Joint
    /\ PromptWire \in BOOLEAN /\ PromptDrain \in BOOLEAN
    /\ Zeroed \subseteq Joint /\ Mortal \subseteq Joint /\ Faulty \subseteq Joint
    /\ StopFailures \subseteq SUBSET Joint
    /\ MaxTx \in Nat /\ MaxRx \in Nat

VARIABLES
    \* the supervisor's call in progress
    pc,             \* "idle", "reading" (poll_feedback), "sync" (reporting sync)
    cont,           \* what the drain in progress returns to
    targets,        \* the joints an enable in progress asked for
    transition,     \* this drain latched the first fault
    lost,           \* an Active grant was gone before this drain read anything
    \* Supervisor
    mode, fault, granted, active, sinceActive,
    echoPending, writesPending, staggered,
    gateOpen, offWritten, offEchoAge, zeroAge,
    posed, solicitAge,
    applied, slotUsed, batchSent,
    \* wire and drives
    tx, inbox, out, rx, driveMode, streaming, driveZero, dead,
    reported,       \* drives whose type-24 report of this period is built
    \* history
    ran,            \* drives that acted on an Enable of the current session
    rebooted        \* some drive fell back to Reset by itself

callVars == <<pc, cont, targets, transition, lost>>
sessionVars == <<mode, active, sinceActive, echoPending, writesPending,
                 staggered, gateOpen, offEchoAge>>
authorityVars == <<fault, granted>>
poseVars == <<posed, solicitAge>>
reportingVars == <<applied, slotUsed, offWritten>>
driveVars == <<inbox, out, driveMode, streaming, driveZero, dead, reported, ran,
               rebooted>>
vars == <<callVars, sessionVars, authorityVars, poseVars, reportingVars,
          zeroAge, batchSent, tx, rx, driveVars>>

Never == -1                                  \* no such instant
MaxActiveAge == Watchdog + 1
MaxZeroAge == Quiet + Watchdog + 1           \* also: no SetZero recorded
Older_Unbounded(age, bound) == age + 1   \* mutant: no saturation
Older(age, bound) == IF age < bound THEN age + 1 ELSE age

Faults == {"none", "DriveState", "EchoOverdue", "Communication", "Transport",
           "Device", "Controller", "StopDelivery"}
Command == {"Off", "On", "Enable", "SetZero", "Stop", "Neutral", "Servo"}
Echoed == {"Off", "Enable", "SetZero"}       \* robstride::EchoedCommand
DriveMode == {"Reset", "Run"}
Group == [cmd : Command, to : SUBSET Joint]
Received == [kind : Echoed \cup {"Status"}, from : SUBSET Joint, mode : DriveMode]

TypeOK ==
    /\ pc \in {"idle", "reading", "sync"}
    /\ cont \in {"none", "gate", "activate"}
    /\ targets \subseteq Joint
    /\ transition \in BOOLEAN /\ lost \in BOOLEAN
    /\ mode \in {"Disabled", "Active"}
    /\ fault \in Faults
    /\ granted \subseteq Joint /\ active \subseteq Joint
    /\ sinceActive \in 0 .. MaxActiveAge
    /\ echoPending \subseteq Joint /\ writesPending \subseteq Joint
    /\ staggered \in BOOLEAN /\ gateOpen \in BOOLEAN
    /\ offWritten \subseteq Joint
    /\ offEchoAge \in [Joint -> {Never, 0, 1}]
    /\ zeroAge \in [Joint -> 0 .. MaxZeroAge]
    /\ posed \subseteq Joint
    /\ solicitAge \in [Joint -> {Never} \cup 0 .. Watchdog + 1]
    /\ applied \subseteq Joint /\ slotUsed \subseteq Bus
    /\ batchSent \in BOOLEAN
    /\ tx \in [Bus -> Seq(Group)] /\ rx \in [Bus -> Seq(Received)]
    /\ inbox \in [Joint -> Seq(Command)]
    /\ out \in [Joint -> SUBSET DriveMode]
    /\ driveMode \in [Joint -> DriveMode]
    /\ streaming \subseteq Joint
    /\ driveZero \in [Joint -> 0 .. Quiet]
    /\ dead \subseteq Joint /\ reported \subseteq Joint
    /\ ran \subseteq Joint /\ rebooted \in BOOLEAN

\* A new process: no grant, no session.  A drive keeps its type-24 stream
\* across host processes.
Init ==
    /\ pc = "idle" /\ cont = "none" /\ targets = {}
    /\ transition = FALSE /\ lost = FALSE
    /\ mode = "Disabled" /\ fault = "none"
    /\ granted = {} /\ active = {} /\ sinceActive = 0
    /\ echoPending = {} /\ writesPending = {} /\ staggered = FALSE
    /\ gateOpen = FALSE /\ offWritten = {}
    /\ offEchoAge = [j \in Joint |-> Never]
    /\ zeroAge = [j \in Joint |-> MaxZeroAge]
    /\ posed = {}
    /\ solicitAge = [j \in Joint |-> Never]
    /\ applied = {} /\ slotUsed = {} /\ batchSent = FALSE
    /\ tx = [b \in Bus |-> <<>>] /\ rx = [b \in Bus |-> <<>>]
    /\ inbox = [j \in Joint |-> <<>>]
    /\ out = [j \in Joint |-> {}]
    /\ driveMode = [j \in Joint |-> "Reset"]
    /\ streaming \in SUBSET Joint
    /\ driveZero = [j \in Joint |-> Quiet]
    /\ dead = {} /\ reported = {} /\ ran = {} /\ rebooted = FALSE

------------------------------------------------------------------------------
On(b, S) == {j \in S : Route[j] = b}

\* Queue one frame for every drive of S, in this order on each interface.
Queue(q, cmd, S) ==
    [b \in Bus |-> IF On(b, S) = {} THEN q[b]
                   ELSE Append(q[b], [cmd |-> cmd, to |-> On(b, S)])]

Latched == fault # "none"
\* FaultAuthority::record: the first fault is retained for good.
Record(class) == IF Latched THEN fault ELSE class

\* set_zero_quiet_elapsed, set_zero_blackout_possible
QuietElapsed(j) == zeroAge[j] >= Quiet
BlackoutPossible_Never(j) == FALSE   \* mutant: type-24 writes not held back
BlackoutPossible(j) == zeroAge[j] \in BlackoutFrom .. Quiet - 1

\* The drive's own blackout: it acts on nothing it receives.
InBlackout(j) == driveZero[j] \in Deaf .. Quiet - 1
Hears(j) == j \notin dead /\ ~InBlackout(j)

\* Periods since enable_bounds_start: activation, or the end of the
\* post-SetZero quiet when that is later (negative while it lasts).
BoundAge_FromWrite(j) ==   \* mutant: the bounds start at the Enable write
    IF j \in writesPending THEN 0
    ELSE IF zeroAge[j] - Quiet < sinceActive THEN zeroAge[j] - Quiet ELSE sinceActive
BoundAge(j) ==
    IF zeroAge[j] - Quiet < sinceActive THEN zeroAge[j] - Quiet ELSE sinceActive

\* enable_catch_up; only an Active session has bounds.
CatchUp(j) == mode = "Active" /\ 2 * BoundAge(j) >= Watchdog

\* reporting_off_settled: the echo of this window's Off is a period old.
OffSettled_AtEcho(j) == gateOpen /\ j \in offWritten /\ offEchoAge[j] # Never   \* mutant: no settling period
OffSettled(j) == gateOpen /\ j \in offWritten /\ offEchoAge[j] >= 1

\* One target per interface, in request order, unless it is past its catch-up
\* point: then it goes out whatever else does.
Waves(eligible, forced, free) ==
    {W \in SUBSET eligible :
        /\ forced \subseteq W
        /\ \A b \in Bus :
            LET paced == On(b, W \ forced)
            IN /\ \A j, k \in paced : j = k
               /\ paced # {} => b \in free
               /\ b \in free /\ On(b, eligible) # {} => On(b, W) # {}}

\* issue_target_reporting_offs
OffsDue == {j \in writesPending : ~(gateOpen /\ j \in offWritten) /\ QuietElapsed(j)}
OffWaves == Waves(OffsDue, {j \in OffsDue : CatchUp(j)}, Bus \ slotUsed)

\* take_enable_wave
EnablesDue == {j \in writesPending : QuietElapsed(j) /\ OffSettled(j)}
EnableWaves ==
    Waves(EnablesDue, {j \in EnablesDue : CatchUp(j)}, IF staggered THEN {} ELSE Bus)

\* note_solicit and the solicits of a batch: the earliest unanswered one counts.
Asked(S) == [j \in Joint |-> IF j \in S /\ solicitAge[j] = Never THEN 0 ELSE solicitAge[j]]

(***************************************************************************)
(* perform_stop: every installed drive is addressed, in every state; `q'   *)
(* is what is queued before the stop frames and `failed' the drives whose  *)
(* stop write the bus refused.  The reporting sync follows in its own step.*)
(***************************************************************************)
StopFault_Lost(class, failed) == Record(class)   \* mutant: failed stop writes are ignored
StopFault(class, failed) ==
    IF Latched THEN fault
    ELSE IF class # "none" THEN class
    ELSE IF failed # {} THEN "StopDelivery" ELSE "none"

PerformStop(q, class, failed) ==
    /\ fault' = StopFault(class, failed)
    /\ granted' = IF StopFault(class, failed) # "none" THEN {} ELSE granted
    /\ tx' = Queue(q, "Stop", Joint \ failed)
    /\ mode' = "Disabled"
    /\ active' = {} /\ sinceActive' = 0
    /\ echoPending' = {} /\ writesPending' = {} /\ staggered' = FALSE
    /\ gateOpen' = FALSE
    /\ offEchoAge' = [j \in Joint |-> Never]
    /\ pc' = "sync"
    /\ cont' = "none" /\ targets' = {} /\ transition' = FALSE /\ lost' = FALSE

(***************************************************************************)
(* sync_active_reporting: one type-24 write per interface per period, none *)
(* to a drive that may be in its post-SetZero blackout.                    *)
(***************************************************************************)
Desired(j) == mode # "Active" /\ j \in Sensed
SyncDue == {j \in Joint : Desired(j) # (j \in applied) /\ ~BlackoutPossible(j)}

SyncReporting ==
    /\ pc \in {"idle", "sync"}
    /\ \E W \in Waves(SyncDue, {}, Bus \ slotUsed) :
        LET ons == {j \in W : Desired(j)}
        IN /\ tx' = Queue(Queue(tx, "Off", W \ ons), "On", ons)
           /\ applied' = (applied \cup ons) \ (W \ ons)
           /\ offWritten' = (offWritten \cup (W \ ons)) \ ons
           /\ slotUsed' = slotUsed \cup {Route[j] : j \in W}
    /\ pc' = "idle"
    /\ UNCHANGED <<cont, targets, transition, lost, sessionVars, authorityVars,
                   poseVars, zeroAge, batchSent, rx, driveVars>>

(***************************************************************************)
(* poll_feedback                                                           *)
(***************************************************************************)
GrantsHeld == active \subseteq granted

\* Before the queue is read: a lost grant withholds every enable write;
\* otherwise issue_due_enable_writes.
Poll(offs, wave) ==
    /\ pc = "idle"
    /\ pc' = "reading"
    /\ lost' = (mode = "Active" /\ ~GrantsHeld)
    /\ IF mode = "Active" /\ GrantsHeld
       THEN offs \in OffWaves /\ wave \in EnableWaves
       ELSE offs = {} /\ wave = {}
    /\ tx' = Queue(Queue(tx, "Off", offs), "Enable", wave)
    /\ applied' = applied \ offs
    /\ offWritten' = offWritten \cup offs
    /\ slotUsed' = slotUsed \cup {Route[j] : j \in offs}
    /\ writesPending' = writesPending \ wave
    /\ staggered' = (staggered \/ wave # {})
    /\ solicitAge' = Asked(wave)
    /\ UNCHANGED <<cont, targets, transition, mode, active, sinceActive, echoPending,
                   gateOpen, offEchoAge, authorityVars, posed, zeroAge, batchSent,
                   rx, driveVars>>

\* The bus refused one of those writes after accepting some: latch and stop.
PollWriteFails(offs, wave, failed) ==
    /\ pc = "idle" /\ mode = "Active" /\ GrantsHeld
    /\ \E due \in OffWaves, all \in EnableWaves :
        /\ offs \subseteq due /\ wave \subseteq all /\ offs \cup wave # due \cup all
        /\ wave # {} => offs = due
    /\ PerformStop(Queue(Queue(tx, "Off", offs), "Enable", wave), "Transport", failed)
    /\ applied' = applied \ offs
    /\ offWritten' = offWritten \cup offs
    /\ slotUsed' = slotUsed \cup {Route[j] : j \in offs}
    /\ UNCHANGED <<poseVars, zeroAge, batchSent, rx, driveVars>>

Rest(b) == [rx EXCEPT ![b] = Tail(@)]
Reads(b, kind) == pc = "reading" /\ rx[b] # <<>> /\ Head(rx[b]).kind = kind

\* Wire-order markers.  An Enable this session has not written yet cannot be
\* the one echoed.
ReadEnableEcho(b) ==
    /\ Reads(b, "Enable")
    /\ echoPending' = echoPending \ (Head(rx[b]).from \ writesPending)
    /\ rx' = Rest(b)
    /\ UNCHANGED <<callVars, mode, active, sinceActive, writesPending, staggered,
                   gateOpen, offEchoAge, authorityVars, poseVars, reportingVars,
                   zeroAge, batchSent, tx, driveVars>>

ReadOffEcho(b) ==
    /\ Reads(b, "Off")
    /\ offEchoAge' = [j \in Joint |->
           IF gateOpen /\ j \in Head(rx[b]).from \cap offWritten THEN 0 ELSE offEchoAge[j]]
    /\ rx' = Rest(b)
    /\ UNCHANGED <<callVars, mode, active, sinceActive, echoPending, writesPending,
                   staggered, gateOpen, authorityVars, poseVars, reportingVars,
                   zeroAge, batchSent, tx, driveVars>>

ReadZeroEcho(b) ==
    /\ Reads(b, "SetZero")
    /\ zeroAge' = [j \in Joint |-> IF j \in Head(rx[b]).from THEN 0 ELSE zeroAge[j]]
    /\ rx' = Rest(b)
    /\ UNCHANGED <<callVars, sessionVars, authorityVars, poseVars, reportingVars,
                   batchSent, tx, driveVars>>

\* feedback_run_expected
RunExpected(j) == mode = "Active" /\ j \in active /\ j \notin echoPending

\* A frame that contradicts the session latches DriveState; any frame may
\* carry fault flags or fail a check of its content.  The drain goes on.
ReadHazard(b, j, class) ==
    /\ Reads(b, "Status")
    /\ j \in Head(rx[b]).from
    /\ class = IF RunExpected(j) /\ Head(rx[b]).mode # "Run" THEN "DriveState" ELSE "Device"
    /\ fault' = Record(class)
    /\ transition' = (transition \/ ~Latched)
    /\ rx' = Rest(b)
    /\ UNCHANGED <<pc, cont, targets, lost, sessionVars, granted, poseVars,
                   reportingVars, zeroAge, batchSent, tx, driveVars>>

\* A driver error, a transport error frame or an exhausted read budget.
ReadFails ==
    /\ pc = "reading" /\ ~Latched
    /\ fault' = Record("Transport") /\ transition' = TRUE
    /\ UNCHANGED <<pc, cont, targets, lost, sessionVars, granted, poseVars,
                   reportingVars, zeroAge, batchSent, tx, rx, driveVars>>

\* Traffic read before the Enable echo is inspected but never session pose; an
\* admitted pose answers every solicit before it.
AdmitsPose_BeforeEcho(j) == mode = "Active"   \* mutant: any frame of the session is pose
AdmitsPose_AnyEcho(j) == mode = "Active" /\ echoPending # active   \* mutant: one echo arms every joint
AdmitsPose(j) == mode = "Active" /\ j \notin echoPending

ReadStatus(b, j) ==
    /\ Reads(b, "Status")
    /\ j \in Head(rx[b]).from
    /\ RunExpected(j) => Head(rx[b]).mode = "Run"
    /\ posed' = IF AdmitsPose(j) THEN posed \cup {j} ELSE posed
    /\ solicitAge' = IF AdmitsPose(j) THEN [solicitAge EXCEPT ![j] = Never] ELSE solicitAge
    /\ rx' = Rest(b)
    /\ UNCHANGED <<callVars, sessionVars, authorityVars, reportingVars, zeroAge,
                   batchSent, tx, driveVars>>

Drained == pc = "reading" /\ \A b \in Bus : rx[b] = <<>>

\* enable_echo_overdue
EchoOverdue == mode = "Active" /\ \E j \in echoPending : BoundAge(j) > Watchdog
OverdueClass == IF EchoOverdue THEN "EchoOverdue" ELSE "none"

\* The end of the drain: a first fault, an overdue echo, or a grant lost
\* before or during it stops every drive.
MustStop_NoTransition ==   \* mutant: a fault read in the drain does not stop
    (EchoOverdue /\ ~Latched) \/ (mode = "Active" /\ (lost \/ ~GrantsHeld))
MustStop ==
    \/ transition
    \/ EchoOverdue /\ ~Latched
    \/ mode = "Active" /\ (lost \/ ~GrantsHeld)

DrainStops(failed) ==
    /\ Drained /\ MustStop
    /\ PerformStop(tx, OverdueClass, failed)
    /\ UNCHANGED <<poseVars, reportingVars, zeroAge, batchSent, rx, driveVars>>

\* A drain that is not part of an enable returns; an enable whose targets lost
\* their grants is refused before anything was written.
DrainReturns ==
    /\ Drained /\ ~MustStop
    /\ cont = "none" \/ (cont = "gate" /\ ~(targets \subseteq granted))
    /\ pc' = "idle" /\ cont' = "none" /\ targets' = {} /\ lost' = FALSE
    /\ UNCHANGED <<transition, sessionVars, authorityVars, poseVars, reportingVars,
                   zeroAge, batchSent, tx, rx, driveVars>>

IdentityAnswered(j) ==
    Hears(j) /\ tx[Route[j]] = <<>> /\ inbox[j] = <<>>

EnableTargets(T) ==
    /\ pc = "idle" /\ ~Latched /\ mode = "Disabled"
    /\ T # {} /\ T \subseteq granted
    /\ \A j \in T : IdentityAnswered(j)
    /\ pc' = "reading" /\ cont' = "gate" /\ targets' = T
    /\ UNCHANGED <<transition, lost, sessionVars, authorityVars, poseVars,
                   reportingVars, zeroAge, batchSent, tx, rx, driveVars>>

\* The queued traffic is drained: open the Off window and turn the targets'
\* streams off, one per interface; a zeroed target waits for its quiet.
GateReady == Drained /\ ~MustStop /\ cont = "gate" /\ targets \subseteq granted
FirstOffs ==
    Waves({j \in targets : QuietElapsed(j)}, {}, Bus \ slotUsed)

OpenGate(offs) ==
    /\ GateReady
    /\ offs \in FirstOffs
    /\ gateOpen' = TRUE
    /\ offWritten' = offs
    /\ offEchoAge' = [j \in Joint |-> Never]
    /\ echoPending' = echoPending \cup targets
    /\ writesPending' = targets
    /\ tx' = Queue(tx, "Off", offs)
    /\ applied' = applied \ offs
    /\ slotUsed' = slotUsed \cup {Route[j] : j \in offs}
    /\ cont' = "activate"
    /\ UNCHANGED <<pc, targets, transition, lost, mode, active, sinceActive, staggered,
                   authorityVars, poseVars, zeroAge, batchSent, rx, driveVars>>

GateWriteFails(offs, failed) ==
    /\ GateReady
    /\ \E due \in FirstOffs : offs \subseteq due /\ offs # due
    /\ PerformStop(Queue(tx, "Off", offs), "Transport", failed)
    /\ applied' = applied \ offs
    /\ offWritten' = offs
    /\ slotUsed' = slotUsed \cup {Route[j] : j \in offs}
    /\ UNCHANGED <<poseVars, zeroAge, batchSent, rx, driveVars>>

\* Drained again: the session starts, with every target still pending.
Activate ==
    /\ Drained /\ ~MustStop /\ cont = "activate" /\ targets \subseteq granted
    /\ mode' = "Active"
    /\ active' = targets /\ sinceActive' = 0 /\ staggered' = FALSE
    /\ solicitAge' = [j \in Joint |-> Never]
    /\ posed' = {}
    /\ pc' = "sync" /\ cont' = "none" /\ targets' = {}
    /\ ran' = {}
    /\ UNCHANGED <<transition, lost, echoPending, writesPending, gateOpen, offEchoAge,
                   authorityVars, reportingVars, zeroAge, batchSent, tx, rx, inbox, out,
                   driveMode, streaming, driveZero, dead, reported, rebooted>>

\* A target lost its grant after the gate opened: roll back with a stop.
ActivateFails(failed) ==
    /\ Drained /\ ~MustStop /\ cont = "activate" /\ ~(targets \subseteq granted)
    /\ PerformStop(tx, "none", failed)
    /\ UNCHANGED <<poseVars, reportingVars, zeroAge, batchSent, rx, driveVars>>

(***************************************************************************)
(* Motion: admit_and_send_mit_with.  The controller sends one batch per    *)
(* period, for every Active joint.                                         *)
(***************************************************************************)
\* pose_is_current
PoseCurrent_Ageless(j) == j \in posed   \* mutant: an old pose stays current
PoseCurrent(j) == j \in posed /\ solicitAge[j] <= Watchdog
InBootstrap(j) == BoundAge(j) <= Watchdog

\* check_comm_watchdog: servo effort needs a current pose of every Active
\* joint; an inert batch may also solicit the first one.
Unposed_BootstrapServo(cmd) == {j \in active : ~PoseCurrent(j) /\ ~InBootstrap(j)}   \* mutant
Unposed_AnyPose(cmd) ==   \* mutant: one current pose is enough
    IF \E j \in active : PoseCurrent(j) THEN {}
    ELSE {j \in active : ~(cmd = "Neutral" /\ InBootstrap(j))}
Unposed(cmd) ==
    {j \in active : ~PoseCurrent(j) /\ ~(cmd = "Neutral" /\ InBootstrap(j))}

MayCommand == pc = "idle" /\ ~Latched /\ mode = "Active" /\ ~batchSent

\* A target whose Enable is not written yet gets no frame, but ages as asked.
SendMit(cmd) ==
    /\ MayCommand /\ GrantsHeld
    /\ Unposed(cmd) = {}
    /\ \A j \in active \ writesPending : Len(tx[Route[j]]) < MaxTx
    /\ tx' = Queue(tx, cmd, active \ writesPending)
    /\ solicitAge' = Asked(active)
    /\ batchSent' = TRUE
    /\ UNCHANGED <<callVars, sessionVars, authorityVars, posed, reportingVars,
                   zeroAge, rx, driveVars>>

\* A stale pose latches Communication, except inside the bootstrap window,
\* where the batch is only refused.
SendMitStale(cmd, failed) ==
    /\ MayCommand /\ GrantsHeld
    /\ \E j \in Unposed(cmd) : ~InBootstrap(j)
    /\ PerformStop(tx, "Communication", failed)
    /\ UNCHANGED <<poseVars, reportingVars, zeroAge, batchSent, rx, driveVars>>

\* The bus refused the batch after accepting frames for some drives: always
\* possible, and what happens when its transmit queue is full.
SendMitFails(cmd, some, failed) ==
    /\ MayCommand /\ GrantsHeld
    /\ Unposed(cmd) = {}
    /\ some \subseteq active \ writesPending /\ some # active \ writesPending
    /\ PerformStop(Queue(tx, cmd, some), "Transport", failed)
    /\ UNCHANGED <<poseVars, reportingVars, zeroAge, batchSent, rx, driveVars>>

\* ensure_reference_for_active, from a batch, an enable or the controller.
CheckActiveReferences(failed) ==
    /\ pc = "idle" /\ mode = "Active" /\ ~GrantsHeld
    /\ PerformStop(tx, "none", failed)
    /\ UNCHANGED <<poseVars, reportingVars, zeroAge, batchSent, rx, driveVars>>

\* disable_all on an operator's request, or a new stop while Disabled.
DisableAll(failed) ==
    /\ pc = "idle"
    /\ \A b \in Bus : Len(tx[b]) < MaxTx
    /\ PerformStop(tx, "none", failed)
    /\ UNCHANGED <<poseVars, reportingVars, zeroAge, batchSent, rx, driveVars>>

\* latch_control_fault, set_hardware_estop(true)
LatchControlFault(failed) ==
    /\ pc = "idle" /\ ~Latched
    /\ PerformStop(tx, "Controller", failed)
    /\ UNCHANGED <<poseVars, reportingVars, zeroAge, batchSent, rx, driveVars>>

(***************************************************************************)
(* Reference work, as far as a session depends on it: a joint is zeroed    *)
(* (not again before its quiet has elapsed) and granted while Disabled,    *)
(* and may lose its grant at any time.                                     *)
(***************************************************************************)
SetZero(j) ==
    /\ pc = "idle" /\ ~Latched /\ mode = "Disabled"
    /\ j \in Zeroed /\ QuietElapsed(j) /\ Len(tx[Route[j]]) < MaxTx
    /\ tx' = Queue(tx, "SetZero", {j})
    /\ zeroAge' = [zeroAge EXCEPT ![j] = 0]
    /\ granted' = granted \ {j}
    /\ UNCHANGED <<callVars, sessionVars, fault, poseVars, reportingVars, batchSent,
                   rx, driveVars>>

Grant(j) ==
    /\ pc = "idle" /\ ~Latched /\ mode = "Disabled"
    /\ granted' = granted \cup {j}
    /\ UNCHANGED <<callVars, sessionVars, fault, poseVars, reportingVars, zeroAge,
                   batchSent, tx, rx, driveVars>>

Revoke(j) ==
    /\ j \in granted
    /\ granted' = granted \ {j}
    /\ UNCHANGED <<callVars, sessionVars, fault, poseVars, reportingVars, zeroAge,
                   batchSent, tx, rx, driveVars>>

(***************************************************************************)
(* Wire and drives.  What arrives during a drain is read by that drain, so *)
(* nothing is lost by letting it arrive before.                            *)
(***************************************************************************)

Transmit(b) ==
    /\ pc = "idle" /\ tx[b] # <<>>
    /\ Len(rx[b]) < MaxRx
    /\ \A j \in Head(tx[b]).to : inbox[j] = <<>>
    /\ LET f == Head(tx[b])
       IN /\ inbox' = [j \in Joint |->
                  IF j \in f.to /\ Hears(j)
                  THEN Append(inbox[j], f.cmd) ELSE inbox[j]]
          /\ rx' = IF f.cmd \in Echoed
                   THEN [rx EXCEPT ![b] = Append(@, [kind |-> f.cmd, from |-> f.to,
                                                     mode |-> "Reset"])]
                   ELSE rx
    /\ tx' = [tx EXCEPT ![b] = Tail(@)]
    /\ UNCHANGED <<callVars, sessionVars, authorityVars, poseVars, reportingVars,
                   zeroAge, batchSent, out, driveMode, streaming, driveZero, dead,
                   reported, ran, rebooted>>

\* The drive acts on a host frame and builds the status that answers it.
DriveActs(j) ==
    /\ pc = "idle" /\ inbox[j] # <<>>
    /\ LET cmd == Head(inbox[j])
           m == CASE cmd = "Enable" -> "Run"
                  [] cmd = "Stop" -> "Reset"
                  [] OTHER -> driveMode[j]
       IN /\ driveMode' = [driveMode EXCEPT ![j] = m]
          /\ out' = [out EXCEPT ![j] = @ \cup {m}]
          /\ streaming' = CASE cmd = "On" -> streaming \cup {j}
                            [] cmd = "Off" -> streaming \ {j}
                            [] OTHER -> streaming
          /\ driveZero' = IF cmd = "SetZero" THEN [driveZero EXCEPT ![j] = 0] ELSE driveZero
          /\ ran' = IF cmd = "Enable" THEN ran \cup {j} ELSE ran
    /\ inbox' = [inbox EXCEPT ![j] = Tail(@)]
    /\ UNCHANGED <<callVars, sessionVars, authorityVars, poseVars, reportingVars,
                   zeroAge, batchSent, tx, rx, dead, reported, rebooted>>

\* A type-24 stream (100 Hz) adds a report of the current mode.
DriveReports(j) ==
    /\ pc = "idle" /\ j \in streaming \ (dead \cup reported)
    /\ out' = [out EXCEPT ![j] = @ \cup {driveMode[j]}]
    /\ reported' = reported \cup {j}
    /\ UNCHANGED <<callVars, sessionVars, authorityVars, poseVars, reportingVars,
                   zeroAge, batchSent, tx, rx, inbox, driveMode, streaming, driveZero,
                   dead, ran, rebooted>>

\* Bus arbitration: a report can leave after a reply built later.
DriveSends(j, m) ==
    /\ pc = "idle" /\ m \in out[j]
    /\ Len(rx[Route[j]]) < MaxRx
    /\ out' = [out EXCEPT ![j] = @ \ {m}]
    /\ rx' = [rx EXCEPT ![Route[j]] =
                 Append(@, [kind |-> "Status", from |-> {j}, mode |-> m])]
    /\ UNCHANGED <<callVars, sessionVars, authorityVars, poseVars, reportingVars,
                   zeroAge, batchSent, tx, inbox, driveMode, streaming, driveZero,
                   dead, reported, ran, rebooted>>

\* A power interruption: the drive returns in Reset.
DriveReboots(j) ==
    /\ pc = "idle" /\ j \in Faulty /\ driveMode[j] = "Run"
    /\ driveMode' = [driveMode EXCEPT ![j] = "Reset"]
    /\ rebooted' = TRUE
    /\ UNCHANGED <<callVars, sessionVars, authorityVars, poseVars, reportingVars,
                   zeroAge, batchSent, tx, rx, inbox, out, streaming, driveZero,
                   dead, reported, ran>>

\* A drive goes silent for good.
DriveDies(j) ==
    /\ pc = "idle" /\ j \in Mortal \ dead
    /\ dead' = dead \cup {j}
    /\ inbox' = [inbox EXCEPT ![j] = <<>>]
    /\ out' = [out EXCEPT ![j] = {}]
    /\ UNCHANGED <<callVars, sessionVars, authorityVars, poseVars, reportingVars,
                   zeroAge, batchSent, tx, rx, driveMode, streaming, driveZero,
                   reported, ran, rebooted>>

\* One control period.  Drives act and their frames leave within it; a full
\* or failed transmit queue may hold host frames longer unless PromptWire, and
\* a stalled host leaves received frames unread unless PromptDrain.
Tick ==
    /\ pc = "idle"
    /\ \A j \in Joint : inbox[j] = <<>> /\ out[j] = {}
    /\ PromptWire => \A b \in Bus : tx[b] = <<>>
    /\ PromptDrain => \A b \in Bus : rx[b] = <<>>
    /\ sinceActive' = IF mode = "Active" THEN Older(sinceActive, MaxActiveAge) ELSE 0
    /\ offEchoAge' = [j \in Joint |->
                         IF offEchoAge[j] = Never THEN Never ELSE 1]
    /\ zeroAge' = [j \in Joint |-> Older(zeroAge[j], MaxZeroAge)]
    /\ driveZero' = [j \in Joint |-> Older(driveZero[j], Quiet)]
    /\ solicitAge' = [j \in Joint |->
                         IF solicitAge[j] = Never THEN Never
                         ELSE Older(solicitAge[j], Watchdog + 1)]
    /\ staggered' = FALSE /\ slotUsed' = {} /\ batchSent' = FALSE /\ reported' = {}
    /\ UNCHANGED <<callVars, mode, active, echoPending, writesPending, gateOpen,
                   authorityVars, posed, applied, offWritten, tx, rx, inbox, out,
                   driveMode, streaming, dead, ran, rebooted>>

------------------------------------------------------------------------------
SupervisorStep ==
    \/ SyncReporting
    \/ \E offs, wave \in SUBSET Joint : Poll(offs, wave)
    \/ \E b \in Bus : ReadEnableEcho(b) \/ ReadOffEcho(b) \/ ReadZeroEcho(b)
    \/ \E b \in Bus, j \in Joint :
        ReadStatus(b, j) \/ \E class \in {"DriveState", "Device"} : ReadHazard(b, j, class)
    \/ ReadFails
    \/ DrainReturns
    \/ \E T \in SUBSET Joint : EnableTargets(T)
    \/ \E offs \in SUBSET Joint : OpenGate(offs)
    \/ Activate
    \/ \E cmd \in {"Neutral", "Servo"} : SendMit(cmd)
    \/ \E j \in Joint : SetZero(j) \/ Grant(j) \/ Revoke(j)

StopStep ==
    \E failed \in StopFailures :
        \/ \E offs, wave \in SUBSET Joint : PollWriteFails(offs, wave, failed)
        \/ DrainStops(failed)
        \/ \E offs \in SUBSET Joint : GateWriteFails(offs, failed)
        \/ ActivateFails(failed)
        \/ \E cmd \in {"Neutral", "Servo"} : SendMitStale(cmd, failed)
        \/ \E cmd \in {"Neutral", "Servo"}, some \in SUBSET Joint :
               SendMitFails(cmd, some, failed)
        \/ CheckActiveReferences(failed)
        \/ DisableAll(failed)
        \/ LatchControlFault(failed)

WireStep ==
    \/ \E b \in Bus : Transmit(b)
    \/ \E j \in Joint :
        \/ DriveActs(j) \/ DriveReports(j) \/ DriveReboots(j) \/ DriveDies(j)
        \/ \E m \in DriveMode : DriveSends(j, m)

Next == SupervisorStep \/ StopStep \/ WireStep \/ Tick

Spec == Init /\ [][Next]_vars

(***************************************************************************)
(* The control loop drains and commands in every period, a drain and the   *)
(* sync end, drives act and answer, and time passes.  A drain interrupts   *)
(* the other steps only in the model, hence strong fairness.  The wire is  *)
(* not assumed to carry anything: Transmit has no fairness.                *)
(***************************************************************************)
DrainStep ==
    \/ \E offs, wave \in SUBSET Joint : Poll(offs, wave)
    \/ \E offs, wave \in SUBSET Joint, failed \in StopFailures :
           PollWriteFails(offs, wave, failed)
ReadStep ==
    \E b \in Bus :
        \/ ReadEnableEcho(b) \/ ReadOffEcho(b) \/ ReadZeroEcho(b)
        \/ \E j \in Joint :
            ReadStatus(b, j) \/ \E class \in {"DriveState", "Device"} : ReadHazard(b, j, class)
ReturnStep ==
    \/ DrainReturns \/ Activate \/ (pc = "sync" /\ SyncReporting)
    \/ \E offs \in SUBSET Joint : OpenGate(offs)
    \/ \E failed \in StopFailures : DrainStops(failed) \/ ActivateFails(failed)
CommandStep ==
    \E cmd \in {"Neutral", "Servo"} :
        \/ SendMit(cmd)
        \/ \E failed \in StopFailures :
            \/ SendMitStale(cmd, failed)
            \/ \E some \in SUBSET Joint : SendMitFails(cmd, some, failed)

FairSpec ==
    /\ Spec
    /\ SF_vars(DrainStep) /\ WF_vars(ReadStep) /\ WF_vars(ReturnStep)
    /\ SF_vars(CommandStep) /\ SF_vars(Tick)
    /\ \A j \in Joint :
        SF_vars(DriveActs(j)) /\ SF_vars(\E m \in DriveMode : DriveSends(j, m))

------------------------------------------------------------------------------
(***************************************************************************)
(* A latched fault never coexists with an Active session or a grant once   *)
(* the call that latched it has returned.                                  *)
(***************************************************************************)
LatchedMeansStopped ==
    Latched /\ pc # "reading" => mode = "Disabled" /\ granted = {}

(***************************************************************************)
(* A session pose exists only for a drive that acted on this session's own *)
(* Enable: neither an earlier session's Run frame nor an early report      *)
(* becomes the pose motion is computed from.                               *)
(***************************************************************************)
PoseFollowsEnable == mode = "Active" => posed \cap active \subseteq ran

(***************************************************************************)
(* A healthy drive never trips the session: DriveState is latched only if  *)
(* some drive really fell back to Reset.                                   *)
(***************************************************************************)
NoFalseTrip == fault = "DriveState" => rebooted

(***************************************************************************)
(* Once nothing is in flight, a drive still in Run outside a session is    *)
(* covered by a latched fault: no stop leaves a drive enabled unnoticed.   *)
(***************************************************************************)
Quiescent ==
    /\ \A b \in Bus : tx[b] = <<>>
    /\ \A j \in Joint : inbox[j] = <<>>
NoUnnoticedRun ==
    Quiescent /\ mode = "Disabled" /\ ~Latched =>
        \A j \in Joint \ dead : driveMode[j] = "Reset"

(***************************************************************************)
(* No type-24 write and no Enable reaches a drive in its post-SetZero      *)
(* blackout, where it would be dropped (its echo would still be read).     *)
(***************************************************************************)
GateAvoidsBlackout ==
    \A b \in Bus : tx[b] # <<>> =>
        LET f == Head(tx[b])
        IN f.cmd \in {"Off", "On", "Enable"} => \A j \in f.to : ~InBlackout(j)

(***************************************************************************)
(* Servo effort is written only to drives that acted on this session's     *)
(* Enable, for every Active joint, and only while every grant is held.     *)
(***************************************************************************)
ServoNeedsSession ==
    [][\A b \in Bus, S \in SUBSET Joint :
        (pc = "idle" /\ pc' = "idle"
         /\ tx'[b] = Append(tx[b], [cmd |-> "Servo", to |-> S]))
            => active \subseteq ran /\ active \subseteq granted]_vars

(***************************************************************************)
(* Whatever the wire does with the Off and the Enable, a session does not  *)
(* stay half open: every target's Enable is read back, or the session ends.*)
(***************************************************************************)
EchoDecides ==
    (mode = "Active" /\ echoPending # {}) ~> (echoPending = {} \/ mode = "Disabled")

(***************************************************************************)
(* A drive of the session that falls silent ends the session, although its *)
(* own last pose stays on record.                                          *)
(***************************************************************************)
SilentDriveStops ==
    \A j \in Joint : (mode = "Active" /\ j \in active \cap dead) ~> (mode = "Disabled")
==============================================================================
