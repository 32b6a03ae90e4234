------------------------- MODULE EnableSessionProofs -------------------------
(***************************************************************************)
(* A latched fault and a session or a grant never outlive the call that    *)
(* latched the fault, what a session pose, a servo batch and a stop may be *)
(* trusted for, and that a healthy drive never trips the session, for any  *)
(* set of drives, interfaces and bounds.                                   *)
(***************************************************************************)
EXTENDS EnableSession, TLAPS

(***************************************************************************)
(* The strengthening.  Inside a drain a fault may be latched while the     *)
(* session still stands: the drain then remembers that it must stop.  An   *)
(* enable in progress has targets, so a drain that revoked every grant     *)
(* cannot end in an activation.                                            *)
(***************************************************************************)
EnableHasTargets == cont # "none" => targets # {}
LatchedIsStopping ==
    Latched => (mode = "Disabled" /\ granted = {}) \/ (pc = "reading" /\ transition)
LatchInv == EnableHasTargets /\ LatchedIsStopping

\* Every way to stop leaves the supervisor stopped.
LEMMA StopStops ==
    ASSUME NEW q, NEW class, NEW failed, PerformStop(q, class, failed)
    PROVE  LatchInv'
<1>1. cont' = "none" /\ mode' = "Disabled"
  BY DEF PerformStop
<1>2. fault' # "none" => granted' = {}
  BY DEF PerformStop
<1> QED
  BY <1>1, <1>2 DEF LatchInv, EnableHasTargets, LatchedIsStopping, Latched

\* A step that touches neither the fault, the grants, the mode nor the call.
LEMMA UntouchedKeeps ==
    ASSUME LatchInv,
           UNCHANGED <<pc, cont, targets, transition, mode, fault, granted>>
    PROVE  LatchInv'
BY DEF LatchInv, EnableHasTargets, LatchedIsStopping, Latched

\* Nothing is latched at the start.
LEMMA LatchInvInit == Init => LatchInv
BY DEF Init, LatchInv, EnableHasTargets, LatchedIsStopping, Latched

\* One step per action of the supervisor that does not stop.
LEMMA SupervisorKeeps == ASSUME LatchInv, SupervisorStep PROVE LatchInv'
<1> USE DEF LatchInv, EnableHasTargets, LatchedIsStopping, Latched
<1>1. CASE SyncReporting
  BY <1>1 DEF SyncReporting, sessionVars, authorityVars
<1>2. ASSUME NEW offs, NEW wave, Poll(offs, wave) PROVE LatchInv'
  BY <1>2 DEF Poll, authorityVars
<1>3. ASSUME NEW b, ReadEnableEcho(b) \/ ReadOffEcho(b) \/ ReadZeroEcho(b) PROVE LatchInv'
  BY <1>3, UntouchedKeeps
     DEF ReadEnableEcho, ReadOffEcho, ReadZeroEcho, callVars, sessionVars, authorityVars
<1>4. ASSUME NEW b, NEW j, ReadStatus(b, j) PROVE LatchInv'
  BY <1>4, UntouchedKeeps DEF ReadStatus, callVars, sessionVars, authorityVars
<1>5. ASSUME NEW b, NEW j, NEW class, ReadHazard(b, j, class) PROVE LatchInv'
  <2>1. pc' = "reading" /\ UNCHANGED <<cont, targets, mode, granted>>
    BY <1>5 DEF ReadHazard, Reads, sessionVars
  <2>2. CASE Latched
    <3>1. transition => transition'
      BY <1>5 DEF ReadHazard
    <3> QED  BY <2>1, <2>2, <3>1
  <2>3. CASE ~Latched
    <3>1. transition'
      BY <1>5, <2>3 DEF ReadHazard
    <3> QED  BY <2>1, <3>1
  <2> QED  BY <2>2, <2>3
<1>6. CASE ReadFails
  BY <1>6 DEF ReadFails, sessionVars
<1>7. CASE DrainReturns
  BY <1>7 DEF DrainReturns, MustStop, sessionVars, authorityVars
<1>8. ASSUME NEW T, EnableTargets(T) PROVE LatchInv'
  BY <1>8 DEF EnableTargets, sessionVars, authorityVars
<1>9. ASSUME NEW offs, OpenGate(offs) PROVE LatchInv'
  BY <1>9 DEF OpenGate, GateReady, MustStop, authorityVars
<1>10. CASE Activate
  <2>1. targets # {} /\ targets \subseteq granted /\ ~transition
    BY <1>10 DEF Activate, MustStop
  <2>2. ~Latched
    BY <2>1
  <2> QED  BY <1>10, <2>2 DEF Activate, authorityVars
<1>11. ASSUME NEW cmd, SendMit(cmd) PROVE LatchInv'
  BY <1>11, UntouchedKeeps DEF SendMit, callVars, sessionVars, authorityVars
<1>12. ASSUME NEW j, SetZero(j) \/ Grant(j) \/ Revoke(j) PROVE LatchInv'
  <2>1. UNCHANGED <<pc, cont, targets, transition, mode, fault>>
    BY <1>12 DEF SetZero, Grant, Revoke, callVars, sessionVars
  <2>2. Latched => granted' \subseteq granted
    BY <1>12 DEF SetZero, Grant, Revoke
  <2> QED  BY <2>1, <2>2
<1> QED
  BY <1>1, <1>2, <1>3, <1>4, <1>5, <1>6, <1>7, <1>8, <1>9, <1>10, <1>11, <1>12
  DEF SupervisorStep

\* The actions that stop.
LEMMA StopStepKeeps == ASSUME StopStep PROVE LatchInv'
<1>1. PICK failed \in StopFailures :
        \/ \E offs, wave \in SUBSET Joint : PollWriteFails(offs, wave, failed)
        \/ DrainStops(failed)
        \/ \E offs \in SUBSET Joint : GateWriteFails(offs, failed)
        \/ ActivateFails(failed)
        \/ \E cmd \in {"Neutral", "Servo"} : SendMitStale(cmd, failed)
        \/ \E cmd \in {"Neutral", "Servo"}, some \in SUBSET Joint :
               SendMitFails(cmd, some, failed)
        \/ CheckActiveReferences(failed)
        \/ DisableAll(failed)
        \/ LatchControlFault(failed)
  BY DEF StopStep
<1>2. \E q, class : PerformStop(q, class, failed)
  BY <1>1 DEF PollWriteFails, DrainStops, GateWriteFails, ActivateFails, SendMitStale,
              SendMitFails, CheckActiveReferences, DisableAll, LatchControlFault
<1> QED  BY <1>2, StopStops

\* The wire, the drives and time touch no supervisor state.
LEMMA WireKeeps == ASSUME LatchInv, WireStep \/ Tick PROVE LatchInv'
<1>1. ASSUME NEW b, Transmit(b) PROVE LatchInv'
  BY <1>1, UntouchedKeeps DEF Transmit, callVars, sessionVars, authorityVars
<1>2. ASSUME NEW j, DriveActs(j) \/ DriveReports(j) \/ DriveReboots(j) \/ DriveDies(j)
      PROVE  LatchInv'
  BY <1>2, UntouchedKeeps
     DEF DriveActs, DriveReports, DriveReboots, DriveDies, callVars, sessionVars, authorityVars
<1>3. ASSUME NEW j, NEW m, DriveSends(j, m) PROVE LatchInv'
  BY <1>3, UntouchedKeeps DEF DriveSends, callVars, sessionVars, authorityVars
<1>4. CASE Tick
  BY <1>4, UntouchedKeeps DEF Tick, callVars, authorityVars
<1> QED  BY <1>1, <1>2, <1>3, <1>4 DEF WireStep

(***************************************************************************)
(* Once the call that latched a fault has returned, no session is Active   *)
(* and no grant is left, whatever was being enabled, read or commanded.    *)
(***************************************************************************)
THEOREM LatchStops == Spec => []LatchedMeansStopped
<1>1. LatchInv /\ [Next]_vars => LatchInv'
  <2> SUFFICES ASSUME LatchInv, [Next]_vars PROVE LatchInv'
    OBVIOUS
  <2>1. CASE UNCHANGED vars
    BY <2>1, UntouchedKeeps DEF vars, callVars, sessionVars, authorityVars
  <2> QED
    BY <2>1, SupervisorKeeps, StopStepKeeps, WireKeeps DEF Next
<1>2. LatchInv => LatchedMeansStopped
  BY DEF LatchInv, LatchedIsStopping, LatchedMeansStopped
<1> QED
  BY LatchInvInit, <1>1, <1>2, PTL DEF Spec

------------------------------------------------------------------------------
\* What Queue returns: each interface's queue grows by at most one group.
LEMMA QueueType ==
    ASSUME NEW q \in [Bus -> Seq(Group)], NEW cmd \in Command, NEW S \in SUBSET Joint
    PROVE  Queue(q, cmd, S) \in [Bus -> Seq(Group)]
<1>1. \A b \in Bus : [cmd |-> cmd, to |-> On(b, S)] \in Group
  BY DEF Group, On
<1> QED BY <1>1 DEF Queue

\* The wire, the drives and time.
LEMMA TypeWire == ASSUME TypeOK, WireStep \/ Tick PROVE TypeOK'
<1> USE SessionAssumption DEF SessionAssumption
<1>1. ASSUME NEW b \in Bus, Transmit(b) PROVE TypeOK'
  <2>1. /\ tx[b] \in Seq(Group) /\ Head(tx[b]) \in Group /\ Tail(tx[b]) \in Seq(Group)
    BY <1>1 DEF TypeOK, Transmit
  <2>2. inbox' \in [Joint -> Seq(Command)]
    BY <1>1, <2>1 DEF TypeOK, Transmit, Group
  <2>3. tx' \in [Bus -> Seq(Group)]
    BY <1>1, <2>1 DEF TypeOK, Transmit
  <2>4. rx' \in [Bus -> Seq(Received)]
    <3>1. Head(tx[b]).cmd \in Echoed =>
            [kind |-> Head(tx[b]).cmd, from |-> Head(tx[b]).to, mode |-> "Reset"] \in Received
      BY <2>1 DEF Group, Received, DriveMode
    <3> QED BY <1>1, <3>1 DEF TypeOK, Transmit
  <2> QED BY <1>1, <2>2, <2>3, <2>4
          DEF TypeOK, Transmit, callVars, sessionVars, authorityVars, poseVars, reportingVars
<1>2. ASSUME NEW j \in Joint, DriveActs(j) PROVE TypeOK'
  <2>1. /\ Head(inbox[j]) \in Command /\ inbox' \in [Joint -> Seq(Command)]
    BY <1>2 DEF TypeOK, DriveActs
  <2>2. /\ driveMode' \in [Joint -> DriveMode] /\ out' \in [Joint -> SUBSET DriveMode]
    BY <1>2, <2>1 DEF TypeOK, DriveActs, DriveMode
  <2>3. /\ streaming' \subseteq Joint /\ ran' \subseteq Joint
    BY <1>2 DEF TypeOK, DriveActs
  <2>4. driveZero' \in [Joint -> 0 .. Quiet]
    BY <1>2 DEF TypeOK, DriveActs
  <2> QED BY <1>2, <2>1, <2>2, <2>3, <2>4
          DEF TypeOK, DriveActs, callVars, sessionVars, authorityVars, poseVars, reportingVars
<1>3. ASSUME NEW j \in Joint, DriveReports(j) PROVE TypeOK'
  <2>1. out' \in [Joint -> SUBSET DriveMode] /\ reported' \subseteq Joint
    BY <1>3 DEF TypeOK, DriveReports
  <2> QED BY <1>3, <2>1
          DEF TypeOK, DriveReports, callVars, sessionVars, authorityVars, poseVars, reportingVars
<1>4. ASSUME NEW j \in Joint, NEW m \in DriveMode, DriveSends(j, m) PROVE TypeOK'
  <2>1. out' \in [Joint -> SUBSET DriveMode]
    BY <1>4 DEF TypeOK, DriveSends
  <2>2. rx' \in [Bus -> Seq(Received)]
    <3>1. [kind |-> "Status", from |-> {j}, mode |-> m] \in Received
      BY DEF Received
    <3> QED BY <1>4, <3>1 DEF TypeOK, DriveSends
  <2> QED BY <1>4, <2>1, <2>2
          DEF TypeOK, DriveSends, callVars, sessionVars, authorityVars, poseVars, reportingVars
<1>5. ASSUME NEW j \in Joint, DriveReboots(j) PROVE TypeOK'
  <2>1. driveMode' \in [Joint -> DriveMode]
    BY <1>5 DEF TypeOK, DriveReboots, DriveMode
  <2>2. rebooted' \in BOOLEAN
    BY <1>5, Zenon DEF DriveReboots
  <2> QED BY <1>5, <2>1, <2>2
          DEF TypeOK, DriveReboots, callVars, sessionVars, authorityVars, poseVars, reportingVars
<1>6. ASSUME NEW j \in Joint, DriveDies(j) PROVE TypeOK'
  <2>1. /\ dead' \subseteq Joint /\ inbox' \in [Joint -> Seq(Command)]
        /\ out' \in [Joint -> SUBSET DriveMode]
    BY <1>6 DEF TypeOK, DriveDies
  <2> QED BY <1>6, <2>1
          DEF TypeOK, DriveDies, callVars, sessionVars, authorityVars, poseVars, reportingVars
<1>7. CASE Tick
  <2>1. sinceActive' \in 0 .. MaxActiveAge
    BY <1>7 DEF TypeOK, Tick, Older, MaxActiveAge
  <2>2. zeroAge' \in [Joint -> 0 .. MaxZeroAge]
    BY <1>7 DEF TypeOK, Tick, Older, MaxZeroAge
  <2>3. driveZero' \in [Joint -> 0 .. Quiet]
    BY <1>7 DEF TypeOK, Tick, Older
  <2>4. solicitAge' \in [Joint -> {Never} \cup 0 .. Watchdog + 1]
    BY <1>7 DEF TypeOK, Tick, Older, Never
  <2>5. offEchoAge' \in [Joint -> {Never, 0, 1}]
    BY <1>7 DEF TypeOK, Tick
  <2>6. staggered' \in BOOLEAN /\ batchSent' \in BOOLEAN
    BY <1>7, Zenon DEF Tick
  <2> QED BY <1>7, <2>1, <2>2, <2>3, <2>4, <2>5, <2>6
          DEF TypeOK, Tick, callVars, authorityVars
<1> QED BY <1>1, <1>2, <1>3, <1>4, <1>5, <1>6, <1>7 DEF WireStep

\* Every way to stop.
LEMMA TypeStop ==
    ASSUME TypeOK, NEW q \in [Bus -> Seq(Group)], NEW class \in Faults, NEW failed \in SUBSET Joint,
           PerformStop(q, class, failed),
           applied' \subseteq Joint, offWritten' \subseteq Joint, slotUsed' \subseteq Bus,
           UNCHANGED <<poseVars, zeroAge, batchSent, rx, driveVars>>
    PROVE  TypeOK'
<1>1. fault' \in Faults /\ granted' \subseteq Joint
  BY DEF TypeOK, PerformStop, StopFault, Faults, Latched
<1>2. tx' \in [Bus -> Seq(Group)]
  BY QueueType DEF PerformStop, Command
<1>3. /\ staggered' \in BOOLEAN /\ gateOpen' \in BOOLEAN /\ transition' \in BOOLEAN
      /\ lost' \in BOOLEAN
  BY Zenon DEF PerformStop
<1>4. /\ offEchoAge' \in [Joint -> {Never, 0, 1}] /\ sinceActive' \in 0 .. MaxActiveAge
  BY SessionAssumption DEF SessionAssumption, PerformStop, MaxActiveAge
<1>5. /\ mode' \in {"Disabled", "Active"} /\ pc' \in {"idle", "reading", "sync"}
      /\ cont' \in {"none", "gate", "activate"} /\ targets' \subseteq Joint /\ active' \subseteq Joint
      /\ echoPending' \subseteq Joint /\ writesPending' \subseteq Joint
  BY DEF PerformStop
<1> QED BY <1>1, <1>2, <1>3, <1>4, <1>5 DEF TypeOK, poseVars, driveVars

\* Every stop keeps the types, whatever stop writes fail.
LEMMA TypeStopStep == ASSUME TypeOK, StopStep PROVE TypeOK'
<1>1. PICK failed \in StopFailures :
        \/ \E offs, wave \in SUBSET Joint : PollWriteFails(offs, wave, failed)
        \/ DrainStops(failed)
        \/ \E offs \in SUBSET Joint : GateWriteFails(offs, failed)
        \/ ActivateFails(failed)
        \/ \E cmd \in {"Neutral", "Servo"} : SendMitStale(cmd, failed)
        \/ \E cmd \in {"Neutral", "Servo"}, some \in SUBSET Joint :
               SendMitFails(cmd, some, failed)
        \/ CheckActiveReferences(failed)
        \/ DisableAll(failed)
        \/ LatchControlFault(failed)
  BY DEF StopStep
<1>2. failed \in SUBSET Joint
  BY SessionAssumption DEF SessionAssumption
<1>3. /\ {"none", "EchoOverdue", "Communication", "Transport", "Controller"} \subseteq Faults
      /\ {"Off", "Enable", "Neutral", "Servo"} \subseteq Command
      /\ tx \in [Bus -> Seq(Group)] /\ applied \subseteq Joint /\ offWritten \subseteq Joint
      /\ slotUsed \subseteq Bus
  BY DEF Faults, Command, TypeOK
<1>4. \A S \in SUBSET Joint : {Route[j] : j \in S} \subseteq Bus
  BY SessionAssumption DEF SessionAssumption
<1>5. ASSUME NEW offs \in SUBSET Joint, NEW wave \in SUBSET Joint, PollWriteFails(offs, wave, failed)
      PROVE  TypeOK'
  <2>1. Queue(Queue(tx, "Off", offs), "Enable", wave) \in [Bus -> Seq(Group)]
    BY <1>3, QueueType
  <2>2. /\ PerformStop(Queue(Queue(tx, "Off", offs), "Enable", wave), "Transport", failed)
        /\ applied' \subseteq Joint /\ offWritten' \subseteq Joint /\ slotUsed' \subseteq Bus
        /\ UNCHANGED <<poseVars, zeroAge, batchSent, rx, driveVars>>
    BY <1>3, <1>4, <1>5 DEF PollWriteFails
  <2> QED BY <1>2, <1>3, <2>1, <2>2, TypeStop
<1>6. ASSUME NEW offs \in SUBSET Joint, GateWriteFails(offs, failed) PROVE TypeOK'
  <2>1. Queue(tx, "Off", offs) \in [Bus -> Seq(Group)]
    BY <1>3, QueueType
  <2>2. /\ PerformStop(Queue(tx, "Off", offs), "Transport", failed)
        /\ applied' \subseteq Joint /\ offWritten' \subseteq Joint /\ slotUsed' \subseteq Bus
        /\ UNCHANGED <<poseVars, zeroAge, batchSent, rx, driveVars>>
    BY <1>3, <1>4, <1>6 DEF GateWriteFails
  <2> QED BY <1>2, <1>3, <2>1, <2>2, TypeStop
<1>7. ASSUME NEW cmd \in {"Neutral", "Servo"}, NEW some \in SUBSET Joint,
             SendMitFails(cmd, some, failed)
      PROVE  TypeOK'
  <2>1. Queue(tx, cmd, some) \in [Bus -> Seq(Group)]
    BY <1>3, QueueType
  <2>2. /\ PerformStop(Queue(tx, cmd, some), "Transport", failed)
        /\ UNCHANGED <<applied, offWritten, slotUsed>>
        /\ UNCHANGED <<poseVars, zeroAge, batchSent, rx, driveVars>>
    BY <1>7 DEF SendMitFails, reportingVars
  <2> QED BY <1>2, <1>3, <2>1, <2>2, TypeStop
<1>8. ASSUME \/ DrainStops(failed) \/ ActivateFails(failed)
             \/ \E cmd \in {"Neutral", "Servo"} : SendMitStale(cmd, failed)
             \/ CheckActiveReferences(failed) \/ DisableAll(failed) \/ LatchControlFault(failed)
      PROVE  TypeOK'
  <2>1. PICK class \in Faults : PerformStop(tx, class, failed)
    BY <1>3, <1>8 DEF DrainStops, ActivateFails, SendMitStale, CheckActiveReferences, DisableAll,
           LatchControlFault, OverdueClass
  <2>2. UNCHANGED <<applied, offWritten, slotUsed>> /\ UNCHANGED <<poseVars, zeroAge, batchSent, rx, driveVars>>
    BY <1>8 DEF DrainStops, ActivateFails, SendMitStale, CheckActiveReferences, DisableAll,
           LatchControlFault, reportingVars
  <2> QED BY <1>2, <1>3, <2>1, <2>2, TypeStop
<1> QED BY <1>1, <1>5, <1>6, <1>7, <1>8

\* The supervisor's other steps.
LEMMA TypeSupervisor == ASSUME TypeOK, SupervisorStep PROVE TypeOK'
<1> USE SessionAssumption DEF SessionAssumption
<1>1. /\ {"Off", "On", "Enable", "SetZero", "Neutral", "Servo"} \subseteq Command
      /\ tx \in [Bus -> Seq(Group)] /\ applied \subseteq Joint /\ offWritten \subseteq Joint
      /\ slotUsed \subseteq Bus /\ {"DriveState", "Device", "Transport"} \subseteq Faults
  BY DEF Command, TypeOK, Faults
<1>2. \A S \in SUBSET Joint : {Route[j] : j \in S} \subseteq Bus
  OBVIOUS
<1>3. \A S : Asked(S) \in [Joint -> {Never} \cup 0 .. Watchdog + 1]
  BY DEF TypeOK, Asked
<1>4. CASE SyncReporting
  <2>1. PICK W \in SUBSET Joint :
          LET ons == {j \in W : Desired(j)}
          IN /\ tx' = Queue(Queue(tx, "Off", W \ ons), "On", ons)
             /\ applied' = (applied \cup ons) \ (W \ ons)
             /\ offWritten' = (offWritten \cup (W \ ons)) \ ons
             /\ slotUsed' = slotUsed \cup {Route[j] : j \in W}
    BY <1>4 DEF SyncReporting, Waves, SyncDue
  <2> DEFINE ons == {j \in W : Desired(j)}
  <2>2. ons \in SUBSET Joint /\ W \ ons \in SUBSET Joint
    OBVIOUS
  <2> HIDE DEF ons
  <2>3. Queue(Queue(tx, "Off", W \ ons), "On", ons) \in [Bus -> Seq(Group)]
    BY <1>1, <2>2, QueueType
  <2>4. /\ tx' \in [Bus -> Seq(Group)] /\ applied' \subseteq Joint /\ offWritten' \subseteq Joint
        /\ slotUsed' \subseteq Bus
    BY <1>1, <1>2, <2>1, <2>2, <2>3 DEF ons
  <2> QED BY <1>4, <2>4
          DEF TypeOK, SyncReporting, sessionVars, authorityVars, poseVars, driveVars
<1>5. ASSUME NEW offs \in SUBSET Joint, NEW wave \in SUBSET Joint, Poll(offs, wave) PROVE TypeOK'
  <2>1. Queue(Queue(tx, "Off", offs), "Enable", wave) \in [Bus -> Seq(Group)]
    BY <1>1, QueueType
  <2>2. lost' \in BOOLEAN /\ staggered' \in BOOLEAN
    BY <1>5, Zenon DEF Poll, TypeOK
  <2>3. /\ tx' \in [Bus -> Seq(Group)] /\ applied' \subseteq Joint /\ offWritten' \subseteq Joint
        /\ slotUsed' \subseteq Bus /\ writesPending' \subseteq Joint
        /\ solicitAge' \in [Joint -> {Never} \cup 0 .. Watchdog + 1]
    BY <1>1, <1>2, <1>3, <1>5, <2>1 DEF Poll, TypeOK
  <2> QED BY <1>5, <2>2, <2>3 DEF TypeOK, Poll, authorityVars, driveVars
<1>6. \A b \in Bus : rx[b] # <<>> => Rest(b) \in [Bus -> Seq(Received)]
  BY DEF TypeOK, Rest
<1>7. ASSUME NEW b \in Bus, ReadEnableEcho(b) \/ ReadOffEcho(b) \/ ReadZeroEcho(b) PROVE TypeOK'
  <2>1. rx' \in [Bus -> Seq(Received)]
    BY <1>6, <1>7 DEF ReadEnableEcho, ReadOffEcho, ReadZeroEcho, Reads
  <2>2. CASE ReadEnableEcho(b)
    BY <2>1, <2>2 DEF TypeOK, ReadEnableEcho, callVars, authorityVars, poseVars, reportingVars, driveVars
  <2>3. CASE ReadOffEcho(b)
    <3>1. offEchoAge' \in [Joint -> {Never, 0, 1}]
      BY <2>3 DEF TypeOK, ReadOffEcho
    <3> QED BY <2>1, <2>3, <3>1
            DEF TypeOK, ReadOffEcho, callVars, authorityVars, poseVars, reportingVars, driveVars
  <2>4. CASE ReadZeroEcho(b)
    <3>1. zeroAge' \in [Joint -> 0 .. MaxZeroAge]
      BY <2>4 DEF TypeOK, ReadZeroEcho, MaxZeroAge
    <3> QED BY <2>1, <2>4, <3>1
            DEF TypeOK, ReadZeroEcho, callVars, sessionVars, authorityVars, poseVars, reportingVars,
                driveVars
  <2> QED BY <1>7, <2>2, <2>3, <2>4
<1>8. ASSUME NEW b \in Bus, NEW j \in Joint, ReadStatus(b, j) PROVE TypeOK'
  <2>1. rx' \in [Bus -> Seq(Received)] /\ posed' \subseteq Joint
    BY <1>6, <1>8 DEF ReadStatus, Reads, TypeOK
  <2>2. solicitAge' \in [Joint -> {Never} \cup 0 .. Watchdog + 1]
    BY <1>8 DEF ReadStatus, TypeOK
  <2> QED BY <1>8, <2>1, <2>2, SMTT(30)
          DEF TypeOK, ReadStatus, callVars, sessionVars, authorityVars, reportingVars, driveVars
<1>9. ASSUME NEW b \in Bus, NEW j \in Joint, NEW class \in {"DriveState", "Device"},
             ReadHazard(b, j, class)
      PROVE  TypeOK'
  <2>1. rx' \in [Bus -> Seq(Received)] /\ fault' \in Faults
    BY <1>1, <1>6, <1>9 DEF ReadHazard, Reads, TypeOK, Record
  <2>2. transition' \in BOOLEAN
    BY <1>9, Zenon DEF ReadHazard
  <2> QED BY <1>9, <2>1, <2>2
          DEF TypeOK, ReadHazard, sessionVars, poseVars, reportingVars, driveVars
<1>10. CASE ReadFails
  <2>1. fault' \in Faults
    BY <1>1, <1>10 DEF ReadFails, TypeOK, Record
  <2>2. transition' \in BOOLEAN
    BY <1>10, Zenon DEF ReadFails
  <2> QED BY <1>10, <2>1, <2>2 DEF TypeOK, ReadFails, sessionVars, poseVars, reportingVars, driveVars
<1>11. CASE DrainReturns
  <2>1. lost' \in BOOLEAN
    BY <1>11, Zenon DEF DrainReturns
  <2> QED BY <1>11, <2>1
          DEF TypeOK, DrainReturns, sessionVars, authorityVars, poseVars, reportingVars, driveVars
<1>12. ASSUME NEW T \in SUBSET Joint, EnableTargets(T) PROVE TypeOK'
  BY <1>12 DEF TypeOK, EnableTargets, sessionVars, authorityVars, poseVars, reportingVars, driveVars
<1>13. ASSUME NEW offs \in SUBSET Joint, OpenGate(offs) PROVE TypeOK'
  <2>1. gateOpen' \in BOOLEAN
    BY <1>13, Zenon DEF OpenGate
  <2>2. /\ tx' \in [Bus -> Seq(Group)] /\ applied' \subseteq Joint /\ offWritten' \subseteq Joint
        /\ slotUsed' \subseteq Bus /\ writesPending' \subseteq Joint /\ echoPending' \subseteq Joint
        /\ offEchoAge' \in [Joint -> {Never, 0, 1}]
    BY <1>1, <1>2, <1>13, QueueType DEF OpenGate, TypeOK
  <2> QED BY <1>13, <2>1, <2>2 DEF TypeOK, OpenGate, authorityVars, poseVars, driveVars
<1>14. CASE Activate
  <2>1. staggered' \in BOOLEAN
    BY <1>14, Zenon DEF Activate
  <2>2. sinceActive' \in 0 .. MaxActiveAge /\ solicitAge' \in [Joint -> {Never} \cup 0 .. Watchdog + 1]
    BY <1>14 DEF Activate, MaxActiveAge
  <2> QED BY <1>14, <2>1, <2>2 DEF TypeOK, Activate, authorityVars, reportingVars
<1>15. ASSUME NEW cmd \in {"Neutral", "Servo"}, SendMit(cmd) PROVE TypeOK'
  <2>1. batchSent' \in BOOLEAN
    BY <1>15, Zenon DEF SendMit
  <2>2. tx' \in [Bus -> Seq(Group)] /\ solicitAge' \in [Joint -> {Never} \cup 0 .. Watchdog + 1]
    BY <1>1, <1>3, <1>15, QueueType DEF SendMit, TypeOK
  <2> QED BY <1>15, <2>1, <2>2
          DEF TypeOK, SendMit, callVars, sessionVars, authorityVars, reportingVars, driveVars
<1>16. ASSUME NEW j \in Joint, SetZero(j) PROVE TypeOK'
  <2>1. zeroAge' \in [Joint -> 0 .. MaxZeroAge]
    BY <1>16 DEF SetZero, TypeOK, MaxZeroAge
  <2>2. tx' \in [Bus -> Seq(Group)] /\ granted' \subseteq Joint
    BY <1>1, <1>16, QueueType, ZenonT(30) DEF SetZero, TypeOK
  <2> QED BY <1>16, <2>1, <2>2
          DEF TypeOK, SetZero, callVars, sessionVars, poseVars, reportingVars, driveVars
<1>17. ASSUME NEW j \in Joint, Grant(j) \/ Revoke(j) PROVE TypeOK'
  BY <1>17 DEF TypeOK, Grant, Revoke, callVars, sessionVars, poseVars, reportingVars, driveVars
<1> QED
  BY <1>4, <1>5, <1>7, <1>8, <1>9, <1>10, <1>11, <1>12, <1>13, <1>14, <1>15, <1>16, <1>17
     DEF SupervisorStep

(***************************************************************************)
(* Type correctness: every queue holds frames of the protocol, every age   *)
(* stays within its saturation bound, for all parameters.                  *)
(***************************************************************************)
THEOREM TypeCorrect == Spec => []TypeOK
<1>1. Init => TypeOK
  <2> SUFFICES ASSUME Init PROVE TypeOK
    OBVIOUS
  <2>1. /\ transition \in BOOLEAN /\ lost \in BOOLEAN /\ staggered \in BOOLEAN
        /\ gateOpen \in BOOLEAN /\ batchSent \in BOOLEAN /\ rebooted \in BOOLEAN
    BY Zenon DEF Init
  <2>2. /\ sinceActive \in 0 .. MaxActiveAge /\ zeroAge \in [Joint -> 0 .. MaxZeroAge]
        /\ driveZero \in [Joint -> 0 .. Quiet] /\ offEchoAge \in [Joint -> {Never, 0, 1}]
        /\ solicitAge \in [Joint -> {Never} \cup 0 .. Watchdog + 1]
    BY SessionAssumption DEF SessionAssumption, Init, MaxActiveAge, MaxZeroAge
  <2>3. /\ tx \in [Bus -> Seq(Group)] /\ rx \in [Bus -> Seq(Received)]
        /\ inbox \in [Joint -> Seq(Command)] /\ out \in [Joint -> SUBSET DriveMode]
        /\ driveMode \in [Joint -> DriveMode]
    BY DEF Init, DriveMode
  <2> QED BY <2>1, <2>2, <2>3 DEF TypeOK, Init, Faults
<1>2. TypeOK /\ [Next]_vars => TypeOK'
  <2> SUFFICES ASSUME TypeOK, [Next]_vars PROVE TypeOK'
    OBVIOUS
  <2>1. CASE UNCHANGED vars
    BY <2>1 DEF TypeOK, vars, callVars, sessionVars, authorityVars, poseVars, reportingVars,
           driveVars
  <2> QED BY <2>1, TypeSupervisor, TypeStopStep, TypeWire DEF Next
<1> QED BY <1>1, <1>2, PTL DEF Spec

------------------------------------------------------------------------------
(***************************************************************************)
(* What a session pose, a servo batch and a stop may be trusted for, for   *)
(* any set of drives and interfaces, any queue bounds and any wire: no     *)
(* prompt wire and no prompt drain are assumed, drives may die or reboot,  *)
(* and stop writes may fail.                                               *)
(***************************************************************************)
(***************************************************************************)
(* Frames for one drive in a transmit queue, and what is read back of it.  *)
(***************************************************************************)
Frame(g, c, j) == g.cmd = c /\ j \in g.to
Queued(q, c, j) == \E k \in 1 .. Len(q) : Frame(q[k], c, j)
Heard(r, c, j) == r.kind = c /\ j \in r.from
EchoIn(q, c, j) == \E k \in 1 .. Len(q) : Heard(q[k], c, j)
RunReport(r, j) == Heard(r, "Status", j) /\ r.mode = "Run"
RunIn(q, j) == \E k \in 1 .. Len(q) : RunReport(q[k], j)

\* Every Enable is followed by a Stop.
EnablesStopped(q, j) ==
    \A k \in 1 .. Len(q) : Frame(q[k], "Enable", j) =>
        \E s \in 1 .. Len(q) : k < s /\ Frame(q[s], "Stop", j)
\* Every SetZero is preceded by a Stop.
ZeroesStopped(q, j) ==
    \A l \in 1 .. Len(q) : Frame(q[l], "SetZero", j) =>
        \E s \in 1 .. Len(q) : s < l /\ Frame(q[s], "Stop", j)
\* A SetZero follows every Enable, with a Stop in between.
ZeroesLast(q, j) ==
    \A k, l \in 1 .. Len(q) : Frame(q[k], "Enable", j) /\ Frame(q[l], "SetZero", j) =>
        k < l /\ \E s \in 1 .. Len(q) : k < s /\ s < l /\ Frame(q[s], "Stop", j)
\* No report of Run is behind an echo of Enable.
RunsLead(q, j) ==
    \A i, e \in 1 .. Len(q) : RunReport(q[i], j) /\ e < i => ~Heard(q[e], "Enable", j)

\* As far as the drive's state goes, `r' is no worse a queue than `p'.
Like(p, r, j) ==
    /\ \A c \in {"Enable", "SetZero", "Stop"} : Queued(r, c, j) <=> Queued(p, c, j)
    /\ EnablesStopped(p, j) => EnablesStopped(r, j)
    /\ ZeroesStopped(p, j) => ZeroesStopped(r, j)
    /\ ZeroesLast(p, j) => ZeroesLast(r, j)

\* A frame is appended.
LEMMA Appended ==
    ASSUME NEW G, NEW q \in Seq(G), NEW g \in G, NEW j
    PROVE  LET r == Append(q, g)
           IN /\ \A c : Queued(r, c, j) <=> Queued(q, c, j) \/ Frame(g, c, j)
              /\ EnablesStopped(q, j) /\ ~Frame(g, "Enable", j) => EnablesStopped(r, j)
              /\ Frame(g, "Stop", j) => EnablesStopped(r, j)
              /\ ZeroesStopped(q, j) /\ (Frame(g, "SetZero", j) => Queued(q, "Stop", j))
                    => ZeroesStopped(r, j)
              /\ /\ ZeroesLast(q, j)
                 /\ Frame(g, "SetZero", j) => EnablesStopped(q, j)
                 /\ Frame(g, "Enable", j) => ~Queued(q, "SetZero", j)
                 => ZeroesLast(r, j)
<1> DEFINE r == Append(q, g)
<1>1. /\ Len(q) \in Nat /\ Len(r) = Len(q) + 1
      /\ \A k \in 1 .. Len(q) : r[k] = q[k]
      /\ r[Len(q) + 1] = g
  OBVIOUS
<1> HIDE DEF r
<1>2. \A k \in 1 .. Len(r) : (k \in 1 .. Len(q) /\ r[k] = q[k]) \/ (k = Len(r) /\ r[k] = g)
  BY <1>1
<1>3. \A k \in 1 .. Len(q) : k \in 1 .. Len(r) /\ k < Len(r) /\ r[k] = q[k]
  BY <1>1
<1>4. Len(r) \in 1 .. Len(r) /\ r[Len(r)] = g
  BY <1>1
<1>5. \A c : Queued(r, c, j) <=> Queued(q, c, j) \/ Frame(g, c, j)
  BY <1>2, <1>3, <1>4 DEF Queued
<1>6. EnablesStopped(q, j) /\ ~Frame(g, "Enable", j) => EnablesStopped(r, j)
  BY <1>2, <1>3 DEF EnablesStopped
<1>7. Frame(g, "Stop", j) => EnablesStopped(r, j)
  <2>1. Frame(g, "Stop", j) => ~Frame(g, "Enable", j)
    BY DEF Frame
  <2> QED BY <1>2, <1>3, <1>4, <2>1 DEF EnablesStopped
<1>8. ZeroesStopped(q, j) /\ (Frame(g, "SetZero", j) => Queued(q, "Stop", j)) => ZeroesStopped(r, j)
  BY <1>2, <1>3, <1>4 DEF ZeroesStopped, Queued
<1>9. /\ ZeroesLast(q, j)
      /\ Frame(g, "SetZero", j) => EnablesStopped(q, j)
      /\ Frame(g, "Enable", j) => ~Queued(q, "SetZero", j)
      => ZeroesLast(r, j)
  <2> SUFFICES ASSUME ZeroesLast(q, j),
                      Frame(g, "SetZero", j) => EnablesStopped(q, j),
                      Frame(g, "Enable", j) => ~Queued(q, "SetZero", j),
                      NEW k \in 1 .. Len(r), NEW l \in 1 .. Len(r),
                      Frame(r[k], "Enable", j), Frame(r[l], "SetZero", j)
               PROVE  k < l /\ \E s \in 1 .. Len(r) : k < s /\ s < l /\ Frame(r[s], "Stop", j)
    BY DEF ZeroesLast
  <2>1. CASE k \in 1 .. Len(q) /\ l \in 1 .. Len(q)
    BY <1>3, <2>1 DEF ZeroesLast
  <2>2. CASE k \in 1 .. Len(q) /\ l = Len(r)
    <3>1. EnablesStopped(q, j) /\ Frame(q[k], "Enable", j)
      BY <1>3, <1>4, <2>2
    <3> QED BY <1>3, <2>2, <3>1 DEF EnablesStopped
  <2>3. CASE k = Len(r) /\ l \in 1 .. Len(q)
    BY <1>3, <1>4, <2>3 DEF Queued
  <2>4. CASE k = Len(r) /\ l = Len(r)
    BY <1>4, <2>4 DEF Frame
  <2> QED BY <1>2, <2>1, <2>2, <2>3, <2>4
<1> QED BY <1>5, <1>6, <1>7, <1>8, <1>9 DEF r

\* The head leaves.
LEMMA Tailed ==
    ASSUME NEW G, NEW q \in Seq(G), q # <<>>, NEW j
    PROVE  LET r == Tail(q)
               h == Head(q)
           IN /\ \A c : Queued(q, c, j) <=> Queued(r, c, j) \/ Frame(h, c, j)
              /\ EnablesStopped(q, j) => EnablesStopped(r, j)
              /\ EnablesStopped(q, j) /\ Frame(h, "Enable", j) => Queued(r, "Stop", j)
              /\ ZeroesStopped(q, j) /\ ~Frame(h, "Stop", j) => ZeroesStopped(r, j)
              /\ ZeroesStopped(q, j) => ~Frame(h, "SetZero", j)
              /\ ZeroesLast(q, j) => ZeroesLast(r, j)
              /\ ZeroesLast(q, j) /\ Frame(h, "Enable", j) => ZeroesStopped(r, j)
              /\ ZeroesLast(q, j) /\ Frame(h, "SetZero", j) => ~Queued(r, "Enable", j)
<1> DEFINE r == Tail(q)
           h == Head(q)
<1>1. /\ Len(q) \in Nat /\ Len(r) = Len(q) - 1 /\ Len(r) \in Nat
      /\ \A k \in 1 .. Len(r) : r[k] = q[k + 1]
      /\ q[1] = h
  OBVIOUS
<1> HIDE DEF r, h
<1>2. \A k \in 1 .. Len(r) : k + 1 \in 1 .. Len(q) /\ q[k + 1] = r[k] /\ 1 < k + 1
  BY <1>1
<1>3. \A k \in 1 .. Len(q) : (k = 1 /\ q[k] = h) \/ (k - 1 \in 1 .. Len(r) /\ q[k] = r[k - 1] /\ 1 < k)
  BY <1>1
<1>4. 1 \in 1 .. Len(q) /\ q[1] = h
  BY <1>1
<1>5. \A c : Queued(q, c, j) <=> Queued(r, c, j) \/ Frame(h, c, j)
  BY <1>2, <1>3, <1>4 DEF Queued
<1>6. EnablesStopped(q, j) => EnablesStopped(r, j)
  BY <1>2, <1>3 DEF EnablesStopped
<1>7. EnablesStopped(q, j) /\ Frame(h, "Enable", j) => Queued(r, "Stop", j)
  BY <1>3, <1>4 DEF EnablesStopped, Queued
<1>8. ZeroesStopped(q, j) /\ ~Frame(h, "Stop", j) => ZeroesStopped(r, j)
  <2> SUFFICES ASSUME ZeroesStopped(q, j), ~Frame(h, "Stop", j),
                      NEW l \in 1 .. Len(r), Frame(r[l], "SetZero", j)
               PROVE  \E s \in 1 .. Len(r) : s < l /\ Frame(r[s], "Stop", j)
    BY DEF ZeroesStopped
  <2>1. PICK s \in 1 .. Len(q) : s < l + 1 /\ Frame(q[s], "Stop", j)
    BY <1>2 DEF ZeroesStopped
  <2>2. s - 1 \in 1 .. Len(r) /\ Frame(r[s - 1], "Stop", j)
    BY <1>3, <2>1
  <2> QED BY <2>1, <2>2
<1>9. ZeroesStopped(q, j) => ~Frame(h, "SetZero", j)
  BY <1>4 DEF ZeroesStopped
<1>10. ZeroesLast(q, j) => ZeroesLast(r, j)
  <2> SUFFICES ASSUME ZeroesLast(q, j), NEW k \in 1 .. Len(r), NEW l \in 1 .. Len(r),
                      Frame(r[k], "Enable", j), Frame(r[l], "SetZero", j)
               PROVE  k < l /\ \E s \in 1 .. Len(r) : k < s /\ s < l /\ Frame(r[s], "Stop", j)
    BY DEF ZeroesLast
  <2>1. k + 1 < l + 1 /\ \E s \in 1 .. Len(q) : k + 1 < s /\ s < l + 1 /\ Frame(q[s], "Stop", j)
    BY <1>2 DEF ZeroesLast
  <2>2. PICK s \in 1 .. Len(q) : k + 1 < s /\ s < l + 1 /\ Frame(q[s], "Stop", j)
    BY <2>1
  <2>3. s - 1 \in 1 .. Len(r) /\ Frame(r[s - 1], "Stop", j)
    BY <1>3, <2>2
  <2> QED BY <2>1, <2>2, <2>3
<1>11. ZeroesLast(q, j) /\ Frame(h, "Enable", j) => ZeroesStopped(r, j)
  <2> SUFFICES ASSUME ZeroesLast(q, j), Frame(h, "Enable", j),
                      NEW l \in 1 .. Len(r), Frame(r[l], "SetZero", j)
               PROVE  \E s \in 1 .. Len(r) : s < l /\ Frame(r[s], "Stop", j)
    BY DEF ZeroesStopped
  <2>1. PICK s \in 1 .. Len(q) : 1 < s /\ s < l + 1 /\ Frame(q[s], "Stop", j)
    BY <1>2, <1>4 DEF ZeroesLast
  <2>2. s - 1 \in 1 .. Len(r) /\ Frame(r[s - 1], "Stop", j)
    BY <1>3, <2>1
  <2> QED BY <2>1, <2>2
<1>12. ZeroesLast(q, j) /\ Frame(h, "SetZero", j) => ~Queued(r, "Enable", j)
  <2> SUFFICES ASSUME ZeroesLast(q, j), Frame(h, "SetZero", j),
                      NEW k \in 1 .. Len(r), Frame(r[k], "Enable", j)
               PROVE  FALSE
    BY DEF Queued
  <2>1. k + 1 < 1
    BY <1>2, <1>4 DEF ZeroesLast
  <2> QED BY <2>1
<1> QED BY <1>5, <1>6, <1>7, <1>8, <1>9, <1>10, <1>11, <1>12 DEF r, h

\* The same for what was received.
LEMMA HeardAppended ==
    ASSUME NEW G, NEW q \in Seq(G), NEW g \in G, NEW j
    PROVE  LET r == Append(q, g)
           IN /\ \A c : EchoIn(r, c, j) <=> EchoIn(q, c, j) \/ Heard(g, c, j)
              /\ RunIn(r, j) <=> RunIn(q, j) \/ RunReport(g, j)
              /\ RunsLead(q, j) /\ (RunReport(g, j) => ~EchoIn(q, "Enable", j)) => RunsLead(r, j)
<1> DEFINE r == Append(q, g)
<1>1. /\ Len(q) \in Nat /\ Len(r) = Len(q) + 1
      /\ \A k \in 1 .. Len(q) : r[k] = q[k]
      /\ r[Len(q) + 1] = g
  OBVIOUS
<1> HIDE DEF r
<1>2. \A k \in 1 .. Len(r) : (k \in 1 .. Len(q) /\ r[k] = q[k]) \/ (k = Len(r) /\ r[k] = g)
  BY <1>1
<1>3. \A k \in 1 .. Len(q) : k \in 1 .. Len(r) /\ k < Len(r) /\ r[k] = q[k]
  BY <1>1
<1>4. Len(r) \in 1 .. Len(r) /\ r[Len(r)] = g
  BY <1>1
<1>5. \A c : EchoIn(r, c, j) <=> EchoIn(q, c, j) \/ Heard(g, c, j)
  BY <1>2, <1>3, <1>4 DEF EchoIn
<1>6. RunIn(r, j) <=> RunIn(q, j) \/ RunReport(g, j)
  BY <1>2, <1>3, <1>4 DEF RunIn
<1>7. RunsLead(q, j) /\ (RunReport(g, j) => ~EchoIn(q, "Enable", j)) => RunsLead(r, j)
  <2> SUFFICES ASSUME RunsLead(q, j), RunReport(g, j) => ~EchoIn(q, "Enable", j),
                      NEW i \in 1 .. Len(r), NEW e \in 1 .. Len(r), RunReport(r[i], j), e < i
               PROVE  ~Heard(r[e], "Enable", j)
    BY DEF RunsLead
  <2>1. e \in 1 .. Len(q) /\ r[e] = q[e]
    BY <1>2
  <2>2. CASE i \in 1 .. Len(q)
    BY <1>3, <2>1, <2>2 DEF RunsLead
  <2>3. CASE r[i] = g
    BY <2>1, <2>3 DEF EchoIn
  <2> QED BY <1>2, <2>2, <2>3
<1> QED BY <1>5, <1>6, <1>7 DEF r

\* The oldest received frame is read.
LEMMA HeardTailed ==
    ASSUME NEW G, NEW q \in Seq(G), q # <<>>, NEW j
    PROVE  LET r == Tail(q)
               h == Head(q)
           IN /\ \A c : EchoIn(q, c, j) <=> EchoIn(r, c, j) \/ Heard(h, c, j)
              /\ RunIn(q, j) <=> RunIn(r, j) \/ RunReport(h, j)
              /\ RunsLead(q, j) => RunsLead(r, j)
              /\ RunsLead(q, j) /\ Heard(h, "Enable", j) => ~RunIn(r, j)
<1> DEFINE r == Tail(q)
           h == Head(q)
<1>1. /\ Len(q) \in Nat /\ Len(r) = Len(q) - 1 /\ Len(r) \in Nat
      /\ \A k \in 1 .. Len(r) : r[k] = q[k + 1]
      /\ q[1] = h
  OBVIOUS
<1> HIDE DEF r, h
<1>2. \A k \in 1 .. Len(r) : k + 1 \in 1 .. Len(q) /\ q[k + 1] = r[k] /\ 1 < k + 1
  BY <1>1
<1>3. \A k \in 1 .. Len(q) : (k = 1 /\ q[k] = h) \/ (k - 1 \in 1 .. Len(r) /\ q[k] = r[k - 1] /\ 1 < k)
  BY <1>1
<1>4. 1 \in 1 .. Len(q) /\ q[1] = h
  BY <1>1
<1>5. \A c : EchoIn(q, c, j) <=> EchoIn(r, c, j) \/ Heard(h, c, j)
  BY <1>2, <1>3, <1>4 DEF EchoIn
<1>6. RunIn(q, j) <=> RunIn(r, j) \/ RunReport(h, j)
  BY <1>2, <1>3, <1>4 DEF RunIn
<1>7. RunsLead(q, j) => RunsLead(r, j)
  <2> SUFFICES ASSUME RunsLead(q, j),
                      NEW i \in 1 .. Len(r), NEW e \in 1 .. Len(r), RunReport(r[i], j), e < i
               PROVE  ~Heard(r[e], "Enable", j)
    BY DEF RunsLead
  <2>1. /\ i + 1 \in 1 .. Len(q) /\ q[i + 1] = r[i]
        /\ e + 1 \in 1 .. Len(q) /\ q[e + 1] = r[e] /\ e + 1 < i + 1
    BY <1>2
  <2> QED BY <2>1 DEF RunsLead
<1>8. RunsLead(q, j) /\ Heard(h, "Enable", j) => ~RunIn(r, j)
  BY <1>2, <1>4 DEF RunsLead, RunIn
<1> QED BY <1>5, <1>6, <1>7, <1>8 DEF r, h

\* Queue, seen from one drive.
LEMMA QueueOf ==
    ASSUME NEW q \in [Bus -> Seq(Group)], NEW cmd \in Command, NEW S \in SUBSET Joint,
           NEW j \in Joint
    PROVE  LET p == q[Route[j]]
               r == Queue(q, cmd, S)[Route[j]]
           IN /\ j \notin S => Like(p, r, j)
              /\ cmd \notin {"Enable", "SetZero", "Stop"} => Like(p, r, j)
              /\ \A c : Queued(r, c, j) <=> Queued(p, c, j) \/ (c = cmd /\ j \in S)
              /\ cmd # "Enable" /\ EnablesStopped(p, j) => EnablesStopped(r, j)
              /\ cmd = "Stop" /\ j \in S => EnablesStopped(r, j)
              /\ cmd # "SetZero" /\ ZeroesStopped(p, j) => ZeroesStopped(r, j)
              /\ ZeroesStopped(p, j) /\ Queued(p, "Stop", j) => ZeroesStopped(r, j)
              /\ cmd = "SetZero" /\ ZeroesLast(p, j) /\ EnablesStopped(p, j) => ZeroesLast(r, j)
              /\ cmd = "Enable" /\ ZeroesLast(p, j) /\ ~Queued(p, "SetZero", j) => ZeroesLast(r, j)
              /\ cmd = "Stop" /\ ZeroesLast(p, j) => ZeroesLast(r, j)
<1> DEFINE b == Route[j]
           p == q[b]
           g == [cmd |-> cmd, to |-> On(b, S)]
           r == Queue(q, cmd, S)[b]
<1>1. b \in Bus /\ p \in Seq(Group)
  BY SessionAssumption DEF SessionAssumption
<1>2. g \in Group
  BY DEF Group, On
<1>3. \A c : Frame(g, c, j) <=> c = cmd /\ j \in S
  BY DEF Frame, On
<1>4. (r = p /\ j \notin S) \/ r = Append(p, g)
  BY <1>1 DEF Queue, On
<1> HIDE DEF b, p, g, r
<1>5. CASE r = p /\ j \notin S
  BY <1>5, Zenon DEF Like, b, p, g, r
<1>6. CASE r = Append(p, g)
  <2>1. /\ \A c : Queued(r, c, j) <=> Queued(p, c, j) \/ (c = cmd /\ j \in S)
        /\ EnablesStopped(p, j) /\ ~(cmd = "Enable" /\ j \in S) => EnablesStopped(r, j)
        /\ cmd = "Stop" /\ j \in S => EnablesStopped(r, j)
        /\ ZeroesStopped(p, j) /\ (cmd = "SetZero" /\ j \in S => Queued(p, "Stop", j))
              => ZeroesStopped(r, j)
        /\ /\ ZeroesLast(p, j)
           /\ cmd = "SetZero" /\ j \in S => EnablesStopped(p, j)
           /\ cmd = "Enable" /\ j \in S => ~Queued(p, "SetZero", j)
           => ZeroesLast(r, j)
    BY <1>1, <1>2, <1>3, <1>6, Appended
  <2>2. j \notin S => Like(p, r, j)
    BY <2>1 DEF Like
  <2>3. cmd \notin {"Enable", "SetZero", "Stop"} => Like(p, r, j)
    BY <2>1 DEF Like
  <2> QED BY <2>1, <2>2, <2>3 DEF b, p, r
<1> QED BY <1>4, <1>5, <1>6

\* Its parts, one by one.
LEMMA QueuedIn ==
    ASSUME NEW q \in [Bus -> Seq(Group)], NEW cmd \in Command, NEW S \in SUBSET Joint,
           NEW j \in Joint, NEW c
    PROVE  Queued(Queue(q, cmd, S)[Route[j]], c, j) <=>
               Queued(q[Route[j]], c, j) \/ (c = cmd /\ j \in S)
  BY QueueOf

\* Writing anything but SetZero keeps a Stop in front of every SetZero.
LEMMA QueueZeroes ==
    ASSUME NEW q \in [Bus -> Seq(Group)], NEW cmd \in Command \ {"SetZero"},
           NEW S \in SUBSET Joint, NEW j \in Joint, ZeroesStopped(q[Route[j]], j)
    PROVE  ZeroesStopped(Queue(q, cmd, S)[Route[j]], j)
  BY QueueOf

\* Reporting and servo frames leave what matters of the queue as it was.
LEMMA QueueLike ==
    ASSUME NEW q \in [Bus -> Seq(Group)], NEW cmd \in Command \ {"Enable", "SetZero", "Stop"},
           NEW S \in SUBSET Joint, NEW j \in Joint
    PROVE  Like(q[Route[j]], Queue(q, cmd, S)[Route[j]], j)
  BY QueueOf

------------------------------------------------------------------------------
(***************************************************************************)
(* The invariant, drive by drive.                                          *)
(***************************************************************************)
TxOf(j) == tx[Route[j]]
RxOf(j) == rx[Route[j]]
InHand(j, c) == inbox[j] # <<>> /\ Head(inbox[j]) = c
InSession(j) == mode = "Active" /\ j \in active

\* In Run, or about to be, with no Stop in hand.
Hot(j) == ~InHand(j, "Stop") /\ (driveMode[j] = "Run" \/ InHand(j, "Enable"))

\* What is queued for the drive ends with it stopped.
Settles(j) ==
    /\ EnablesStopped(TxOf(j), j)
    /\ Hot(j) => Queued(TxOf(j), "Stop", j)

\* The host's post-SetZero clock is never ahead of the drive's own, unless a
\* SetZero that will restart it is still queued or its echo still unread.
ZeroClock(j) ==
    \/ Queued(TxOf(j), "SetZero", j)
    \/ EchoIn(RxOf(j), "SetZero", j)
    \/ /\ zeroAge[j] <= driveZero[j] \/ driveZero[j] = Quiet
       /\ InHand(j, "SetZero") => zeroAge[j] = 0

\* A drive that may be deaf is in Reset, so a Stop it misses changes nothing.
Wire(j) ==
    /\ ~InSession(j) => Settles(j)
    /\ driveZero[j] # Quiet => driveMode[j] = "Reset" /\ ~InHand(j, "Enable")
    /\ InHand(j, "SetZero") => driveMode[j] = "Reset"
    /\ Queued(TxOf(j), "Enable", j) => driveZero[j] = Quiet /\ ~InHand(j, "SetZero")
    /\ ZeroesLast(TxOf(j), j)
    /\ Hot(j) => ZeroesStopped(TxOf(j), j)
    /\ ZeroClock(j)

\* Until a drive of the session acts on the session's Enable, whatever reports
\* Run was built before the Off took effect, and is read before the echo.
Sess(j) ==
    /\ j \notin ran => driveMode[j] = "Reset"
    /\ ~Queued(TxOf(j), "SetZero", j) /\ ~InHand(j, "SetZero") /\ ~EchoIn(RxOf(j), "SetZero", j)
    /\ j \in writesPending =>
        ~Queued(TxOf(j), "Enable", j) /\ ~InHand(j, "Enable") /\ ~EchoIn(RxOf(j), "Enable", j)
    /\ j \notin ran /\ (offEchoAge[j] = 1 \/ j \notin writesPending) => "Run" \notin out[j]
    /\ j \notin ran => (RunIn(RxOf(j), j) => j \in echoPending) /\ RunsLead(RxOf(j), j)
    /\ j \in posed => j \in ran

\* A target of an enable in progress: identified, at rest, nothing on its way.
Targ(j) ==
    /\ driveMode[j] = "Reset" /\ inbox[j] = <<>>
    /\ ~Queued(TxOf(j), "Enable", j) /\ ~Queued(TxOf(j), "SetZero", j)

\* The call in progress.
Call ==
    /\ mode = "Active" => cont = "none" /\ writesPending \subseteq active \cap echoPending
    /\ cont # "none" => pc = "reading"
    /\ cont = "activate" =>
        /\ writesPending = targets /\ targets \subseteq echoPending
        /\ \A j \in Joint : offEchoAge[j] # 1

\* A frame is on the interface of the drives it is for or from.
GroupOn(b) == [cmd : Command, to : SUBSET On(b, Joint)]
ReceivedOn(b) == [kind : Echoed \cup {"Status"}, from : SUBSET On(b, Joint), mode : DriveMode]
Routed == \A b \in Bus : tx[b] \in Seq(GroupOn(b)) /\ rx[b] \in Seq(ReceivedOn(b))

InboxOne == \A j \in Joint : Len(inbox[j]) <= 1
WireInv == \A j \in Joint : ~Latched /\ j \notin dead => Wire(j)
SessInv == \A j \in Joint : InSession(j) => Sess(j)
TargInv == \A j \in Joint : cont # "none" /\ j \in targets => Targ(j)
PoseInv == Call /\ Routed /\ InboxOne /\ WireInv /\ SessInv /\ TargInv

------------------------------------------------------------------------------
\* `Like' is reflexive.
LEMMA LikeSame == \A p, j : Like(p, p, j)
BY DEF Like

\* `Like' is transitive.
LEMMA LikeTrans == \A p, q, r, j : Like(p, q, j) /\ Like(q, r, j) => Like(p, r, j)
<1> SUFFICES ASSUME NEW p, NEW q, NEW r, NEW j, Like(p, q, j), Like(q, r, j) PROVE Like(p, r, j)
  OBVIOUS
<1> QED BY DEF Like

\* A step that leaves the drive and its clocks alone.
LEMMA WireSame ==
    ASSUME NEW j \in Joint, Wire(j), Like(TxOf(j), TxOf(j)', j),
           UNCHANGED <<inbox[j], driveMode[j], driveZero[j], zeroAge[j]>>,
           EchoIn(RxOf(j), "SetZero", j) => EchoIn(RxOf(j)', "SetZero", j),
           InSession(j) => InSession(j)'
    PROVE  Wire(j)'
<1>1. \A c : InHand(j, c)' <=> InHand(j, c)
  BY DEF InHand
<1>2. Hot(j)' <=> Hot(j)
  BY <1>1 DEF Hot
<1>3. \A c \in {"Enable", "SetZero", "Stop"} : Queued(TxOf(j), c, j)' <=> Queued(TxOf(j), c, j)
  BY DEF Like, Queued
<1>4. /\ EnablesStopped(TxOf(j), j) => EnablesStopped(TxOf(j), j)'
      /\ ZeroesStopped(TxOf(j), j) => ZeroesStopped(TxOf(j), j)'
      /\ ZeroesLast(TxOf(j), j) => ZeroesLast(TxOf(j), j)'
  BY DEF Like, EnablesStopped, ZeroesStopped, ZeroesLast
<1>5. ZeroClock(j)'
  BY <1>1, <1>3 DEF ZeroClock, Wire, EchoIn
<1>6. ~InSession(j)' => Settles(j)'
  BY <1>2, <1>3, <1>4 DEF Wire, Settles
<1> QED BY <1>1, <1>2, <1>3, <1>4, <1>5, <1>6 DEF Wire

\* What was received got no worse.
RxLike(p, r, j) ==
    /\ \A c \in {"Enable", "SetZero"} : EchoIn(r, c, j) => EchoIn(p, c, j)
    /\ RunIn(r, j) => RunIn(p, j)
    /\ RunsLead(p, j) => RunsLead(r, j)

\* A step that gives the session no frame, echo or Run it did not have.
LEMMA SessSame ==
    ASSUME NEW j \in Joint, Sess(j),
           \A c \in {"Enable", "SetZero"} : Queued(TxOf(j)', c, j) => Queued(TxOf(j), c, j),
           \A c : InHand(j, c)' => InHand(j, c),
           RxLike(RxOf(j), RxOf(j)', j),
           driveMode'[j] \in {driveMode[j], "Reset"},
           "Run" \in out'[j] => "Run" \in out[j],
           offEchoAge'[j] = 1 => offEchoAge[j] = 1,
           j \in writesPending' <=> j \in writesPending,
           j \in echoPending => j \in echoPending',
           ran' = ran,
           j \in posed' => j \in posed \/ j \in ran
    PROVE  Sess(j)'
<1>1. /\ j \notin ran' => driveMode'[j] = "Reset"
      /\ ~Queued(TxOf(j)', "SetZero", j) /\ ~InHand(j, "SetZero")' /\ ~EchoIn(RxOf(j)', "SetZero", j)
  BY DEF Sess, RxLike
<1>2. j \in writesPending' =>
        ~Queued(TxOf(j)', "Enable", j) /\ ~InHand(j, "Enable")' /\ ~EchoIn(RxOf(j)', "Enable", j)
  BY DEF Sess, RxLike
<1>3. j \notin ran' /\ (offEchoAge'[j] = 1 \/ j \notin writesPending') => "Run" \notin out'[j]
  BY DEF Sess
<1>4. j \notin ran' => (RunIn(RxOf(j)', j) => j \in echoPending') /\ RunsLead(RxOf(j)', j)
  BY DEF Sess, RxLike
<1>5. j \in posed' => j \in ran'
  BY DEF Sess
<1> QED BY <1>1, <1>2, <1>3, <1>4, <1>5 DEF Sess

\* A receive queue is no worse than itself.
LEMMA RxLikeSame == \A p, j : RxLike(p, p, j)
BY DEF RxLike

\* A step that leaves a target of the enable call and its frames alone.
LEMMA TargSame ==
    ASSUME NEW j \in Joint, Targ(j), Like(TxOf(j), TxOf(j)', j), UNCHANGED <<inbox[j], driveMode[j]>>
    PROVE  Targ(j)'
<1>1. \A c \in {"Enable", "SetZero", "Stop"} : Queued(TxOf(j)', c, j) <=> Queued(TxOf(j), c, j)
  BY DEF Like
<1> QED BY <1>1 DEF Targ

\* Queue keeps frames on the interface of their drives.
LEMMA QueueRouted ==
    ASSUME NEW q \in [Bus -> Seq(Group)], \A b \in Bus : q[b] \in Seq(GroupOn(b)),
           NEW cmd \in Command, NEW S \in SUBSET Joint
    PROVE  \A b \in Bus : Queue(q, cmd, S)[b] \in Seq(GroupOn(b))
<1> TAKE b \in Bus
<1> DEFINE G == GroupOn(b)
           g == [cmd |-> cmd, to |-> On(b, S)]
           p == q[b]
<1>1. g \in G /\ p \in Seq(G)
  BY DEF GroupOn, On
<1>2. Queue(q, cmd, S)[b] = p \/ Queue(q, cmd, S)[b] = Append(p, g)
  BY DEF Queue
<1> HIDE DEF G, g, p
<1>3. Append(p, g) \in Seq(G)
  BY <1>1
<1>4. Queue(q, cmd, S)[b] \in Seq(G)
  BY <1>1, <1>2, <1>3
<1> QED BY <1>4 DEF G

------------------------------------------------------------------------------
(***************************************************************************)
(* The supervisor.                                                         *)
(***************************************************************************)
\* A step that queues nothing a drive's state depends on.
LEMMA CalmStep ==
    ASSUME TypeOK, PoseInv, Call', Routed',
           \A j \in Joint : Like(TxOf(j), TxOf(j)', j),
           cont' = "none" \/ UNCHANGED <<cont, targets>>,
           UNCHANGED <<mode, active, fault, zeroAge, rx, posed, echoPending, writesPending,
                       offEchoAge, inbox, out, driveMode, driveZero, dead, ran>>
    PROVE  PoseInv'
<1>1. InboxOne'
  BY DEF PoseInv, InboxOne
<1>2. ASSUME NEW j \in Joint, ~Latched', j \notin dead' PROVE Wire(j)'
  <2>1. Wire(j) /\ RxOf(j)' = RxOf(j) /\ (InSession(j) => InSession(j)')
    BY <1>2 DEF PoseInv, WireInv, Latched, RxOf, InSession
  <2> QED BY <2>1, WireSame
<1>3. ASSUME NEW j \in Joint, InSession(j)' PROVE Sess(j)'
  <2>1. Sess(j) /\ RxOf(j)' = RxOf(j)
    BY <1>3 DEF PoseInv, SessInv, RxOf, InSession
  <2>2. \A c : InHand(j, c)' => InHand(j, c)
    BY DEF InHand
  <2>3. \A c \in {"Enable", "SetZero"} : Queued(TxOf(j)', c, j) => Queued(TxOf(j), c, j)
    BY DEF Like
  <2>4. RxLike(RxOf(j), RxOf(j)', j)
    BY <2>1, RxLikeSame
  <2> QED BY <2>1, <2>2, <2>3, <2>4, SessSame
<1>4. ASSUME NEW j \in Joint, cont' # "none", j \in targets' PROVE Targ(j)'
  <2>1. Targ(j)
    BY <1>4 DEF PoseInv, TargInv
  <2> QED BY <2>1, TargSame
<1> QED BY <1>1, <1>2, <1>3, <1>4 DEF PoseInv, WireInv, SessInv, TargInv

\* The Off and On writes of sync_active_reporting keep the invariant.
LEMMA PoseSync == ASSUME TypeOK, PoseInv, SyncReporting PROVE PoseInv'
<1>1. PICK W \in SUBSET Joint :
        tx' = Queue(Queue(tx, "Off", W \ {j \in W : Desired(j)}), "On", {j \in W : Desired(j)})
  BY DEF SyncReporting, Waves, SyncDue
<1> DEFINE ons == {j \in W : Desired(j)}
           offs == W \ ons
           q == Queue(tx, "Off", offs)
<1>2. /\ ons \in SUBSET Joint /\ offs \in SUBSET Joint /\ "Off" \in Command /\ "On" \in Command
      /\ tx \in [Bus -> Seq(Group)] /\ tx' = Queue(q, "On", ons)
  BY <1>1 DEF Command, TypeOK
<1> HIDE DEF ons, offs
<1>3. q \in [Bus -> Seq(Group)]
  BY <1>2, QueueType
<1>4. \A b \in Bus : q[b] \in Seq(GroupOn(b))
  BY <1>2, QueueRouted DEF PoseInv, Routed
<1>5. \A j \in Joint : Like(TxOf(j), q[Route[j]], j)
  BY <1>2, QueueOf DEF TxOf
<1> HIDE DEF q
<1>6. \A j \in Joint : Like(q[Route[j]], TxOf(j)', j)
  BY <1>2, <1>3, QueueLike DEF TxOf
<1>7. \A j \in Joint : Like(TxOf(j), TxOf(j)', j)
  BY <1>5, <1>6, LikeTrans
<1>8. \A b \in Bus : tx'[b] \in Seq(GroupOn(b))
  BY <1>2, <1>3, <1>4, QueueRouted
<1>9. Routed'
  BY <1>8 DEF PoseInv, Routed, SyncReporting
<1>10. /\ UNCHANGED <<cont, targets, mode, active, fault, zeroAge, rx, posed, echoPending, writesPending,
                     offEchoAge, inbox, out, driveMode, driveZero, dead, ran>>
      /\ pc \in {"idle", "sync"}
  BY DEF SyncReporting, sessionVars, authorityVars, poseVars, driveVars
<1>11. Call'
  BY <1>10 DEF PoseInv, Call
<1> QED BY <1>7, <1>9, <1>10, <1>11, CalmStep

\* A neutral or servo batch keeps it.
LEMMA PoseSendMit ==
    ASSUME TypeOK, PoseInv, NEW cmd \in {"Neutral", "Servo"}, SendMit(cmd) PROVE PoseInv'
<1>1. /\ active \ writesPending \in SUBSET Joint /\ cmd \in Command
      /\ tx \in [Bus -> Seq(Group)] /\ tx' = Queue(tx, cmd, active \ writesPending)
  BY DEF SendMit, Command, TypeOK
<1>2. \A j \in Joint : Like(TxOf(j), TxOf(j)', j)
  BY <1>1, QueueOf DEF TxOf
<1>3. UNCHANGED <<pc, cont, targets, mode, active, fault, zeroAge, rx, posed, echoPending, writesPending,
                  offEchoAge, inbox, out, driveMode, driveZero, dead, ran>>
  BY DEF SendMit, callVars, sessionVars, authorityVars, driveVars
<1>4. Routed'
  BY <1>1, <1>3, QueueRouted DEF PoseInv, Routed
<1>5. Call'
  BY <1>3 DEF PoseInv, Call
<1> QED BY <1>2, <1>3, <1>4, <1>5, CalmStep

\* Grants, the end of a drain, and a step that changes nothing.
LEMMA PoseIdle ==
    ASSUME TypeOK, PoseInv,
           (\E j \in Joint : Grant(j) \/ Revoke(j)) \/ DrainReturns \/ UNCHANGED vars
    PROVE  PoseInv'
<1>1. UNCHANGED <<mode, active, fault, zeroAge, tx, rx, posed, echoPending, writesPending,
                  offEchoAge, inbox, out, driveMode, driveZero, dead, ran>>
  BY DEF Grant, Revoke, DrainReturns, vars, callVars, sessionVars, authorityVars, poseVars, driveVars
<1>2. UNCHANGED <<pc, cont, targets>> \/ cont' = "none"
  BY DEF Grant, Revoke, DrainReturns, vars, callVars
<1>3. Call' /\ Routed'
  BY <1>1, <1>2 DEF PoseInv, Call, Routed
<1>4. \A j \in Joint : Like(TxOf(j), TxOf(j)', j)
  BY <1>1, LikeSame DEF TxOf
<1> QED BY <1>1, <1>2, <1>3, <1>4, CalmStep

\* Enable frames go only to drives of the session whose Off is settled and
\* whose post-SetZero quiet is over.
LEMMA PosePoll ==
    ASSUME TypeOK, PoseInv, NEW offs \in SUBSET Joint, NEW wave \in SUBSET Joint, Poll(offs, wave)
    PROVE  PoseInv'
<1> DEFINE q == Queue(tx, "Off", offs)
<1>1. /\ "Off" \in Command /\ "Enable" \in Command /\ tx \in [Bus -> Seq(Group)]
      /\ tx' = Queue(q, "Enable", wave)
  BY DEF Command, TypeOK, Poll
<1>2. q \in [Bus -> Seq(Group)]
  BY <1>1, QueueType
<1>3. \A b \in Bus : q[b] \in Seq(GroupOn(b))
  BY <1>1, QueueRouted DEF PoseInv, Routed
<1>4. \A j \in Joint : Like(TxOf(j), q[Route[j]], j)
  BY <1>1, QueueOf DEF TxOf
<1> HIDE DEF q
<1>5. Routed'
  BY <1>1, <1>2, <1>3, QueueRouted DEF PoseInv, Routed, Poll
<1>6. /\ UNCHANGED <<cont, targets, mode, active, fault, zeroAge, rx, posed, echoPending,
                     offEchoAge, inbox, out, driveMode, driveZero, dead, ran>>
      /\ pc = "idle" /\ pc' = "reading" /\ writesPending' = writesPending \ wave
  BY DEF Poll, authorityVars, driveVars
<1>7. cont = "none"
  BY <1>6 DEF PoseInv, Call
<1>8. Call'
  BY <1>6, <1>7 DEF PoseInv, Call
<1>9. InboxOne' /\ TargInv'
  BY <1>6, <1>7 DEF PoseInv, InboxOne, TargInv
<1>10. \A j \in wave : InSession(j) /\ j \in writesPending /\ zeroAge[j] >= Quiet /\ offEchoAge[j] = 1
  <2>1. wave # {} => mode = "Active" /\ wave \subseteq EnablesDue
    BY DEF Poll, EnableWaves, Waves
  <2> SUFFICES ASSUME NEW j \in wave
               PROVE  InSession(j) /\ j \in writesPending /\ zeroAge[j] >= Quiet /\ offEchoAge[j] = 1
    OBVIOUS
  <2>2. mode = "Active" /\ j \in writesPending /\ QuietElapsed(j) /\ OffSettled(j)
    BY <2>1 DEF EnablesDue
  <2>3. offEchoAge[j] \in {Never, 0, 1} /\ offEchoAge[j] >= 1
    BY <2>2 DEF TypeOK, OffSettled
  <2>4. InSession(j)
    BY <2>2 DEF PoseInv, Call, InSession
  <2> QED BY <2>2, <2>3, <2>4 DEF QuietElapsed, Never
<1>11. ASSUME NEW j \in Joint
       PROVE  /\ RxOf(j)' = RxOf(j) /\ (InSession(j)' <=> InSession(j))
              /\ \A c : InHand(j, c)' <=> InHand(j, c)
              /\ Hot(j)' <=> Hot(j)
  BY <1>6 DEF RxOf, InSession, InHand, Hot
<1>12. ASSUME NEW j \in Joint, j \notin wave
       PROVE  Like(TxOf(j), TxOf(j)', j)
  <2>1. Like(q[Route[j]], Queue(q, "Enable", wave)[Route[j]], j)
    BY <1>1, <1>2, <1>12, QueueOf
  <2> QED BY <1>1, <1>4, <2>1, LikeTrans DEF TxOf
<1>13. ASSUME NEW j \in Joint, ~Latched', j \notin dead' PROVE Wire(j)'
  <2>1. Wire(j)
    BY <1>6, <1>13 DEF PoseInv, WireInv, Latched
  <2>2. CASE j \notin wave
    BY <1>6, <1>11, <1>12, <2>1, <2>2, WireSame
  <2>3. CASE j \in wave
    <3>1. Sess(j) /\ InSession(j) /\ zeroAge[j] >= Quiet
      BY <1>10, <2>3 DEF PoseInv, SessInv
    <3>2. driveZero[j] = Quiet
      <4>1. driveZero[j] \in 0 .. Quiet /\ zeroAge[j] \in Int /\ Quiet \in Nat
        BY SessionAssumption DEF SessionAssumption, TypeOK
      <4> QED BY <2>1, <3>1, <4>1 DEF Sess, Wire, ZeroClock
    <3>3. /\ ~Queued(q[Route[j]], "SetZero", j)
          /\ Hot(j) => ZeroesStopped(q[Route[j]], j)
          /\ ZeroesLast(q[Route[j]], j)
      BY <1>4, <2>1, <3>1 DEF Like, Sess, Wire
    <3>4. /\ Hot(j) => ZeroesStopped(TxOf(j)', j)
          /\ ZeroesLast(TxOf(j)', j)
      BY <1>1, <1>2, <3>3, QueueOf DEF TxOf
    <3>5. ZeroClock(j)'
      <4>1. ~InHand(j, "SetZero")' /\ driveZero'[j] = Quiet
        BY <1>6, <1>11, <3>1, <3>2 DEF Sess
      <4> QED BY <4>1 DEF ZeroClock
    <3>6. /\ InSession(j)' /\ driveZero'[j] = Quiet /\ ~InHand(j, "SetZero")'
      BY <1>6, <1>11, <3>1, <3>2 DEF Sess
    <3> QED BY <1>11, <3>4, <3>5, <3>6 DEF Wire
  <2> QED BY <2>2, <2>3
<1>14. ASSUME NEW j \in Joint, InSession(j)' PROVE Sess(j)'
  <2>1. Sess(j) /\ RxLike(RxOf(j), RxOf(j)', j)
    BY <1>11, <1>14, RxLikeSame DEF PoseInv, SessInv
  <2>2. CASE j \notin wave
    <3>1. \A c \in {"Enable", "SetZero"} : Queued(TxOf(j)', c, j) => Queued(TxOf(j), c, j)
      BY <1>12, <2>2 DEF Like
    <3>2. j \in writesPending' <=> j \in writesPending
      BY <1>6, <2>2
    <3> QED BY <1>6, <1>11, <2>1, <3>1, <3>2, SessSame
  <2>3. CASE j \in wave
    <3>1. ~Queued(q[Route[j]], "SetZero", j)
      BY <1>4, <2>1 DEF Like, Sess
    <3>2. Queued(TxOf(j)', "SetZero", j) <=>
              Queued(q[Route[j]], "SetZero", j) \/ ("SetZero" = "Enable" /\ j \in wave)
      BY <1>1, <1>2, QueuedIn DEF TxOf
    <3>3. ~Queued(TxOf(j)', "SetZero", j)
      BY <3>1, <3>2
    <3>4. j \notin writesPending' /\ offEchoAge[j] = 1
      BY <1>6, <1>10, <2>3
    <3> QED BY <1>6, <1>11, <2>1, <3>3, <3>4 DEF Sess
  <2> QED BY <2>2, <2>3
<1> QED BY <1>5, <1>8, <1>9, <1>13, <1>14 DEF PoseInv, WireInv, SessInv

\* One received frame is read.
LEMMA RestOf ==
    ASSUME TypeOK, Routed, NEW b \in Bus, rx[b] # <<>>, rx' = Rest(b)
    PROVE  /\ \A c \in Bus : rx'[c] \in Seq(ReceivedOn(c))
           /\ Head(rx[b]) \in ReceivedOn(b)
           /\ \A j \in Joint :
                /\ RxLike(RxOf(j), RxOf(j)', j)
                /\ \A c : EchoIn(RxOf(j), c, j) => EchoIn(RxOf(j)', c, j) \/ Heard(Head(rx[b]), c, j)
                /\ \A c : Heard(Head(rx[b]), c, j) => EchoIn(RxOf(j), c, j)
                /\ RunReport(Head(rx[b]), j) => RunIn(RxOf(j), j)
                /\ RunsLead(RxOf(j), j) /\ Heard(Head(rx[b]), "Enable", j) => ~RunIn(RxOf(j)', j)
<1>1. /\ rx \in [Bus -> Seq(Received)] /\ rx[b] \in Seq(ReceivedOn(b))
      /\ \A c \in Bus : rx[c] \in Seq(ReceivedOn(c))
  BY DEF TypeOK, Routed
<1>2. rx'[b] = Tail(rx[b]) /\ \A c \in Bus \ {b} : rx'[c] = rx[c]
  BY <1>1 DEF Rest
<1>3. Tail(rx[b]) \in Seq(ReceivedOn(b)) /\ Head(rx[b]) \in ReceivedOn(b)
  <2> DEFINE G == ReceivedOn(b)
  <2>1. rx[b] \in Seq(G)
    BY <1>1
  <2> HIDE DEF G
  <2>2. Tail(rx[b]) \in Seq(G) /\ Head(rx[b]) \in G
    BY <2>1
  <2> QED BY <2>2 DEF G
<1>4. \A c \in Bus : rx'[c] \in Seq(ReceivedOn(c))
  BY <1>1, <1>2, <1>3
<1>5. ASSUME NEW j \in Joint
      PROVE  /\ RxLike(RxOf(j), RxOf(j)', j)
             /\ \A c : EchoIn(RxOf(j), c, j) => EchoIn(RxOf(j)', c, j) \/ Heard(Head(rx[b]), c, j)
             /\ \A c : Heard(Head(rx[b]), c, j) => EchoIn(RxOf(j), c, j)
             /\ RunReport(Head(rx[b]), j) => RunIn(RxOf(j), j)
             /\ RunsLead(RxOf(j), j) /\ Heard(Head(rx[b]), "Enable", j) => ~RunIn(RxOf(j)', j)
  <2>1. Route[j] \in Bus
    BY SessionAssumption DEF SessionAssumption
  <2>2. CASE Route[j] # b
    <3>1. RxOf(j)' = RxOf(j)
      BY <1>2, <2>1, <2>2 DEF RxOf
    <3>2. \A c : ~Heard(Head(rx[b]), c, j)
      BY <1>3, <2>2 DEF ReceivedOn, On, Heard
    <3> QED BY <3>1, <3>2, RxLikeSame DEF RunReport
  <2>3. CASE Route[j] = b
    <3>1. RxOf(j)' = Tail(rx[b]) /\ RxOf(j) = rx[b]
      BY <1>2, <2>3 DEF RxOf
    <3>2. /\ \A c : EchoIn(rx[b], c, j) <=> EchoIn(Tail(rx[b]), c, j) \/ Heard(Head(rx[b]), c, j)
          /\ RunIn(rx[b], j) <=> RunIn(Tail(rx[b]), j) \/ RunReport(Head(rx[b]), j)
          /\ RunsLead(rx[b], j) => RunsLead(Tail(rx[b]), j)
          /\ RunsLead(rx[b], j) /\ Heard(Head(rx[b]), "Enable", j) => ~RunIn(Tail(rx[b]), j)
      BY <1>1, HeardTailed
    <3>3. RxLike(rx[b], Tail(rx[b]), j)
      BY <3>2 DEF RxLike
    <3> QED BY <3>1, <3>2, <3>3
  <2> QED BY <2>2, <2>3
<1> QED BY <1>3, <1>4, <1>5

\* Reading changes neither the wire nor the drives.
LEMMA ReadKeeps ==
    ASSUME TypeOK, PoseInv, Call', NEW b \in Bus, rx[b] # <<>>, rx' = Rest(b),
           \A j \in Joint : ~Latched' =>
               ~Latched /\ (zeroAge'[j] = 0 \/ (zeroAge'[j] = zeroAge[j] /\ ~Heard(Head(rx[b]), "SetZero", j))),
           \A j \in Joint : InSession(j) => Sess(j)',
           UNCHANGED <<cont, targets, mode, active, tx, inbox, driveMode, driveZero, dead>>
    PROVE  PoseInv'
<1>1. Routed'
  BY RestOf DEF PoseInv, Routed
<1>2. InboxOne'
  BY DEF PoseInv, InboxOne
<1>3. ASSUME NEW j \in Joint
      PROVE /\ Like(TxOf(j), TxOf(j)', j) /\ TxOf(j)' = TxOf(j)
            /\ (InSession(j)' <=> InSession(j))
            /\ \A c : InHand(j, c)' <=> InHand(j, c)
  BY LikeSame DEF TxOf, InSession, InHand
<1>4. ASSUME NEW j \in Joint, ~Latched', j \notin dead' PROVE Wire(j)'
  <2>1. Wire(j)
    BY <1>4 DEF PoseInv, WireInv
  <2>2. CASE zeroAge'[j] = zeroAge[j] /\ ~Heard(Head(rx[b]), "SetZero", j)
    <3>1. EchoIn(RxOf(j), "SetZero", j) => EchoIn(RxOf(j)', "SetZero", j)
      BY <2>2, RestOf DEF PoseInv
    <3> QED BY <1>3, <2>1, <2>2, <3>1, WireSame
  <2>3. CASE zeroAge'[j] = 0
    <3>1. ZeroClock(j)'
      <4>1. driveZero'[j] \in Nat
        BY SessionAssumption DEF SessionAssumption, TypeOK
      <4> QED BY <2>3, <4>1 DEF ZeroClock
    <3>2. Hot(j)' <=> Hot(j)
      BY <1>3 DEF Hot
    <3> QED BY <1>3, <2>1, <3>1, <3>2 DEF Wire, Settles
  <2> QED BY <1>4, <2>2, <2>3
<1>5. SessInv'
  BY <1>3 DEF SessInv
<1>6. ASSUME NEW j \in Joint, cont' # "none", j \in targets' PROVE Targ(j)'
  <2>1. Targ(j)
    BY <1>6 DEF PoseInv, TargInv
  <2> QED BY <1>3, <2>1, TargSame
<1> QED BY <1>1, <1>2, <1>4, <1>5, <1>6 DEF PoseInv, WireInv, TargInv

\* Reading an echo of Enable, Off or SetZero keeps it.
LEMMA PoseReadEcho ==
    ASSUME TypeOK, PoseInv, NEW b \in Bus, ReadEnableEcho(b) \/ ReadOffEcho(b) \/ ReadZeroEcho(b)
    PROVE  PoseInv'
<1>1. /\ UNCHANGED <<pc, cont, targets, mode, active, fault, tx, inbox, driveMode, driveZero, dead, out,
                     ran, posed, writesPending>>
      /\ rx[b] # <<>> /\ rx' = Rest(b)
  BY DEF ReadEnableEcho, ReadOffEcho, ReadZeroEcho, Reads, callVars, sessionVars, authorityVars,
         poseVars, driveVars
<1>2. \A j \in Joint :
        /\ RxLike(RxOf(j), RxOf(j)', j)
        /\ RunsLead(RxOf(j), j) /\ Heard(Head(rx[b]), "Enable", j) => ~RunIn(RxOf(j)', j)
  BY <1>1, RestOf DEF PoseInv
<1>3. \A j \in Joint : offEchoAge'[j] = 1 => offEchoAge[j] = 1
  <2>1. ReadOffEcho(b) \/ offEchoAge' = offEchoAge
    BY DEF ReadEnableEcho, ReadZeroEcho, sessionVars
  <2>2. ASSUME ReadOffEcho(b), NEW j \in Joint PROVE offEchoAge'[j] \in {0, offEchoAge[j]}
    BY <2>2 DEF ReadOffEcho
  <2> QED BY <2>1, <2>2
<1>4. \A j \in Joint : j \in echoPending =>
        \/ j \in echoPending'
        \/ Heard(Head(rx[b]), "Enable", j) /\ j \notin writesPending
  BY DEF ReadEnableEcho, ReadOffEcho, ReadZeroEcho, Reads, Heard, sessionVars
<1>5. Call'
  <2>1. writesPending \subseteq echoPending => writesPending \subseteq echoPending'
    BY <1>4 DEF TypeOK
  <2> QED BY <1>1, <1>3, <2>1 DEF PoseInv, Call
<1>6. ASSUME NEW j \in Joint
      PROVE  zeroAge'[j] = 0 \/ (zeroAge'[j] = zeroAge[j] /\ ~Heard(Head(rx[b]), "SetZero", j))
  <2>1. CASE ReadZeroEcho(b)
    BY <2>1 DEF ReadZeroEcho, Heard
  <2>2. CASE ReadEnableEcho(b) \/ ReadOffEcho(b)
    BY <2>2 DEF ReadEnableEcho, ReadOffEcho, Reads, Heard
  <2> QED BY <2>1, <2>2
<1>7. ASSUME NEW j \in Joint, InSession(j) PROVE Sess(j)'
  <2>1. Sess(j)
    BY <1>7 DEF PoseInv, SessInv
  <2>2. /\ \A c \in {"Enable", "SetZero"} : Queued(TxOf(j)', c, j) => Queued(TxOf(j), c, j)
        /\ \A c : InHand(j, c)' => InHand(j, c)
    BY <1>1 DEF TxOf, InHand
  <2>3. CASE j \in echoPending => j \in echoPending'
    BY <1>1, <1>2, <1>3, <2>1, <2>2, <2>3, SessSame
  <2>4. CASE ~(j \in echoPending => j \in echoPending')
    <3>1. Heard(Head(rx[b]), "Enable", j)
      BY <1>4, <2>4
    <3>2. j \notin ran => ~RunIn(RxOf(j)', j) /\ RunsLead(RxOf(j)', j)
      BY <1>2, <2>1, <3>1 DEF Sess, RxLike
    <3>3. /\ ~EchoIn(RxOf(j)', "SetZero", j)
          /\ j \in writesPending => ~EchoIn(RxOf(j)', "Enable", j)
      BY <1>2, <2>1 DEF Sess, RxLike
    <3>4. j \notin ran /\ (offEchoAge'[j] = 1 \/ j \notin writesPending) => "Run" \notin out[j]
      BY <1>3, <2>1 DEF Sess
    <3> QED BY <1>1, <2>1, <2>2, <3>2, <3>3, <3>4 DEF Sess
  <2> QED BY <2>3, <2>4
<1>8. ~Latched' => ~Latched
  BY <1>1 DEF Latched
<1> QED BY <1>1, <1>5, <1>6, <1>7, <1>8, ReadKeeps

\* A pose is admitted after the echo, when a report of Run is the session's own.
LEMMA PoseReadStatus ==
    ASSUME TypeOK, PoseInv, NEW b \in Bus, NEW i \in Joint,
           ReadStatus(b, i) \/ \E class \in {"DriveState", "Device"} : ReadHazard(b, i, class)
    PROVE  PoseInv'
<1>1. /\ UNCHANGED <<pc, cont, targets, mode, active, zeroAge, tx, inbox, driveMode, driveZero, dead, out,
                     ran, writesPending, echoPending, offEchoAge>>
      /\ rx[b] # <<>> /\ rx' = Rest(b) /\ Head(rx[b]).kind = "Status" /\ i \in Head(rx[b]).from
  BY DEF ReadStatus, ReadHazard, Reads, callVars, sessionVars, driveVars
<1>2. Call'
  BY <1>1 DEF PoseInv, Call
<1>3. ~Latched' => ~Latched
  BY DEF ReadStatus, ReadHazard, Latched, Record, authorityVars
<1>4. \A j \in Joint : ~Heard(Head(rx[b]), "SetZero", j)
  BY <1>1 DEF Heard
<1>5. \A j \in Joint :
        RxLike(RxOf(j), RxOf(j)', j) /\ (RunReport(Head(rx[b]), j) => RunIn(RxOf(j), j))
  BY <1>1, RestOf DEF PoseInv
<1>6. ASSUME NEW j \in Joint, InSession(j) PROVE Sess(j)'
  <2>1. Sess(j)
    BY <1>6 DEF PoseInv, SessInv
  <2>2. /\ \A c \in {"Enable", "SetZero"} : Queued(TxOf(j)', c, j) => Queued(TxOf(j), c, j)
        /\ \A c : InHand(j, c)' => InHand(j, c)
    BY <1>1 DEF TxOf, InHand
  <2>3. j \in posed' => j \in posed \/ j \in ran
    <3> SUFFICES ASSUME j \in posed', j \notin posed PROVE j \in ran
      OBVIOUS
    <3>1. ReadStatus(b, i) /\ j = i /\ AdmitsPose(i)
      BY DEF ReadStatus, ReadHazard, poseVars
    <3>2. j \notin echoPending /\ RunReport(Head(rx[b]), j)
      BY <1>1, <1>6, <3>1 DEF ReadStatus, AdmitsPose, RunExpected, InSession, RunReport, Heard
    <3> QED BY <1>5, <2>1, <3>2 DEF Sess
  <2> QED BY <1>1, <1>5, <2>1, <2>2, <2>3, SessSame
<1> QED BY <1>1, <1>2, <1>3, <1>4, <1>6, ReadKeeps

\* A failed read keeps it: the fault is latched.
LEMMA PoseReadFails == ASSUME TypeOK, PoseInv, ReadFails PROVE PoseInv'
<1>1. UNCHANGED <<pc, cont, targets, mode, active, zeroAge, tx, rx, inbox, driveMode, driveZero, dead, out,
                  ran, writesPending, echoPending, offEchoAge, posed>>
  BY DEF ReadFails, sessionVars, poseVars, driveVars
<1>2. Latched'
  BY DEF ReadFails, Record, Latched
<1>3. Call' /\ Routed' /\ InboxOne' /\ WireInv'
  BY <1>1, <1>2 DEF PoseInv, Call, Routed, InboxOne, WireInv
<1>4. ASSUME NEW j \in Joint PROVE (InSession(j) <=> InSession(j)') /\ (Sess(j) => Sess(j)') /\ (Targ(j) => Targ(j)')
  BY <1>1 DEF InSession, Sess, Targ, TxOf, RxOf, InHand
<1> QED BY <1>1, <1>3, <1>4 DEF PoseInv, SessInv, TargInv

\* An identified target has nothing on its way, so it is in Reset.
LEMMA PoseEnableTargets ==
    ASSUME TypeOK, PoseInv, NEW T \in SUBSET Joint, EnableTargets(T) PROVE PoseInv'
<1>1. /\ UNCHANGED <<mode, active, fault, zeroAge, tx, rx, inbox, driveMode, driveZero, dead, out,
                     ran, writesPending, echoPending, offEchoAge, posed>>
      /\ cont' = "gate" /\ pc' = "reading" /\ targets' = T /\ mode = "Disabled" /\ ~Latched
  BY DEF EnableTargets, sessionVars, authorityVars, poseVars, driveVars
<1>2. Call' /\ Routed' /\ InboxOne'
  BY <1>1 DEF PoseInv, Call, Routed, InboxOne
<1>3. SessInv'
  BY <1>1 DEF SessInv, InSession
<1>4. ASSUME NEW j \in Joint, j \notin dead, Wire(j) PROVE Wire(j)'
  <2>1. Like(TxOf(j), TxOf(j)', j) /\ RxOf(j)' = RxOf(j) /\ (InSession(j) => InSession(j)')
    BY <1>1, LikeSame DEF TxOf, RxOf, InSession
  <2> QED BY <1>1, <1>4, <2>1, WireSame
<1>5. WireInv'
  BY <1>1, <1>4 DEF PoseInv, WireInv, Latched
<1>6. ASSUME NEW j \in Joint, j \in T PROVE Targ(j)'
  <2>1. j \notin dead /\ tx[Route[j]] = <<>> /\ inbox[j] = <<>>
    BY <1>6 DEF EnableTargets, IdentityAnswered, Hears
  <2>2. \A c : ~Queued(TxOf(j), c, j)
    BY <2>1 DEF Queued, TxOf
  <2>3. ~InSession(j) /\ Wire(j)
    BY <1>1, <2>1 DEF PoseInv, WireInv, InSession
  <2>4. ~Hot(j)
    BY <2>2, <2>3 DEF Wire, Settles
  <2>5. driveMode[j] = "Reset"
    BY <2>1, <2>4 DEF Hot, InHand, TypeOK, DriveMode
  <2>6. TxOf(j)' = TxOf(j)
    BY <1>1 DEF TxOf
  <2> QED BY <1>1, <2>1, <2>2, <2>5, <2>6 DEF Targ
<1>7. TargInv'
  BY <1>1, <1>6 DEF TargInv
<1> QED BY <1>2, <1>3, <1>5, <1>7 DEF PoseInv

\* Opening the enable gate keeps it: every target awaits its own Enable.
LEMMA PoseOpenGate ==
    ASSUME TypeOK, PoseInv, NEW offs \in SUBSET Joint, OpenGate(offs) PROVE PoseInv'
<1>1. /\ UNCHANGED <<pc, targets, mode, active, fault, zeroAge, rx, inbox, driveMode, driveZero, dead, out,
                     ran, posed>>
      /\ cont = "gate" /\ cont' = "activate" /\ pc = "reading"
      /\ writesPending' = targets /\ echoPending' = echoPending \cup targets
      /\ offEchoAge' = [j \in Joint |-> Never]
      /\ tx' = Queue(tx, "Off", offs) /\ tx \in [Bus -> Seq(Group)] /\ "Off" \in Command
  BY DEF OpenGate, GateReady, Drained, authorityVars, poseVars, driveVars, TypeOK, Command
<1>2. mode # "Active"
  BY <1>1 DEF PoseInv, Call
<1>3. Call'
  BY <1>1, <1>2 DEF Call, Never
<1>4. Routed'
  BY <1>1, QueueRouted DEF PoseInv, Routed
<1>5. InboxOne'
  BY <1>1 DEF PoseInv, InboxOne
<1>6. SessInv'
  BY <1>1, <1>2 DEF SessInv, InSession
<1>7. ASSUME NEW j \in Joint PROVE Like(TxOf(j), TxOf(j)', j)
  BY <1>1, QueueOf DEF TxOf
<1>8. ASSUME NEW j \in Joint, ~Latched', j \notin dead' PROVE Wire(j)'
  <2>1. Wire(j) /\ RxOf(j)' = RxOf(j) /\ (InSession(j) => InSession(j)')
    BY <1>1, <1>8 DEF PoseInv, WireInv, Latched, RxOf, InSession
  <2> QED BY <1>1, <1>7, <2>1, WireSame
<1>9. ASSUME NEW j \in Joint, j \in targets' PROVE Targ(j)'
  <2>1. Targ(j)
    BY <1>1, <1>9 DEF PoseInv, TargInv
  <2> QED BY <1>1, <1>7, <2>1, TargSame
<1> QED BY <1>3, <1>4, <1>5, <1>6, <1>8, <1>9 DEF PoseInv, WireInv, TargInv

\* The session starts with nothing unread and every target at rest.
LEMMA PoseActivate == ASSUME TypeOK, PoseInv, Activate PROVE PoseInv'
<1>1. /\ UNCHANGED <<fault, zeroAge, tx, rx, inbox, driveMode, driveZero, dead, out,
                     writesPending, echoPending, offEchoAge>>
      /\ cont = "activate" /\ cont' = "none" /\ targets' = {} /\ mode' = "Active" /\ active' = targets
      /\ posed' = {} /\ ran' = {} /\ \A b \in Bus : rx[b] = <<>>
  BY DEF Activate, Drained, authorityVars
<1>2. /\ mode # "Active" /\ writesPending = targets /\ targets \subseteq echoPending
      /\ \A j \in Joint : offEchoAge[j] # 1
  BY <1>1 DEF PoseInv, Call
<1>3. Call'
  BY <1>1, <1>2 DEF Call
<1>4. Routed' /\ InboxOne' /\ TargInv'
  BY <1>1 DEF PoseInv, Routed, InboxOne, TargInv
<1>5. ASSUME NEW j \in Joint, ~Latched', j \notin dead' PROVE Wire(j)'
  <2>1. Wire(j) /\ ~InSession(j)
    BY <1>1, <1>2, <1>5 DEF PoseInv, WireInv, Latched, InSession
  <2>2. Like(TxOf(j), TxOf(j)', j) /\ RxOf(j)' = RxOf(j)
    BY <1>1, LikeSame DEF TxOf, RxOf
  <2> QED BY <1>1, <2>1, <2>2, WireSame
<1>6. ASSUME NEW j \in Joint, InSession(j)' PROVE Sess(j)'
  <2>1. Targ(j) /\ j \in targets
    BY <1>1, <1>6 DEF PoseInv, TargInv, InSession
  <2>2. RxOf(j)' = <<>> /\ TxOf(j)' = TxOf(j)
    BY <1>1, SessionAssumption DEF SessionAssumption, RxOf, TxOf
  <2>3. /\ \A c : ~EchoIn(RxOf(j)', c, j)
        /\ ~RunIn(RxOf(j)', j) /\ RunsLead(RxOf(j)', j)
    BY <2>2 DEF EchoIn, RunIn, RunsLead
  <2>4. \A c : ~InHand(j, c)'
    BY <1>1, <2>1 DEF InHand, Targ
  <2> QED BY <1>1, <1>2, <2>1, <2>2, <2>3, <2>4 DEF Sess, Targ
<1> QED BY <1>3, <1>4, <1>5, <1>6 DEF PoseInv, WireInv, SessInv

\* A joint is zeroed while Disabled: its Enables and its Run are behind a Stop.
LEMMA PoseSetZero == ASSUME TypeOK, PoseInv, NEW i \in Joint, SetZero(i) PROVE PoseInv'
<1>1. /\ UNCHANGED <<pc, cont, targets, mode, active, fault, rx, inbox, driveMode, driveZero, dead, out,
                     ran, posed, writesPending, echoPending, offEchoAge>>
      /\ mode = "Disabled" /\ pc = "idle" /\ {i} \in SUBSET Joint
      /\ tx' = Queue(tx, "SetZero", {i}) /\ tx \in [Bus -> Seq(Group)] /\ "SetZero" \in Command
      /\ \A j \in Joint : j # i => zeroAge'[j] = zeroAge[j]
  BY DEF SetZero, callVars, sessionVars, poseVars, driveVars, TypeOK, Command
<1>2. Call' /\ InboxOne' /\ SessInv'
  BY <1>1 DEF PoseInv, Call, InboxOne, SessInv, InSession
<1>3. Routed'
  BY <1>1, QueueRouted DEF PoseInv, Routed
<1>4. TargInv'
  BY <1>1 DEF PoseInv, Call, TargInv
<1>5. ASSUME NEW j \in Joint, ~Latched', j \notin dead' PROVE Wire(j)'
  <2>1. /\ Wire(j) /\ RxOf(j)' = RxOf(j) /\ ~InSession(j) /\ ~InSession(j)'
        /\ \A c : InHand(j, c)' <=> InHand(j, c)
    BY <1>1, <1>5 DEF PoseInv, WireInv, Latched, RxOf, InSession, InHand
  <2>2. CASE j # i
    <3>1. Like(TxOf(j), TxOf(j)', j)
      BY <1>1, <2>2, QueueOf DEF TxOf
    <3> QED BY <1>1, <2>1, <2>2, <3>1, WireSame
  <2>3. CASE j = i
    <3>1. /\ EnablesStopped(TxOf(j), j) /\ ZeroesLast(TxOf(j), j)
          /\ Hot(j) => ZeroesStopped(TxOf(j), j) /\ Queued(TxOf(j), "Stop", j)
      BY <2>1 DEF Wire, Settles
    <3>2. /\ Queued(TxOf(j)', "SetZero", j)
          /\ Queued(TxOf(j)', "Stop", j) <=> Queued(TxOf(j), "Stop", j)
          /\ Queued(TxOf(j)', "Enable", j) <=> Queued(TxOf(j), "Enable", j)
          /\ EnablesStopped(TxOf(j)', j) /\ ZeroesLast(TxOf(j)', j)
          /\ Hot(j) => ZeroesStopped(TxOf(j)', j)
      <4>1. {i} \in SUBSET Joint /\ j \in {i}
        BY <2>3
      <4>2. \A c : Queued(Queue(tx, "SetZero", {i})[Route[j]], c, j) <=>
                      Queued(tx[Route[j]], c, j) \/ (c = "SetZero" /\ j \in {i})
        BY <1>1, <4>1, QueuedIn
      <4>3. EnablesStopped(TxOf(j)', j) /\ ZeroesLast(TxOf(j)', j)
        BY <1>1, <4>1, <3>1, QueueOf DEF TxOf
      <4>4. Hot(j) => ZeroesStopped(TxOf(j)', j)
        BY <1>1, <4>1, <3>1, QueueOf DEF TxOf
      <4>5. \A c : Queued(TxOf(j)', c, j) <=> Queued(TxOf(j), c, j) \/ c = "SetZero"
        BY <1>1, <4>1, <4>2 DEF TxOf
      <4>6. Queued(TxOf(j)', "SetZero", j)
        BY <4>5
      <4>7. /\ Queued(TxOf(j)', "Stop", j) <=> Queued(TxOf(j), "Stop", j)
            /\ Queued(TxOf(j)', "Enable", j) <=> Queued(TxOf(j), "Enable", j)
        BY <4>5
      <4> QED BY <4>3, <4>4, <4>6, <4>7
    <3>3. Hot(j)' <=> Hot(j)
      BY <1>1, <2>1 DEF Hot
    <3>4. ZeroClock(j)' /\ Settles(j)'
      BY <3>1, <3>2, <3>3 DEF ZeroClock, Settles
    <3> QED BY <1>1, <2>1, <3>2, <3>3, <3>4 DEF Wire
  <2> QED BY <2>2, <2>3
<1> QED BY <1>2, <1>3, <1>4, <1>5 DEF PoseInv, WireInv

\* A stop that latches nothing put a Stop behind everything, for every drive.
LEMMA PoseStop ==
    ASSUME TypeOK, PoseInv, NEW q \in [Bus -> Seq(Group)], \A b \in Bus : q[b] \in Seq(GroupOn(b)),
           NEW class, class = "none" => q = tx, NEW failed \in SUBSET Joint,
           PerformStop(q, class, failed), UNCHANGED <<zeroAge, rx, driveVars>>
    PROVE  PoseInv'
<1>1. /\ mode' = "Disabled" /\ cont' = "none"
      /\ UNCHANGED <<zeroAge, rx, inbox, driveMode, driveZero, dead>>
  BY DEF PerformStop, driveVars
<1>2. Call' /\ InboxOne' /\ SessInv' /\ TargInv'
  BY <1>1 DEF PoseInv, Call, InboxOne, SessInv, TargInv, InSession
<1>3. /\ tx' = Queue(q, "Stop", Joint \ failed) /\ "Stop" \in Command
      /\ Joint \ failed \in SUBSET Joint
  BY DEF PerformStop, Command
<1>4. Routed'
  BY <1>1, <1>3, QueueRouted DEF PoseInv, Routed
<1>5. ASSUME NEW j \in Joint, ~Latched', j \notin dead' PROVE Wire(j)'
  <2>1. ~Latched /\ class = "none" /\ failed = {}
    BY <1>5 DEF PerformStop, StopFault, Latched
  <2>2. Wire(j) /\ q = tx /\ j \in Joint \ failed
    BY <1>1, <1>5, <2>1 DEF PoseInv, WireInv
  <2>3. /\ EnablesStopped(TxOf(j)', j) /\ Queued(TxOf(j)', "Stop", j) /\ ZeroesLast(TxOf(j)', j)
        /\ Queued(TxOf(j)', "Enable", j) <=> Queued(TxOf(j), "Enable", j)
        /\ Queued(TxOf(j)', "SetZero", j) <=> Queued(TxOf(j), "SetZero", j)
        /\ ZeroesStopped(TxOf(j), j) => ZeroesStopped(TxOf(j)', j)
    <3> DEFINE S == Joint \ failed
    <3>1. /\ S \in SUBSET Joint /\ j \in S /\ "Stop" \in Command /\ tx \in [Bus -> Seq(Group)]
          /\ tx' = Queue(tx, "Stop", S) /\ ZeroesLast(TxOf(j), j)
      BY <1>3, <2>2 DEF Wire
    <3> HIDE DEF S
    <3>2. \A c : Queued(TxOf(j)', c, j) <=> Queued(TxOf(j), c, j) \/ c = "Stop"
      BY <3>1, QueuedIn DEF TxOf
    <3>3. EnablesStopped(TxOf(j)', j) /\ ZeroesLast(TxOf(j)', j)
      BY <3>1, QueueOf DEF TxOf
    <3>4. ZeroesStopped(tx[Route[j]], j) => ZeroesStopped(Queue(tx, "Stop", S)[Route[j]], j)
      BY <3>1, QueueZeroes
    <3> QED BY <3>1, <3>2, <3>3, <3>4 DEF TxOf
  <2>4. \A c : InHand(j, c)' <=> InHand(j, c)
    BY <1>1 DEF InHand
  <2>5. (Hot(j)' <=> Hot(j)) /\ RxOf(j)' = RxOf(j)
    BY <1>1, <2>4 DEF Hot, RxOf
  <2>6. Settles(j)'
    BY <2>3 DEF Settles
  <2>7. ZeroClock(j)'
    BY <1>1, <2>2, <2>3, <2>4, <2>5 DEF ZeroClock, Wire
  <2> QED BY <1>1, <2>2, <2>3, <2>4, <2>5, <2>6, <2>7 DEF Wire
<1> QED BY <1>2, <1>4, <1>5 DEF PoseInv, WireInv

\* Every stop keeps it, whatever stop writes fail.
LEMMA PoseStopStep == ASSUME TypeOK, PoseInv, StopStep PROVE PoseInv'
<1>1. PICK failed \in StopFailures :
        \/ \E offs, wave \in SUBSET Joint : PollWriteFails(offs, wave, failed)
        \/ DrainStops(failed)
        \/ \E offs \in SUBSET Joint : GateWriteFails(offs, failed)
        \/ ActivateFails(failed)
        \/ \E cmd \in {"Neutral", "Servo"} : SendMitStale(cmd, failed)
        \/ \E cmd \in {"Neutral", "Servo"}, some \in SUBSET Joint :
               SendMitFails(cmd, some, failed)
        \/ CheckActiveReferences(failed)
        \/ DisableAll(failed)
        \/ LatchControlFault(failed)
  BY DEF StopStep
<1>2. /\ failed \in SUBSET Joint /\ tx \in [Bus -> Seq(Group)]
      /\ \A b \in Bus : tx[b] \in Seq(GroupOn(b))
      /\ {"Off", "Enable", "Neutral", "Servo"} \subseteq Command
  BY SessionAssumption DEF SessionAssumption, TypeOK, PoseInv, Routed, Command
<1>3. \A cmd \in {"Off", "Enable", "Neutral", "Servo"}, S \in SUBSET Joint :
        /\ Queue(tx, cmd, S) \in [Bus -> Seq(Group)]
        /\ \A b \in Bus : Queue(tx, cmd, S)[b] \in Seq(GroupOn(b))
  BY <1>2, QueueType, QueueRouted
<1>4. ASSUME NEW offs \in SUBSET Joint, NEW wave \in SUBSET Joint, PollWriteFails(offs, wave, failed)
      PROVE  PoseInv'
  <2> DEFINE q == Queue(tx, "Off", offs)
             r == Queue(q, "Enable", wave)
  <2>1. q \in [Bus -> Seq(Group)] /\ \A b \in Bus : q[b] \in Seq(GroupOn(b))
    BY <1>3
  <2>2. PerformStop(r, "Transport", failed) /\ UNCHANGED <<zeroAge, rx, driveVars>>
    BY <1>4 DEF PollWriteFails
  <2> HIDE DEF q
  <2>3. r \in [Bus -> Seq(Group)] /\ \A b \in Bus : r[b] \in Seq(GroupOn(b))
    BY <1>2, <2>1, QueueType, QueueRouted
  <2> HIDE DEF r
  <2> QED BY <1>2, <2>2, <2>3, PoseStop
<1>5. ASSUME NEW offs \in SUBSET Joint, GateWriteFails(offs, failed) PROVE PoseInv'
  <2>1. PerformStop(Queue(tx, "Off", offs), "Transport", failed) /\ UNCHANGED <<zeroAge, rx, driveVars>>
    BY <1>5 DEF GateWriteFails
  <2> QED BY <1>2, <1>3, <2>1, PoseStop
<1>6. ASSUME NEW cmd \in {"Neutral", "Servo"}, NEW some \in SUBSET Joint,
             SendMitFails(cmd, some, failed)
      PROVE  PoseInv'
  <2>1. PerformStop(Queue(tx, cmd, some), "Transport", failed) /\ UNCHANGED <<zeroAge, rx, driveVars>>
    BY <1>6 DEF SendMitFails
  <2> QED BY <1>2, <1>3, <2>1, PoseStop
<1>7. ASSUME \/ DrainStops(failed) \/ ActivateFails(failed)
             \/ \E cmd \in {"Neutral", "Servo"} : SendMitStale(cmd, failed)
             \/ CheckActiveReferences(failed) \/ DisableAll(failed) \/ LatchControlFault(failed)
      PROVE  PoseInv'
  <2>1. PICK class : PerformStop(tx, class, failed)
    BY <1>7 DEF DrainStops, ActivateFails, SendMitStale, CheckActiveReferences, DisableAll,
           LatchControlFault
  <2>2. UNCHANGED <<zeroAge, rx, driveVars>>
    BY <1>7 DEF DrainStops, ActivateFails, SendMitStale, CheckActiveReferences, DisableAll,
           LatchControlFault
  <2> QED BY <1>2, <2>1, <2>2, PoseStop
<1> QED BY <1>1, <1>4, <1>5, <1>6, <1>7

------------------------------------------------------------------------------
(***************************************************************************)
(* The wire, the drives and time.                                          *)
(***************************************************************************)
\* A frame leaves: its drives hear it unless they are dead or deaf, and a deaf
\* drive is in Reset.
LEMMA PoseTransmit == ASSUME TypeOK, PoseInv, NEW b \in Bus, Transmit(b) PROVE PoseInv'
<1> DEFINE f == Head(tx[b])
           e == [kind |-> f.cmd, from |-> f.to, mode |-> "Reset"]
<1>1. /\ UNCHANGED <<pc, cont, targets, mode, active, fault, zeroAge, driveMode, driveZero, dead, out,
                     ran, posed, writesPending, echoPending, offEchoAge>>
      /\ pc = "idle" /\ tx[b] # <<>> /\ tx' = [tx EXCEPT ![b] = Tail(@)]
      /\ \A j \in f.to : inbox[j] = <<>>
      /\ inbox' = [j \in Joint |-> IF j \in f.to /\ Hears(j) THEN Append(inbox[j], f.cmd) ELSE inbox[j]]
      /\ rx' = IF f.cmd \in Echoed THEN [rx EXCEPT ![b] = Append(@, e)] ELSE rx
  BY DEF Transmit, callVars, sessionVars, authorityVars, poseVars
<1>2. /\ tx[b] \in Seq(GroupOn(b)) /\ rx[b] \in Seq(ReceivedOn(b))
      /\ tx \in [Bus -> Seq(Group)] /\ rx \in [Bus -> Seq(Received)]
  BY DEF PoseInv, Routed, TypeOK
<1>3. f \in GroupOn(b) /\ Tail(tx[b]) \in Seq(GroupOn(b))
  <2> DEFINE G == GroupOn(b)
  <2>1. tx[b] \in Seq(G)
    BY <1>2
  <2> HIDE DEF G
  <2>2. Head(tx[b]) \in G /\ Tail(tx[b]) \in Seq(G)
    BY <1>1, <2>1
  <2> QED BY <2>2 DEF G
<1> HIDE DEF f
<1>4. f.cmd \in Command /\ f.to \subseteq Joint /\ \A j \in f.to : Route[j] = b
  BY <1>3 DEF GroupOn, On
<1>5. tx'[b] = Tail(tx[b]) /\ \A c \in Bus \ {b} : tx'[c] = tx[c] /\ rx'[c] = rx[c]
  BY <1>1, <1>2
<1>6. f.cmd \in Echoed => e \in ReceivedOn(b)
  BY <1>3 DEF GroupOn, ReceivedOn, DriveMode
<1>7. IF f.cmd \in Echoed THEN rx'[b] = Append(rx[b], e) ELSE rx'[b] = rx[b]
  BY <1>1, <1>2
<1>8. \A j : (\A c : Heard(e, c, j) <=> Frame(f, c, j)) /\ (f.cmd \in Echoed => ~RunReport(e, j))
  BY DEF Heard, Frame, RunReport, Echoed
<1> HIDE DEF e
<1>9. Routed'
  <2>1. rx'[b] \in Seq(ReceivedOn(b))
    <3> DEFINE G == ReceivedOn(b)
    <3>1. rx[b] \in Seq(G) /\ (f.cmd \in Echoed => e \in G)
      BY <1>2, <1>6
    <3> HIDE DEF G
    <3>2. rx'[b] \in Seq(G)
      BY <1>7, <3>1
    <3> QED BY <3>2 DEF G
  <2> QED BY <1>3, <1>5, <2>1 DEF PoseInv, Routed
<1>10. InboxOne'
  <2> SUFFICES ASSUME NEW j \in Joint PROVE Len(inbox'[j]) <= 1
    BY DEF InboxOne
  <2>1. inbox'[j] = inbox[j] \/ (inbox[j] = <<>> /\ inbox'[j] = Append(inbox[j], f.cmd))
    BY <1>1
  <2>2. CASE inbox'[j] = inbox[j]
    BY <2>2 DEF PoseInv, InboxOne
  <2>3. CASE inbox[j] = <<>> /\ inbox'[j] = Append(inbox[j], f.cmd)
    BY <2>3
  <2> QED BY <2>1, <2>2, <2>3
<1>11. Call' /\ TargInv'
  BY <1>1 DEF PoseInv, Call, TargInv
\* The queue and the received frames, seen from one drive.
<1>12. ASSUME NEW j \in Joint, Route[j] = b
       PROVE  /\ \A c : Queued(TxOf(j), c, j) <=> Queued(TxOf(j)', c, j) \/ Frame(f, c, j)
              /\ EnablesStopped(TxOf(j), j) => EnablesStopped(TxOf(j)', j)
              /\ EnablesStopped(TxOf(j), j) /\ Frame(f, "Enable", j) => Queued(TxOf(j)', "Stop", j)
              /\ ZeroesStopped(TxOf(j), j) /\ ~Frame(f, "Stop", j) => ZeroesStopped(TxOf(j)', j)
              /\ ZeroesStopped(TxOf(j), j) => ~Frame(f, "SetZero", j)
              /\ ZeroesLast(TxOf(j), j) => ZeroesLast(TxOf(j)', j)
              /\ ZeroesLast(TxOf(j), j) /\ Frame(f, "Enable", j) => ZeroesStopped(TxOf(j)', j)
              /\ ZeroesLast(TxOf(j), j) /\ Frame(f, "SetZero", j) => ~Queued(TxOf(j)', "Enable", j)
  <2> DEFINE q == TxOf(j)
             G == GroupOn(b)
  <2>1. q \in Seq(G) /\ q # <<>> /\ TxOf(j)' = Tail(q) /\ f = Head(q)
    BY <1>1, <1>2, <1>5, <1>12 DEF TxOf, f
  <2> HIDE DEF q, G
  <2>2. /\ \A c : Queued(q, c, j) <=> Queued(Tail(q), c, j) \/ Frame(Head(q), c, j)
        /\ EnablesStopped(q, j) => EnablesStopped(Tail(q), j)
        /\ EnablesStopped(q, j) /\ Frame(Head(q), "Enable", j) => Queued(Tail(q), "Stop", j)
        /\ ZeroesStopped(q, j) /\ ~Frame(Head(q), "Stop", j) => ZeroesStopped(Tail(q), j)
        /\ ZeroesStopped(q, j) => ~Frame(Head(q), "SetZero", j)
        /\ ZeroesLast(q, j) => ZeroesLast(Tail(q), j)
        /\ ZeroesLast(q, j) /\ Frame(Head(q), "Enable", j) => ZeroesStopped(Tail(q), j)
        /\ ZeroesLast(q, j) /\ Frame(Head(q), "SetZero", j) => ~Queued(Tail(q), "Enable", j)
    BY <2>1, Tailed
  <2> QED BY <2>1, <2>2 DEF q
<1>13. ASSUME NEW j \in Joint
       PROVE  /\ \A c : EchoIn(RxOf(j)', c, j) <=> EchoIn(RxOf(j), c, j) \/ (c \in Echoed /\ Frame(f, c, j))
              /\ RunIn(RxOf(j)', j) <=> RunIn(RxOf(j), j)
              /\ RunsLead(RxOf(j), j) => RunsLead(RxOf(j)', j)
  <2>1. Route[j] \in Bus
    BY SessionAssumption DEF SessionAssumption
  <2>2. CASE Route[j] # b
    <3>1. RxOf(j)' = RxOf(j) /\ \A c : ~Frame(f, c, j)
      BY <1>4, <1>5, <2>1, <2>2 DEF RxOf, Frame
    <3> QED BY <3>1
  <2>3. CASE Route[j] = b /\ f.cmd \notin Echoed
    <3>1. RxOf(j)' = RxOf(j) /\ \A c \in Echoed : ~Frame(f, c, j)
      BY <1>7, <2>3 DEF RxOf, Frame
    <3> QED BY <3>1
  <2>4. CASE Route[j] = b /\ f.cmd \in Echoed
    <3>1. RxOf(j) = rx[b] /\ RxOf(j)' = Append(rx[b], e) /\ e \in ReceivedOn(b)
      BY <1>6, <1>7, <2>4 DEF RxOf
    <3>2. /\ \A c : EchoIn(RxOf(j)', c, j) <=> EchoIn(RxOf(j), c, j) \/ Frame(f, c, j)
          /\ RunIn(RxOf(j)', j) <=> RunIn(RxOf(j), j)
          /\ RunsLead(RxOf(j), j) => RunsLead(RxOf(j)', j)
      BY <1>2, <1>8, <2>4, <3>1, HeardAppended
    <3>3. \A c : Frame(f, c, j) => c \in Echoed
      BY <2>4 DEF Frame
    <3> QED BY <3>2, <3>3
  <2> QED BY <2>2, <2>3, <2>4
<1>14. ASSUME NEW j \in Joint, j \notin f.to
       PROVE  /\ Like(TxOf(j), TxOf(j)', j) /\ UNCHANGED inbox[j]
              /\ \A c : ~Frame(f, c, j)
  <2>1. UNCHANGED inbox[j] /\ \A c : ~Frame(f, c, j)
    BY <1>1, <1>14 DEF Frame
  <2>2. CASE Route[j] = b
    BY <1>12, <2>1, <2>2 DEF Like
  <2>3. CASE Route[j] # b
    <3>1. TxOf(j)' = TxOf(j)
      BY <1>5, <2>3, SessionAssumption DEF SessionAssumption, TxOf
    <3> QED BY <2>1, <3>1, LikeSame
  <2> QED BY <2>1, <2>2, <2>3
\* A drive the frame is for: it has it in hand, or it is dead or deaf.
<1>15. ASSUME NEW j \in f.to
       PROVE  /\ j \in Joint /\ Route[j] = b /\ (\A c : ~InHand(j, c))
              /\ (\A c : InHand(j, c)' => Frame(f, c, j))
              /\ Hears(j) => \A c : Frame(f, c, j) => InHand(j, c)'
              /\ ~Hears(j) => \A c : ~InHand(j, c)'
  <2>1. /\ j \in Joint /\ inbox[j] = <<>>
        /\ inbox'[j] = IF Hears(j) THEN Append(<<>>, f.cmd) ELSE <<>>
    BY <1>1, <1>4
  <2>2. Append(<<>>, f.cmd) # <<>> /\ Head(Append(<<>>, f.cmd)) = f.cmd
    OBVIOUS
  <2>3. \A c : Frame(f, c, j) <=> c = f.cmd
    BY DEF Frame
  <2>4. \A c : InHand(j, c)' <=> Hears(j) /\ c = f.cmd
    BY <2>1, <2>2 DEF InHand
  <2> QED BY <1>4, <2>1, <2>3, <2>4 DEF InHand
<1>16. ASSUME NEW j \in Joint, ~Latched', j \notin dead' PROVE Wire(j)'
  <2>1. Wire(j) /\ (InSession(j)' <=> InSession(j))
    BY <1>1, <1>16 DEF PoseInv, WireInv, Latched, InSession
  <2>2. CASE j \notin f.to
    BY <1>1, <1>13, <1>14, <2>1, <2>2, WireSame
  <2>3. CASE j \in f.to
    <3>1. ~Hears(j) => driveMode[j] = "Reset"
      <4>1. driveZero[j] \in 0 .. Quiet /\ Quiet \in Nat /\ Deaf \in BlackoutFrom .. Quiet
        BY SessionAssumption DEF SessionAssumption, TypeOK
      <4>2. ~Hears(j) => driveZero[j] # Quiet
        BY <1>1, <1>16, <4>1, SessionAssumption DEF SessionAssumption, Hears, InBlackout
      <4> QED BY <2>1, <4>2 DEF Wire
    <3>2. Hot(j) <=> driveMode[j] = "Run"
      BY <1>15, <2>3 DEF Hot
    <3>3. Hot(j)' => ~Frame(f, "Stop", j) /\ (Hot(j) \/ Frame(f, "Enable", j))
      BY <1>1, <1>15, <2>3, <3>1, <3>2 DEF Hot
    <3>4. ~InSession(j)' => Settles(j)'
      BY <1>12, <1>15, <2>1, <2>3, <3>3 DEF Wire, Settles
    <3>5. driveZero'[j] # Quiet => driveMode'[j] = "Reset" /\ ~InHand(j, "Enable")'
      BY <1>1, <1>12, <1>15, <2>1, <2>3 DEF Wire
    <3>6. InHand(j, "SetZero")' => driveMode'[j] = "Reset"
      <4>1. InHand(j, "SetZero")' => ~Hot(j)
        BY <1>12, <1>15, <2>1, <2>3 DEF Wire
      <4>2. driveMode[j] \in {"Reset", "Run"}
        BY DEF TypeOK, DriveMode
      <4> QED BY <1>1, <3>2, <4>1, <4>2
    <3>7. Queued(TxOf(j)', "Enable", j) => driveZero'[j] = Quiet /\ ~InHand(j, "SetZero")'
      BY <1>1, <1>12, <1>15, <2>1, <2>3 DEF Wire
    <3>8. ZeroesLast(TxOf(j)', j) /\ (Hot(j)' => ZeroesStopped(TxOf(j)', j))
      BY <1>12, <1>15, <2>1, <2>3, <3>3 DEF Wire
    <3>9. ZeroClock(j)'
      <4>1. \/ Frame(f, "SetZero", j)
            \/ Queued(TxOf(j), "SetZero", j) => Queued(TxOf(j)', "SetZero", j)
        BY <1>12, <1>15, <2>3
      <4>2. "SetZero" \in Echoed
        BY DEF Echoed
      <4>3. EchoIn(RxOf(j)', "SetZero", j) <=> EchoIn(RxOf(j), "SetZero", j) \/ Frame(f, "SetZero", j)
        BY <1>13, <4>2
      <4>4. InHand(j, "SetZero")' => Frame(f, "SetZero", j)
        BY <1>15, <2>3
      <4> QED BY <1>1, <2>1, <4>1, <4>3, <4>4 DEF ZeroClock, Wire
    <3> QED BY <3>4, <3>5, <3>6, <3>7, <3>8, <3>9 DEF Wire
  <2> QED BY <2>2, <2>3
<1>17. ASSUME NEW j \in Joint, InSession(j)' PROVE Sess(j)'
  <2>1. Sess(j)
    BY <1>1, <1>17 DEF PoseInv, SessInv, InSession
  <2>2. CASE j \notin f.to
    <3>1. /\ \A c \in {"Enable", "SetZero"} : Queued(TxOf(j)', c, j) => Queued(TxOf(j), c, j)
          /\ RxLike(RxOf(j), RxOf(j)', j)
      BY <1>13, <1>14, <2>2 DEF Like, RxLike
    <3>2. \A c : InHand(j, c)' => InHand(j, c)
      BY <1>14, <2>2 DEF InHand
    <3> QED BY <1>1, <2>1, <3>1, <3>2, SessSame
  <2>3. CASE j \in f.to
    <3>1. ~Frame(f, "SetZero", j) /\ (j \in writesPending => ~Frame(f, "Enable", j))
      BY <1>12, <1>15, <2>1, <2>3 DEF Sess
    <3>2. /\ ~Queued(TxOf(j)', "SetZero", j) /\ ~InHand(j, "SetZero")' /\ ~EchoIn(RxOf(j)', "SetZero", j)
          /\ j \in writesPending =>
                ~Queued(TxOf(j)', "Enable", j) /\ ~InHand(j, "Enable")' /\ ~EchoIn(RxOf(j)', "Enable", j)
      BY <1>12, <1>13, <1>15, <2>1, <2>3, <3>1 DEF Sess
    <3>3. j \notin ran => (RunIn(RxOf(j)', j) => j \in echoPending) /\ RunsLead(RxOf(j)', j)
      BY <1>13, <2>1 DEF Sess
    <3> QED BY <1>1, <2>1, <3>2, <3>3 DEF Sess
  <2> QED BY <2>2, <2>3
<1> QED BY <1>9, <1>10, <1>11, <1>16, <1>17 DEF PoseInv, WireInv, SessInv

\* The drive acts on what it has in hand.
LEMMA PoseDriveActs == ASSUME TypeOK, PoseInv, NEW i \in Joint, DriveActs(i) PROVE PoseInv'
<1> DEFINE cmd == Head(inbox[i])
           m == CASE cmd = "Enable" -> "Run" [] cmd = "Stop" -> "Reset" [] OTHER -> driveMode[i]
<1>1. /\ UNCHANGED <<pc, cont, targets, mode, active, fault, zeroAge, tx, rx, dead,
                     posed, writesPending, echoPending, offEchoAge>>
      /\ pc = "idle" /\ inbox[i] # <<>> /\ inbox' = [inbox EXCEPT ![i] = Tail(@)]
      /\ driveMode' = [driveMode EXCEPT ![i] = m]
      /\ out' = [out EXCEPT ![i] = @ \cup {m}]
      /\ driveZero' = IF cmd = "SetZero" THEN [driveZero EXCEPT ![i] = 0] ELSE driveZero
      /\ ran' = IF cmd = "Enable" THEN ran \cup {i} ELSE ran
  BY DEF DriveActs, callVars, sessionVars, authorityVars, poseVars
<1>2. /\ inbox \in [Joint -> Seq(Command)] /\ driveMode \in [Joint -> {"Reset", "Run"}]
      /\ driveZero \in [Joint -> 0 .. Quiet] /\ out \in [Joint -> SUBSET DriveMode]
  BY DEF TypeOK, DriveMode
<1>3. inbox'[i] = <<>>
  BY <1>1, <1>2 DEF PoseInv, InboxOne
<1>4. \A c : ~InHand(i, c)' /\ (InHand(i, c) <=> c = cmd)
  BY <1>1, <1>3 DEF InHand
<1>5. /\ driveMode'[i] = m /\ out'[i] = out[i] \cup {m}
      /\ driveZero'[i] = IF cmd = "SetZero" THEN 0 ELSE driveZero[i]
      /\ i \in ran' <=> i \in ran \/ cmd = "Enable"
  BY <1>1, <1>2
<1>6. /\ cmd = "Enable" => m = "Run"
      /\ cmd = "Stop" => m = "Reset"
      /\ cmd \notin {"Enable", "Stop"} => m = driveMode[i]
  OBVIOUS
<1>7. \A j \in Joint \ {i} :
        /\ inbox'[j] = inbox[j] /\ driveMode'[j] = driveMode[j] /\ out'[j] = out[j]
        /\ driveZero'[j] = driveZero[j] /\ (j \in ran' <=> j \in ran)
  BY <1>1, <1>2
<1> HIDE DEF cmd, m
<1>8. Call' /\ Routed' /\ TargInv'
  BY <1>1 DEF PoseInv, Call, Routed, TargInv
<1>9. InboxOne'
  BY <1>3, <1>7 DEF PoseInv, InboxOne
<1>10. \A j \in Joint : TxOf(j)' = TxOf(j) /\ RxOf(j)' = RxOf(j) /\ (InSession(j)' <=> InSession(j))
  BY <1>1 DEF TxOf, RxOf, InSession
<1>11. ASSUME NEW j \in Joint, ~Latched', j \notin dead' PROVE Wire(j)'
  <2>1. Wire(j)
    BY <1>1, <1>11 DEF PoseInv, WireInv, Latched
  <2>2. CASE j # i
    <3>1. Like(TxOf(j), TxOf(j)', j)
      BY <1>10, LikeSame
    <3> QED BY <1>1, <1>7, <1>10, <2>1, <2>2, <3>1, WireSame
  <2>3. CASE j = i
    <3>1. Hot(j)' => Hot(j)
      BY <1>4, <1>5, <1>6, <2>3 DEF Hot
    <3>2. driveZero'[j] # Quiet => driveMode'[j] = "Reset"
      BY <1>4, <1>5, <1>6, <2>1, <2>3 DEF Wire
    <3>3. Queued(TxOf(j), "Enable", j) => driveZero'[j] = Quiet
      BY <1>4, <1>5, <2>1, <2>3 DEF Wire
    <3>4. ZeroClock(j)'
      <4>1. cmd = "SetZero" => driveZero'[j] = 0
        BY <1>5, <2>3
      <4>2. cmd # "SetZero" => driveZero'[j] = driveZero[j]
        BY <1>5, <2>3
      <4>3. cmd = "SetZero" <=> InHand(j, "SetZero")
        BY <1>4, <2>3
      <4>4. ~InHand(j, "SetZero")' /\ zeroAge'[j] = zeroAge[j]
        BY <1>1, <1>4, <2>3
      <4> QED BY <1>10, <2>1, <4>1, <4>2, <4>3, <4>4 DEF Wire, ZeroClock
    <3>5. ~InSession(j)' => Settles(j)'
      BY <1>10, <2>1, <3>1 DEF Wire, Settles
    <3> QED BY <1>4, <1>10, <2>1, <2>3, <3>1, <3>2, <3>3, <3>4, <3>5 DEF Wire
  <2> QED BY <2>2, <2>3
<1>12. ASSUME NEW j \in Joint, InSession(j)' PROVE Sess(j)'
  <2>1. Sess(j)
    BY <1>10, <1>12 DEF PoseInv, SessInv
  <2>2. CASE j # i
    <3>1. \A c : InHand(j, c)' <=> InHand(j, c)
      BY <1>7, <2>2 DEF InHand
    <3> QED BY <1>1, <1>7, <1>10, <2>1, <2>2, <3>1 DEF Sess
  <2>3. CASE j = i
    <3>1. j \notin ran' => j \notin ran /\ driveMode'[j] = "Reset" /\ out'[j] = out[j] \cup {"Reset"}
      BY <1>5, <1>6, <2>1, <2>3 DEF Sess
    <3>2. j \in ran => j \in ran'
      BY <1>1
    <3> QED BY <1>1, <1>4, <1>10, <2>1, <2>3, <3>1, <3>2 DEF Sess
  <2> QED BY <2>2, <2>3
<1> QED BY <1>8, <1>9, <1>11, <1>12 DEF PoseInv, WireInv, SessInv

\* A drive that did not act on this session's Enable reports Reset.
LEMMA PoseDriveReports == ASSUME TypeOK, PoseInv, NEW i \in Joint, DriveReports(i) PROVE PoseInv'
<1>1. /\ UNCHANGED <<pc, cont, targets, mode, active, fault, zeroAge, tx, rx, inbox, driveMode, driveZero,
                     dead, ran, posed, writesPending, echoPending, offEchoAge>>
      /\ out' = [out EXCEPT ![i] = @ \cup {driveMode[i]}]
  BY DEF DriveReports, callVars, sessionVars, authorityVars, poseVars
<1>2. \A j \in Joint : "Run" \in out'[j] => "Run" \in out[j] \/ driveMode[j] = "Run"
  BY <1>1 DEF TypeOK
<1>3. Call' /\ Routed' /\ InboxOne'
  BY <1>1 DEF PoseInv, Call, Routed, InboxOne
<1>4. ASSUME NEW j \in Joint
      PROVE  /\ TxOf(j)' = TxOf(j) /\ RxOf(j)' = RxOf(j) /\ (InSession(j)' <=> InSession(j))
             /\ \A c : InHand(j, c)' <=> InHand(j, c)
             /\ Like(TxOf(j), TxOf(j)', j)
  BY <1>1, LikeSame DEF TxOf, RxOf, InSession, InHand
<1>5. ASSUME NEW j \in Joint, ~Latched', j \notin dead' PROVE Wire(j)'
  <2>1. Wire(j)
    BY <1>1, <1>5 DEF PoseInv, WireInv, Latched
  <2> QED BY <1>1, <1>4, <2>1, WireSame
<1>6. ASSUME NEW j \in Joint, InSession(j)' PROVE Sess(j)'
  <2>1. Sess(j)
    BY <1>4, <1>6 DEF PoseInv, SessInv
  <2>2. j \notin ran /\ "Run" \in out'[j] => "Run" \in out[j]
    BY <1>2, <2>1 DEF Sess
  <2> QED BY <1>1, <1>4, <2>1, <2>2 DEF Sess
<1>7. ASSUME NEW j \in Joint, cont' # "none", j \in targets' PROVE Targ(j)'
  <2>1. Targ(j)
    BY <1>1, <1>7 DEF PoseInv, TargInv
  <2> QED BY <1>1, <1>4, <2>1, TargSame
<1> QED BY <1>3, <1>5, <1>6, <1>7 DEF PoseInv, WireInv, SessInv, TargInv

\* A report of Run from before this session's Enable leaves before its echo.
LEMMA PoseDriveSends ==
    ASSUME TypeOK, PoseInv, NEW i \in Joint, NEW m \in DriveMode, DriveSends(i, m) PROVE PoseInv'
<1> DEFINE b == Route[i]
           g == [kind |-> "Status", from |-> {i}, mode |-> m]
<1>1. /\ UNCHANGED <<pc, cont, targets, mode, active, fault, zeroAge, tx, inbox, driveMode, driveZero,
                     dead, ran, posed, writesPending, echoPending, offEchoAge>>
      /\ out' = [out EXCEPT ![i] = @ \ {m}] /\ m \in out[i] /\ pc = "idle"
      /\ rx' = [rx EXCEPT ![b] = Append(@, g)]
  BY DEF DriveSends, callVars, sessionVars, authorityVars, poseVars
<1>2. /\ b \in Bus /\ rx \in [Bus -> Seq(Received)] /\ rx[b] \in Seq(ReceivedOn(b))
      /\ g \in ReceivedOn(b)
  BY SessionAssumption DEF SessionAssumption, TypeOK, PoseInv, Routed, ReceivedOn, On
<1>3. rx'[b] = Append(rx[b], g) /\ \A c \in Bus \ {b} : rx'[c] = rx[c]
  BY <1>1, <1>2
<1>4. \A j : /\ \A c \in Echoed : ~Heard(g, c, j)
             /\ RunReport(g, j) => j = i /\ m = "Run"
  BY DEF Heard, RunReport, Echoed
<1> HIDE DEF b, g
<1>5. Routed'
  <2>1. rx'[b] \in Seq(ReceivedOn(b))
    <3> DEFINE G == ReceivedOn(b)
    <3>1. rx[b] \in Seq(G) /\ g \in G
      BY <1>2
    <3> HIDE DEF G
    <3>2. rx'[b] \in Seq(G)
      BY <1>3, <3>1
    <3> QED BY <3>2 DEF G
  <2> QED BY <1>1, <1>3, <2>1 DEF PoseInv, Routed
<1>6. Call' /\ InboxOne' /\ TargInv'
  BY <1>1 DEF PoseInv, Call, InboxOne, TargInv
<1>7. ASSUME NEW j \in Joint
      PROVE  /\ TxOf(j)' = TxOf(j) /\ Like(TxOf(j), TxOf(j)', j) /\ (InSession(j)' <=> InSession(j))
             /\ \A c : InHand(j, c)' <=> InHand(j, c)
  BY <1>1, LikeSame DEF TxOf, InSession, InHand
<1>8. ASSUME NEW j \in Joint
      PROVE  /\ \A c \in Echoed : EchoIn(RxOf(j)', c, j) <=> EchoIn(RxOf(j), c, j)
             /\ RunIn(RxOf(j)', j) => RunIn(RxOf(j), j) \/ (j = i /\ m = "Run")
             /\ RunsLead(RxOf(j), j) /\ (j = i /\ m = "Run" => ~EchoIn(RxOf(j), "Enable", j))
                    => RunsLead(RxOf(j)', j)
  <2>1. CASE Route[j] # b
    <3>1. RxOf(j)' = RxOf(j)
      BY <1>3, <2>1, SessionAssumption DEF SessionAssumption, RxOf
    <3> QED BY <3>1
  <2>2. CASE Route[j] = b
    <3>1. RxOf(j) = rx[b] /\ RxOf(j)' = Append(rx[b], g)
      BY <1>3, <2>2 DEF RxOf
    <3> QED BY <1>2, <1>4, <3>1, HeardAppended
  <2> QED BY <2>1, <2>2
<1>9. "SetZero" \in Echoed /\ "Enable" \in Echoed
  BY DEF Echoed
<1>10. ASSUME NEW j \in Joint, ~Latched', j \notin dead' PROVE Wire(j)'
  <2>1. Wire(j)
    BY <1>1, <1>10 DEF PoseInv, WireInv, Latched
  <2> QED BY <1>1, <1>7, <1>8, <1>9, <2>1, WireSame
<1>11. ASSUME NEW j \in Joint, InSession(j)' PROVE Sess(j)'
  <2>1. Sess(j) /\ (j \in writesPending => j \in echoPending)
    BY <1>7, <1>11 DEF PoseInv, SessInv, Call, InSession
  <2>2. "Run" \in out'[j] => "Run" \in out[j]
    BY <1>1 DEF TypeOK
  <2>3. ASSUME j = i, m = "Run", j \notin ran
        PROVE  j \in echoPending /\ ~EchoIn(RxOf(j), "Enable", j)
    BY <1>1, <2>1, <2>3 DEF Sess
  <2>4. j \notin ran => (RunIn(RxOf(j)', j) => j \in echoPending) /\ RunsLead(RxOf(j)', j)
    BY <1>8, <2>1, <2>3 DEF Sess
  <2> QED BY <1>1, <1>7, <1>8, <1>9, <2>1, <2>2, <2>4 DEF Sess
<1> QED BY <1>5, <1>6, <1>10, <1>11 DEF PoseInv, WireInv, SessInv

\* A drive loses power, or dies.
LEMMA PoseDriveFails ==
    ASSUME TypeOK, PoseInv, NEW i \in Joint, DriveReboots(i) \/ DriveDies(i) PROVE PoseInv'
<1>1. /\ UNCHANGED <<pc, cont, targets, mode, active, fault, zeroAge, tx, rx, driveZero,
                     ran, posed, writesPending, echoPending, offEchoAge>>
      /\ pc = "idle"
  BY DEF DriveReboots, DriveDies, callVars, sessionVars, authorityVars, poseVars
<1>2. ASSUME NEW j \in Joint
      PROVE  /\ driveMode'[j] = driveMode[j] \/ driveMode'[j] = "Reset"
             /\ j \notin dead' => j \notin dead /\ inbox'[j] = inbox[j]
             /\ inbox'[j] = inbox[j] \/ inbox'[j] = <<>>
             /\ "Run" \in out'[j] => "Run" \in out[j]
  BY DEF TypeOK, DriveReboots, DriveDies
<1>3. Call' /\ Routed' /\ TargInv'
  BY <1>1 DEF PoseInv, Call, Routed, TargInv
<1>4. InboxOne'
  BY <1>2 DEF PoseInv, InboxOne
<1>5. ASSUME NEW j \in Joint
      PROVE  /\ TxOf(j)' = TxOf(j) /\ RxOf(j)' = RxOf(j) /\ (InSession(j)' <=> InSession(j))
             /\ \A c : InHand(j, c)' => InHand(j, c)
  BY <1>1, <1>2 DEF TxOf, RxOf, InSession, InHand
<1>6. ASSUME NEW j \in Joint, ~Latched', j \notin dead' PROVE Wire(j)'
  <2>1. Wire(j)
    BY <1>1, <1>2, <1>6 DEF PoseInv, WireInv, Latched
  <2>2. \A c : InHand(j, c)' <=> InHand(j, c)
    BY <1>2, <1>6 DEF InHand
  <2>3. Hot(j)' => Hot(j)
    BY <1>2, <2>2 DEF Hot
  <2>4. (~InSession(j)' => Settles(j)') /\ ZeroClock(j)'
    BY <1>1, <1>5, <2>1, <2>2, <2>3 DEF Wire, Settles, ZeroClock
  <2> QED BY <1>1, <1>2, <1>5, <2>1, <2>2, <2>3, <2>4 DEF Wire
<1>7. ASSUME NEW j \in Joint, InSession(j)' PROVE Sess(j)'
  <2>1. Sess(j) /\ RxLike(RxOf(j), RxOf(j)', j)
    BY <1>5, <1>7, RxLikeSame DEF PoseInv, SessInv
  <2>2. driveMode'[j] \in {driveMode[j], "Reset"}
    BY <1>2
  <2> QED BY <1>1, <1>2, <1>5, <2>1, <2>2, SessSame
<1> QED BY <1>3, <1>4, <1>6, <1>7 DEF PoseInv, WireInv, SessInv

\* A period passes: every report of it has left, and both clocks advance.
LEMMA PoseTick == ASSUME TypeOK, PoseInv, Tick PROVE PoseInv'
<1>1. /\ UNCHANGED <<pc, cont, targets, mode, active, fault, tx, rx, inbox, out, driveMode, dead,
                     ran, posed, writesPending, echoPending>>
      /\ pc = "idle" /\ \A j \in Joint : inbox[j] = <<>> /\ out[j] = {}
      /\ \A j \in Joint : zeroAge'[j] = Older(zeroAge[j], MaxZeroAge)
      /\ \A j \in Joint : driveZero'[j] = Older(driveZero[j], Quiet)
  BY DEF Tick, callVars, authorityVars
<1>2. ASSUME NEW j \in Joint
      PROVE  /\ TxOf(j)' = TxOf(j) /\ RxOf(j)' = RxOf(j) /\ (InSession(j)' <=> InSession(j))
             /\ \A c : ~InHand(j, c)' /\ ~InHand(j, c)
  BY <1>1 DEF TxOf, RxOf, InSession, InHand
<1>3. Call' /\ Routed' /\ InboxOne' /\ TargInv'
  BY <1>1 DEF PoseInv, Call, Routed, InboxOne, TargInv
<1>4. ASSUME NEW j \in Joint, ~Latched', j \notin dead' PROVE Wire(j)'
  <2>1. Wire(j)
    BY <1>1, <1>4 DEF PoseInv, WireInv, Latched
  <2>2. Hot(j)' <=> Hot(j)
    BY <1>1, <1>2 DEF Hot
  <2>3. /\ zeroAge[j] \in 0 .. MaxZeroAge /\ driveZero[j] \in 0 .. Quiet
        /\ Quiet \in Nat /\ MaxZeroAge \in Nat /\ Quiet < MaxZeroAge
    BY SessionAssumption DEF SessionAssumption, TypeOK, MaxZeroAge
  <2>4. driveZero[j] = Quiet => driveZero'[j] = Quiet
    BY <1>1, <2>3 DEF Older
  <2>5. zeroAge[j] <= driveZero[j] => zeroAge'[j] <= driveZero'[j] \/ driveZero'[j] = Quiet
    BY <1>1, <2>3 DEF Older
  <2>6. ZeroClock(j)'
    BY <1>2, <2>1, <2>4, <2>5 DEF Wire, ZeroClock
  <2>7. ~InSession(j)' => Settles(j)'
    BY <1>2, <2>1, <2>2 DEF Wire, Settles
  <2> QED BY <1>1, <1>2, <2>1, <2>2, <2>4, <2>6, <2>7 DEF Wire
<1>5. ASSUME NEW j \in Joint, InSession(j)' PROVE Sess(j)'
  <2>1. Sess(j) /\ "Run" \notin out'[j]
    BY <1>1, <1>2, <1>5 DEF PoseInv, SessInv
  <2> QED BY <1>1, <1>2, <2>1 DEF Sess
<1> QED BY <1>3, <1>4, <1>5 DEF PoseInv, WireInv, SessInv

------------------------------------------------------------------------------
\* The invariant holds initially.
LEMMA PoseInvInit == Init => PoseInv
<1> SUFFICES ASSUME Init PROVE PoseInv
  OBVIOUS
<1>1. Call /\ InboxOne /\ SessInv /\ TargInv
  BY DEF Init, Call, InboxOne, SessInv, TargInv, InSession
<1>2. Routed
  BY DEF Init, Routed
<1>3. ASSUME NEW j \in Joint PROVE Wire(j)
  <2>1. /\ TxOf(j) = <<>> /\ inbox[j] = <<>> /\ driveMode[j] = "Reset" /\ driveZero[j] = Quiet
    BY SessionAssumption DEF SessionAssumption, Init, TxOf
  <2>2. \A c : ~InHand(j, c)
    BY <2>1 DEF InHand
  <2>3. /\ \A c : ~Queued(TxOf(j), c, j)
        /\ EnablesStopped(TxOf(j), j) /\ ZeroesLast(TxOf(j), j)
    BY <2>1 DEF Queued, EnablesStopped, ZeroesLast
  <2>4. ~Hot(j)
    BY <2>1, <2>2 DEF Hot
  <2> QED BY <2>1, <2>2, <2>3, <2>4 DEF Wire, Settles, ZeroClock
<1> QED BY <1>1, <1>2, <1>3 DEF PoseInv, WireInv

\* Every step keeps it, one lemma per operation.
LEMMA PoseInvStep == ASSUME TypeOK, PoseInv, [Next]_vars PROVE PoseInv'
<1>1. CASE SupervisorStep
  BY <1>1, PoseSync, PosePoll, PoseReadEcho, PoseReadStatus, PoseReadFails, PoseIdle,
     PoseEnableTargets, PoseOpenGate, PoseActivate, PoseSendMit, PoseSetZero
     DEF SupervisorStep
<1>2. CASE WireStep
  BY <1>2, PoseTransmit, PoseDriveActs, PoseDriveReports, PoseDriveSends, PoseDriveFails
     DEF WireStep
<1> QED BY <1>1, <1>2, PoseStopStep, PoseTick, PoseIdle DEF Next

\* It is an invariant of the specification.
LEMMA PoseInvHolds == Spec => []PoseInv
<1>1. TypeOK /\ PoseInv /\ [Next]_vars => PoseInv'
  BY PoseInvStep
<1> QED BY PoseInvInit, TypeCorrect, <1>1, PTL DEF Spec

(***************************************************************************)
(* A session pose exists only for a drive that acted on this session's own *)
(* Enable, however late frames are sent and read.                          *)
(***************************************************************************)
THEOREM PosesFollow == Spec => []PoseFollowsEnable
<1>1. TypeOK /\ PoseInv => PoseFollowsEnable
  BY DEF TypeOK, PoseInv, SessInv, InSession, Sess, PoseFollowsEnable
<1> QED BY <1>1, TypeCorrect, PoseInvHolds, PTL

(***************************************************************************)
(* Once nothing is in flight outside a session, a live drive is in Reset   *)
(* or a fault is latched: no stop leaves a drive enabled unnoticed.        *)
(***************************************************************************)
THEOREM RunIsNoticed == Spec => []NoUnnoticedRun
<1>1. TypeOK /\ PoseInv => NoUnnoticedRun
  <2> SUFFICES ASSUME TypeOK, PoseInv, Quiescent, mode = "Disabled", ~Latched,
                      NEW j \in Joint, j \notin dead
               PROVE  driveMode[j] = "Reset"
    BY DEF NoUnnoticedRun
  <2>1. Wire(j) /\ ~InSession(j)
    BY DEF PoseInv, WireInv, InSession
  <2>2. TxOf(j) = <<>> /\ inbox[j] = <<>>
    BY SessionAssumption DEF SessionAssumption, Quiescent, TxOf
  <2>3. ~Queued(TxOf(j), "Stop", j)
    BY <2>2 DEF Queued
  <2>4. ~Hot(j)
    BY <2>1, <2>3 DEF Wire, Settles
  <2> QED BY <2>2, <2>4 DEF Hot, InHand, TypeOK, DriveMode
<1> QED BY <1>1, TypeCorrect, PoseInvHolds, PTL

(***************************************************************************)
(* Servo effort is written only while every Active drive acted on this     *)
(* session's Enable and holds its grant.                                   *)
(***************************************************************************)
THEOREM ServoInSession == Spec => ServoNeedsSession
<1> DEFINE Step ==
      \A b \in Bus, S \in SUBSET Joint :
        (pc = "idle" /\ pc' = "idle" /\ tx'[b] = Append(tx[b], [cmd |-> "Servo", to |-> S]))
            => active \subseteq ran /\ active \subseteq granted
<1>1. TypeOK /\ PoseFollowsEnable /\ [Next]_vars => [Step]_vars
  <2> SUFFICES ASSUME TypeOK, PoseFollowsEnable, Next, NEW b \in Bus, NEW S \in SUBSET Joint,
                      pc = "idle", pc' = "idle",
                      tx'[b] = Append(tx[b], [cmd |-> "Servo", to |-> S])
               PROVE  active \subseteq ran /\ active \subseteq granted
    OBVIOUS
  <2>1. tx[b] \in Seq(Group) /\ [cmd |-> "Servo", to |-> S] \in Group /\ tx \in [Bus -> Seq(Group)]
    BY DEF TypeOK, Group, Command
  <2>2. /\ Len(tx'[b]) = Len(tx[b]) + 1 /\ tx'[b][Len(tx[b]) + 1].cmd = "Servo" /\ Len(tx[b]) \in Nat
    BY <2>1
  <2>3. \A q \in [Bus -> Seq(Group)], cmd \in Command, T \in SUBSET Joint :
          \/ Queue(q, cmd, T)[b] = q[b]
          \/ /\ Len(Queue(q, cmd, T)[b]) = Len(q[b]) + 1 /\ Len(q[b]) \in Nat
             /\ Queue(q, cmd, T)[b][Len(q[b]) + 1].cmd = cmd
    <3> SUFFICES ASSUME NEW q \in [Bus -> Seq(Group)], NEW cmd \in Command, NEW T \in SUBSET Joint,
                        Queue(q, cmd, T)[b] # q[b]
                 PROVE  /\ Len(Queue(q, cmd, T)[b]) = Len(q[b]) + 1 /\ Len(q[b]) \in Nat
                        /\ Queue(q, cmd, T)[b][Len(q[b]) + 1].cmd = cmd
      OBVIOUS
    <3>1. /\ Queue(q, cmd, T)[b] = Append(q[b], [cmd |-> cmd, to |-> On(b, T)])
          /\ [cmd |-> cmd, to |-> On(b, T)] \in Group /\ q[b] \in Seq(Group)
      BY DEF Queue, Group, On
    <3> QED BY <3>1
  <2>4. ASSUME NEW cmd \in {"Neutral", "Servo"}, SendMit(cmd)
        PROVE  active \subseteq ran /\ active \subseteq granted
    <3>1. active \ writesPending \in SUBSET Joint /\ cmd \in Command
      BY DEF TypeOK, Command
    <3>2. tx' = Queue(tx, cmd, active \ writesPending)
      BY <2>4 DEF SendMit
    <3>3. tx'[b] = tx[b] \/ tx'[b][Len(tx[b]) + 1].cmd = cmd
      BY <2>1, <2>3, <3>1, <3>2
    <3>4. cmd = "Servo"
      BY <2>2, <3>3
    <3>5. active \subseteq posed
      BY <2>4, <3>4 DEF SendMit, Unposed, PoseCurrent, TypeOK
    <3> QED BY <2>4, <3>5 DEF SendMit, MayCommand, GrantsHeld, PoseFollowsEnable
  <2>5. ~SyncReporting
    <3> SUFFICES ASSUME SyncReporting PROVE FALSE
      OBVIOUS
    <3>1. PICK W \in SUBSET Joint :
            tx' = Queue(Queue(tx, "Off", W \ {j \in W : Desired(j)}), "On", {j \in W : Desired(j)})
      BY DEF SyncReporting, Waves, SyncDue
    <3> DEFINE ons == {j \in W : Desired(j)}
               q == Queue(tx, "Off", W \ ons)
    <3>2. /\ ons \in SUBSET Joint /\ W \ ons \in SUBSET Joint /\ "Off" \in Command /\ "On" \in Command
          /\ tx' = Queue(q, "On", ons)
      BY <3>1 DEF Command
    <3> HIDE DEF ons
    <3>3. q \in [Bus -> Seq(Group)]
      BY <2>1, <3>2, QueueType
    <3>4. \/ q[b] = tx[b]
          \/ Len(q[b]) = Len(tx[b]) + 1 /\ q[b][Len(tx[b]) + 1].cmd = "Off"
      BY <2>1, <2>3, <3>2
    <3> HIDE DEF q
    <3>5. \/ tx'[b] = q[b]
          \/ Len(tx'[b]) = Len(q[b]) + 1 /\ tx'[b][Len(q[b]) + 1].cmd = "On"
      BY <2>3, <3>2, <3>3, ZenonT(30)
    <3> QED BY <2>2, <3>4, <3>5
  <2>6. ASSUME NEW j \in Joint PROVE ~SetZero(j)
    <3> SUFFICES ASSUME SetZero(j) PROVE FALSE
      OBVIOUS
    <3>1. tx' = Queue(tx, "SetZero", {j}) /\ "SetZero" \in Command /\ {j} \in SUBSET Joint
      BY DEF SetZero, Command
    <3>2. tx'[b] = tx[b] \/ tx'[b][Len(tx[b]) + 1].cmd = "SetZero"
      BY <2>1, <2>3, <3>1
    <3> QED BY <2>2, <3>2
  <2>7. ASSUME NEW c \in Bus, Transmit(c) PROVE FALSE
    <3>1. tx' = [tx EXCEPT ![c] = Tail(@)] /\ tx[c] # <<>> /\ tx[c] \in Seq(Group)
      BY <2>1, <2>7 DEF Transmit
    <3>2. Len(tx'[b]) <= Len(tx[b])
      BY <2>1, <3>1
    <3> QED BY <2>2, <3>2
  <2>8. tx' # tx
    BY <2>2
  <2>9. ~StopStep
    BY DEF StopStep, PollWriteFails, DrainStops, GateWriteFails, ActivateFails, SendMitStale,
           SendMitFails, CheckActiveReferences, DisableAll, LatchControlFault, PerformStop
  <2>10. ASSUME SupervisorStep PROVE \/ SyncReporting
                                     \/ \E cmd \in {"Neutral", "Servo"} : SendMit(cmd)
                                     \/ \E j \in Joint : SetZero(j)
    BY <2>8, <2>10
       DEF SupervisorStep, Poll, ReadEnableEcho, ReadOffEcho, ReadZeroEcho, ReadStatus, ReadHazard,
           Reads, ReadFails, DrainReturns, EnableTargets, OpenGate, GateReady, Drained, Activate,
           Grant, Revoke
  <2>11. ASSUME WireStep \/ Tick PROVE \E c \in Bus : Transmit(c)
    BY <2>8, <2>11 DEF WireStep, DriveActs, DriveReports, DriveSends, DriveReboots, DriveDies, Tick
  <2> QED BY <2>4, <2>5, <2>6, <2>7, <2>9, <2>10, <2>11 DEF Next
<1> QED BY <1>1, TypeCorrect, PosesFollow, PTL DEF Spec, ServoNeedsSession
------------------------------------------------------------------------------
(***************************************************************************)
(* A healthy drive never trips the session, for any wire: a report of      *)
(* Reset that the drain would take for a contradiction was built before    *)
(* the drive's stream was off, and is read before the Enable's echo.       *)
(***************************************************************************)
ResetReport(r, j) == Heard(r, "Status", j) /\ r.mode = "Reset"
ResetIn(q, j) == \E k \in 1 .. Len(q) : ResetReport(q[k], j)
\* No report of Reset is behind an echo of Enable.
ResetsLead(q, j) ==
    \A i, e \in 1 .. Len(q) : ResetReport(q[i], j) /\ e < i => ~Heard(q[e], "Enable", j)
OneOff(q, j) ==
    \A k, l \in 1 .. Len(q) : Frame(q[k], "Off", j) /\ Frame(q[l], "Off", j) => k = l
\* Nothing for the drive is in front of its Enable.
EnableFirst(q, j) ==
    \A k \in 1 .. Len(q) : j \in q[k].to /\ q[k].cmd # "Enable" =>
        \E s \in 1 .. Len(q) : s < k /\ Frame(q[s], "Enable", j)

\* The two queues of the drive's interface say no more of it than before.
TripTx(p, r, j) ==
    /\ \A c : Queued(r, c, j) <=> Queued(p, c, j)
    /\ OneOff(p, j) => OneOff(r, j)
    /\ EnableFirst(p, j) => EnableFirst(r, j)
TripRx(p, r, j) ==
    /\ \A c : EchoIn(r, c, j) => EchoIn(p, c, j)
    /\ ResetIn(r, j) => ResetIn(p, j)
    /\ ResetsLead(p, j) => ResetsLead(r, j)

\* A frame is appended to a transmit queue.
LEMMA TripAppended ==
    ASSUME NEW G, NEW q \in Seq(G), NEW g \in G, NEW j
    PROVE  LET r == Append(q, g)
           IN /\ \A c : Queued(r, c, j) <=> Queued(q, c, j) \/ Frame(g, c, j)
              /\ OneOff(q, j) /\ ~Frame(g, "Off", j) => OneOff(r, j)
              /\ ~Queued(q, "Off", j) => OneOff(r, j)
              /\ EnableFirst(q, j) /\ (j \in g.to => Queued(q, "Enable", j)) => EnableFirst(r, j)
              /\ EnableFirst(q, j) /\ g.cmd = "Enable" => EnableFirst(r, j)
<1> DEFINE r == Append(q, g)
<1>1. /\ Len(q) \in Nat /\ Len(r) = Len(q) + 1
      /\ \A k \in 1 .. Len(q) : r[k] = q[k]
      /\ r[Len(q) + 1] = g
  OBVIOUS
<1> HIDE DEF r
<1>2. \A k \in 1 .. Len(r) : (k \in 1 .. Len(q) /\ r[k] = q[k]) \/ (k = Len(r) /\ r[k] = g)
  BY <1>1
<1>3. \A k \in 1 .. Len(q) : k \in 1 .. Len(r) /\ k < Len(r) /\ r[k] = q[k]
  BY <1>1
<1>4. Len(r) \in 1 .. Len(r) /\ r[Len(r)] = g
  BY <1>1
<1>5. \A c : Queued(r, c, j) <=> Queued(q, c, j) \/ Frame(g, c, j)
  BY <1>2, <1>3, <1>4 DEF Queued
<1>6. OneOff(q, j) /\ ~Frame(g, "Off", j) => OneOff(r, j)
  BY <1>2 DEF OneOff
<1>7. ~Queued(q, "Off", j) => OneOff(r, j)
  BY <1>2 DEF OneOff, Queued
<1>8. EnableFirst(q, j) /\ (j \in g.to => Queued(q, "Enable", j)) => EnableFirst(r, j)
  BY <1>2, <1>3 DEF EnableFirst, Queued
<1>9. EnableFirst(q, j) /\ g.cmd = "Enable" => EnableFirst(r, j)
  BY <1>2, <1>3 DEF EnableFirst
<1> QED BY <1>5, <1>6, <1>7, <1>8, <1>9 DEF r

\* The head of a transmit queue leaves.
LEMMA TripTailed ==
    ASSUME NEW G, NEW q \in Seq(G), q # <<>>, NEW j
    PROVE  LET r == Tail(q)
               h == Head(q)
           IN /\ \A c : Queued(q, c, j) <=> Queued(r, c, j) \/ Frame(h, c, j)
              /\ OneOff(q, j) => OneOff(r, j)
              /\ OneOff(q, j) /\ Frame(h, "Off", j) => ~Queued(r, "Off", j)
              /\ EnableFirst(q, j) /\ j \notin h.to => EnableFirst(r, j)
              /\ EnableFirst(q, j) /\ j \in h.to => h.cmd = "Enable"
<1> DEFINE r == Tail(q)
           h == Head(q)
<1>1. /\ Len(q) \in Nat /\ Len(r) = Len(q) - 1 /\ Len(r) \in Nat
      /\ \A k \in 1 .. Len(r) : r[k] = q[k + 1]
      /\ q[1] = h
  OBVIOUS
<1> HIDE DEF r, h
<1>2. \A k \in 1 .. Len(r) : k + 1 \in 1 .. Len(q) /\ q[k + 1] = r[k] /\ 1 < k + 1
  BY <1>1
<1>3. \A k \in 1 .. Len(q) : (k = 1 /\ q[k] = h) \/ (k - 1 \in 1 .. Len(r) /\ q[k] = r[k - 1] /\ 1 < k)
  BY <1>1
<1>4. 1 \in 1 .. Len(q) /\ q[1] = h
  BY <1>1
<1>5. \A c : Queued(q, c, j) <=> Queued(r, c, j) \/ Frame(h, c, j)
  BY <1>2, <1>3, <1>4 DEF Queued
<1>6. OneOff(q, j) => OneOff(r, j)
  <2> SUFFICES ASSUME OneOff(q, j), NEW k \in 1 .. Len(r), NEW l \in 1 .. Len(r),
                      Frame(r[k], "Off", j), Frame(r[l], "Off", j)
               PROVE  k = l
    BY DEF OneOff
  <2>1. k + 1 = l + 1
    BY <1>2 DEF OneOff
  <2> QED BY <2>1
<1>7. OneOff(q, j) /\ Frame(h, "Off", j) => ~Queued(r, "Off", j)
  <2> SUFFICES ASSUME OneOff(q, j), Frame(h, "Off", j), NEW k \in 1 .. Len(r), Frame(r[k], "Off", j)
               PROVE  FALSE
    BY DEF Queued
  <2>1. k + 1 = 1
    BY <1>2, <1>4 DEF OneOff
  <2> QED BY <2>1
<1>8. EnableFirst(q, j) /\ j \notin h.to => EnableFirst(r, j)
  <2> SUFFICES ASSUME EnableFirst(q, j), j \notin h.to,
                      NEW k \in 1 .. Len(r), j \in r[k].to, r[k].cmd # "Enable"
               PROVE  \E s \in 1 .. Len(r) : s < k /\ Frame(r[s], "Enable", j)
    BY DEF EnableFirst
  <2>1. PICK s \in 1 .. Len(q) : s < k + 1 /\ Frame(q[s], "Enable", j)
    BY <1>2 DEF EnableFirst
  <2>2. s - 1 \in 1 .. Len(r) /\ Frame(r[s - 1], "Enable", j)
    BY <1>3, <2>1 DEF Frame
  <2> QED BY <2>1, <2>2
<1>9. EnableFirst(q, j) /\ j \in h.to => h.cmd = "Enable"
  BY <1>4 DEF EnableFirst
<1> QED BY <1>5, <1>6, <1>7, <1>8, <1>9 DEF r, h

\* Something is received.
LEMMA ResetAppended ==
    ASSUME NEW G, NEW q \in Seq(G), NEW g \in G, NEW j
    PROVE  LET r == Append(q, g)
           IN /\ \A c : EchoIn(r, c, j) <=> EchoIn(q, c, j) \/ Heard(g, c, j)
              /\ ResetIn(r, j) <=> ResetIn(q, j) \/ ResetReport(g, j)
              /\ ResetsLead(q, j) /\ (ResetReport(g, j) => ~EchoIn(q, "Enable", j))
                    => ResetsLead(r, j)
<1> DEFINE r == Append(q, g)
<1>1. /\ Len(q) \in Nat /\ Len(r) = Len(q) + 1
      /\ \A k \in 1 .. Len(q) : r[k] = q[k]
      /\ r[Len(q) + 1] = g
  OBVIOUS
<1> HIDE DEF r
<1>2. \A k \in 1 .. Len(r) : (k \in 1 .. Len(q) /\ r[k] = q[k]) \/ (k = Len(r) /\ r[k] = g)
  BY <1>1
<1>3. \A k \in 1 .. Len(q) : k \in 1 .. Len(r) /\ k < Len(r) /\ r[k] = q[k]
  BY <1>1
<1>4. Len(r) \in 1 .. Len(r) /\ r[Len(r)] = g
  BY <1>1
<1>5. \A c : EchoIn(r, c, j) <=> EchoIn(q, c, j) \/ Heard(g, c, j)
  BY <1>2, <1>3, <1>4 DEF EchoIn
<1>6. ResetIn(r, j) <=> ResetIn(q, j) \/ ResetReport(g, j)
  BY <1>2, <1>3, <1>4 DEF ResetIn
<1>7. ResetsLead(q, j) /\ (ResetReport(g, j) => ~EchoIn(q, "Enable", j)) => ResetsLead(r, j)
  <2> SUFFICES ASSUME ResetsLead(q, j), ResetReport(g, j) => ~EchoIn(q, "Enable", j),
                      NEW i \in 1 .. Len(r), NEW e \in 1 .. Len(r), ResetReport(r[i], j), e < i
               PROVE  ~Heard(r[e], "Enable", j)
    BY DEF ResetsLead
  <2>1. e \in 1 .. Len(q) /\ r[e] = q[e]
    BY <1>2
  <2>2. CASE i \in 1 .. Len(q)
    BY <1>3, <2>1, <2>2 DEF ResetsLead
  <2>3. CASE r[i] = g
    BY <2>1, <2>3 DEF EchoIn
  <2> QED BY <1>2, <2>2, <2>3
<1> QED BY <1>5, <1>6, <1>7 DEF r

\* The oldest received frame is read.
LEMMA ResetTailed ==
    ASSUME NEW G, NEW q \in Seq(G), q # <<>>, NEW j
    PROVE  LET r == Tail(q)
               h == Head(q)
           IN /\ TripRx(q, r, j)
              /\ ResetReport(h, j) => ResetIn(q, j)
              /\ \A c : Heard(h, c, j) => EchoIn(q, c, j)
              /\ ResetsLead(q, j) /\ Heard(h, "Enable", j) => ~ResetIn(r, j)
<1> DEFINE r == Tail(q)
           h == Head(q)
<1>1. /\ Len(q) \in Nat /\ Len(r) = Len(q) - 1 /\ Len(r) \in Nat
      /\ \A k \in 1 .. Len(r) : r[k] = q[k + 1]
      /\ q[1] = h
  OBVIOUS
<1> HIDE DEF r, h
<1>2. \A k \in 1 .. Len(r) : k + 1 \in 1 .. Len(q) /\ q[k + 1] = r[k] /\ 1 < k + 1
  BY <1>1
<1>3. 1 \in 1 .. Len(q) /\ q[1] = h
  BY <1>1
<1>4. \A c : (EchoIn(r, c, j) => EchoIn(q, c, j)) /\ (Heard(h, c, j) => EchoIn(q, c, j))
  BY <1>2, <1>3 DEF EchoIn
<1>5. (ResetIn(r, j) => ResetIn(q, j)) /\ (ResetReport(h, j) => ResetIn(q, j))
  BY <1>2, <1>3 DEF ResetIn
<1>6. ResetsLead(q, j) => ResetsLead(r, j)
  <2> SUFFICES ASSUME ResetsLead(q, j),
                      NEW i \in 1 .. Len(r), NEW e \in 1 .. Len(r), ResetReport(r[i], j), e < i
               PROVE  ~Heard(r[e], "Enable", j)
    BY DEF ResetsLead
  <2>1. /\ i + 1 \in 1 .. Len(q) /\ q[i + 1] = r[i]
        /\ e + 1 \in 1 .. Len(q) /\ q[e + 1] = r[e] /\ e + 1 < i + 1
    BY <1>2
  <2> QED BY <2>1 DEF ResetsLead
<1>7. ResetsLead(q, j) /\ Heard(h, "Enable", j) => ~ResetIn(r, j)
  BY <1>2, <1>3 DEF ResetsLead, ResetIn
<1> QED BY <1>4, <1>5, <1>6, <1>7 DEF r, h, TripRx

\* Queue, seen from one drive.
LEMMA QueueTrip ==
    ASSUME NEW q \in [Bus -> Seq(Group)], NEW cmd \in Command, NEW S \in SUBSET Joint,
           NEW j \in Joint
    PROVE  LET p == q[Route[j]]
               r == Queue(q, cmd, S)[Route[j]]
           IN /\ \A c : Queued(r, c, j) <=> Queued(p, c, j) \/ (c = cmd /\ j \in S)
              /\ j \notin S => TripTx(p, r, j)
              /\ ~Queued(p, "Off", j) => OneOff(r, j)
              /\ EnableFirst(p, j) /\ (cmd = "Enable" \/ Queued(p, "Enable", j)) => EnableFirst(r, j)
<1> DEFINE b == Route[j]
           p == q[b]
           g == [cmd |-> cmd, to |-> On(b, S)]
           r == Queue(q, cmd, S)[b]
<1>1. b \in Bus /\ p \in Seq(Group)
  BY SessionAssumption DEF SessionAssumption
<1>2. g \in Group
  BY DEF Group, On
<1>3. /\ \A c : Frame(g, c, j) <=> c = cmd /\ j \in S
      /\ j \in g.to <=> j \in S
      /\ g.cmd = cmd
  BY DEF Frame, On
<1>4. (r = p /\ j \notin S) \/ r = Append(p, g)
  BY <1>1 DEF Queue, On
<1> HIDE DEF b, p, g, r
<1>5. CASE r = p /\ j \notin S
  <2>1. ~Queued(p, "Off", j) => OneOff(r, j)
    BY <1>5 DEF Queued, OneOff
  <2> QED BY <1>5, <2>1, Zenon DEF TripTx, b, p, r
<1>6. CASE r = Append(p, g)
  <2>1. /\ \A c : Queued(r, c, j) <=> Queued(p, c, j) \/ (c = cmd /\ j \in S)
        /\ OneOff(p, j) /\ ~(cmd = "Off" /\ j \in S) => OneOff(r, j)
        /\ ~Queued(p, "Off", j) => OneOff(r, j)
        /\ EnableFirst(p, j) /\ (j \in S => Queued(p, "Enable", j)) => EnableFirst(r, j)
        /\ EnableFirst(p, j) /\ cmd = "Enable" => EnableFirst(r, j)
    BY <1>1, <1>2, <1>3, <1>6, TripAppended
  <2>2. j \notin S => TripTx(p, r, j)
    BY <2>1 DEF TripTx
  <2> QED BY <2>1, <2>2 DEF b, p, r
<1> QED BY <1>4, <1>5, <1>6
------------------------------------------------------------------------------
(***************************************************************************)
(* What is true of every drive, in a session or not.                       *)
(***************************************************************************)
DeadIsSilent(j) == j \in dead => out[j] = {} /\ inbox[j] = <<>>
NeverZeroed(j) ==
    j \notin Zeroed =>
        driveZero[j] = Quiet /\ ~Queued(TxOf(j), "SetZero", j) /\ ~InHand(j, "SetZero")
\* The identity's round trip emptied a target's transmit queue.
GateIsClear(j) == cont = "gate" /\ j \in targets => TxOf(j) = <<>>
BaseInv ==
    /\ applied \subseteq Sensed
    /\ \A j \in Joint : DeadIsSilent(j) /\ NeverZeroed(j) /\ GateIsClear(j)

\* Only SetZero writes a SetZero.
LEMMA ZeroWritten ==
    ASSUME TypeOK, Next, NEW j \in Joint, Queued(TxOf(j)', "SetZero", j)
    PROVE  Queued(TxOf(j), "SetZero", j) \/ SetZero(j)
<1> DEFINE Others == Command \ {"SetZero"}
<1>1. tx \in [Bus -> Seq(Group)] /\ Others \subseteq Command
  BY DEF TypeOK
<1>2. ASSUME NEW q \in [Bus -> Seq(Group)], NEW cmd \in Others, NEW S \in SUBSET Joint
      PROVE  /\ Queue(q, cmd, S) \in [Bus -> Seq(Group)]
             /\ Queued(Queue(q, cmd, S)[Route[j]], "SetZero", j) => Queued(q[Route[j]], "SetZero", j)
  <2>1. cmd \in Command /\ cmd # "SetZero"
    OBVIOUS
  <2>2. Queued(Queue(q, cmd, S)[Route[j]], "SetZero", j) <=>
            Queued(q[Route[j]], "SetZero", j) \/ ("SetZero" = cmd /\ j \in S)
    BY <2>1, QueuedIn, ZenonT(30)
  <2> QED BY <2>1, <2>2, QueueType
<1>3. {"Off", "On", "Enable", "Stop", "Neutral", "Servo"} \subseteq Others
  BY DEF Command
<1> HIDE DEF Others
<1>4. CASE SupervisorStep
  <2>1. CASE SyncReporting
    <3>1. PICK W \in SUBSET Joint :
            tx' = Queue(Queue(tx, "Off", W \ {k \in W : Desired(k)}), "On", {k \in W : Desired(k)})
      BY <2>1 DEF SyncReporting, Waves, SyncDue
    <3> DEFINE offs == W \ {k \in W : Desired(k)}
               ons == {k \in W : Desired(k)}
               q == Queue(tx, "Off", offs)
    <3>2. offs \in SUBSET Joint /\ ons \in SUBSET Joint /\ tx' = Queue(q, "On", ons)
      BY <3>1
    <3> HIDE DEF offs, ons
    <3>3. q \in [Bus -> Seq(Group)] /\ (Queued(q[Route[j]], "SetZero", j) => Queued(TxOf(j), "SetZero", j))
      BY <1>1, <1>2, <1>3, <3>2 DEF TxOf
    <3> HIDE DEF q
    <3>4. Queued(TxOf(j)', "SetZero", j) => Queued(q[Route[j]], "SetZero", j)
      BY <1>2, <1>3, <3>2, <3>3 DEF TxOf
    <3> QED BY <3>3, <3>4
  <2>2. ASSUME NEW offs \in SUBSET Joint, NEW wave \in SUBSET Joint, Poll(offs, wave)
        PROVE  Queued(TxOf(j), "SetZero", j)
    <3> DEFINE q == Queue(tx, "Off", offs)
    <3>1. tx' = Queue(q, "Enable", wave)
      BY <2>2 DEF Poll
    <3>2. q \in [Bus -> Seq(Group)] /\ (Queued(q[Route[j]], "SetZero", j) => Queued(TxOf(j), "SetZero", j))
      BY <1>1, <1>2, <1>3 DEF TxOf
    <3> HIDE DEF q
    <3>3. Queued(TxOf(j)', "SetZero", j) => Queued(q[Route[j]], "SetZero", j)
      BY <1>2, <1>3, <3>1, <3>2 DEF TxOf
    <3> QED BY <3>2, <3>3
  <2>3. ASSUME NEW offs \in SUBSET Joint, OpenGate(offs) PROVE Queued(TxOf(j), "SetZero", j)
    <3>1. tx' = Queue(tx, "Off", offs)
      BY <2>3 DEF OpenGate
    <3> QED BY <1>1, <1>2, <1>3, <3>1 DEF TxOf
  <2>4. ASSUME NEW cmd \in {"Neutral", "Servo"}, SendMit(cmd) PROVE Queued(TxOf(j), "SetZero", j)
    <3>1. tx' = Queue(tx, cmd, active \ writesPending) /\ active \ writesPending \in SUBSET Joint
      BY <2>4 DEF SendMit, TypeOK
    <3> QED BY <1>1, <1>2, <1>3, <3>1 DEF TxOf
  <2>5. ASSUME NEW i \in Joint, SetZero(i) PROVE Queued(TxOf(j), "SetZero", j) \/ SetZero(j)
    <3> DEFINE S == {i}
    <3>1. /\ tx' = Queue(tx, "SetZero", S) /\ S \in SUBSET Joint /\ "SetZero" \in Command
          /\ j \in S => SetZero(j)
      BY <2>5 DEF SetZero, Command
    <3> HIDE DEF S
    <3>2. Queued(Queue(tx, "SetZero", S)[Route[j]], "SetZero", j) <=>
              Queued(tx[Route[j]], "SetZero", j) \/ ("SetZero" = "SetZero" /\ j \in S)
      BY <1>1, <3>1, QueuedIn
    <3> QED BY <3>1, <3>2 DEF TxOf
  <2>6. CASE UNCHANGED tx
    BY <2>6 DEF TxOf
  <2> QED BY <1>4, <2>1, <2>2, <2>3, <2>4, <2>5, <2>6
          DEF SupervisorStep, ReadEnableEcho, ReadOffEcho, ReadZeroEcho, ReadStatus, ReadHazard,
              ReadFails, DrainReturns, EnableTargets, Activate, Grant, Revoke
<1>5. CASE StopStep
  <2>1. ASSUME NEW q \in [Bus -> Seq(Group)], NEW class, NEW failed, PerformStop(q, class, failed),
               Queued(q[Route[j]], "SetZero", j) => Queued(TxOf(j), "SetZero", j)
        PROVE  Queued(TxOf(j), "SetZero", j)
    <3>1. tx' = Queue(q, "Stop", Joint \ failed) /\ Joint \ failed \in SUBSET Joint
      BY <2>1 DEF PerformStop
    <3>2. Queued(TxOf(j)', "SetZero", j) => Queued(q[Route[j]], "SetZero", j)
      BY <1>2, <1>3, <3>1 DEF TxOf
    <3> QED BY <2>1, <3>2
  <2>2. ASSUME NEW failed, NEW offs \in SUBSET Joint, NEW wave \in SUBSET Joint,
               PollWriteFails(offs, wave, failed)
        PROVE  Queued(TxOf(j), "SetZero", j)
    <3> DEFINE q == Queue(tx, "Off", offs)
               r == Queue(q, "Enable", wave)
    <3>1. PerformStop(r, "Transport", failed)
      BY <2>2 DEF PollWriteFails
    <3>2. q \in [Bus -> Seq(Group)] /\ (Queued(q[Route[j]], "SetZero", j) => Queued(TxOf(j), "SetZero", j))
      BY <1>1, <1>2, <1>3 DEF TxOf
    <3> HIDE DEF q
    <3>3. r \in [Bus -> Seq(Group)] /\ (Queued(r[Route[j]], "SetZero", j) => Queued(q[Route[j]], "SetZero", j))
      BY <1>2, <1>3, <3>2
    <3> HIDE DEF r
    <3> QED BY <2>1, <3>1, <3>2, <3>3
  <2>3. ASSUME NEW failed, NEW cmd \in {"Off", "Neutral", "Servo"}, NEW S \in SUBSET Joint,
               PerformStop(Queue(tx, cmd, S), "Transport", failed)
        PROVE  Queued(TxOf(j), "SetZero", j)
    <3>1. /\ Queue(tx, cmd, S) \in [Bus -> Seq(Group)]
          /\ Queued(Queue(tx, cmd, S)[Route[j]], "SetZero", j) => Queued(TxOf(j), "SetZero", j)
      BY <1>1, <1>2, <1>3 DEF TxOf
    <3> QED BY <2>1, <2>3, <3>1
  <2>4. ASSUME NEW failed, NEW class, PerformStop(tx, class, failed)
        PROVE  Queued(TxOf(j), "SetZero", j)
    BY <1>1, <2>1, <2>4 DEF TxOf
  <2> QED BY <1>5, <2>2, <2>3, <2>4
          DEF StopStep, GateWriteFails, SendMitFails, DrainStops, ActivateFails, SendMitStale,
              CheckActiveReferences, DisableAll, LatchControlFault
<1>6. CASE WireStep \/ Tick
  <2>1. ASSUME NEW b \in Bus, Transmit(b) PROVE Queued(TxOf(j), "SetZero", j)
    <3>1. tx[b] # <<>> /\ tx' = [tx EXCEPT ![b] = Tail(@)] /\ tx[b] \in Seq(Group) /\ Route[j] \in Bus
      BY <1>1, <2>1, SessionAssumption DEF SessionAssumption, Transmit
    <3>2. CASE Route[j] # b
      BY <1>1, <3>1, <3>2 DEF TxOf
    <3>3. CASE Route[j] = b
      <4>1. TxOf(j)' = Tail(tx[b]) /\ TxOf(j) = tx[b]
        BY <1>1, <3>1, <3>3 DEF TxOf
      <4>2. \A c : Queued(tx[b], c, j) <=> Queued(Tail(tx[b]), c, j) \/ Frame(Head(tx[b]), c, j)
        BY <3>1, Tailed
      <4> QED BY <4>1, <4>2
    <3> QED BY <3>2, <3>3
  <2>2. CASE UNCHANGED tx
    BY <2>2 DEF TxOf
  <2> QED BY <1>6, <2>1, <2>2
          DEF WireStep, DriveActs, DriveReports, DriveReboots, DriveDies, DriveSends, Tick
<1> QED BY <1>4, <1>5, <1>6 DEF Next

\* The facts about every drive hold initially.
LEMMA BaseInvInit == Init => BaseInv
<1> SUFFICES ASSUME Init, NEW j \in Joint
             PROVE  applied \subseteq Sensed /\ DeadIsSilent(j) /\ NeverZeroed(j) /\ GateIsClear(j)
  BY DEF BaseInv, Init
<1>1. TxOf(j) = <<>> /\ inbox[j] = <<>> /\ out[j] = {} /\ driveZero[j] = Quiet
  BY SessionAssumption DEF SessionAssumption, Init, TxOf
<1>2. ~Queued(TxOf(j), "SetZero", j) /\ ~InHand(j, "SetZero")
  BY <1>1 DEF Queued, InHand
<1> QED BY <1>1, <1>2 DEF Init, DeadIsSilent, NeverZeroed, GateIsClear

\* What a step of the supervisor leaves alone.
LEMMA SupervisorLeaves ==
    ASSUME TypeOK, SupervisorStep \/ StopStep
    PROVE  UNCHANGED <<inbox, out, driveMode, streaming, driveZero, dead, rebooted>>
<1>1. CASE SupervisorStep
  BY <1>1 DEF SupervisorStep, SyncReporting, Poll, ReadEnableEcho, ReadOffEcho, ReadZeroEcho, ReadStatus,
              ReadHazard, ReadFails, DrainReturns, EnableTargets, OpenGate, Activate, SendMit, SetZero,
              Grant, Revoke, driveVars
<1>2. CASE StopStep
  BY <1>2 DEF StopStep, PollWriteFails, DrainStops, GateWriteFails, ActivateFails, SendMitStale,
              SendMitFails, CheckActiveReferences, DisableAll, LatchControlFault, driveVars
<1> QED BY <1>1, <1>2

\* The joints with a stream asked for are those some client has a lease on.
LEMMA AppliedStep ==
    ASSUME TypeOK, applied \subseteq Sensed, Next PROVE applied' \subseteq Sensed
<1>1. CASE SyncReporting
  BY <1>1 DEF SyncReporting, Desired
<1>2. CASE applied' \subseteq applied
  BY <1>2
<1>3. CASE StopStep
  <2>1. applied' \subseteq applied
    BY <1>3 DEF StopStep, PollWriteFails, DrainStops, GateWriteFails, ActivateFails, SendMitStale,
                SendMitFails, CheckActiveReferences, DisableAll, LatchControlFault, reportingVars
  <2> QED BY <2>1
<1>4. CASE SupervisorStep /\ ~SyncReporting
  <2>1. applied' \subseteq applied
    BY <1>4 DEF SupervisorStep, Poll, ReadEnableEcho, ReadOffEcho, ReadZeroEcho, ReadStatus,
                ReadHazard, ReadFails, DrainReturns, EnableTargets, OpenGate, Activate, SendMit, SetZero,
                Grant, Revoke, reportingVars
  <2> QED BY <2>1
<1>5. CASE WireStep \/ Tick
  BY <1>5 DEF WireStep, Transmit, DriveActs, DriveReports, DriveReboots, DriveDies, DriveSends, Tick,
              reportingVars
<1> QED BY <1>1, <1>3, <1>4, <1>5 DEF Next

\* While a drain of the enable call is read, nothing is written before the gate opens.
LEMMA GateStep ==
    ASSUME TypeOK, PoseInv, Next, NEW j \in Joint, GateIsClear(j) PROVE GateIsClear(j)'
<1>1. cont # "none" => pc = "reading"
  BY DEF PoseInv, Call
<1>2. CASE StopStep
  <2>1. cont' = "none"
    BY <1>2 DEF StopStep, PollWriteFails, DrainStops, GateWriteFails, ActivateFails, SendMitStale,
                SendMitFails, CheckActiveReferences, DisableAll, LatchControlFault, PerformStop
  <2> QED BY <2>1 DEF GateIsClear
<1>3. CASE WireStep \/ Tick
  <2>1. pc = "idle" /\ UNCHANGED cont
    BY <1>3 DEF WireStep, Transmit, DriveActs, DriveReports, DriveReboots, DriveDies, DriveSends, Tick,
                callVars
  <2> QED BY <1>1, <2>1 DEF GateIsClear
<1>4. ASSUME NEW T \in SUBSET Joint, EnableTargets(T) PROVE GateIsClear(j)'
  BY <1>4 DEF EnableTargets, IdentityAnswered, GateIsClear, TxOf
<1>5. CASE SyncReporting \/ (\E offs, wave \in SUBSET Joint : Poll(offs, wave))
           \/ (\E cmd \in {"Neutral", "Servo"} : SendMit(cmd)) \/ (\E i \in Joint : SetZero(i))
  <2>1. pc # "reading" /\ UNCHANGED cont
    BY <1>5 DEF SyncReporting, Poll, SendMit, MayCommand, SetZero, callVars
  <2> QED BY <1>1, <2>1 DEF GateIsClear
<1>6. CASE (\E offs \in SUBSET Joint : OpenGate(offs)) \/ Activate
  <2>1. cont' # "gate"
    BY <1>6 DEF OpenGate, Activate
  <2> QED BY <2>1 DEF GateIsClear
<1>7. CASE UNCHANGED tx /\ (cont' = "none" \/ UNCHANGED <<cont, targets>>)
  BY <1>7 DEF GateIsClear, TxOf
<1>8. CASE DrainReturns \/ ReadFails \/ (\E i \in Joint : Grant(i) \/ Revoke(i))
  BY <1>7, <1>8 DEF DrainReturns, ReadFails, Grant, Revoke, callVars
<1>9. ASSUME NEW b \in Bus, ReadEnableEcho(b) \/ ReadOffEcho(b) \/ ReadZeroEcho(b)
      PROVE  GateIsClear(j)'
  BY <1>7, <1>9 DEF ReadEnableEcho, ReadOffEcho, ReadZeroEcho, callVars
<1>10. ASSUME NEW b \in Bus, NEW i \in Joint,
              ReadStatus(b, i) \/ \E class \in {"DriveState", "Device"} : ReadHazard(b, i, class)
       PROVE  GateIsClear(j)'
  BY <1>7, <1>10 DEF ReadStatus, ReadHazard, callVars
<1> QED BY <1>2, <1>3, <1>4, <1>5, <1>6, <1>8, <1>9, <1>10 DEF Next, SupervisorStep

\* A dead drive stays silent, and a joint no workflow zeroes is never deaf.
LEMMA DriveStep ==
    ASSUME TypeOK, PoseInv, Next, NEW j \in Joint, DeadIsSilent(j), NeverZeroed(j)
    PROVE  DeadIsSilent(j)' /\ NeverZeroed(j)'
<1>1. CASE SupervisorStep \/ StopStep
  <2>1. UNCHANGED <<inbox, out, driveZero, dead>>
    BY <1>1, SupervisorLeaves
  <2>2. InHand(j, "SetZero")' <=> InHand(j, "SetZero")
    BY <2>1 DEF InHand
  <2>3. SetZero(j) => j \in Zeroed
    BY DEF SetZero
  <2> QED BY <2>1, <2>2, <2>3, ZeroWritten DEF DeadIsSilent, NeverZeroed
<1>2. ASSUME NEW b \in Bus, Transmit(b) PROVE DeadIsSilent(j)' /\ NeverZeroed(j)'
  <2>1. /\ UNCHANGED <<driveZero, dead, out>> /\ tx[b] # <<>> /\ tx[b] \in Seq(GroupOn(b))
        /\ inbox'[j] = IF j \in Head(tx[b]).to /\ Hears(j) THEN Append(inbox[j], Head(tx[b]).cmd)
                       ELSE inbox[j]
        /\ \A k \in Head(tx[b]).to : inbox[k] = <<>>
    BY <1>2 DEF Transmit, PoseInv, Routed
  <2>2. DeadIsSilent(j)'
    BY <2>1 DEF DeadIsSilent, Hears
  <2>3. ASSUME j \notin Zeroed PROVE ~InHand(j, "SetZero")'
    <3>1. CASE j \in Head(tx[b]).to /\ Hears(j)
      <4>1. Route[j] = b
        <5> DEFINE G == GroupOn(b)
        <5>1. tx[b] \in Seq(G)
          BY <2>1
        <5> HIDE DEF G
        <5>2. Head(tx[b]) \in G
          BY <2>1, <5>1
        <5> QED BY <3>1, <5>2 DEF G, GroupOn, On
      <4>2. Frame(Head(tx[b]), "SetZero", j) => Queued(TxOf(j), "SetZero", j)
        BY <2>1, <4>1, Tailed DEF TxOf
      <4>3. Head(tx[b]).cmd # "SetZero"
        BY <2>3, <3>1, <4>2 DEF Frame, NeverZeroed
      <4>4. inbox'[j] = Append(<<>>, Head(tx[b]).cmd)
        BY <2>1, <3>1
      <4>5. Head(Append(<<>>, Head(tx[b]).cmd)) = Head(tx[b]).cmd
        OBVIOUS
      <4> QED BY <4>3, <4>4, <4>5 DEF InHand
    <3>2. CASE ~(j \in Head(tx[b]).to /\ Hears(j))
      BY <2>1, <2>3, <3>2 DEF InHand, NeverZeroed
    <3> QED BY <3>1, <3>2
  <2>4. SetZero(j) => j \in Zeroed
    BY DEF SetZero
  <2> QED BY <2>1, <2>2, <2>3, <2>4, ZeroWritten DEF NeverZeroed
<1>3. ASSUME NEW i \in Joint, DriveActs(i) PROVE DeadIsSilent(j)' /\ NeverZeroed(j)'
  <2>1. /\ UNCHANGED <<tx, dead>> /\ inbox[i] # <<>> /\ inbox' = [inbox EXCEPT ![i] = Tail(@)]
        /\ \A k \in Joint \ {i} : out'[k] = out[k]
        /\ driveZero' = IF Head(inbox[i]) = "SetZero" THEN [driveZero EXCEPT ![i] = 0] ELSE driveZero
    BY <1>3 DEF DriveActs, TypeOK
  <2>2. CASE i # j
    <3>1. inbox'[j] = inbox[j] /\ out'[j] = out[j] /\ driveZero'[j] = driveZero[j] /\ TxOf(j)' = TxOf(j)
      BY <2>1, <2>2 DEF TypeOK, TxOf
    <3> QED BY <2>1, <3>1 DEF DeadIsSilent, NeverZeroed, InHand
  <2>3. CASE i = j
    <3>1. j \notin dead /\ inbox[j] \in Seq(Command) /\ Len(inbox[j]) <= 1
      BY <2>1, <2>3 DEF DeadIsSilent, TypeOK, PoseInv, InboxOne
    <3>2. inbox'[j] = <<>>
      <4>1. inbox \in [Joint -> Seq(Command)]
        BY DEF TypeOK
      <4> QED BY <2>1, <2>3, <3>1, <4>1
    <3>3. j \notin Zeroed => driveZero' = driveZero
      BY <2>1, <2>3 DEF NeverZeroed, InHand
    <3> QED BY <2>1, <3>1, <3>2, <3>3 DEF DeadIsSilent, NeverZeroed, InHand, TxOf
  <2> QED BY <2>2, <2>3
<1>4. ASSUME NEW i \in Joint, DriveReports(i) \/ DriveReboots(i) \/ DriveDies(i)
                              \/ \E m \in DriveMode : DriveSends(i, m)
      PROVE  DeadIsSilent(j)' /\ NeverZeroed(j)'
  <2>1. /\ out \in [Joint -> SUBSET DriveMode] /\ inbox \in [Joint -> Seq(Command)]
        /\ dead \subseteq Joint
    BY DEF TypeOK
  <2>2. CASE DriveDies(i)
    <3>1. /\ UNCHANGED <<tx, driveZero>> /\ dead' = dead \cup {i}
          /\ inbox' = [inbox EXCEPT ![i] = <<>>] /\ out' = [out EXCEPT ![i] = {}]
      BY <2>2 DEF DriveDies
    <3> QED BY <2>1, <3>1 DEF DeadIsSilent, NeverZeroed, InHand, TxOf
  <2>3. CASE ~DriveDies(i)
    <3>1. UNCHANGED <<tx, driveZero, dead, inbox>>
      BY <1>4, <2>3 DEF DriveReports, DriveReboots, DriveSends
    <3>2. j \in dead => out'[j] \subseteq out[j]
      BY <1>4, <2>1, <2>3 DEF DriveReports, DriveReboots, DriveSends
    <3> QED BY <3>1, <3>2 DEF DeadIsSilent, NeverZeroed, InHand, TxOf
  <2> QED BY <2>2, <2>3
<1>5. CASE Tick
  <2>1. /\ UNCHANGED <<tx, dead, inbox, out>> /\ driveZero'[j] = Older(driveZero[j], Quiet)
    BY <1>5 DEF Tick
  <2>2. driveZero[j] = Quiet => driveZero'[j] = Quiet
    BY <2>1, SessionAssumption DEF SessionAssumption, Older
  <2> QED BY <2>1, <2>2 DEF DeadIsSilent, NeverZeroed, InHand, TxOf
<1> QED BY <1>1, <1>2, <1>3, <1>4, <1>5 DEF Next, WireStep

\* Every step keeps them.
LEMMA BaseInvHolds == Spec => []BaseInv
<1>1. TypeOK /\ PoseInv /\ BaseInv /\ [Next]_vars => BaseInv'
  <2> SUFFICES ASSUME TypeOK, PoseInv, BaseInv, [Next]_vars PROVE BaseInv'
    OBVIOUS
  <2>1. CASE Next
    <3>1. applied' \subseteq Sensed
      BY <2>1, AppliedStep DEF BaseInv
    <3>2. \A j \in Joint : DeadIsSilent(j)' /\ NeverZeroed(j)' /\ GateIsClear(j)'
      BY <2>1, DriveStep, GateStep DEF BaseInv
    <3> QED BY <3>1, <3>2 DEF BaseInv
  <2>2. CASE UNCHANGED vars
    BY <2>2 DEF vars, callVars, reportingVars, driveVars, BaseInv, DeadIsSilent, NeverZeroed, GateIsClear,
            TxOf, InHand
  <2> QED BY <2>1, <2>2
<1> QED BY BaseInvInit, TypeCorrect, PoseInvHolds, <1>1, PTL DEF Spec

\* The Off and Enable of a drive whose post-SetZero quiet has elapsed reach it.
LEMMA QuietIsOver ==
    ASSUME TypeOK, PoseInv, NEW j \in Joint, ~Latched, j \notin dead, zeroAge[j] >= Quiet,
           ~Queued(TxOf(j), "SetZero", j), ~EchoIn(RxOf(j), "SetZero", j)
    PROVE  driveZero[j] = Quiet
<1>1. Wire(j)
  BY DEF PoseInv, WireInv
<1>2. driveZero[j] \in 0 .. Quiet /\ zeroAge[j] \in Int /\ Quiet \in Nat
  BY SessionAssumption DEF SessionAssumption, TypeOK
<1> QED BY <1>1, <1>2 DEF Wire, ZeroClock

(***************************************************************************)
(* When frames are sent and read within the period, the drive's clock is   *)
(* not ahead of the host's: what the host takes for the time before the    *)
(* blackout is.                                                            *)
(***************************************************************************)
InStep(j) ==
    /\ \/ Queued(TxOf(j), "SetZero", j) \/ InHand(j, "SetZero") \/ EchoIn(RxOf(j), "SetZero", j)
       => zeroAge[j] = 0
    /\ driveZero[j] <= zeroAge[j] \/ driveZero[j] = Quiet
InStepInv == \A j \in Joint \ dead : InStep(j)

\* A step that neither zeroes the drive nor moves the clocks.
LEMMA InStepSame ==
    ASSUME TypeOK, Next, NEW j \in Joint, InStep(j), ~SetZero(j),
           InHand(j, "SetZero")' => InHand(j, "SetZero") \/ Queued(TxOf(j), "SetZero", j),
           EchoIn(RxOf(j)', "SetZero", j) => EchoIn(RxOf(j), "SetZero", j) \/ Queued(TxOf(j), "SetZero", j),
           zeroAge'[j] = zeroAge[j], driveZero'[j] = driveZero[j]
    PROVE  InStep(j)'
BY ZeroWritten DEF InStep

\* Every step keeps it.
LEMMA InStepStep ==
    ASSUME PromptWire, PromptDrain, TypeOK, PoseInv, InStepInv, Next PROVE InStepInv'
<1> SUFFICES ASSUME NEW j \in Joint, j \notin dead' PROVE InStep(j)'
  BY DEF InStepInv
<1>1. InStep(j) /\ j \notin dead
  <2>1. j \notin dead
    BY DEF Next, SupervisorStep, StopStep, WireStep, SyncReporting, Poll, ReadEnableEcho, ReadOffEcho,
           ReadZeroEcho, ReadStatus, ReadHazard, ReadFails, DrainReturns, EnableTargets, OpenGate, Activate,
           SendMit, SetZero, Grant, Revoke, PollWriteFails, DrainStops, GateWriteFails, ActivateFails,
           SendMitStale, SendMitFails, CheckActiveReferences, DisableAll, LatchControlFault, Transmit,
           DriveActs, DriveReports, DriveReboots, DriveDies, DriveSends, Tick, driveVars
  <2> QED BY <2>1 DEF InStepInv
<1>2. /\ zeroAge[j] \in 0 .. MaxZeroAge /\ driveZero[j] \in 0 .. Quiet
      /\ Quiet \in Nat /\ MaxZeroAge \in Nat /\ Quiet < MaxZeroAge /\ Route[j] \in Bus
  BY SessionAssumption DEF SessionAssumption, TypeOK, MaxZeroAge
<1>3. CASE SetZero(j)
  <2>1. /\ zeroAge'[j] = 0 /\ driveZero' = driveZero /\ ~Latched /\ zeroAge[j] >= Quiet
    BY <1>3 DEF SetZero, QuietElapsed, TypeOK, driveVars
  <2>2. driveZero[j] = Quiet
    <3>1. CASE Queued(TxOf(j), "SetZero", j) \/ EchoIn(RxOf(j), "SetZero", j)
      <4>1. zeroAge[j] = 0
        BY <1>1, <3>1 DEF InStep
      <4> QED BY <1>2, <2>1, <4>1
    <3>2. CASE ~Queued(TxOf(j), "SetZero", j) /\ ~EchoIn(RxOf(j), "SetZero", j)
      BY <1>1, <2>1, <3>2, QuietIsOver
    <3> QED BY <3>1, <3>2
  <2> QED BY <2>1, <2>2 DEF InStep
<1>4. CASE (SupervisorStep \/ StopStep) /\ ~SetZero(j)
  <2>1. UNCHANGED <<inbox, driveZero>>
    BY <1>4, SupervisorLeaves
  <2>2. InHand(j, "SetZero")' => InHand(j, "SetZero")
    BY <2>1 DEF InHand
  <2>3. ASSUME NEW b \in Bus, ReadZeroEcho(b)
        PROVE  zeroAge'[j] = zeroAge[j] /\ (EchoIn(RxOf(j)', "SetZero", j) => EchoIn(RxOf(j), "SetZero", j))
    <3>1. rx[b] # <<>> /\ rx' = Rest(b) /\ Head(rx[b]).kind = "SetZero"
          /\ zeroAge'[j] = IF j \in Head(rx[b]).from THEN 0 ELSE zeroAge[j]
      BY <2>3 DEF ReadZeroEcho, Reads
    <3>2. /\ Heard(Head(rx[b]), "SetZero", j) => EchoIn(RxOf(j), "SetZero", j)
          /\ EchoIn(RxOf(j)', "SetZero", j) => EchoIn(RxOf(j), "SetZero", j)
      BY <3>1, RestOf DEF PoseInv, RxLike
    <3> QED BY <1>1, <3>1, <3>2 DEF InStep, Heard
  <2>4. ASSUME NEW b \in Bus, rx[b] # <<>>, rx' = Rest(b)
        PROVE  EchoIn(RxOf(j)', "SetZero", j) => EchoIn(RxOf(j), "SetZero", j)
    BY <2>4, RestOf DEF PoseInv, RxLike
  <2>5. \/ \E b \in Bus : ReadZeroEcho(b)
        \/ zeroAge'[j] = zeroAge[j] /\ UNCHANGED rx
        \/ zeroAge'[j] = zeroAge[j] /\ \E b \in Bus : rx[b] # <<>> /\ rx' = Rest(b)
    <3>1. CASE StopStep
      BY <3>1 DEF StopStep, PollWriteFails, DrainStops, GateWriteFails, ActivateFails,
             SendMitStale, SendMitFails, CheckActiveReferences, DisableAll, LatchControlFault
    <3>2. ASSUME NEW i \in Joint, SetZero(i) PROVE zeroAge'[j] = zeroAge[j] /\ UNCHANGED rx
      <4>1. i # j
        BY <1>4, <3>2
      <4> QED BY <3>2, <4>1 DEF SetZero, TypeOK
    <3>3. CASE SupervisorStep
      BY <3>2, <3>3 DEF SupervisorStep, SyncReporting, Poll, ReadEnableEcho, ReadOffEcho,
           ReadStatus, ReadHazard, ReadFails, DrainReturns, EnableTargets, OpenGate, Activate,
           SendMit, Grant, Revoke, Reads
    <3> QED BY <1>4, <3>1, <3>3
  <2>6. /\ zeroAge'[j] = zeroAge[j]
        /\ EchoIn(RxOf(j)', "SetZero", j) => EchoIn(RxOf(j), "SetZero", j)
    BY <2>3, <2>4, <2>5 DEF RxOf
  <2> QED BY <1>1, <1>4, <2>1, <2>2, <2>6, InStepSame
<1>5. CASE ~SetZero(j) /\ \E b \in Bus : Transmit(b)
  <2>1. PICK b \in Bus : Transmit(b)
    BY <1>5
  <2> DEFINE f == Head(tx[b])
             e == [kind |-> f.cmd, from |-> f.to, mode |-> "Reset"]
  <2>2. /\ UNCHANGED <<zeroAge, driveZero>> /\ tx[b] # <<>>
        /\ rx' = IF f.cmd \in Echoed THEN [rx EXCEPT ![b] = Append(@, e)] ELSE rx
        /\ inbox'[j] = IF j \in f.to /\ Hears(j) THEN Append(inbox[j], f.cmd) ELSE inbox[j]
        /\ j \in f.to => inbox[j] = <<>>
    BY <2>1 DEF Transmit
  <2>3. f \in GroupOn(b) /\ tx[b] \in Seq(GroupOn(b)) /\ rx \in [Bus -> Seq(Received)]
    <3> DEFINE G == GroupOn(b)
    <3>1. tx[b] \in Seq(G) /\ rx \in [Bus -> Seq(Received)]
      BY DEF PoseInv, Routed, TypeOK
    <3> HIDE DEF G
    <3>2. Head(tx[b]) \in G
      BY <2>2, <3>1
    <3> QED BY <3>1, <3>2 DEF G
  <2>4. Frame(f, "SetZero", j) => Queued(TxOf(j), "SetZero", j)
    <3>1. Frame(f, "SetZero", j) => Queued(tx[b], "SetZero", j)
      BY <2>2, <2>3, Tailed
    <3>2. j \in f.to => Route[j] = b
      BY <2>3 DEF GroupOn, On
    <3> QED BY <3>1, <3>2 DEF Frame, TxOf
  <2>5. f.cmd \in Echoed => e \in Received /\ (Heard(e, "SetZero", j) <=> Frame(f, "SetZero", j))
    BY <2>3 DEF GroupOn, On, Received, DriveMode, Heard, Frame
  <2> HIDE DEF f, e
  <2>6. InHand(j, "SetZero")' => InHand(j, "SetZero") \/ Queued(TxOf(j), "SetZero", j)
    <3>1. CASE j \in f.to /\ Hears(j)
      <4>1. inbox'[j] = Append(<<>>, f.cmd)
        BY <2>2, <3>1
      <4>2. Head(Append(<<>>, f.cmd)) = f.cmd
        OBVIOUS
      <4> QED BY <2>4, <3>1, <4>1, <4>2 DEF InHand, Frame
    <3>2. CASE ~(j \in f.to /\ Hears(j))
      BY <2>2, <3>2 DEF InHand
    <3> QED BY <3>1, <3>2
  <2>7. EchoIn(RxOf(j)', "SetZero", j) => EchoIn(RxOf(j), "SetZero", j) \/ Queued(TxOf(j), "SetZero", j)
    <3>1. CASE Route[j] # b \/ f.cmd \notin Echoed
      <4>1. RxOf(j)' = RxOf(j)
        BY <1>2, <2>2, <2>3, <3>1 DEF RxOf
      <4> QED BY <4>1
    <3>2. CASE Route[j] = b /\ f.cmd \in Echoed
      <4>1. RxOf(j) = rx[b] /\ RxOf(j)' = Append(rx[b], e) /\ rx[b] \in Seq(Received)
        BY <2>2, <2>3, <3>2 DEF RxOf
      <4>2. \A c : EchoIn(Append(rx[b], e), c, j) <=> EchoIn(rx[b], c, j) \/ Heard(e, c, j)
        BY <2>5, <3>2, <4>1, HeardAppended
      <4> QED BY <2>4, <2>5, <3>2, <4>1, <4>2
    <3> QED BY <3>1, <3>2
  <2> QED BY <1>1, <1>5, <2>2, <2>6, <2>7, InStepSame
<1>6. CASE ~SetZero(j) /\ \E i \in Joint : DriveActs(i)
  <2>1. PICK i \in Joint : DriveActs(i)
    BY <1>6
  <2>2. /\ UNCHANGED <<zeroAge, tx, rx>> /\ inbox[i] # <<>> /\ inbox' = [inbox EXCEPT ![i] = Tail(@)]
        /\ driveZero' = IF Head(inbox[i]) = "SetZero" THEN [driveZero EXCEPT ![i] = 0] ELSE driveZero
    BY <2>1 DEF DriveActs
  <2>3. CASE i # j
    <3>1. inbox'[j] = inbox[j] /\ driveZero'[j] = driveZero[j]
      BY <2>2, <2>3 DEF TypeOK
    <3> QED BY <1>1, <2>2, <3>1 DEF InStep, InHand, TxOf, RxOf
  <2>4. CASE i = j
    <3>1. inbox'[j] = <<>>
      <4>1. inbox \in [Joint -> Seq(Command)] /\ Len(inbox[j]) <= 1
        BY DEF TypeOK, PoseInv, InboxOne
      <4> QED BY <2>2, <2>4, <4>1
    <3>2. driveZero'[j] \in {0, driveZero[j]}
      BY <2>2, <2>4 DEF TypeOK
    <3> QED BY <1>1, <1>2, <2>2, <3>1, <3>2 DEF InStep, InHand, TxOf, RxOf
  <2> QED BY <2>3, <2>4
<1>7. CASE ~SetZero(j) /\ \E i \in Joint : DriveReports(i) \/ DriveReboots(i) \/ DriveDies(i)
  <2>1. /\ UNCHANGED <<zeroAge, driveZero, tx, rx>>
        /\ inbox'[j] = inbox[j] \/ inbox'[j] = <<>>
    BY <1>7 DEF DriveReports, DriveReboots, DriveDies, TypeOK
  <2> QED BY <1>1, <2>1 DEF InStep, InHand, TxOf, RxOf
<1>8. CASE ~SetZero(j) /\ \E i \in Joint, m \in DriveMode : DriveSends(i, m)
  <2>1. PICK i \in Joint, m \in DriveMode : DriveSends(i, m)
    BY <1>8
  <2> DEFINE b == Route[i]
             g == [kind |-> "Status", from |-> {i}, mode |-> m]
  <2>2. /\ UNCHANGED <<zeroAge, driveZero, tx, inbox>> /\ rx' = [rx EXCEPT ![b] = Append(@, g)]
        /\ b \in Bus /\ rx \in [Bus -> Seq(Received)] /\ g \in Received /\ ~Heard(g, "SetZero", j)
    BY <2>1, SessionAssumption DEF SessionAssumption, DriveSends, TypeOK, Received, Heard
  <2> HIDE DEF b, g
  <2>3. EchoIn(RxOf(j)', "SetZero", j) => EchoIn(RxOf(j), "SetZero", j)
    <3>1. CASE Route[j] # b
      <4>1. RxOf(j)' = RxOf(j)
        BY <1>2, <2>2, <3>1 DEF RxOf
      <4> QED BY <4>1
    <3>2. CASE Route[j] = b
      <4>1. RxOf(j) = rx[b] /\ RxOf(j)' = Append(rx[b], g) /\ rx[b] \in Seq(Received)
        BY <2>2, <3>2 DEF RxOf
      <4>2. \A c : EchoIn(Append(rx[b], g), c, j) <=> EchoIn(rx[b], c, j) \/ Heard(g, c, j)
        BY <2>2, <4>1, HeardAppended
      <4> QED BY <2>2, <4>1, <4>2
    <3> QED BY <3>1, <3>2
  <2> QED BY <1>1, <2>2, <2>3 DEF InStep, InHand, TxOf
<1>9. CASE Tick
  <2>1. /\ inbox'[j] = <<>> /\ TxOf(j)' = <<>> /\ RxOf(j)' = <<>>
        /\ zeroAge'[j] = Older(zeroAge[j], MaxZeroAge) /\ driveZero'[j] = Older(driveZero[j], Quiet)
    BY <1>2, <1>9 DEF Tick, TxOf, RxOf
  <2>2. ~Queued(TxOf(j)', "SetZero", j) /\ ~InHand(j, "SetZero")' /\ ~EchoIn(RxOf(j)', "SetZero", j)
    BY <2>1 DEF Queued, InHand, EchoIn
  <2>3. driveZero'[j] <= zeroAge'[j] \/ driveZero'[j] = Quiet
    BY <1>1, <1>2, <2>1 DEF InStep, Older
  <2> QED BY <2>2, <2>3 DEF InStep
<1> QED BY <1>3, <1>4, <1>5, <1>6, <1>7, <1>8, <1>9 DEF Next, WireStep

\* It is an invariant of the specification.
LEMMA InStepHolds == ASSUME PromptWire, PromptDrain PROVE Spec => []InStepInv
<1>1. Init => InStepInv
  <2> SUFFICES ASSUME Init, NEW j \in Joint PROVE InStep(j)
    BY DEF InStepInv
  <2>1. TxOf(j) = <<>> /\ RxOf(j) = <<>> /\ inbox[j] = <<>> /\ driveZero[j] = Quiet
    BY SessionAssumption DEF SessionAssumption, Init, TxOf, RxOf
  <2> QED BY <2>1 DEF InStep, Queued, InHand, EchoIn
<1>2. TypeOK /\ PoseInv /\ InStepInv /\ [Next]_vars => InStepInv'
  <2>1. ASSUME InStepInv, UNCHANGED vars PROVE InStepInv'
    BY <2>1 DEF vars, driveVars, InStepInv, InStep, TxOf, RxOf, InHand
  <2> QED BY <2>1, InStepStep
<1> QED BY <1>1, <1>2, TypeCorrect, PoseInvHolds, PTL DEF Spec

------------------------------------------------------------------------------
(***************************************************************************)
(* A drive of the session, from the opening of its Off window.             *)
(***************************************************************************)
Window(j) == InSession(j) \/ (cont = "activate" /\ j \in targets)
Muted(j) == j \in dead \/ j \notin streaming
Started(j) == j \in dead \/ driveMode[j] = "Run" \/ InHand(j, "Enable")

\* Before its Enable is written a drive is sent one Off and nothing else; a
\* period after the Off's echo was read the drive has nothing left to say.
Waits(j) ==
    /\ \A c \in Command \ {"Off"} : ~Queued(TxOf(j), c, j) /\ ~InHand(j, c)
    /\ OneOff(TxOf(j), j)
    /\ j \notin offWritten =>
        ~Queued(TxOf(j), "Off", j) /\ ~EchoIn(RxOf(j), "Off", j) /\ offEchoAge[j] = Never
    /\ Queued(TxOf(j), "Off", j) => ~EchoIn(RxOf(j), "Off", j) /\ offEchoAge[j] = Never
    /\ EchoIn(RxOf(j), "Off", j) \/ offEchoAge[j] # Never => Muted(j) \/ InHand(j, "Off")
    /\ offEchoAge[j] = 1 => Muted(j) /\ out[j] = {} /\ inbox[j] = <<>>
    /\ ~EchoIn(RxOf(j), "Enable", j)

\* Then it hears its Enable first, and never reports Reset again.
Starts(j) ==
    /\ j \in offWritten /\ Muted(j) /\ "Reset" \notin out[j]
    /\ \A c \in {"Off", "On", "SetZero", "Stop"} : ~Queued(TxOf(j), c, j) /\ ~InHand(j, c)
    /\ ~Started(j) =>
        /\ out[j] = {} /\ inbox[j] = <<>> /\ j \in echoPending
        /\ ~EchoIn(RxOf(j), "Enable", j)
        /\ Queued(TxOf(j), "Enable", j) /\ EnableFirst(TxOf(j), j)

\* Both reach a drive that listens: its quiet is over, or it is not deaf yet
\* and the frame is on the wire within the period.
Listens(j) == driveZero[j] = Quiet \/ (PromptWire /\ driveZero[j] < Deaf)
Reachable(j) ==
    /\ ~Latched /\ j \notin dead
    /\ Queued(TxOf(j), "Off", j) \/ Queued(TxOf(j), "Enable", j)
    => Listens(j)
\* A report of Reset is read before the Enable's echo.
ResetsRead(j) ==
    ResetsLead(RxOf(j), j) /\ (j \notin echoPending => ~ResetIn(RxOf(j), j))

Steady(j) ==
    /\ gateOpen
    /\ j \in offWritten => j \notin applied
    /\ j \in writesPending => Waits(j)
    /\ j \notin writesPending => Starts(j)
    /\ Reachable(j) /\ ResetsRead(j)
TripInv == \A j \in Joint : Window(j) /\ ~rebooted => Steady(j)

\* A queue says no more than itself.
LEMMA TripTxSame == \A p, j : TripTx(p, p, j)
BY DEF TripTx
\* And of what is received.
LEMMA TripRxSame == \A p, j : TripRx(p, p, j)
BY DEF TripRx

\* A step that leaves a drive of the session and its frames alone.
LEMMA SteadySame ==
    ASSUME NEW j \in Joint, Steady(j), TripTx(TxOf(j), TxOf(j)', j), TripRx(RxOf(j), RxOf(j)', j),
           UNCHANGED <<inbox[j], out[j], driveMode[j], driveZero[j], offEchoAge[j], gateOpen>>,
           j \in dead' <=> j \in dead, j \in streaming' <=> j \in streaming,
           j \in writesPending' <=> j \in writesPending, j \in echoPending' <=> j \in echoPending,
           j \in offWritten' <=> j \in offWritten, j \in applied' => j \in applied,
           ~Latched' => ~Latched
    PROVE  Steady(j)'
<1>1. \A c : InHand(j, c)' <=> InHand(j, c)
  BY DEF InHand
<1>2. (Muted(j)' <=> Muted(j)) /\ (Started(j)' <=> Started(j))
  BY <1>1 DEF Muted, Started
<1>3. /\ \A c : Queued(TxOf(j)', c, j) <=> Queued(TxOf(j), c, j)
      /\ OneOff(TxOf(j), j) => OneOff(TxOf(j)', j)
      /\ EnableFirst(TxOf(j), j) => EnableFirst(TxOf(j)', j)
  BY DEF TripTx
<1>4. /\ \A c : EchoIn(RxOf(j)', c, j) => EchoIn(RxOf(j), c, j)
      /\ ResetsRead(j) => ResetsRead(j)'
  BY DEF TripRx, ResetsRead
<1>5. Waits(j) => Waits(j)'
  BY <1>1, <1>2, <1>3, <1>4 DEF Waits
<1>6. Starts(j) => Starts(j)'
  BY <1>1, <1>2, <1>3, <1>4 DEF Starts
<1>7. Reachable(j) => Reachable(j)'
  BY <1>3 DEF Reachable, Listens
<1> QED BY <1>4, <1>5, <1>6, <1>7 DEF Steady

\* An Off is written to a waiting drive whose window has none yet.
LEMMA OffWrite ==
    ASSUME TypeOK, NEW j \in Joint, Steady(j), j \in writesPending, j \notin offWritten,
           NEW S \in SUBSET Joint, j \in S, TripTx(Queue(tx, "Off", S)[Route[j]], TxOf(j)', j),
           ~Latched /\ j \notin dead => Listens(j),
           UNCHANGED <<rx, inbox, out, driveMode, driveZero, offEchoAge, gateOpen, dead, streaming,
                       echoPending, fault>>,
           j \in writesPending', j \in offWritten', j \notin applied'
    PROVE  Steady(j)'
<1> DEFINE r == Queue(tx, "Off", S)[Route[j]]
<1>1. Waits(j) /\ ResetsRead(j) /\ "Off" \in Command /\ tx \in [Bus -> Seq(Group)]
  BY DEF Steady, Command, TypeOK
<1>2. ~Queued(TxOf(j), "Off", j) /\ ~EchoIn(RxOf(j), "Off", j) /\ offEchoAge[j] = Never
  BY <1>1 DEF Waits
<1>3. /\ \A c : Queued(r, c, j) <=> Queued(TxOf(j), c, j) \/ (c = "Off" /\ j \in S)
      /\ OneOff(r, j)
  <2>1. \A c : Queued(r, c, j) <=> Queued(tx[Route[j]], c, j) \/ (c = "Off" /\ j \in S)
    BY <1>1, QueuedIn
  <2>2. ~Queued(tx[Route[j]], "Off", j) => OneOff(r, j)
    BY <1>1, QueueTrip
  <2> QED BY <1>2, <2>1, <2>2 DEF TxOf
<1> HIDE DEF r
<1>4. /\ \A c : Queued(TxOf(j)', c, j) <=> Queued(TxOf(j), c, j) \/ c = "Off"
      /\ OneOff(TxOf(j)', j)
  BY <1>3 DEF TripTx, r
<1>5. /\ \A c : InHand(j, c)' <=> InHand(j, c)
      /\ RxOf(j)' = RxOf(j)
  BY DEF InHand, RxOf
<1>6. offEchoAge[j] # 1
  BY <1>2 DEF Never
<1>7. Waits(j)'
  BY <1>1, <1>2, <1>4, <1>5, <1>6 DEF Waits
<1>8. Reachable(j)' /\ ResetsRead(j)'
  BY <1>1, <1>5 DEF Reachable, Listens, ResetsRead, Latched
<1> QED BY <1>7, <1>8 DEF Steady

\* Outside the enable call only a drive of an Active session has a window.
LEMMA WindowIsSession ==
    ASSUME PoseInv, NEW j \in Joint, pc # "reading", Window(j) PROVE InSession(j)
BY DEF PoseInv, Call, Window

\* The wire and the host keep up with the control period, or no joint is both
\* zeroed and sensed.
KeepsUp == (PromptWire /\ PromptDrain /\ InStepInv) \/ Zeroed \cap Sensed = {}

\* sync_active_reporting turns off the stream of a drive only outside its
\* possible blackout.
LEMMA TripSync ==
    ASSUME KeepsUp, TypeOK, PoseInv, BaseInv, TripInv, SyncReporting PROVE TripInv'
<1>1. PICK W \in SUBSET Joint :
        /\ W \subseteq SyncDue
        /\ tx' = Queue(Queue(tx, "Off", W \ {j \in W : Desired(j)}), "On", {j \in W : Desired(j)})
        /\ applied' = (applied \cup {j \in W : Desired(j)}) \ (W \ {j \in W : Desired(j)})
        /\ offWritten' = (offWritten \cup (W \ {j \in W : Desired(j)})) \ {j \in W : Desired(j)}
  BY DEF SyncReporting, Waves, SyncDue
<1>2. /\ UNCHANGED <<cont, targets, mode, active, fault, rx, echoPending, writesPending, gateOpen,
                     offEchoAge, inbox, out, driveMode, streaming, driveZero, dead, rebooted>>
      /\ pc \in {"idle", "sync"}
  BY DEF SyncReporting, sessionVars, authorityVars, driveVars
<1> SUFFICES ASSUME NEW j \in Joint, Window(j)', ~rebooted' PROVE Steady(j)'
  BY DEF TripInv
<1>3. Window(j) /\ Steady(j)
  BY <1>2 DEF TripInv, Window, InSession
<1>4. mode = "Active" /\ InSession(j)
  BY <1>2, <1>3, WindowIsSession DEF InSession
<1>5. {k \in W : Desired(k)} = {}
  BY <1>4 DEF Desired
<1> DEFINE q == Queue(tx, "Off", W)
           none == {}
<1>6. /\ tx' = Queue(q, "On", none) /\ none \in SUBSET Joint /\ j \notin none
      /\ applied' = applied \ W /\ offWritten' = offWritten \cup W
      /\ tx \in [Bus -> Seq(Group)] /\ "Off" \in Command /\ "On" \in Command
  BY <1>1, <1>5 DEF TypeOK, Command
<1>7. q \in [Bus -> Seq(Group)]
  BY <1>6, QueueType
<1>8. j \notin W => TripTx(tx[Route[j]], q[Route[j]], j)
  BY <1>6, QueueTrip
<1>9. TripTx(q[Route[j]], TxOf(j)', j)
  <2> HIDE DEF q, none
  <2>1. TripTx(q[Route[j]], Queue(q, "On", none)[Route[j]], j)
    BY <1>6, <1>7, QueueTrip
  <2> QED BY <1>6, <2>1 DEF TxOf
<1>10. CASE j \notin W
  <2>1. TripTx(TxOf(j), TxOf(j)', j)
    BY <1>8, <1>9, <1>10 DEF TripTx, TxOf
  <2>2. TripRx(RxOf(j), RxOf(j)', j)
    BY <1>2, TripRxSame DEF RxOf
  <2>3. (j \in offWritten' <=> j \in offWritten) /\ (j \in applied' => j \in applied)
    BY <1>6, <1>10
  <2>4. ~Latched' => ~Latched
    BY <1>2 DEF Latched
  <2> QED BY <1>2, <1>3, <2>1, <2>2, <2>3, <2>4, SteadySame
<1>11. CASE j \in W
  <2>1. j \in applied
    BY <1>1, <1>4, <1>11 DEF SyncDue, Desired
  <2>2. j \notin offWritten /\ j \in writesPending
    BY <1>3, <2>1 DEF Steady, Starts
  <2>3. /\ ~BlackoutPossible(j) /\ zeroAge[j] \in Nat /\ driveZero[j] \in 0 .. Quiet /\ Quiet \in Nat
        /\ BlackoutFrom \in 0 .. Quiet /\ Deaf \in BlackoutFrom .. Quiet
    BY <1>1, <1>11, SessionAssumption DEF SessionAssumption, SyncDue, TypeOK
  <2>4. ASSUME ~Latched, j \notin dead PROVE Listens(j)
    <3>1. CASE j \notin Zeroed
      BY <3>1 DEF BaseInv, NeverZeroed, Listens
    <3>2. CASE zeroAge[j] >= Quiet
      <4>1. Sess(j)
        BY <1>4 DEF PoseInv, SessInv
      <4>2. driveZero[j] = Quiet
        BY <2>4, <3>2, <4>1, QuietIsOver DEF Sess
      <4> QED BY <4>2 DEF Listens
    <3>3. CASE j \in Zeroed /\ ~(zeroAge[j] >= Quiet)
      <4>1. PromptWire /\ InStep(j)
        BY <2>1, <2>4, <3>3 DEF KeepsUp, BaseInv, InStepInv
      <4>2. zeroAge[j] < BlackoutFrom
        BY <2>3, <3>3 DEF BlackoutPossible
      <4> QED BY <2>3, <4>1, <4>2 DEF InStep, Listens
    <3> QED BY <3>1, <3>2, <3>3
  <2>5. j \in writesPending' /\ j \in offWritten' /\ j \notin applied'
    BY <1>2, <1>6, <1>11, <2>2
  <2> QED BY <1>2, <1>3, <1>9, <1>11, <2>2, <2>4, <2>5, OffWrite
<1> QED BY <1>10, <1>11

\* An Enable is written a period after the Off's echo was read, when nothing
\* else for the drive is queued and the drive has nothing left to say.
LEMMA TripPoll ==
    ASSUME TypeOK, PoseInv, TripInv, NEW offs \in SUBSET Joint, NEW wave \in SUBSET Joint,
           Poll(offs, wave)
    PROVE  TripInv'
<1> DEFINE q == Queue(tx, "Off", offs)
<1>1. /\ "Off" \in Command /\ "Enable" \in Command /\ tx \in [Bus -> Seq(Group)]
      /\ tx' = Queue(q, "Enable", wave)
      /\ applied' = applied \ offs /\ offWritten' = offWritten \cup offs
      /\ writesPending' = writesPending \ wave /\ pc = "idle"
      /\ UNCHANGED <<cont, targets, mode, active, fault, rx, echoPending, gateOpen, offEchoAge,
                     zeroAge, inbox, out, driveMode, streaming, driveZero, dead, rebooted>>
  BY DEF Command, TypeOK, Poll, authorityVars, driveVars
<1>2. q \in [Bus -> Seq(Group)]
  BY <1>1, QueueType
<1> SUFFICES ASSUME NEW j \in Joint, Window(j)', ~rebooted' PROVE Steady(j)'
  BY DEF TripInv
<1>3. Window(j) /\ Steady(j) /\ (~Latched' => ~Latched)
  BY <1>1 DEF TripInv, Window, InSession, Latched
<1>4. /\ InSession(j) /\ Sess(j) /\ gateOpen
      /\ j \in writesPending => j \in echoPending
  <2>1. InSession(j)
    BY <1>1, <1>3, WindowIsSession
  <2> QED BY <1>3, <2>1 DEF PoseInv, SessInv, Call, Steady, InSession
<1>5. /\ offs # {} => offs \subseteq OffsDue
      /\ wave # {} => wave \subseteq EnablesDue
  BY DEF Poll, OffWaves, EnableWaves, Waves
<1>6. ~Latched /\ j \notin dead /\ zeroAge[j] >= Quiet => driveZero[j] = Quiet
  BY <1>4, QuietIsOver DEF Sess
<1>7. RxOf(j)' = RxOf(j) /\ TripRx(RxOf(j), RxOf(j)', j)
  BY <1>1, TripRxSame DEF RxOf
<1>8. /\ j \notin offs => TripTx(tx[Route[j]], q[Route[j]], j)
      /\ \A c : Queued(q[Route[j]], c, j) <=> Queued(tx[Route[j]], c, j) \/ (c = "Off" /\ j \in offs)
  <2>1. j \notin offs => TripTx(tx[Route[j]], q[Route[j]], j)
    BY <1>1, QueueTrip
  <2>2. \A c : Queued(q[Route[j]], c, j) <=> Queued(tx[Route[j]], c, j) \/ (c = "Off" /\ j \in offs)
    BY <1>1, QueuedIn
  <2> QED BY <2>1, <2>2
<1> HIDE DEF q
<1>9. j \notin wave => TripTx(q[Route[j]], TxOf(j)', j)
  <2>1. j \notin wave => TripTx(q[Route[j]], Queue(q, "Enable", wave)[Route[j]], j)
    BY <1>1, <1>2, QueueTrip
  <2> QED BY <1>1, <2>1 DEF TxOf
<1>10. CASE j \notin offs /\ j \notin wave
  <2>1. TripTx(TxOf(j), TxOf(j)', j)
    BY <1>8, <1>9, <1>10 DEF TripTx, TxOf
  <2>2. /\ j \in offWritten' <=> j \in offWritten
        /\ j \in applied' => j \in applied
        /\ j \in writesPending' <=> j \in writesPending
    BY <1>1, <1>10
  <2> QED BY <1>1, <1>3, <1>7, <2>1, <2>2, SteadySame
<1>11. CASE j \in offs
  <2>1. j \in writesPending /\ j \notin offWritten /\ zeroAge[j] >= Quiet
    BY <1>4, <1>5, <1>11 DEF OffsDue, QuietElapsed
  <2>2. j \notin wave
    BY <1>5, <2>1 DEF EnablesDue, OffSettled
  <2>3. ~Latched /\ j \notin dead => Listens(j)
    BY <1>6, <2>1 DEF Listens
  <2>4. j \in writesPending' /\ j \in offWritten' /\ j \notin applied'
    BY <1>1, <1>11, <2>1, <2>2
  <2>5. TripTx(Queue(tx, "Off", offs)[Route[j]], TxOf(j)', j)
    BY <1>9, <2>2 DEF q
  <2> QED BY <1>1, <1>3, <1>11, <2>1, <2>3, <2>4, <2>5, OffWrite
<1>12. CASE j \in wave
  <2>1. j \in writesPending /\ j \in offWritten /\ zeroAge[j] >= Quiet /\ offEchoAge[j] >= 1
    BY <1>5, <1>12 DEF EnablesDue, OffSettled, QuietElapsed
  <2>2. offEchoAge[j] = 1 /\ offEchoAge[j] # Never
    <3>1. offEchoAge[j] \in {Never, 0, 1}
      BY DEF TypeOK
    <3> QED BY <2>1, <3>1 DEF Never
  <2>3. j \notin offs
    BY <1>4, <1>5, <2>1 DEF OffsDue
  <2>4. Waits(j) /\ ResetsRead(j) /\ (j \in offWritten => j \notin applied)
    BY <1>3, <2>1 DEF Steady
  <2>5. /\ Muted(j) /\ out[j] = {} /\ inbox[j] = <<>> /\ ~EchoIn(RxOf(j), "Enable", j)
        /\ \A c \in Command : ~Queued(TxOf(j), c, j)
    BY <2>2, <2>4 DEF Waits
  <2>6. \A c \in Command : ~Queued(q[Route[j]], c, j)
    BY <1>8, <2>3, <2>5 DEF TxOf
  <2>7. EnableFirst(q[Route[j]], j)
    <3> DEFINE p == q[Route[j]]
    <3>1. p \in Seq(Group)
      BY <1>2, SessionAssumption DEF SessionAssumption
    <3> HIDE DEF p
    <3>2. \A k \in 1 .. Len(p) : p[k] \in Group
      BY <3>1
    <3>3. \A k \in 1 .. Len(p) : p[k].cmd \in Command
      BY <3>2 DEF Group
    <3>4. EnableFirst(p, j)
      BY <2>6, <3>3 DEF EnableFirst, Queued, Frame, p
    <3> QED BY <3>4 DEF p
  <2>8. /\ \A c : Queued(TxOf(j)', c, j) <=> Queued(q[Route[j]], c, j) \/ c = "Enable"
        /\ EnableFirst(TxOf(j)', j)
    <3>1. \A c : Queued(TxOf(j)', c, j) <=> Queued(q[Route[j]], c, j) \/ (c = "Enable" /\ j \in wave)
      BY <1>1, <1>2, QueuedIn DEF TxOf
    <3>2. EnableFirst(q[Route[j]], j) => EnableFirst(Queue(q, "Enable", wave)[Route[j]], j)
      BY <1>1, <1>2, QueueTrip
    <3> QED BY <1>1, <1>12, <2>7, <3>1, <3>2 DEF TxOf
  <2>9. \A c : ~InHand(j, c)'
    BY <1>1, <2>5 DEF InHand
  <2>10. Starts(j)'
    <3>1. \A c \in {"Off", "On", "SetZero", "Stop"} : c \in Command /\ c # "Enable"
      BY DEF Command
    <3>2. Muted(j)' /\ j \in offWritten' /\ out'[j] = {} /\ inbox'[j] = <<>> /\ j \in echoPending'
      BY <1>1, <1>4, <2>1, <2>5 DEF Muted
    <3> QED BY <1>7, <2>5, <2>6, <2>8, <2>9, <3>1, <3>2 DEF Starts
  <2>11. Reachable(j)' /\ ResetsRead(j)'
    BY <1>1, <1>3, <1>6, <1>7, <2>1, <2>4 DEF Reachable, Listens, ResetsRead
  <2> QED BY <1>1, <1>4, <1>12, <2>1, <2>3, <2>4, <2>10, <2>11 DEF Steady
<1> QED BY <1>10, <1>11, <1>12

\* One received frame is read.
LEMMA RestTrip ==
    ASSUME TypeOK, Routed, NEW b \in Bus, rx[b] # <<>>, rx' = Rest(b), NEW j \in Joint
    PROVE  /\ TripRx(RxOf(j), RxOf(j)', j)
           /\ ResetReport(Head(rx[b]), j) => ResetIn(RxOf(j), j)
           /\ \A c : Heard(Head(rx[b]), c, j) => EchoIn(RxOf(j), c, j)
           /\ ResetsLead(RxOf(j), j) /\ Heard(Head(rx[b]), "Enable", j) => ~ResetIn(RxOf(j)', j)
<1>1. rx \in [Bus -> Seq(Received)] /\ rx[b] \in Seq(Received) /\ Route[j] \in Bus
  BY SessionAssumption DEF SessionAssumption, TypeOK
<1>2. rx'[b] = Tail(rx[b]) /\ \A c \in Bus \ {b} : rx'[c] = rx[c]
  BY <1>1 DEF Rest
<1>3. CASE Route[j] # b
  <2>1. RxOf(j)' = RxOf(j)
    BY <1>1, <1>2, <1>3 DEF RxOf
  <2>2. Head(rx[b]) \in ReceivedOn(b)
    BY RestOf
  <2>3. \A c : ~Heard(Head(rx[b]), c, j)
    BY <1>3, <2>2 DEF ReceivedOn, On, Heard
  <2> QED BY <2>1, <2>3, TripRxSame DEF ResetReport
<1>4. CASE Route[j] = b
  <2>1. RxOf(j)' = Tail(rx[b]) /\ RxOf(j) = rx[b]
    BY <1>2, <1>4 DEF RxOf
  <2>2. /\ TripRx(rx[b], Tail(rx[b]), j)
        /\ ResetReport(Head(rx[b]), j) => ResetIn(rx[b], j)
        /\ \A c : Heard(Head(rx[b]), c, j) => EchoIn(rx[b], c, j)
        /\ ResetsLead(rx[b], j) /\ Heard(Head(rx[b]), "Enable", j) => ~ResetIn(Tail(rx[b]), j)
    BY <1>1, ResetTailed
  <2> QED BY <2>1, <2>2
<1> QED BY <1>3, <1>4

\* The echo of an Enable is read after every report of Reset.
LEMMA TripReadEnable ==
    ASSUME TypeOK, PoseInv, TripInv, NEW b \in Bus, ReadEnableEcho(b) PROVE TripInv'
<1>1. /\ UNCHANGED <<pc, cont, targets, mode, active, fault, tx, inbox, out, driveMode, streaming,
                     driveZero, dead, rebooted, writesPending, gateOpen, offEchoAge, applied, offWritten>>
      /\ rx[b] # <<>> /\ rx' = Rest(b) /\ Head(rx[b]).kind = "Enable"
      /\ echoPending' = echoPending \ (Head(rx[b]).from \ writesPending)
  BY DEF ReadEnableEcho, Reads, callVars, authorityVars, reportingVars, driveVars
<1> SUFFICES ASSUME NEW j \in Joint, Window(j)', ~rebooted' PROVE Steady(j)'
  BY DEF TripInv
<1>2. Steady(j) /\ (~Latched' => ~Latched)
  BY <1>1 DEF TripInv, Window, InSession, Latched
<1>3. /\ TripTx(TxOf(j), TxOf(j)', j) /\ TripRx(RxOf(j), RxOf(j)', j)
      /\ \A c : Heard(Head(rx[b]), c, j) => EchoIn(RxOf(j), c, j)
      /\ ResetsLead(RxOf(j), j) /\ Heard(Head(rx[b]), "Enable", j) => ~ResetIn(RxOf(j)', j)
      /\ TxOf(j)' = TxOf(j)
  <2>1. Routed
    BY DEF PoseInv
  <2> QED BY <1>1, <2>1, TripTxSame, RestTrip DEF TxOf
<1>4. CASE j \in echoPending' <=> j \in echoPending
  BY <1>1, <1>2, <1>3, <1>4, SteadySame
<1>5. CASE ~(j \in echoPending' <=> j \in echoPending)
  <2>1. j \notin writesPending /\ Heard(Head(rx[b]), "Enable", j)
    BY <1>1, <1>5 DEF Heard
  <2>2. Starts(j) /\ Started(j) /\ ~ResetIn(RxOf(j)', j) /\ ResetsLead(RxOf(j)', j)
    BY <1>2, <1>3, <2>1 DEF Steady, Starts, ResetsRead, TripRx
  <2>3. \A c : InHand(j, c)' <=> InHand(j, c)
    BY <1>1 DEF InHand
  <2>4. Started(j)' /\ (Muted(j)' <=> Muted(j))
    BY <1>1, <2>2, <2>3 DEF Started, Muted
  <2>5. Starts(j)'
    BY <1>1, <1>3, <2>2, <2>3, <2>4 DEF Starts
  <2> QED BY <1>1, <1>2, <1>3, <2>1, <2>2, <2>5 DEF Steady, Reachable, Listens, ResetsRead
<1> QED BY <1>4, <1>5

\* The echo of an Off is read: it has been on the wire.
LEMMA TripReadOff ==
    ASSUME TypeOK, PoseInv, TripInv, NEW b \in Bus, ReadOffEcho(b) PROVE TripInv'
<1>1. /\ UNCHANGED <<pc, cont, targets, mode, active, fault, tx, inbox, out, driveMode, streaming,
                     driveZero, dead, rebooted, writesPending, echoPending, gateOpen, applied, offWritten>>
      /\ rx[b] # <<>> /\ rx' = Rest(b) /\ Head(rx[b]).kind = "Off"
      /\ offEchoAge' = [j \in Joint |->
             IF gateOpen /\ j \in Head(rx[b]).from \cap offWritten THEN 0 ELSE offEchoAge[j]]
  BY DEF ReadOffEcho, Reads, callVars, authorityVars, reportingVars, driveVars
<1> SUFFICES ASSUME NEW j \in Joint, Window(j)', ~rebooted' PROVE Steady(j)'
  BY DEF TripInv
<1>2. Steady(j) /\ (~Latched' => ~Latched)
  BY <1>1 DEF TripInv, Window, InSession, Latched
<1>3. /\ TripTx(TxOf(j), TxOf(j)', j) /\ TripRx(RxOf(j), RxOf(j)', j)
      /\ \A c : Heard(Head(rx[b]), c, j) => EchoIn(RxOf(j), c, j)
      /\ TxOf(j)' = TxOf(j)
  <2>1. Routed
    BY DEF PoseInv
  <2> QED BY <1>1, <2>1, TripTxSame, RestTrip DEF TxOf
<1>4. CASE offEchoAge'[j] = offEchoAge[j]
  BY <1>1, <1>2, <1>3, <1>4, SteadySame
<1>5. CASE offEchoAge'[j] # offEchoAge[j]
  <2>1. offEchoAge'[j] = 0 /\ Heard(Head(rx[b]), "Off", j) /\ j \in offWritten
    BY <1>1, <1>5 DEF Heard
  <2>2. EchoIn(RxOf(j), "Off", j)
    BY <1>3, <2>1
  <2>3. \A c : InHand(j, c)' <=> InHand(j, c)
    BY <1>1 DEF InHand
  <2>4. (Started(j)' <=> Started(j)) /\ (Muted(j)' <=> Muted(j))
    BY <1>1, <2>3 DEF Started, Muted
  <2>5. \A c : EchoIn(RxOf(j)', c, j) => EchoIn(RxOf(j), c, j)
    BY <1>3 DEF TripRx
  <2>6. Waits(j) => Waits(j)'
    BY <1>1, <1>3, <2>1, <2>2, <2>3, <2>4, <2>5 DEF Waits
  <2>7. Starts(j) => Starts(j)'
    BY <1>1, <1>3, <2>3, <2>4, <2>5 DEF Starts
  <2>8. ResetsRead(j) => ResetsRead(j)'
    BY <1>1, <1>3 DEF ResetsRead, TripRx
  <2> QED BY <1>1, <1>2, <1>3, <2>6, <2>7, <2>8 DEF Steady, Reachable, Listens
<1> QED BY <1>4, <1>5

\* Other frames, grants and the ends of calls leave the drives as they were.
LEMMA TripRead ==
    ASSUME TypeOK, PoseInv, TripInv,
           \/ \E b \in Bus : ReadZeroEcho(b)
           \/ \E b \in Bus, i \in Joint :
               ReadStatus(b, i) \/ \E class \in {"DriveState", "Device"} : ReadHazard(b, i, class)
    PROVE  TripInv'
<1>1. PICK b \in Bus : rx[b] # <<>> /\ rx' = Rest(b)
  BY DEF ReadZeroEcho, ReadStatus, ReadHazard, Reads
<1>2. /\ UNCHANGED <<cont, targets, mode, active, tx, inbox, out, driveMode, streaming, driveZero, dead,
                     rebooted, writesPending, echoPending, gateOpen, offEchoAge, applied, offWritten>>
      /\ ~Latched' => ~Latched
  BY DEF ReadZeroEcho, ReadStatus, ReadHazard, callVars, sessionVars, authorityVars, reportingVars,
         driveVars, Latched, Record
<1> SUFFICES ASSUME NEW j \in Joint, Window(j)', ~rebooted' PROVE Steady(j)'
  BY DEF TripInv
<1>3. Steady(j)
  BY <1>2 DEF TripInv, Window, InSession
<1>4. TripTx(TxOf(j), TxOf(j)', j) /\ TripRx(RxOf(j), RxOf(j)', j)
  <2>1. Routed
    BY DEF PoseInv
  <2> QED BY <1>1, <1>2, <2>1, TripTxSame, RestTrip DEF TxOf
<1> QED BY <1>2, <1>3, <1>4, SteadySame

\* A drain that ends, or a read that finds nothing, leaves the drives as they were.
LEMMA TripIdle ==
    ASSUME TypeOK, PoseInv, TripInv,
           \/ ReadFails \/ DrainReturns \/ Activate \/ UNCHANGED vars
           \/ \E i \in Joint : Grant(i) \/ Revoke(i)
    PROVE  TripInv'
<1>1. /\ UNCHANGED <<tx, rx, inbox, out, driveMode, streaming, driveZero, dead, rebooted,
                     writesPending, echoPending, gateOpen, offEchoAge, applied, offWritten>>
      /\ ~Latched' => ~Latched
  BY DEF ReadFails, DrainReturns, Activate, Grant, Revoke, vars, callVars, sessionVars, authorityVars,
         reportingVars, driveVars, Latched, Record
<1> SUFFICES ASSUME NEW j \in Joint, Window(j)', ~rebooted' PROVE Steady(j)'
  BY DEF TripInv
<1>2. Window(j)
  BY DEF ReadFails, DrainReturns, Activate, Grant, Revoke, vars, callVars, sessionVars, Window, InSession
<1>3. Steady(j)
  BY <1>1, <1>2 DEF TripInv
<1>4. TripTx(TxOf(j), TxOf(j)', j) /\ TripRx(RxOf(j), RxOf(j)', j)
  BY <1>1, TripTxSame, TripRxSame DEF TxOf, RxOf
<1> QED BY <1>1, <1>3, <1>4, SteadySame

\* A step that ends with no session and no open gate.
LEMMA TripEnds ==
    ASSUME TypeOK, PoseInv,
           StopStep \/ (\E T \in SUBSET Joint : EnableTargets(T)) \/ (\E i \in Joint : SetZero(i))
    PROVE  TripInv'
<1>1. mode' = "Disabled" /\ cont' # "activate"
  BY ZenonT(30) DEF StopStep, PollWriteFails, DrainStops, GateWriteFails, ActivateFails, SendMitStale,
         SendMitFails, CheckActiveReferences, DisableAll, LatchControlFault, PerformStop,
         EnableTargets, SetZero, callVars, sessionVars, PoseInv, Call
<1> QED BY <1>1 DEF TripInv, Window, InSession

\* The window opens on a drive with nothing queued and nothing unread.
LEMMA TripOpenGate ==
    ASSUME TypeOK, PoseInv, BaseInv, NEW offs \in SUBSET Joint, OpenGate(offs) PROVE TripInv'
<1>1. /\ UNCHANGED <<targets, mode, active, fault, zeroAge, rx, inbox, driveMode, streaming, driveZero,
                     dead, out, rebooted>>
      /\ cont = "gate" /\ writesPending' = targets /\ echoPending' = echoPending \cup targets
      /\ offEchoAge' = [j \in Joint |-> Never] /\ gateOpen' = TRUE
      /\ offWritten' = offs /\ applied' = applied \ offs
      /\ tx' = Queue(tx, "Off", offs) /\ tx \in [Bus -> Seq(Group)] /\ "Off" \in Command
      /\ \A b \in Bus : rx[b] = <<>>
      /\ \A j \in offs : zeroAge[j] >= Quiet
  BY DEF OpenGate, GateReady, Drained, FirstOffs, Waves, QuietElapsed, authorityVars, driveVars, TypeOK,
         Command
<1>2. mode # "Active"
  BY <1>1 DEF PoseInv, Call
<1> SUFFICES ASSUME NEW j \in Joint, Window(j)' PROVE Steady(j)'
  BY DEF TripInv
<1>3. j \in targets /\ Targ(j) /\ TxOf(j) = <<>> /\ RxOf(j)' = <<>> /\ RxOf(j) = <<>>
  <2>1. j \in targets
    BY <1>1, <1>2 DEF Window, InSession
  <2> QED BY <1>1, <2>1, SessionAssumption
          DEF SessionAssumption, PoseInv, TargInv, BaseInv, GateIsClear, RxOf
<1>4. /\ \A c : ~EchoIn(RxOf(j)', c, j) /\ ~EchoIn(RxOf(j), c, j)
      /\ ~ResetIn(RxOf(j)', j) /\ ResetsLead(RxOf(j)', j)
  BY <1>3 DEF EchoIn, ResetIn, ResetsLead
<1>5. \A c : ~Queued(TxOf(j), c, j)
  BY <1>3 DEF Queued
<1>6. /\ \A c : Queued(TxOf(j)', c, j) <=> c = "Off" /\ j \in offs
      /\ OneOff(TxOf(j)', j)
  <2>1. \A c : Queued(TxOf(j)', c, j) <=> Queued(TxOf(j), c, j) \/ (c = "Off" /\ j \in offs)
    BY <1>1, QueuedIn DEF TxOf
  <2>2. ~Queued(tx[Route[j]], "Off", j) => OneOff(Queue(tx, "Off", offs)[Route[j]], j)
    BY <1>1, QueueTrip
  <2> QED BY <1>1, <1>5, <2>1, <2>2 DEF TxOf
<1>7. \A c : ~InHand(j, c)'
  BY <1>1, <1>3 DEF Targ, InHand
<1>8. offEchoAge'[j] = Never /\ offEchoAge'[j] # 1
  BY <1>1 DEF Never
<1>9. Waits(j)'
  BY <1>1, <1>4, <1>6, <1>7, <1>8 DEF Waits
<1>10. Reachable(j)'
  <2>1. ASSUME ~Latched, j \notin dead, j \in offs PROVE driveZero[j] = Quiet
    BY <1>1, <1>4, <1>5, <2>1, QuietIsOver
  <2> QED BY <1>1, <1>6, <2>1 DEF Reachable, Listens, Latched
<1>11. ResetsRead(j)'
  BY <1>4 DEF ResetsRead
<1> QED BY <1>1, <1>3, <1>9, <1>10, <1>11 DEF Steady

\* A batch goes only to drives whose Enable is written, behind it.
LEMMA TripSendMit ==
    ASSUME TypeOK, PoseInv, TripInv, NEW cmd \in {"Neutral", "Servo"}, SendMit(cmd) PROVE TripInv'
<1> DEFINE S == active \ writesPending
<1>1. /\ UNCHANGED <<cont, targets, mode, active, fault, rx, inbox, out, driveMode, streaming, driveZero,
                     dead, rebooted, writesPending, echoPending, gateOpen, offEchoAge, applied, offWritten>>
      /\ S \in SUBSET Joint /\ cmd \in Command
      /\ tx \in [Bus -> Seq(Group)] /\ tx' = Queue(tx, cmd, S)
  BY DEF SendMit, callVars, sessionVars, authorityVars, reportingVars, driveVars, Command, TypeOK
<1> SUFFICES ASSUME NEW j \in Joint, Window(j)', ~rebooted' PROVE Steady(j)'
  BY DEF TripInv
<1>2. Steady(j) /\ (~Latched' => ~Latched)
  BY <1>1 DEF TripInv, Window, InSession, Latched
<1>3. TripRx(RxOf(j), RxOf(j)', j) /\ RxOf(j)' = RxOf(j)
  BY <1>1, TripRxSame DEF RxOf
<1>4. j \in S => j \notin writesPending
  OBVIOUS
<1> HIDE DEF S
<1>5. CASE j \notin S
  <2>1. TripTx(tx[Route[j]], Queue(tx, cmd, S)[Route[j]], j)
    BY <1>1, <1>5, QueueTrip
  <2> QED BY <1>1, <1>2, <1>3, <2>1, SteadySame DEF TxOf
<1>6. CASE j \in S
  <2>1. \A c : Queued(TxOf(j)', c, j) <=> Queued(TxOf(j), c, j) \/ (c = cmd /\ j \in S)
    BY <1>1, QueuedIn DEF TxOf
  <2>2. /\ EnableFirst(tx[Route[j]], j) /\ Queued(tx[Route[j]], "Enable", j)
        => EnableFirst(Queue(tx, cmd, S)[Route[j]], j)
    BY <1>1, QueueTrip
  <2>3. \A c : InHand(j, c)' <=> InHand(j, c)
    BY <1>1 DEF InHand
  <2>4. (Started(j)' <=> Started(j)) /\ (Muted(j)' <=> Muted(j))
    BY <1>1, <2>3 DEF Started, Muted
  <2>5. Starts(j)
    BY <1>2, <1>4, <1>6 DEF Steady
  <2>6. ~Started(j) => EnableFirst(TxOf(j)', j) /\ Queued(TxOf(j)', "Enable", j)
    BY <1>1, <2>1, <2>2, <2>5 DEF Starts, TxOf
  <2>7. \A c \in {"Off", "On", "SetZero", "Stop"} : ~Queued(TxOf(j)', c, j)
    BY <2>1, <2>5 DEF Starts
  <2>8. Starts(j)'
    BY <1>1, <1>3, <2>3, <2>4, <2>5, <2>6, <2>7 DEF Starts
  <2>9. Reachable(j)' /\ ResetsRead(j)'
    BY <1>1, <1>2, <1>3, <2>1 DEF Steady, Reachable, Listens, ResetsRead
  <2> QED BY <1>1, <1>2, <1>4, <1>6, <2>8, <2>9 DEF Steady
<1> QED BY <1>5, <1>6

\* A frame leaves.  It reaches every live drive of the session: an Off or an
\* Enable is not sent to a deaf drive, and what follows an Enable finds the
\* drive started.
LEMMA TripTransmit ==
    ASSUME TypeOK, PoseInv, LatchedMeansStopped, TripInv, NEW b \in Bus, Transmit(b) PROVE TripInv'
<1> DEFINE f == Head(tx[b])
           e == [kind |-> f.cmd, from |-> f.to, mode |-> "Reset"]
<1>1. /\ UNCHANGED <<cont, targets, mode, active, fault, driveMode, streaming, driveZero, dead, out,
                     rebooted, writesPending, echoPending, gateOpen, offEchoAge, applied, offWritten>>
      /\ pc = "idle" /\ tx[b] # <<>> /\ tx' = [tx EXCEPT ![b] = Tail(@)]
      /\ \A j \in f.to : inbox[j] = <<>>
      /\ inbox' = [j \in Joint |-> IF j \in f.to /\ Hears(j) THEN Append(inbox[j], f.cmd) ELSE inbox[j]]
      /\ rx' = IF f.cmd \in Echoed THEN [rx EXCEPT ![b] = Append(@, e)] ELSE rx
  BY DEF Transmit, callVars, sessionVars, authorityVars, reportingVars
<1>2. /\ tx[b] \in Seq(GroupOn(b)) /\ rx[b] \in Seq(Received)
      /\ tx \in [Bus -> Seq(Group)] /\ rx \in [Bus -> Seq(Received)]
  BY DEF PoseInv, Routed, TypeOK
<1>3. f \in GroupOn(b)
  <2> DEFINE G == GroupOn(b)
  <2>1. tx[b] \in Seq(G)
    BY <1>2
  <2> HIDE DEF G
  <2>2. Head(tx[b]) \in G
    BY <1>1, <2>1
  <2> QED BY <2>2 DEF G
<1> HIDE DEF f
<1>4. f.cmd \in Command /\ f.to \subseteq Joint /\ \A j \in f.to : Route[j] = b
  BY <1>3 DEF GroupOn, On
<1>5. tx'[b] = Tail(tx[b]) /\ \A c \in Bus \ {b} : tx'[c] = tx[c] /\ rx'[c] = rx[c]
  BY <1>1, <1>2
<1>6. f.cmd \in Echoed => e \in Received
  BY <1>4 DEF Received, DriveMode
<1>7. IF f.cmd \in Echoed THEN rx'[b] = Append(rx[b], e) ELSE rx'[b] = rx[b]
  BY <1>1, <1>2
<1>8. \A j : (\A c : Heard(e, c, j) <=> Frame(f, c, j)) /\ (f.cmd \in Echoed => ~ResetReport(e, j))
  BY DEF Heard, Frame, ResetReport, Echoed
<1> HIDE DEF e
<1> SUFFICES ASSUME NEW j \in Joint, Window(j)', ~rebooted' PROVE Steady(j)'
  BY DEF TripInv
<1>9. Steady(j) /\ ~Latched /\ ~Latched'
  <2>1. Window(j) /\ Steady(j)
    BY <1>1 DEF TripInv, Window, InSession
  <2>2. mode = "Active"
    BY <1>1, <2>1, WindowIsSession DEF InSession
  <2>3. ~Latched
    BY <1>1, <2>2 DEF LatchedMeansStopped
  <2> QED BY <1>1, <2>1, <2>3 DEF Latched
<1>10. Route[j] \in Bus
  BY SessionAssumption DEF SessionAssumption
<1>11. /\ \A c : EchoIn(RxOf(j)', c, j) => EchoIn(RxOf(j), c, j) \/ Frame(f, c, j)
       /\ ResetIn(RxOf(j)', j) => ResetIn(RxOf(j), j)
       /\ ResetsLead(RxOf(j), j) => ResetsLead(RxOf(j)', j)
  <2>1. CASE Route[j] # b \/ f.cmd \notin Echoed
    <3>1. RxOf(j)' = RxOf(j)
      BY <1>5, <1>7, <1>10, <2>1 DEF RxOf
    <3> QED BY <3>1
  <2>2. CASE Route[j] = b /\ f.cmd \in Echoed
    <3>1. RxOf(j) = rx[b] /\ RxOf(j)' = Append(rx[b], e) /\ e \in Received
      BY <1>6, <1>7, <2>2 DEF RxOf
    <3>2. /\ \A c : EchoIn(Append(rx[b], e), c, j) <=> EchoIn(rx[b], c, j) \/ Heard(e, c, j)
          /\ ResetIn(Append(rx[b], e), j) <=> ResetIn(rx[b], j) \/ ResetReport(e, j)
          /\ ResetsLead(rx[b], j) /\ (ResetReport(e, j) => ~EchoIn(rx[b], "Enable", j))
                => ResetsLead(Append(rx[b], e), j)
      BY <1>2, <3>1, ResetAppended
    <3> QED BY <1>8, <2>2, <3>1, <3>2
  <2> QED BY <2>1, <2>2
<1>12. ASSUME Route[j] = b
       PROVE  /\ \A c : Queued(TxOf(j), c, j) <=> Queued(TxOf(j)', c, j) \/ Frame(f, c, j)
              /\ OneOff(TxOf(j), j) => OneOff(TxOf(j)', j)
              /\ OneOff(TxOf(j), j) /\ Frame(f, "Off", j) => ~Queued(TxOf(j)', "Off", j)
              /\ EnableFirst(TxOf(j), j) /\ j \notin f.to => EnableFirst(TxOf(j)', j)
              /\ EnableFirst(TxOf(j), j) /\ j \in f.to => f.cmd = "Enable"
  <2> DEFINE q == TxOf(j)
             G == GroupOn(b)
  <2>1. q \in Seq(G) /\ q # <<>> /\ TxOf(j)' = Tail(q) /\ f = Head(q)
    BY <1>1, <1>2, <1>5, <1>12 DEF TxOf, f
  <2> HIDE DEF q, G
  <2>2. /\ \A c : Queued(q, c, j) <=> Queued(Tail(q), c, j) \/ Frame(Head(q), c, j)
        /\ OneOff(q, j) => OneOff(Tail(q), j)
        /\ OneOff(q, j) /\ Frame(Head(q), "Off", j) => ~Queued(Tail(q), "Off", j)
        /\ EnableFirst(q, j) /\ j \notin Head(q).to => EnableFirst(Tail(q), j)
        /\ EnableFirst(q, j) /\ j \in Head(q).to => Head(q).cmd = "Enable"
    BY <2>1, TripTailed
  <2> QED BY <2>1, <2>2 DEF q
<1>13. CASE j \notin f.to
  <2>1. \A c : ~Frame(f, c, j)
    BY <1>13 DEF Frame
  <2>2. TripRx(RxOf(j), RxOf(j)', j)
    BY <1>11, <2>1 DEF TripRx
  <2>3. TripTx(TxOf(j), TxOf(j)', j)
    <3>1. CASE Route[j] = b
      BY <1>12, <1>13, <2>1, <3>1 DEF TripTx
    <3>2. CASE Route[j] # b
      <4>1. TxOf(j)' = TxOf(j)
        BY <1>5, <1>10, <3>2 DEF TxOf
      <4> QED BY <4>1, TripTxSame
    <3> QED BY <3>1, <3>2
  <2>4. inbox'[j] = inbox[j]
    BY <1>1, <1>13
  <2> QED BY <1>1, <1>9, <2>2, <2>3, <2>4, SteadySame
<1>14. CASE j \in f.to
  <2>1. Route[j] = b /\ inbox[j] = <<>> /\ \A c : Frame(f, c, j) <=> c = f.cmd
    BY <1>1, <1>4, <1>14 DEF Frame
  <2>2. \A c : InHand(j, c)' <=> Hears(j) /\ c = f.cmd
    <3>1. inbox'[j] = IF Hears(j) THEN Append(<<>>, f.cmd) ELSE <<>>
      BY <1>1, <1>14, <2>1
    <3>2. Append(<<>>, f.cmd) # <<>> /\ Head(Append(<<>>, f.cmd)) = f.cmd
      OBVIOUS
    <3> QED BY <3>1, <3>2 DEF InHand
  <2>3. f.cmd \in {"Off", "Enable"} => Hears(j) \/ j \in dead
    <3>1. f.cmd \in {"Off", "Enable"} /\ j \notin dead => Listens(j)
      BY <1>9, <1>12, <2>1 DEF Steady, Reachable
    <3>2. Quiet \in Nat /\ Deaf \in Int /\ driveZero[j] \in Int
      BY SessionAssumption DEF SessionAssumption, TypeOK
    <3> QED BY <3>1, <3>2 DEF Listens, Hears, InBlackout
  <2>4. (Muted(j)' <=> Muted(j)) /\ ~InHand(j, "Enable")
    BY <1>1, <2>1 DEF Muted, InHand
  <2>5. Reachable(j)' /\ ResetsRead(j)'
    BY <1>1, <1>9, <1>11, <1>12, <2>1 DEF Steady, Reachable, Listens, ResetsRead
  <2>6. CASE j \in writesPending
    <3>1. Waits(j) /\ f.cmd = "Off"
      <4>1. Waits(j) /\ Queued(TxOf(j), f.cmd, j)
        BY <1>9, <1>12, <2>1, <2>6 DEF Steady
      <4> QED BY <1>4, <4>1 DEF Waits
    <3>2. j \in offWritten /\ offEchoAge[j] = Never /\ ~Queued(TxOf(j)', "Off", j) /\ offEchoAge[j] # 1
      BY <1>12, <2>1, <3>1 DEF Waits, Never
    <3>3. \A c \in Command \ {"Off"} : ~Queued(TxOf(j)', c, j) /\ ~InHand(j, c)'
      BY <1>12, <2>1, <2>2, <3>1 DEF Waits
    <3>4. OneOff(TxOf(j)', j) /\ ~EchoIn(RxOf(j)', "Enable", j)
      BY <1>11, <1>12, <2>1, <3>1 DEF Waits
    <3>5. Muted(j)' \/ InHand(j, "Off")'
      BY <1>1, <2>2, <2>3, <3>1 DEF Muted
    <3>6. Waits(j)'
      BY <1>1, <3>2, <3>3, <3>4, <3>5 DEF Waits
    <3> QED BY <1>1, <1>9, <2>5, <2>6, <3>6 DEF Steady
  <2>7. CASE j \notin writesPending
    <3>1. Starts(j)
      BY <1>9, <2>7 DEF Steady
    <3>2. f.cmd \notin {"Off", "On", "SetZero", "Stop"}
      BY <1>12, <2>1, <3>1 DEF Starts
    <3>3. \A c \in {"Off", "On", "SetZero", "Stop"} : ~Queued(TxOf(j)', c, j) /\ ~InHand(j, c)'
      BY <1>12, <2>1, <2>2, <3>1, <3>2 DEF Starts
    <3>4. Started(j)'
      <4>1. CASE f.cmd = "Enable"
        BY <1>1, <2>2, <2>3, <4>1 DEF Started
      <4>2. CASE f.cmd # "Enable"
        <5>1. Started(j)
          BY <1>12, <1>14, <2>1, <3>1, <4>2 DEF Starts
        <5> QED BY <1>1, <2>4, <5>1 DEF Started
      <4> QED BY <4>1, <4>2
    <3>5. Starts(j)'
      BY <1>1, <2>4, <3>1, <3>3, <3>4 DEF Starts
    <3> QED BY <1>1, <1>9, <2>5, <2>7, <3>5 DEF Steady
  <2> QED BY <2>6, <2>7
<1> QED BY <1>13, <1>14

\* The drive acts: an Off mutes it, an Enable starts it, and a started drive
\* answers with Run.
LEMMA TripDriveActs ==
    ASSUME TypeOK, PoseInv, BaseInv, TripInv, NEW i \in Joint, DriveActs(i) PROVE TripInv'
<1> DEFINE cmd == Head(inbox[i])
           m == CASE cmd = "Enable" -> "Run" [] cmd = "Stop" -> "Reset" [] OTHER -> driveMode[i]
<1>1. /\ UNCHANGED <<cont, targets, mode, active, fault, tx, rx, dead, rebooted, writesPending,
                     echoPending, gateOpen, offEchoAge, applied, offWritten>>
      /\ inbox[i] # <<>> /\ inbox' = [inbox EXCEPT ![i] = Tail(@)]
      /\ driveMode' = [driveMode EXCEPT ![i] = m]
      /\ out' = [out EXCEPT ![i] = @ \cup {m}]
      /\ driveZero' = IF cmd = "SetZero" THEN [driveZero EXCEPT ![i] = 0] ELSE driveZero
      /\ streaming' = CASE cmd = "On" -> streaming \cup {i}
                        [] cmd = "Off" -> streaming \ {i}
                        [] OTHER -> streaming
  BY DEF DriveActs, callVars, sessionVars, authorityVars, reportingVars
<1>2. /\ inbox \in [Joint -> Seq(Command)] /\ driveMode \in [Joint -> DriveMode]
      /\ driveZero \in [Joint -> 0 .. Quiet] /\ out \in [Joint -> SUBSET DriveMode]
  BY DEF TypeOK
<1>3. inbox'[i] = <<>> /\ cmd \in Command
  BY <1>1, <1>2 DEF PoseInv, InboxOne
<1>4. \A c : ~InHand(i, c)' /\ (InHand(i, c) <=> c = cmd)
  BY <1>1, <1>3 DEF InHand
<1>5. /\ driveMode'[i] = m /\ out'[i] = out[i] \cup {m}
      /\ cmd # "SetZero" => driveZero'[i] = driveZero[i]
  BY <1>1, <1>2
<1>6. /\ cmd = "Enable" => m = "Run"
      /\ cmd \notin {"Enable", "Stop"} => m = driveMode[i]
  OBVIOUS
<1>7. ASSUME NEW j \in Joint, j # i
      PROVE  /\ inbox'[j] = inbox[j] /\ driveMode'[j] = driveMode[j] /\ out'[j] = out[j]
             /\ driveZero'[j] = driveZero[j] /\ (j \in streaming' <=> j \in streaming)
  BY <1>1, <1>2, <1>7
<1>8. /\ cmd = "Off" => i \notin streaming'
      /\ cmd \notin {"On", "Off"} => streaming' = streaming
  BY <1>1
<1> HIDE DEF cmd, m
<1> SUFFICES ASSUME NEW j \in Joint, Window(j)', ~rebooted' PROVE Steady(j)'
  BY DEF TripInv
<1>9. /\ Steady(j) /\ TxOf(j)' = TxOf(j) /\ RxOf(j)' = RxOf(j) /\ (Latched' <=> Latched)
  BY <1>1 DEF TripInv, Window, InSession, TxOf, RxOf, Latched
<1>10. CASE j # i
  <2>1. TripTx(TxOf(j), TxOf(j)', j) /\ TripRx(RxOf(j), RxOf(j)', j)
    BY <1>9, TripTxSame, TripRxSame
  <2> QED BY <1>1, <1>7, <1>9, <1>10, <2>1, SteadySame
<1>11. CASE j = i
  <2>1. j \notin dead
    BY <1>1, <1>11 DEF BaseInv, DeadIsSilent
  <2>2. ResetsRead(j)'
    BY <1>1, <1>9 DEF Steady, ResetsRead
  <2>3. CASE j \in writesPending
    <3>1. Waits(j) /\ cmd = "Off"
      BY <1>3, <1>4, <1>9, <1>11, <2>3 DEF Steady, Waits
    <3>2. offEchoAge[j] # 1 /\ Muted(j)'
      BY <1>1, <1>8, <1>11, <3>1 DEF Waits, Muted
    <3>3. Waits(j)'
      BY <1>1, <1>4, <1>9, <1>11, <3>1, <3>2 DEF Waits
    <3>4. Reachable(j)'
      BY <1>1, <1>5, <1>9, <1>11, <3>1 DEF Steady, Reachable, Listens
    <3> QED BY <1>1, <1>9, <2>2, <2>3, <3>3, <3>4 DEF Steady
  <2>4. CASE j \notin writesPending
    <3>1. Starts(j) /\ Started(j)
      BY <1>1, <1>9, <1>11, <2>4 DEF Steady, Starts
    <3>2. cmd \notin {"Off", "On", "SetZero", "Stop"}
      BY <1>4, <1>11, <3>1 DEF Starts
    <3>3. m = "Run"
      BY <1>4, <1>6, <1>11, <2>1, <3>1, <3>2 DEF Started
    <3>4. Started(j)' /\ Muted(j)' /\ "Reset" \notin out'[j]
      BY <1>1, <1>5, <1>8, <1>11, <3>1, <3>2, <3>3 DEF Started, Starts, Muted
    <3>5. Starts(j)'
      BY <1>1, <1>4, <1>9, <1>11, <3>1, <3>4 DEF Starts
    <3>6. Reachable(j)'
      BY <1>1, <1>5, <1>9, <1>11, <3>2 DEF Steady, Reachable, Listens
    <3> QED BY <1>1, <1>9, <2>2, <2>4, <3>5, <3>6 DEF Steady
  <2> QED BY <2>3, <2>4
<1> QED BY <1>10, <1>11

\* A stream that still reports belongs to a drive whose Enable is not written.
LEMMA TripDriveReports ==
    ASSUME TypeOK, TripInv, NEW i \in Joint, DriveReports(i) PROVE TripInv'
<1>1. /\ UNCHANGED <<cont, targets, mode, active, fault, tx, rx, inbox, driveMode, streaming, driveZero,
                     dead, rebooted, writesPending, echoPending, gateOpen, offEchoAge, applied, offWritten>>
      /\ i \in streaming \ dead /\ \A j \in Joint \ {i} : out'[j] = out[j]
  BY DEF DriveReports, callVars, sessionVars, authorityVars, reportingVars, TypeOK
<1> SUFFICES ASSUME NEW j \in Joint, Window(j)', ~rebooted' PROVE Steady(j)'
  BY DEF TripInv
<1>2. /\ Steady(j) /\ TxOf(j)' = TxOf(j) /\ RxOf(j)' = RxOf(j) /\ (Latched' <=> Latched)
      /\ \A c : InHand(j, c)' <=> InHand(j, c)
  BY <1>1 DEF TripInv, Window, InSession, TxOf, RxOf, Latched, InHand
<1>3. CASE j # i
  <2>1. TripTx(TxOf(j), TxOf(j)', j) /\ TripRx(RxOf(j), RxOf(j)', j)
    BY <1>2, TripTxSame, TripRxSame
  <2> QED BY <1>1, <1>2, <1>3, <2>1, SteadySame
<1>4. CASE j = i
  <2>1. ~Muted(j) /\ ~Muted(j)'
    BY <1>1, <1>4 DEF Muted
  <2>2. j \in writesPending /\ Waits(j) /\ offEchoAge[j] # 1
    BY <1>2, <2>1 DEF Steady, Starts, Waits
  <2>3. Waits(j)'
    BY <1>1, <1>2, <2>1, <2>2 DEF Waits
  <2> QED BY <1>1, <1>2, <2>2, <2>3 DEF Steady, Reachable, Listens, ResetsRead
<1> QED BY <1>3, <1>4

\* A report of Reset leaves before the Enable is written.
LEMMA TripDriveSends ==
    ASSUME TypeOK, PoseInv, TripInv, NEW i \in Joint, NEW m \in DriveMode, DriveSends(i, m)
    PROVE  TripInv'
<1> DEFINE b == Route[i]
           g == [kind |-> "Status", from |-> {i}, mode |-> m]
<1>1. /\ UNCHANGED <<cont, targets, mode, active, fault, tx, inbox, driveMode, streaming, driveZero,
                     dead, rebooted, writesPending, echoPending, gateOpen, offEchoAge, applied, offWritten>>
      /\ out' = [out EXCEPT ![i] = @ \ {m}] /\ m \in out[i] /\ pc = "idle"
      /\ rx' = [rx EXCEPT ![b] = Append(@, g)]
  BY DEF DriveSends, callVars, sessionVars, authorityVars, reportingVars
<1>2. b \in Bus /\ rx \in [Bus -> Seq(Received)] /\ rx[b] \in Seq(Received) /\ g \in Received
  BY SessionAssumption DEF SessionAssumption, TypeOK, Received
<1>3. rx'[b] = Append(rx[b], g) /\ \A c \in Bus \ {b} : rx'[c] = rx[c]
  BY <1>1, <1>2
<1>4. \A j : /\ \A c \in {"Off", "Enable"} : ~Heard(g, c, j)
             /\ ResetReport(g, j) => j = i /\ m = "Reset"
             /\ j # i => \A c : ~Heard(g, c, j)
  BY DEF Heard, ResetReport
<1>5. \A j \in Joint : out'[j] \subseteq out[j] /\ (j # i => out'[j] = out[j])
  BY <1>1 DEF TypeOK
<1> HIDE DEF b, g
<1> SUFFICES ASSUME NEW j \in Joint, Window(j)', ~rebooted' PROVE Steady(j)'
  BY DEF TripInv
<1>6. /\ Steady(j) /\ TxOf(j)' = TxOf(j) /\ (Latched' <=> Latched)
      /\ \A c : InHand(j, c)' <=> InHand(j, c)
      /\ j \in writesPending => j \in echoPending
  BY <1>1 DEF TripInv, Window, InSession, TxOf, Latched, InHand, PoseInv, Call
<1>7. /\ \A c : EchoIn(RxOf(j)', c, j) => EchoIn(RxOf(j), c, j) \/ Heard(g, c, j)
      /\ ResetIn(RxOf(j)', j) => ResetIn(RxOf(j), j) \/ ResetReport(g, j)
      /\ ResetsLead(RxOf(j), j) /\ (ResetReport(g, j) => ~EchoIn(RxOf(j), "Enable", j))
             => ResetsLead(RxOf(j)', j)
  <2>1. CASE Route[j] # b
    <3>1. RxOf(j)' = RxOf(j)
      BY <1>3, <2>1, SessionAssumption DEF SessionAssumption, RxOf
    <3> QED BY <3>1
  <2>2. CASE Route[j] = b
    <3>1. RxOf(j) = rx[b] /\ RxOf(j)' = Append(rx[b], g)
      BY <1>3, <2>2 DEF RxOf
    <3>2. /\ \A c : EchoIn(Append(rx[b], g), c, j) <=> EchoIn(rx[b], c, j) \/ Heard(g, c, j)
          /\ ResetIn(Append(rx[b], g), j) <=> ResetIn(rx[b], j) \/ ResetReport(g, j)
          /\ ResetsLead(rx[b], j) /\ (ResetReport(g, j) => ~EchoIn(rx[b], "Enable", j))
                => ResetsLead(Append(rx[b], g), j)
      BY <1>2, ResetAppended
    <3> QED BY <3>1, <3>2
  <2> QED BY <2>1, <2>2
<1>8. CASE j # i
  <2>1. TripRx(RxOf(j), RxOf(j)', j)
    BY <1>4, <1>7, <1>8 DEF TripRx
  <2>2. TripTx(TxOf(j), TxOf(j)', j)
    BY <1>6, TripTxSame
  <2> QED BY <1>1, <1>5, <1>6, <1>8, <2>1, <2>2, SteadySame
<1>9. CASE j = i
  <2>1. /\ \A c \in {"Off", "Enable"} : EchoIn(RxOf(j)', c, j) => EchoIn(RxOf(j), c, j)
        /\ (Muted(j)' <=> Muted(j)) /\ (Started(j)' <=> Started(j))
    BY <1>1, <1>4, <1>6, <1>7 DEF Muted, Started
  <2>2. Reachable(j)'
    BY <1>1, <1>6 DEF Steady, Reachable, Listens
  <2>3. CASE j \in writesPending
    <3>1. Waits(j) /\ ResetsRead(j) /\ offEchoAge[j] # 1
      BY <1>1, <1>6, <1>9, <2>3 DEF Steady, Waits
    <3>2. Waits(j)'
      BY <1>1, <1>6, <2>1, <3>1 DEF Waits
    <3>3. ResetsRead(j)'
      BY <1>1, <1>6, <1>7, <2>3, <3>1 DEF Waits, ResetsRead
    <3> QED BY <1>1, <1>6, <2>2, <2>3, <3>2, <3>3 DEF Steady
  <2>4. CASE j \notin writesPending
    <3>1. Starts(j) /\ ResetsRead(j) /\ Started(j) /\ ~ResetReport(g, j)
      BY <1>1, <1>4, <1>6, <1>9, <2>4 DEF Steady, Starts
    <3>2. Starts(j)'
      BY <1>1, <1>5, <1>6, <2>1, <3>1 DEF Starts
    <3>3. ResetsRead(j)'
      BY <1>1, <1>7, <3>1 DEF ResetsRead
    <3> QED BY <1>1, <1>6, <2>2, <2>4, <3>2, <3>3 DEF Steady
  <2> QED BY <2>3, <2>4
<1> QED BY <1>8, <1>9

\* A drive dies.
LEMMA TripDriveDies ==
    ASSUME TypeOK, TripInv, NEW i \in Joint, DriveDies(i) PROVE TripInv'
<1>1. /\ UNCHANGED <<cont, targets, mode, active, fault, tx, rx, driveMode, streaming, driveZero,
                     rebooted, writesPending, echoPending, gateOpen, offEchoAge, applied, offWritten>>
      /\ dead' = dead \cup {i} /\ inbox'[i] = <<>> /\ out'[i] = {}
      /\ \A j \in Joint \ {i} : inbox'[j] = inbox[j] /\ out'[j] = out[j]
  BY DEF DriveDies, callVars, sessionVars, authorityVars, reportingVars, TypeOK
<1> SUFFICES ASSUME NEW j \in Joint, Window(j)', ~rebooted' PROVE Steady(j)'
  BY DEF TripInv
<1>2. Steady(j) /\ TxOf(j)' = TxOf(j) /\ RxOf(j)' = RxOf(j) /\ (Latched' <=> Latched)
  BY <1>1 DEF TripInv, Window, InSession, TxOf, RxOf, Latched
<1>3. CASE j # i
  <2>1. TripTx(TxOf(j), TxOf(j)', j) /\ TripRx(RxOf(j), RxOf(j)', j)
    BY <1>2, TripTxSame, TripRxSame
  <2>2. (j \in dead' <=> j \in dead) /\ inbox'[j] = inbox[j] /\ out'[j] = out[j]
    BY <1>1, <1>3
  <2> QED BY <1>1, <1>2, <2>1, <2>2, SteadySame
<1>4. CASE j = i
  <2>1. Muted(j)' /\ Started(j)' /\ j \in dead' /\ \A c : ~InHand(j, c)'
    BY <1>1, <1>4 DEF Muted, Started, InHand
  <2>2. Waits(j) => Waits(j)'
    BY <1>1, <1>2, <1>4, <2>1 DEF Waits
  <2>3. Starts(j) => Starts(j)'
    BY <1>1, <1>2, <1>4, <2>1 DEF Starts
  <2> QED BY <1>1, <1>2, <2>1, <2>2, <2>3 DEF Steady, Reachable, Listens, ResetsRead
<1> QED BY <1>3, <1>4

\* A period passes: what the drives had in hand is acted on and sent.
LEMMA TripTick == ASSUME TypeOK, TripInv, Tick PROVE TripInv'
<1>1. /\ UNCHANGED <<cont, targets, mode, active, fault, tx, rx, inbox, out, driveMode, streaming, dead,
                     rebooted, writesPending, echoPending, gateOpen, applied, offWritten>>
      /\ PromptWire => \A b \in Bus : tx[b] = <<>>
      /\ \A j \in Joint : inbox[j] = <<>> /\ out[j] = {}
      /\ \A j \in Joint : offEchoAge'[j] = IF offEchoAge[j] = Never THEN Never ELSE 1
      /\ \A j \in Joint : driveZero'[j] = Older(driveZero[j], Quiet)
  BY DEF Tick, callVars, authorityVars
<1> SUFFICES ASSUME NEW j \in Joint, Window(j)', ~rebooted' PROVE Steady(j)'
  BY DEF TripInv
<1>2. /\ Steady(j) /\ TxOf(j)' = TxOf(j) /\ RxOf(j)' = RxOf(j) /\ (Latched' <=> Latched)
      /\ \A c : ~InHand(j, c)' /\ ~InHand(j, c)
      /\ (Muted(j)' <=> Muted(j)) /\ (Started(j)' <=> Started(j))
  BY <1>1 DEF TripInv, Window, InSession, TxOf, RxOf, Latched, InHand, Muted, Started
<1>3. driveZero[j] = Quiet => driveZero'[j] = Quiet
  BY <1>1, SessionAssumption DEF SessionAssumption, Older
<1>4. /\ offEchoAge[j] = Never => offEchoAge'[j] = Never /\ offEchoAge'[j] # 1
      /\ offEchoAge[j] # Never => offEchoAge'[j] = 1
  BY <1>1 DEF Never
<1>5. Waits(j) => Waits(j)'
  BY <1>1, <1>2, <1>4 DEF Waits
<1>6. Starts(j) => Starts(j)'
  BY <1>1, <1>2 DEF Starts
<1>7. Reachable(j) => Reachable(j)'
  <2>1. PromptWire => \A c : ~Queued(TxOf(j)', c, j)
    BY <1>1, <1>2, SessionAssumption DEF SessionAssumption, TxOf, Queued
  <2> QED BY <1>1, <1>2, <1>3, <2>1 DEF Reachable, Listens
<1> QED BY <1>1, <1>2, <1>5, <1>6, <1>7 DEF Steady, ResetsRead

\* Every step keeps it; a drive that falls back to Reset voids it.
LEMMA TripInvStep ==
    ASSUME KeepsUp, TypeOK, PoseInv, BaseInv, LatchedMeansStopped, TripInv, [Next]_vars
    PROVE  TripInv'
<1>1. CASE SupervisorStep
  BY <1>1, TripSync, TripPoll, TripReadEnable, TripReadOff, TripRead, TripIdle, TripEnds, TripOpenGate,
     TripSendMit DEF SupervisorStep
<1>2. CASE StopStep
  BY <1>2, TripEnds
<1>3. CASE WireStep
  <2>1. ASSUME NEW i \in Joint, DriveReboots(i) PROVE TripInv'
    BY <2>1 DEF DriveReboots, TripInv
  <2> QED BY <1>3, <2>1, TripTransmit, TripDriveActs, TripDriveReports, TripDriveSends, TripDriveDies
          DEF WireStep
<1> QED BY <1>1, <1>2, <1>3, TripTick, TripIdle DEF Next

\* A first DriveState fault is a report of Reset from a drive whose Enable's
\* echo was read.
LEMMA FaultStep ==
    ASSUME TypeOK, PoseInv, TripInv, NoFalseTrip, [Next]_vars PROVE NoFalseTrip'
<1>1. ASSUME NEW b \in Bus, NEW i \in Joint, ReadHazard(b, i, "DriveState") PROVE NoFalseTrip'
  <2>1. /\ rx[b] # <<>> /\ Head(rx[b]).kind = "Status" /\ i \in Head(rx[b]).from /\ rx' = Rest(b)
        /\ RunExpected(i) /\ Head(rx[b]).mode # "Run" /\ UNCHANGED rebooted
    BY <1>1 DEF ReadHazard, Reads, driveVars
  <2>2. Head(rx[b]) \in ReceivedOn(b)
    BY <2>1, RestOf DEF PoseInv
  <2>3. ResetReport(Head(rx[b]), i)
    BY <2>1, <2>2 DEF ReceivedOn, DriveMode, ResetReport, Heard
  <2>4. ResetIn(RxOf(i), i)
    BY <2>1, <2>3, RestTrip DEF PoseInv
  <2>5. Window(i) /\ i \notin echoPending
    BY <2>1 DEF RunExpected, Window, InSession
  <2>6. rebooted
    BY <2>4, <2>5 DEF TripInv, Steady, ResetsRead
  <2> QED BY <2>1, <2>6 DEF NoFalseTrip
<1>2. CASE fault' # "DriveState" \/ (fault' = fault /\ (rebooted => rebooted'))
  BY <1>2 DEF NoFalseTrip
<1>3. CASE StopStep
  <2>1. fault' # "DriveState" \/ fault' = fault
    BY <1>3 DEF StopStep, PollWriteFails, DrainStops, GateWriteFails, ActivateFails, SendMitStale,
                SendMitFails, CheckActiveReferences, DisableAll, LatchControlFault, PerformStop,
                StopFault, OverdueClass, Latched
  <2> QED BY <1>2, <1>3, <2>1, SupervisorLeaves
<1>4. CASE WireStep \/ Tick \/ UNCHANGED vars
  <2>1. ASSUME NEW i \in Joint, DriveReboots(i) PROVE fault' = fault /\ rebooted'
    BY <2>1 DEF DriveReboots, authorityVars
  <2>2. \/ UNCHANGED <<fault, rebooted>>
        \/ \E i \in Joint : DriveReboots(i)
    BY <1>4 DEF WireStep, Transmit, DriveActs, DriveReports, DriveDies, DriveSends, Tick,
                authorityVars, vars, driveVars
  <2> QED BY <1>2, <2>1, <2>2
<1>5. CASE SupervisorStep
  <2>1. UNCHANGED rebooted
    BY <1>5, SupervisorLeaves
  <2>2. ASSUME NEW b \in Bus, NEW i \in Joint, ReadHazard(b, i, "Device")
        PROVE  fault' # "DriveState" \/ fault' = fault
    BY <2>2 DEF ReadHazard, Record
  <2>3. \/ fault' # "DriveState" \/ fault' = fault
        \/ \E b \in Bus, i \in Joint : ReadHazard(b, i, "DriveState")
    BY <1>5, <2>2 DEF SupervisorStep, SyncReporting, Poll, ReadEnableEcho, ReadOffEcho, ReadZeroEcho,
                ReadStatus, ReadFails, Record, DrainReturns, EnableTargets, OpenGate, Activate, SendMit,
                SetZero, Grant, Revoke, authorityVars
  <2> QED BY <1>1, <1>2, <2>1, <2>3
<1> QED BY <1>3, <1>4, <1>5 DEF Next

(***************************************************************************)
(* A healthy drive never trips the session: DriveState is latched only if  *)
(* some drive really fell back to Reset, for any drives, interfaces and    *)
(* bounds.  When frames are sent and read within the control period        *)
(* nothing more is assumed; with any wire and any stalled host it holds    *)
(* as long as no joint is both zeroed and sensed (an Off that              *)
(* sync_active_reporting writes to such a joint before its blackout may    *)
(* reach the drive in it).                                                 *)
(***************************************************************************)
THEOREM HealthyNeverTrips ==
    ASSUME (PromptWire /\ PromptDrain) \/ Zeroed \cap Sensed = {}
    PROVE  Spec => []NoFalseTrip
<1>1. Init => TripInv /\ NoFalseTrip
  BY DEF Init, TripInv, Window, InSession, NoFalseTrip
<1>2. Spec => []KeepsUp
  <2>1. CASE PromptWire /\ PromptDrain
    <3>1. InStepInv => KeepsUp
      BY <2>1 DEF KeepsUp
    <3>2. Spec => []InStepInv
      BY <2>1, InStepHolds
    <3> QED BY <3>1, <3>2, PTL
  <2>2. CASE Zeroed \cap Sensed = {}
    <3>1. KeepsUp
      BY <2>2 DEF KeepsUp
    <3> QED BY <3>1, PTL
  <2> QED BY <2>1, <2>2
<1>3. KeepsUp /\ TypeOK /\ PoseInv /\ BaseInv /\ LatchedMeansStopped /\ TripInv /\ NoFalseTrip /\ [Next]_vars
        => TripInv' /\ NoFalseTrip'
  BY TripInvStep, FaultStep
<1> QED BY <1>1, <1>2, <1>3, TypeCorrect, PoseInvHolds, BaseInvHolds, LatchStops, PTL DEF Spec
==============================================================================
