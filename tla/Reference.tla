------------------------------- MODULE Reference -------------------------------
(***************************************************************************)
(* Physical reference acquisition: the reservation that stops, identifies,  *)
(* arms, zeroes and reads back one drive (reference_transaction.rs), the    *)
(* host's record of each device (reference_physical.rs), the commit that    *)
(* waits for the journal and grants the joint (reference_commit.rs,         *)
(* reference.rs) and marengo-pi's queue of joints (reference_queue.rs).     *)
(*                                                                          *)
(* Frames leave the host in order, each drive answers in order, and a drive *)
(* may miss a frame or its answer be lost.  A drive's coordinate is one of   *)
(* two classes: "zero" reads the operator's pose as zero, "off" does not.   *)
(* The journal answers a job with any verdict (see ReferenceJournal).       *)
(***************************************************************************)
EXTENDS Integers, Sequences, FiniteSets, FiniteSetsExt, SequencesExt

CONSTANTS
  RefJoints,      \* installed joints, each on its own drive
  MaxTxn,         \* acquisitions (next_sequence stops here)
  MaxMishaps,     \* reboots, swaps, missed frames and failed writes
  MaxOrders,      \* operator orders
  MaxDeferred     \* MAX_DEFERRED_COMMANDS

ASSUME ReferenceAssumption ==
  /\ IsFiniteSet(RefJoints) /\ "none" \notin RefJoints
  /\ MaxTxn \in Nat /\ MaxMishaps \in Nat /\ MaxOrders \in Nat /\ MaxDeferred \in Nat

VARIABLES
  rRes,           \* the live Reservation
  rSeq,           \* next_sequence
  rTxn,           \* retained outcomes with their stage and commit entry
  rPend,          \* pending_commit
  rJobs,          \* CommitOwner.pending, oldest first
  rAuth,          \* ReferenceAuthority
  rDev,           \* PhysicalDevices: epoch, uid, last position of each drive
  rEcho,          \* enable_echo_pending
  rStop,          \* the stop generation
  rFault, rEstop, \* latched fault, hardware E-stop input
  rPolicy,        \* the installed policy and model
  rDue,           \* the overall deadline of the last acquisition has passed
  rOut, rAt, rRx, \* frames to the drives, an Enable on the wire, frames at the socket
  rDrive,         \* the drives themselves
  rQ, rDefer,     \* ReferenceQueue: joints, deferred commands
  rMishaps, rOrders,   \* how many of each so far
  rLoose,         \* history: a stop was not written to every drive
  rSpoilt,        \* history: acquisitions overtaken after they were staged
  rBad            \* history: what was granted and must not have been

wireVars == <<rOut, rAt, rRx, rDrive>>
queueVars == <<rQ, rDefer>>
rvars == <<rRes, rSeq, rTxn, rPend, rJobs, rAuth, rDev, rEcho, rStop, rFault, rEstop,
           rPolicy, rDue, wireVars, queueVars, rMishaps, rOrders, rLoose, rSpoilt, rBad>>

Txns == 1 .. MaxTxn
NoRes == [txn |-> 0, joint |-> "none", armed |-> FALSE]
NoRead == [asked |-> 0, coord |-> "none"]
NoReplies == [uid |-> 0, by |-> 0, read |-> NoRead]
NoGrant == [txn |-> 0, epoch |-> 0, uid |-> 0, live |-> FALSE]
Uids == 1 .. (Cardinality(RefJoints) + MaxMishaps)
NoOutcome == [joint |-> "none", cause |-> "none", stage |-> "none", loose |-> FALSE,
              stop |-> 0, gen |-> 0, epoch |-> 0, uid |-> 0, by |-> 0, policy |-> 0,
              read |-> NoRead, commit |-> "none", result |-> "none"]
NoAuthority == [revoked |-> FALSE, accumulates |-> FALSE, gen |-> 0, policy |-> 0,
                grant |-> [j \in RefJoints |-> NoGrant]]
UnseenDevice == [epoch |-> 1, uid |-> 0, seen |-> "none"]
EmptyQueue == [pending |-> <<>>, flight |-> 0, failed |-> FALSE, closed |-> FALSE]

ReferenceInit ==
  /\ rRes = NoRes /\ rSeq = 1 /\ rPend = 0 /\ rJobs = <<>>
  /\ rTxn = [t \in Txns |-> NoOutcome]
  /\ rAuth = NoAuthority /\ rDev = [j \in RefJoints |-> UnseenDevice]
  /\ rEcho = {}
  /\ rStop = 0 /\ rFault = FALSE /\ rEstop = FALSE /\ rPolicy = 1 /\ rDue = FALSE
  /\ rOut = <<>> /\ rAt = <<>> /\ rRx = <<>>
  /\ \E at \in [RefJoints -> {"zero", "off"}], id \in Injection(RefJoints, 1 .. Cardinality(RefJoints)) :
       rDrive = [j \in RefJoints |-> [run |-> FALSE, coord |-> at[j], uid |-> id[j]]]
  /\ rQ = EmptyQueue /\ rDefer = 0
  /\ rMishaps = 0 /\ rOrders = 0 /\ rLoose = FALSE /\ rSpoilt = {} /\ rBad = {}

Busy == rRes.txn # 0
CommitBusy == \E i \in DOMAIN rJobs : rTxn[rJobs[i]].commit = "Pending"
WorkPending == Busy \/ rJobs # <<>> \/ rPend # 0

-----------------------------------------------------------------------------
\* ReferenceAuthority (reference.rs).

RefRevoke(a) == IF a.revoked THEN a ELSE [a EXCEPT !.revoked = TRUE, !.gen = @ + 1]

InvalidateJoint(a, j) ==
  [a EXCEPT !.grant[j].live = FALSE, !.revoked = @ \/ ~a.accumulates, !.gen = @ + 1]

\* validate_binding and the per-device checks of reference_binding_valid_with: `silent` are the
\* joints whose drive has been silent for longer than the watchdog (never judged while busy).
BindingValid(a, s, silent) ==
  LET lost == {j \in RefJoints : /\ a.grant[j].live
                                 /\ \/ s.dev[j].epoch # a.grant[j].epoch
                                    \/ s.dev[j].uid # a.grant[j].uid
                                    \/ j \in silent}
      kept == [a EXCEPT !.gen = @ + Cardinality(lost),
                        !.grant = [j \in RefJoints |-> [a.grant[j] EXCEPT !.live = @ /\ j \notin lost]]]
  IN IF s.fault THEN RefRevoke(a)
     ELSE IF a.policy = 0 THEN a
     ELSE IF a.policy # s.policy THEN RefRevoke(kept)
     ELSE kept

Granted(a, j) == ~a.revoked /\ a.grant[j].live

SelectConsumed(a, t) ==
  LET tx == rTxn[t]
      g == [txn |-> t, epoch |-> tx.epoch, uid |-> tx.uid, live |-> TRUE]
      merge == a.accumulates /\ ~a.revoked /\ a.policy = tx.policy
  IN [revoked |-> FALSE, accumulates |-> TRUE, gen |-> a.gen + 1, policy |-> tx.policy,
      grant |-> [j \in RefJoints |-> IF j = tx.joint THEN g
                                     ELSE IF merge THEN a.grant[j] ELSE NoGrant]]

-----------------------------------------------------------------------------
\* What retained evidence is judged against: the owner's state before and after a step.

Now == [res |-> rRes.txn, seq |-> rSeq, due |-> rDue, fault |-> rFault \/ rEstop, stop |-> rStop,
        dev |-> rDev, gen |-> rAuth.gen, policy |-> rPolicy]
After == [res |-> rRes'.txn, seq |-> rSeq', due |-> rDue', fault |-> rFault' \/ rEstop', stop |-> rStop',
          dev |-> rDev', gen |-> rAuth'.gen, policy |-> rPolicy']

StageInvalid_IgnoresStop(tx, t, s) ==
  \/ tx.loose \/ s.res # 0 \/ t + 1 # s.seq \/ s.due \/ s.fault
  \/ s.dev[tx.joint].epoch # tx.epoch \/ s.dev[tx.joint].uid # tx.uid
  \/ s.gen # tx.gen \/ s.policy # tx.policy
StageInvalid(tx, t, s) ==
  \/ tx.loose \/ s.res # 0 \/ t + 1 # s.seq \/ s.due \/ s.fault
  \/ s.stop # tx.stop
  \/ s.dev[tx.joint].epoch # tx.epoch \/ s.dev[tx.joint].uid # tx.uid
  \/ s.gen # tx.gen \/ s.policy # tx.policy

\* observe_staged_reference and observe_reference_commits: an invalidation is latched.
RefObserve(txns, s) ==
  [t \in Txns |->
    LET tx == txns[t]
        stage == IF tx.stage = "current" /\ StageInvalid(tx, t, s) THEN "invalid" ELSE tx.stage
    IN [tx EXCEPT !.stage = stage,
                  !.commit = IF @ = "Pending" /\ stage = "invalid" THEN "Invalidated" ELSE @]]

RetireStages(txns) ==
  [t \in Txns |-> [txns[t] EXCEPT !.stage = IF @ = "current" THEN "invalid" ELSE @]]
EndCommits(txns, phase) ==
  [t \in Txns |-> IF txns[t].commit = "none" THEN txns[t]
                  ELSE [txns[t] EXCEPT !.stage = IF @ = "current" THEN "invalid" ELSE @,
                                       !.commit = IF @ = "Pending" THEN phase ELSE @]]

Staged == {t \in Txns : rTxn[t].cause = "staged"}

-----------------------------------------------------------------------------
\* Writes, and the stop that every ending performs (perform_stop_paced).

Frame(j, kind) == [to |-> j, kind |-> kind, txn |-> rRes.txn]
StopFrames == SetToSeq({[to |-> j, kind |-> "stop", txn |-> 0] : j \in RefJoints})

\* `ok` is whether every stop was written, `sent` what a failed write may have let through.
PerformStop_OnlyArmed(sent, ok, fault) ==
  /\ rStop' = rStop + 1
  /\ rEcho' = {}
  /\ rOut' = rOut \o sent \o (IF ok /\ (rRes.armed \/ ~Busy) THEN StopFrames ELSE <<>>)
  /\ rFault' = (rFault \/ fault \/ ~ok)
  /\ rLoose' = (rLoose \/ ~ok)
RefPerformStop(sent, ok, fault) ==
  /\ rStop' = rStop + 1
  /\ rEcho' = {}
  /\ rOut' = rOut \o sent \o (IF ok THEN StopFrames ELSE <<>>)
  /\ rFault' = (rFault \/ fault \/ ~ok)
  /\ rLoose' = (rLoose \/ ~ok)

\* finish_reference: whatever the cause, the reservation ends with a stop of every drive.
FinishReference(auth, sent, ok, cause, evidence, fault) ==
  /\ RefPerformStop(sent, ok, fault)
  /\ rRes' = NoRes
  /\ rAuth' = IF rFault' THEN RefRevoke(auth) ELSE auth
  /\ UNCHANGED <<rSeq, rDue, rEstop, rPolicy>>
  /\ LET t == rRes.txn
         ended == [rTxn EXCEPT ![t] =
                     IF cause # "staged" THEN [@ EXCEPT !.cause = cause]
                     ELSE [@ EXCEPT !.cause = cause, !.stage = "current", !.loose = ~ok,
                                    !.stop = rStop', !.gen = rAuth'.gen, !.policy = rRes.policy,
                                    !.epoch = rRes.epoch, !.uid = rRes.uid, !.by = rRes.by,
                                    !.read = evidence]]
     IN rTxn' = RefObserve(ended, After)

-----------------------------------------------------------------------------
\* begin_reference, through request_reference: the request is the queue's.

BeginReference(j, auth) ==
  /\ rAuth' = InvalidateJoint(auth, j)
  /\ rRes' = [txn |-> rSeq, joint |-> j, phase |-> "BaselineStop", armed |-> FALSE, epoch |-> 0,
              uid |-> 0, by |-> 0, ack |-> FALSE, gen |-> rAuth'.gen, stop |-> rStop, policy |-> rPolicy,
              in |-> NoReplies, due |-> FALSE]
  /\ rTxn' = [RetireStages(RefObserve(rTxn, [Now EXCEPT !.gen = auth.gen])) EXCEPT ![rSeq].joint = j]
  /\ rSeq' = rSeq + 1
  /\ rPend' = rSeq
  /\ rDue' = FALSE

Admissible == ~Busy /\ ~CommitBusy /\ rPend = 0 /\ rSeq <= MaxTxn /\ ~rFault /\ ~rEstop

-----------------------------------------------------------------------------
\* advance_reference: deadline, hazard and continuity first, then the phase.

Auth == BindingValid(rAuth, Now, {})
Continuous == /\ Auth.gen = rRes.gen /\ rStop = rRes.stop /\ rPolicy = rRes.policy

Ended(sent, cause, evidence, fault) ==
  \E ok \in BOOLEAN : FinishReference(Auth, sent, ok, cause, evidence, fault)

EndQuietly ==
  /\ UNCHANGED <<rPend, rJobs, rDev, rAt, rRx, rDrive, queueVars, rOrders, rMishaps, rSpoilt, rBad>>
  /\ Ended(<<>>, "failed", NoRead, FALSE)

AdvanceExpired == Busy /\ rRes.due /\ EndQuietly
AdvanceHazard == Busy /\ ~rRes.due /\ (rFault \/ rEstop) /\ EndQuietly
AdvanceDiscontinuous == Busy /\ ~rRes.due /\ ~rFault /\ ~rEstop /\ ~Continuous /\ EndQuietly

In(phase) == Busy /\ rRes.phase = phase /\ ~rRes.due /\ ~rFault /\ ~rEstop /\ Continuous

To(phase) == [rRes EXCEPT !.phase = phase, !.due = FALSE]

\* A step that goes on: the frames written, the reservation as it becomes.
Goes(sent, res) ==
  /\ rOut' = rOut \o sent
  /\ rRes' = res
  /\ rAuth' = Auth
  /\ UNCHANGED <<rSeq, rPolicy, rDue, rEstop, rLoose>>

\* A failing write ends the acquisition; the frame may still be on its way.
RefWriteFails(frame) ==
  \E sent \in {<<>>, <<frame>>} : Ended(sent, "failed", NoRead, TRUE)

RefRest == UNCHANGED <<rPend, rJobs, rAt, rRx, rDrive, queueVars, rOrders, rMishaps, rSpoilt, rBad>>

BaselineStop ==
  /\ In("BaselineStop")
  /\ \/ /\ Goes(StopFrames, [To("DrainOld") EXCEPT !.stop = rStop + 1])
        /\ rStop' = rStop + 1
        /\ rEcho' = {}
        /\ UNCHANGED <<rFault, rDev>>
        /\ rTxn' = RefObserve(rTxn, After)
     \/ UNCHANGED rDev /\ RefWriteFails([to |-> rRes.joint, kind |-> "stop", txn |-> 0])
  /\ RefRest

\* RequestIdentity and RequestReadback: the watermark is taken before the write.
RefRequest(phase, kind, next) ==
  /\ In(phase)
  /\ \/ /\ Goes(<<Frame(rRes.joint, kind)>>, [To(next) EXCEPT !.in = NoReplies])
        /\ UNCHANGED <<rStop, rEcho, rFault, rDev>>
        /\ rTxn' = RefObserve(rTxn, After)
     \/ UNCHANGED rDev /\ RefWriteFails(Frame(rRes.joint, kind))
  /\ RefRest
RequestIdentity == RefRequest("RequestIdentity", "id", "AwaitIdentity")
RequestReadback == RefRequest("RequestReadback", "read", "AwaitReadback")

\* The target counts as armed before its Enable is written.
ArmTarget ==
  /\ In("ArmTarget")
  /\ \/ /\ Goes(<<Frame(rRes.joint, "enable")>>, [To("DrainPostArm") EXCEPT !.armed = TRUE])
        /\ rEcho' = rEcho \union {rRes.joint}
        /\ UNCHANGED <<rStop, rFault, rDev>>
        /\ rTxn' = RefObserve(rTxn, After)
     \/ UNCHANGED rDev /\ RefWriteFails(Frame(rRes.joint, "enable"))
  /\ RefRest

\* Any attempt, failed or not, begins a new coordinate (begin_new_coordinate).
NewCoordinate(d) == [d EXCEPT !.epoch = @ + 1, !.seen = "none"]
RefSetZero ==
  /\ In("SetZero")
  /\ rDev' = [rDev EXCEPT ![rRes.joint] = NewCoordinate(@)]
  /\ \/ /\ Goes(<<Frame(rRes.joint, "zero")>>,
                [To("AwaitAck") EXCEPT !.epoch = rDev'[rRes.joint].epoch])
        /\ UNCHANGED <<rStop, rEcho, rFault>>
        /\ rTxn' = RefObserve(rTxn, After)
     \/ RefWriteFails(Frame(rRes.joint, "zero"))
  /\ RefRest

-----------------------------------------------------------------------------
\* One receive of everything queued (consume_report_in_context).

IsPose(f) == f.kind \in {"status", "report"}

\* record_identity: replies are recorded before any status is judged; a reply of another device
\* ends the coordinate.
IdReplies(j) == {k \in DOMAIN rRx : rRx[k].kind = "id" /\ rRx[k].from = j}
UidBefore(j, k) ==
  LET earlier == {i \in IdReplies(j) : i < k}
  IN IF earlier = {} THEN rDev[j].uid ELSE rRx[Max(earlier)].uid
Identified(j) ==
  [rDev[j] EXCEPT !.uid = UidBefore(j, Len(rRx) + 1),
     !.epoch = @ + Cardinality({k \in IdReplies(j) : UidBefore(j, k) \notin {0, rRx[k].uid}})]

\* observe_position: a jump between two frames of one drive ends its coordinate.
ObservePosition(d, coord) ==
  [d EXCEPT !.seen = coord, !.epoch = IF d.seen \notin {"none", coord} THEN @ + 1 ELSE @]

EchoBefore(k) ==
  rRes.joint \notin rEcho \/ \E i \in 1 .. k : rRx[i].kind = "echo" /\ rRx[i].from = rRes.joint

\* feedback_run_expected: only the armed target, once its Enable was read back from the wire.
RefRunExpected(k) == Busy /\ rRes.armed /\ rRx[k].from = rRes.joint /\ EchoBefore(k)

NotRunning(k) == IsPose(rRx[k]) /\ RefRunExpected(k) /\ ~rRx[k].run

\* coordinate_trusted: the target after its SetZero attempt, a peer while it holds its grant.
Trusted(k) ==
  /\ Busy /\ rRes.armed
  /\ IF rRx[k].from = rRes.joint THEN rRes.epoch # 0 ELSE Granted(rAuth, rRx[k].from)

OutOfLimits(k, lim) == lim /\ IsPose(rRx[k]) /\ rRx[k].coord = "off" /\ Trusted(k)

BadPose(k, lim) == NotRunning(k) \/ OutOfLimits(k, lim)
GoodPoses(lim) == {k \in DOMAIN rRx : IsPose(rRx[k]) /\ ~BadPose(k, lim)}

\* The last good pose of each drive is its position.
Observed(j, lim) ==
  LET poses == {k \in GoodPoses(lim) : rRx[k].from = j}
  IN IF poses = {} THEN Identified(j) ELSE ObservePosition(Identified(j), rRx[Max(poses)].coord)

\* identity_after and the read back: the first reply after the watermark answers the request.
RepliesIn ==
  LET ids == IdReplies(rRes.joint)
      reads == {k \in DOMAIN rRx : rRx[k].kind = "read" /\ rRx[k].from = rRes.joint}
      known == rRes.in.uid # 0 \/ ids = {}
  IN [uid |-> IF known THEN rRes.in.uid ELSE rRx[Min(ids)].uid,
      by |-> IF known THEN rRes.in.by ELSE rRx[Min(ids)].txn,
      read |-> IF rRes.in.read # NoRead \/ reads = {} THEN rRes.in.read
               ELSE [asked |-> rRx[Min(reads)].txn, coord |-> rRx[Min(reads)].coord]]

RefReceived(lim) ==
  [hazard |-> \E k \in DOMAIN rRx : BadPose(k, lim),
   dev |-> [j \in RefJoints |-> Observed(j, lim)],
   echo |-> rEcho \ {rRx[k].from : k \in {k \in DOMAIN rRx : rRx[k].kind = "echo"}},
   ack |-> \E k \in GoodPoses(lim) :
             rRx[k].kind = "status" /\ rRx[k].from = rRes.joint /\ rRx[k].coord = "zero",
   in |-> IF Busy THEN RepliesIn ELSE NoReplies]

\* What the phase makes of a clean receive; the phase itself when it waits on.
PhaseAfter(r, settled) ==
  CASE rRes.phase = "DrainOld" -> "RequestIdentity"
    [] rRes.phase = "AwaitIdentity" -> IF r.in.uid = 0 THEN "AwaitIdentity" ELSE "AwaitReportingOff"
    [] rRes.phase = "AwaitReportingOff" -> IF settled THEN "ArmTarget" ELSE "AwaitReportingOff"
    [] rRes.phase = "DrainPostArm" -> IF rRes.joint \in r.echo THEN "DrainPostArm" ELSE "SetZero"
    [] rRes.phase = "AwaitAck" -> IF r.ack THEN "RequestReadback" ELSE "AwaitAck"
    [] OTHER -> rRes.phase

ClaimedElsewhere(r) ==
  /\ rRes.phase = "AwaitIdentity" /\ r.in.uid # 0
  /\ \E j \in RefJoints \ {rRes.joint} : r.dev[j].uid = r.in.uid

ReadBack(r) == rRes.phase = "AwaitReadback" /\ r.in.read # NoRead

\* accept_physical_readback: zero, the same device, and no jump since SetZero.
ReadBackHolds(r) ==
  /\ r.in.read.coord = "zero"
  /\ r.dev[rRes.joint].seen \in {"none", "zero"}
  /\ r.dev[rRes.joint].uid = rRes.uid /\ r.dev[rRes.joint].epoch = rRes.epoch
  /\ rRes.ack

ReservationAfter(r, next) ==
  [IF next = rRes.phase THEN rRes ELSE To(next) EXCEPT
     !.in = r.in,
     !.uid = IF next = "AwaitReportingOff" THEN r.in.uid ELSE @,
     !.by = IF next = "AwaitReportingOff" THEN r.in.by ELSE @,
     !.ack = @ \/ next = "RequestReadback"]

\* The receive is complete and clean: move on, wait, ask again, or stage the evidence.
DrainOutcome(r, next, again) ==
  CASE r.hazard ->
         rDev' = r.dev /\ Ended(<<>>, "failed", NoRead, TRUE)
    [] ~r.hazard /\ ClaimedElsewhere(r) ->
         rDev' = r.dev /\ Ended(<<>>, "failed", NoRead, FALSE)
    [] ~r.hazard /\ ReadBack(r) ->
         /\ rDev' = [r.dev EXCEPT ![rRes.joint] = ObservePosition(@, r.in.read.coord)]
         /\ IF ReadBackHolds(r) THEN Ended(<<>>, "staged", r.in.read, FALSE)
                                ELSE Ended(<<>>, "failed", NoRead, FALSE)
    [] OTHER ->
         /\ rDev' = r.dev
         /\ again => next = "AwaitIdentity" /\ Len(rOut) + Len(rAt) = 0
         /\ Goes(IF again THEN <<Frame(rRes.joint, "id")>> ELSE <<>>, ReservationAfter(r, next))
         /\ rEcho' = r.echo
         /\ UNCHANGED <<rStop, rFault>>
         /\ rTxn' = RefObserve(rTxn, After)
RefDrain ==
  /\ \E p \in {"DrainOld", "AwaitIdentity", "AwaitReportingOff", "DrainPostArm", "AwaitAck",
               "AwaitReadback"} : In(p)
  /\ rRx' = <<>>
  /\ UNCHANGED <<rPend, rJobs, rAt, rDrive, queueVars, rOrders, rMishaps, rSpoilt, rBad>>
  /\ \E lim, settled, again \in BOOLEAN :
       DrainOutcome(RefReceived(lim), PhaseAfter(RefReceived(lim), settled), again)

\* An incomplete receive or a transport error ends the acquisition with a fault.
DrainFails ==
  /\ \E p \in {"DrainOld", "AwaitIdentity", "AwaitReportingOff", "DrainPostArm", "AwaitAck",
              "AwaitReadback"} : In(p)
  /\ rRx' = <<>>
  /\ rDev' = RefReceived(FALSE).dev
  /\ Ended(<<>>, "failed", NoRead, TRUE)
  /\ UNCHANGED <<rPend, rJobs, rAt, rDrive, queueVars, rOrders, rMishaps, rSpoilt, rBad>>

Advance == \/ AdvanceExpired \/ AdvanceHazard \/ AdvanceDiscontinuous
           \/ BaselineStop \/ RequestIdentity \/ RequestReadback \/ ArmTarget \/ RefSetZero
           \/ RefDrain \/ DrainFails

PhaseExpires ==
  /\ Busy /\ ~rRes.due
  /\ rRes' = [rRes EXCEPT !.due = TRUE]
  /\ UNCHANGED <<rSeq, rTxn, rPend, rJobs, rAuth, rDev, rEcho, rStop, rFault, rEstop, rPolicy,
                 rDue, wireVars, queueVars, rMishaps, rOrders, rLoose, rSpoilt, rBad>>

\* While the reservation lives, its phase deadline is never later than the overall one.
OverallExpires ==
  /\ ~rDue /\ ~Busy /\ \E t \in Txns : rTxn[t].stage = "current"
  /\ rDue' = TRUE
  /\ rSpoilt' = rSpoilt \union Staged
  /\ UNCHANGED <<rRes, rSeq, rTxn, rPend, rJobs, rAuth, rDev, rEcho, rStop, rFault, rEstop, rPolicy,
                 wireVars, queueVars, rMishaps, rOrders, rLoose, rBad>>

-----------------------------------------------------------------------------
\* advance_reference_work after the acquisition: submit the staged evidence, then wait for it.

BeginCommit ==
  /\ ~Busy /\ rPend # 0
  /\ rPend' = 0
  /\ \E credit \in BOOLEAN, silent \in IF CommitBusy THEN {{}} ELSE SUBSET RefJoints :
       LET t == rPend
           auth == BindingValid(rAuth, Now, silent)
           seen == RefObserve(rTxn, [Now EXCEPT !.gen = auth.gen])
           begins == credit /\ seen[t].stage = "current" /\ ~CommitBusy
       IN /\ rAuth' = auth
          /\ rJobs' = IF begins THEN Append(rJobs, t) ELSE rJobs
          /\ rTxn' = IF begins
                     THEN [seen EXCEPT ![t] = [@ EXCEPT !.commit = "Pending", !.result = "pending"]]
                     ELSE seen
  /\ UNCHANGED <<rRes, rSeq, rDev, rEcho, rStop, rFault, rEstop, rPolicy, rDue, wireVars,
                 queueVars, rMishaps, rOrders, rLoose, rSpoilt, rBad>>

\* The evidence is granted only here, once, and only while nothing has overtaken it.
Selects_AnyDurable(tx) == tx.commit \in {"Complete", "Cancelled"} /\ tx.result = "durable"
Selects(tx) == tx.commit = "Complete" /\ tx.result = "durable" /\ tx.stage = "current"

Collected(tx) ==
  [tx EXCEPT !.commit = IF @ = "Pending" THEN "Complete" ELSE @,
             !.stage = IF tx.result # "durable" /\ @ = "current" THEN "invalid" ELSE @]

\* advance_reference_commit: receive, invalidate, observe, collect, select - in this order.
AdvanceCommit ==
  /\ ~Busy /\ rPend = 0 /\ rJobs # <<>> /\ ~rQ.closed
  /\ rRx' = <<>>
  /\ rDev' = RefReceived(FALSE).dev
  /\ UNCHANGED <<rRes, rSeq, rPend, rEstop, rPolicy, rDue, rAt, rDrive, queueVars, rMishaps,
                 rOrders>>
  /\ \E bad \in BOOLEAN :
       /\ IF bad /\ ~rFault
          THEN RefPerformStop(<<>>, TRUE, TRUE) /\ rSpoilt' = rSpoilt \union Staged
          ELSE rFault' = (rFault \/ bad) /\ UNCHANGED <<rStop, rOut, rLoose, rSpoilt>>
               /\ rEcho' = RefReceived(FALSE).echo
       /\ LET t == Head(rJobs)
              auth == IF rFault' THEN RefRevoke(Auth) ELSE Auth
              after == [Now EXCEPT !.dev = rDev', !.fault = rFault' \/ rEstop, !.stop = rStop',
                                   !.gen = auth.gen]
              seen == RefObserve(IF rFault' \/ rEstop THEN EndCommits(rTxn, "Invalidated") ELSE rTxn, after)
              done == [seen EXCEPT ![t] = Collected(@)]
              take == seen[t].result # "pending"
              grants == take /\ Selects(done[t])
          IN /\ rJobs' = IF take THEN Tail(rJobs) ELSE rJobs
             /\ rTxn' = IF grants THEN [done EXCEPT ![t].stage = "invalid"]
                        ELSE IF take THEN done ELSE seen
             /\ rAuth' = IF grants THEN SelectConsumed(auth, t) ELSE auth
             /\ rBad' = IF grants /\ (t \in rSpoilt' \/ rDue \/ rFault' \/ rAuth.grant[rTxn[t].joint].txn = t)
                        THEN rBad \union {t} ELSE rBad

JournalAnswers ==
  \E i \in DOMAIN rJobs, verdict \in {"durable", "failed"} :
    /\ rTxn[rJobs[i]].result = "pending"
    /\ rTxn' = [rTxn EXCEPT ![rJobs[i]].result = verdict]
    /\ UNCHANGED <<rRes, rSeq, rPend, rJobs, rAuth, rDev, rEcho, rStop, rFault, rEstop, rPolicy,
                   rDue, wireVars, queueVars, rMishaps, rOrders, rLoose, rSpoilt, rBad>>

-----------------------------------------------------------------------------
\* ReferenceQueue (reference_queue.rs).

QueueBusy == rQ.flight # 0 \/ rQ.pending # <<>>
InProgress_UntilComplete(t) == rRes.txn = t \/ rPend = t \/ rTxn[t].commit \in {"Pending", "Invalidated"}
InProgress(t) == rRes.txn = t \/ rPend = t \/ rTxn[t].commit = "Pending"
Usable(a, t) == a.grant[rTxn[t].joint].txn = t /\ Granted(a, rTxn[t].joint)

\* skip_pending and discard_deferred_after_failure; cancel has the same effect.
Failed == /\ rQ' = [rQ EXCEPT !.pending = <<>>, !.flight = 0, !.failed = TRUE]
          /\ rDefer' = 0

QueueRest == UNCHANGED <<rJobs, rDev, rEcho, rStop, rFault, rEstop, rPolicy, wireVars, rMishaps,
                         rOrders, rLoose, rBad>>

PumpEstop == /\ QueueBusy /\ rEstop /\ Failed
             /\ UNCHANGED <<rRes, rSeq, rTxn, rPend, rAuth, rDue, rSpoilt>> /\ QueueRest

\* The joint in flight has ended, or none was: request the next, and stop at the first failure.
Pump ==
  /\ QueueBusy /\ ~rEstop
  /\ QueueRest
  /\ \E silent \in IF WorkPending THEN {{}} ELSE SUBSET RefJoints :
       LET auth == BindingValid(rAuth, Now, silent)
           ok == rQ.flight = 0 \/ Usable(auth, rQ.flight)
       IN /\ rQ.flight # 0 => ~InProgress(rQ.flight)
          /\ IF ok /\ rQ.pending # <<>> /\ Admissible
             THEN /\ BeginReference(Head(rQ.pending), auth)
                  /\ rSpoilt' = rSpoilt \union Staged
                  /\ rQ' = [rQ EXCEPT !.pending = Tail(@), !.flight = rSeq]
                  /\ UNCHANGED rDefer
             ELSE /\ rAuth' = auth
                  /\ rTxn' = RefObserve(rTxn, [Now EXCEPT !.gen = auth.gen])
                  /\ IF ok /\ rQ.pending = <<>>
                     THEN rQ' = [rQ EXCEPT !.flight = 0] /\ UNCHANGED rDefer
                     ELSE Failed
                  /\ UNCHANGED <<rRes, rSeq, rPend, rDue, rSpoilt>>

OrderRest == UNCHANGED <<rRes, rSeq, rTxn, rPend, rJobs, rAuth, rDev, rEcho, rStop, rFault,
                         rEstop, rPolicy, rDue, wireVars, rMishaps, rLoose, rSpoilt>>

\* The joints of one request: one, or two in order (a repeat is possible).
Batches == {<<j>> : j \in RefJoints} \union {<<j, k>> : j, k \in RefJoints}
RefAdmit ==
  /\ rOrders < MaxOrders /\ rOrders' = rOrders + 1
  /\ ~QueueBusy /\ ~rQ.closed
  /\ \E js \in Batches : rQ' = [rQ EXCEPT !.pending = js, !.failed = FALSE]
  /\ UNCHANGED <<rDefer, rBad>> /\ OrderRest

Defer ==
  /\ QueueBusy /\ rDefer < MaxDeferred
  /\ rDefer' = rDefer + 1
  /\ UNCHANGED <<rQ, rOrders, rBad>> /\ OrderRest

TakeReadyDeferred ==
  /\ ~QueueBusy /\ rDefer > 0
  /\ rDefer' = rDefer - 1
  /\ rBad' = IF rQ.failed THEN rBad \union {"deferred"} ELSE rBad
  /\ UNCHANGED <<rQ, rOrders>> /\ OrderRest

-----------------------------------------------------------------------------
\* What overtakes a reference: disable, hazards, limit patches, shutdown, a facet read.

Overtake(txns, auth, ok, fault) ==
  /\ rOrders < MaxOrders /\ rOrders' = rOrders + 1
  /\ rSpoilt' = rSpoilt \union Staged
  /\ UNCHANGED <<rJobs, rDev, rAt, rRx, rDrive, rMishaps, rBad>>
  /\ IF Busy
     THEN /\ RefPerformStop(<<>>, ok, fault)
          /\ rRes' = NoRes
          /\ rTxn' = [txns EXCEPT ![rRes.txn].cause = "failed"]
     ELSE /\ RefPerformStop(<<>>, ok, fault)
          /\ rTxn' = txns
          /\ UNCHANGED rRes
  /\ rAuth' = IF rFault' THEN RefRevoke(auth) ELSE auth
  /\ UNCHANGED <<rSeq, rDue, rPolicy>>

RefDisableAll ==
  \E ok \in BOOLEAN :
    /\ Overtake(EndCommits(rTxn, "Cancelled"), rAuth, ok, FALSE)
    /\ Failed
    /\ UNCHANGED <<rPend, rEstop>>

\* latch_control_fault and set_hardware_estop, with abort_reference_for_hazard.
Hazard ==
  \E ok, estop \in BOOLEAN :
    /\ ~rFault
    /\ Overtake(EndCommits(rTxn, "Invalidated"), rAuth, ok, TRUE)
    /\ rEstop' = estop
    /\ UNCHANGED <<rPend, queueVars>>

CancelForShutdown ==
  \E ok \in BOOLEAN :
    /\ Overtake(EndCommits(RetireStages(rTxn), "Cancelled"), RefRevoke(rAuth), ok, FALSE)
    /\ rPend' = 0
    /\ rQ' = [rQ EXCEPT !.pending = <<>>, !.flight = 0, !.failed = TRUE, !.closed = TRUE]
    /\ rDefer' = 0
    /\ UNCHANGED rEstop

\* drain_reference_journal_until: late verdicts are collected, never selected.
DrainAtShutdown ==
  /\ rQ.closed /\ rJobs # <<>> /\ rTxn[Head(rJobs)].result # "pending"
  /\ rTxn' = [rTxn EXCEPT ![Head(rJobs)] = Collected(@)]
  /\ rJobs' = Tail(rJobs)
  /\ UNCHANGED <<rRes, rSeq, rPend, rAuth, rDev, rEcho, rStop, rFault, rEstop, rPolicy, rDue,
                 wireVars, queueVars, rMishaps, rOrders, rLoose, rSpoilt, rBad>>

ApplyLimitPatch ==
  /\ rOrders < MaxOrders /\ rOrders' = rOrders + 1
  /\ ~Busy /\ ~CommitBusy
  /\ rPolicy' = rPolicy + 1
  /\ rAuth' = RefRevoke(BindingValid(rAuth, Now, {}))
  /\ rTxn' = RefObserve(rTxn, Now)
  /\ rSpoilt' = rSpoilt \union Staged
  /\ UNCHANGED <<rRes, rSeq, rPend, rJobs, rDev, rEcho, rStop, rFault, rEstop, rDue, wireVars,
                 queueVars, rMishaps, rLoose, rBad>>

\* Any read of a facet judges every grant (reference_binding_valid).
RefReadFacet ==
  /\ \E silent \in IF WorkPending THEN {{}} ELSE SUBSET RefJoints :
       rAuth' = BindingValid(rAuth, Now, silent)
  /\ rTxn' = RefObserve(rTxn, [Now EXCEPT !.gen = rAuth'.gen])
  /\ UNCHANGED <<rRes, rSeq, rPend, rJobs, rDev, rEcho, rStop, rFault, rEstop, rPolicy, rDue,
                 wireVars, queueVars, rMishaps, rOrders, rLoose, rSpoilt, rBad>>

-----------------------------------------------------------------------------
\* The wire and the drives (external).

OwnerRest == UNCHANGED <<rRes, rSeq, rTxn, rPend, rJobs, rAuth, rDev, rEcho, rStop, rFault,
                         rEstop, rPolicy, rDue, queueVars, rOrders, rSpoilt, rBad>>

\* Only an Enable is read back from the wire by this module: it leaves, then is answered.
EnableLeaves ==
  /\ rAt = <<>> /\ rOut # <<>> /\ Head(rOut).kind = "enable"
  /\ rOut' = Tail(rOut)
  /\ rAt' = <<Head(rOut)>>
  /\ rRx' = Append(rRx, [from |-> Head(rOut).to, kind |-> "echo"])
  /\ UNCHANGED <<rDrive, rMishaps, rLoose>> /\ OwnerRest

\* The frame the drives handle next.
AtDrive == IF rAt # <<>> THEN rAt ELSE IF rOut # <<>> /\ Head(rOut).kind # "enable" THEN <<Head(rOut)>>
           ELSE <<>>
Handled == /\ AtDrive # <<>>
           /\ rAt' = <<>>
           /\ rOut' = IF rAt # <<>> THEN rOut ELSE Tail(rOut)

Reply(f, d) ==
  [from |-> f.to, txn |-> f.txn, run |-> d.run, coord |-> d.coord, uid |-> d.uid,
   kind |-> IF f.kind \in {"id", "read"} THEN f.kind ELSE "status"]

DriveAnswers ==
  /\ Handled
  /\ LET f == AtDrive[1]
         d == [rDrive[f.to] EXCEPT !.run = CASE f.kind = "enable" -> TRUE [] f.kind = "stop" -> FALSE
                                             [] OTHER -> @,
                                   !.coord = IF f.kind = "zero" THEN "zero" ELSE @]
     IN /\ rDrive' = [rDrive EXCEPT ![f.to] = d]
        /\ rRx' = Append(rRx, Reply(f, d))
  /\ UNCHANGED <<rMishaps, rLoose>> /\ OwnerRest

\* A frame that reaches a drive in a blackout is neither executed nor answered.
DriveMisses ==
  /\ Handled /\ rMishaps < MaxMishaps
  /\ rMishaps' = rMishaps + 1
  /\ rLoose' = (rLoose \/ AtDrive[1].kind = "stop")
  /\ UNCHANGED <<rRx, rDrive>> /\ OwnerRest

\* A granted drive reports by itself (type 24) while no acquisition has suspended it.
RefDriveReports ==
  \E j \in RefJoints :
    /\ ~Busy /\ rRx = <<>> /\ rAt = <<>> /\ rOut = <<>> /\ rAuth.grant[j].live
    /\ rRx' = <<[Reply([to |-> j, kind |-> "report", txn |-> 0], rDrive[j]) EXCEPT !.kind = "report"]>>
    /\ UNCHANGED <<rOut, rAt, rDrive, rMishaps, rLoose>> /\ OwnerRest

Reboot ==
  \E j \in RefJoints, coord \in {"zero", "off"}, uid \in Uids :
    /\ rMishaps < MaxMishaps /\ rMishaps' = rMishaps + 1
    /\ uid = rDrive[j].uid \/ \A k \in RefJoints : rDrive[k].uid # uid
    /\ rDrive' = [rDrive EXCEPT ![j] = [run |-> FALSE, coord |-> coord, uid |-> uid]]
    /\ UNCHANGED <<rOut, rAt, rRx, rLoose>> /\ OwnerRest

\* Feedback read outside any reference work (drain_feedback); drives are stopped.
IdleDrain ==
  /\ ~WorkPending /\ rRx # <<>>
  /\ rRx' = <<>>
  /\ rDev' = RefReceived(FALSE).dev
  /\ UNCHANGED <<rRes, rSeq, rTxn, rPend, rJobs, rAuth, rEcho, rStop, rFault, rEstop, rPolicy,
                 rDue, rOut, rAt, rDrive, queueVars, rMishaps, rOrders, rLoose, rSpoilt, rBad>>

Work == Advance \/ BeginCommit \/ AdvanceCommit

ReferenceNext ==
  \/ Work \/ PhaseExpires \/ OverallExpires \/ JournalAnswers
  \/ PumpEstop \/ Pump \/ RefAdmit \/ Defer \/ TakeReadyDeferred
  \/ RefDisableAll \/ Hazard \/ CancelForShutdown \/ DrainAtShutdown \/ ApplyLimitPatch \/ RefReadFacet
  \/ EnableLeaves \/ DriveAnswers \/ DriveMisses \/ RefDriveReports \/ Reboot \/ IdleDrain

\* The control loop ticks, time passes and the journal's worker answers (JobsAreJudged).
ReferenceFairness ==
  /\ WF_rvars(Work) /\ WF_rvars(PhaseExpires) /\ WF_rvars(JournalAnswers)
  /\ WF_rvars(Pump) /\ WF_rvars(PumpEstop)

ReferenceSpec == ReferenceInit /\ [][ReferenceNext]_rvars /\ ReferenceFairness

-----------------------------------------------------------------------------
\* The type of the reference work's state.
Coords == {"zero", "off"}
RefPhases == {"BaselineStop", "DrainOld", "RequestIdentity", "AwaitIdentity", "AwaitReportingOff",
              "ArmTarget", "DrainPostArm", "SetZero", "AwaitAck", "RequestReadback", "AwaitReadback"}
RefFrames == [to : RefJoints, kind : {"stop", "id", "enable", "zero", "read"}, txn : Nat]
RefEchoes == [from : RefJoints, kind : {"echo"}]
RefReplies == [from : RefJoints, txn : Nat, run : BOOLEAN, coord : Coords, uid : Nat \ {0},
               kind : {"id", "read", "status", "report"}]
RefReads == {NoRead} \union [asked : Nat, coord : Coords]
RefAnswers == [uid : Nat, by : Nat, read : RefReads]
RefReservations ==
  [txn : Txns, joint : RefJoints, phase : RefPhases, armed : BOOLEAN, epoch : Nat, uid : Nat,
   by : Nat, ack : BOOLEAN, gen : Nat, stop : Nat, policy : Nat,
   in : RefAnswers, due : BOOLEAN]
RefOutcomes ==
  [joint : RefJoints \union {"none"}, cause : {"none", "failed", "staged"},
   stage : {"none", "current", "invalid"}, loose : BOOLEAN, stop : Nat, gen : Nat, epoch : Nat,
   uid : Nat, by : Nat, policy : Nat, read : RefReads,
   commit : {"none", "Pending", "Complete", "Invalidated", "Cancelled"},
   result : {"none", "pending", "durable", "failed"}]
RefGrants == [txn : 0 .. MaxTxn, epoch : Nat, uid : Nat, live : BOOLEAN]
RefAuthorities == [revoked : BOOLEAN, accumulates : BOOLEAN, gen : Nat, policy : Nat,
                   grant : [RefJoints -> RefGrants]]
RefDevices == [epoch : Nat, uid : Nat, seen : Coords \union {"none"}]
RefOwnerTypeOK ==
  /\ rRes \in {NoRes} \union RefReservations
  /\ rSeq \in 1 .. MaxTxn + 1 /\ rPend \in 0 .. MaxTxn /\ rJobs \in Seq(Txns)
  /\ rTxn \in [Txns -> RefOutcomes] /\ rAuth \in RefAuthorities
  /\ rDev \in [RefJoints -> RefDevices]
  /\ rEcho \subseteq RefJoints
  /\ rStop \in Nat /\ rPolicy \in Nat
  /\ rFault \in BOOLEAN /\ rEstop \in BOOLEAN /\ rDue \in BOOLEAN
  /\ rQ \in [pending : Seq(RefJoints), flight : 0 .. MaxTxn, failed : BOOLEAN, closed : BOOLEAN]
  /\ rDefer \in Nat /\ rSpoilt \subseteq Txns
RefWireTypeOK ==
  /\ rOut \in Seq(RefFrames) /\ rAt \in Seq(RefFrames) /\ Len(rAt) <= 1
  /\ rRx \in Seq(RefEchoes \union RefReplies)
  /\ rDrive \in [RefJoints -> [run : BOOLEAN, coord : Coords, uid : Nat \ {0}]]
  /\ rLoose \in BOOLEAN
RefTypeOK == RefOwnerTypeOK /\ RefWireTypeOK

\* Nothing is granted that must not be: evidence the journal made durable counts only if no stop,
\* hazard, patch, newer acquisition or deadline overtook it since it was staged, each acquisition
\* grants once, and deferred commands run only when every joint of the batch was granted.
NothingOvertaken == rBad = {}

\* What a grant rests on: an acquisition of that joint, complete and durable, whose read back was
\* zero; and as long as the device's coordinate is the one it granted, the last position seen in
\* it was zero.
GrantsAreDurable ==
  \A j \in RefJoints :
    LET g == rAuth.grant[j] IN
    g.live => /\ rTxn[g.txn].joint = j /\ rTxn[g.txn].read.coord = "zero"
              /\ rTxn[g.txn].result = "durable" /\ rTxn[g.txn].commit = "Complete"
              /\ rDev[j].epoch = g.epoch => rDev[j].seen = "zero"

\* The read back was asked by the acquisition it grants, if its identity reply was: replies carry
\* no request, and only the order of the wire keeps those of an earlier acquisition out.
ReadBackIsOwn ==
  \A j \in RefJoints :
    LET g == rAuth.grant[j] IN
    g.live /\ rTxn[g.txn].by = g.txn => rTxn[g.txn].read.asked = g.txn

GrantFromOwnEvidence == NothingOvertaken /\ GrantsAreDurable /\ ReadBackIsOwn

\* No ending leaves a drive armed: a drive that runs, or is about to, belongs to the live
\* armed reservation or has a stop behind it - unless a stop was lost, which latches a fault
\* or is the drive's own blackout.
ArmedIsOwned ==
  LET behind == rAt \o rOut IN
  \A j \in RefJoints :
    \/ Busy /\ rRes.armed /\ rRes.joint = j
    \/ rLoose
    \/ \E i \in DOMAIN behind :
         behind[i].kind = "stop" /\ behind[i].to = j
         /\ \A k \in i + 1 .. Len(behind) : ~(behind[k].kind = "enable" /\ behind[k].to = j)
    \/ /\ ~rDrive[j].run
       /\ \A i \in DOMAIN behind : ~(behind[i].kind = "enable" /\ behind[i].to = j)

\* feedback_consumer.rs:39 and :70 hold the target's old coordinate untrusted: a frame judged
\* against the measured limits after the SetZero attempt is of the new coordinate, when no
\* drive misbehaved.
JudgedInNewCoordinate ==
  Busy /\ rMishaps = 0 => \A k \in DOMAIN rRx :
    IsPose(rRx[k]) /\ rRx[k].from = rRes.joint /\ Trusted(k) => rRx[k].coord = "zero"

\* Every joint taken up by the queue is answered: no drive, journal or deadline holds it for ever.
ReferencesAreAnswered == \A t \in Txns : rQ.flight = t ~> rQ.flight # t
=============================================================================
