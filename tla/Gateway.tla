------------------------------ MODULE Gateway ------------------------------
(***************************************************************************)
(* marengo-gateway between the operator's browser and marengo-pi: the      *)
(* evidence it keeps of the runtime (state.rs), the limit patch it carries *)
(* and whose outcome it waits for (limit_patch.rs, action_ack.rs), and the *)
(* management operations it refuses without evidence (restart.rs,          *)
(* deploy.rs, hardware.rs).                                                *)
(*                                                                         *)
(* A limit patch is two promises.  marengo-pi applies it live and answers  *)
(* "limit_patch"; its worker writes the files later and answers            *)
(* "limit_patch_persist".  Both travel as audit events on one stream that  *)
(* every waiting request reads, and the same events drive the two flags    *)
(* that restart, update and URDF activation are refused by.                *)
(***************************************************************************)
EXTENDS Integers, Sequences, SequencesExt

CONSTANTS
    Patches,        \* limit patches operators send; each has its own session id
    MaxEvents,      \* bound: frames from the Pi not yet delivered
    MaxChanges,     \* bound: connection changes
    MaxModes        \* bound: safety and heartbeat frames the Pi publishes

VARIABLES
    gHolder,    \* IpcStateHolder: callbacks before the state exists wait here
    gState,     \* AppState: connection, snapshots, persist flags
    gReq,       \* each patch's request: where it is, its unread mail, its answer
    gManage,    \* the management lock and what holds it
    gPi,        \* marengo-pi: mode, what it applied, announced, queued and wrote
    gInbox,     \* command frames on their way to the Pi
    gWire,      \* frames on their way from the Pi
    gSpent      \* bounds: connection changes and telemetry frames so far

gvars == <<gHolder, gState, gReq, gManage, gPi, gInbox, gWire, gSpent>>

Modes == {"Disabled", "Ready", "Active"}
Management == {"restart", "update", "activate"}
NoPatch == "none"

\* mode and beat come with the connection they were heard on
NoSnapshots == [mode |-> "none", modeFrom |-> 0, beat |-> "none"]

GatewayInit ==
    /\ gHolder = [attached |-> FALSE, pending |-> <<>>]
    /\ gState = [connected |-> FALSE, generation |-> 0, snap |-> NoSnapshots,
                 pending |-> FALSE, degraded |-> FALSE]
    /\ gReq = [p \in Patches |-> [at |-> "idle", mail |-> <<>>, answer |-> "none"]]
    /\ gManage = "free"
    /\ gPi = [up |-> FALSE, mode |-> "Disabled", busy |-> NoPatch, live |-> {}, told |-> {},
              queue |-> <<>>, disk |-> {}, failed |-> {}, reported |-> {}]
    /\ gInbox = <<>> /\ gWire = <<>>
    /\ gSpent = [changes |-> 0, frames |-> 0]

Audit(e) == e.kind \in {"live", "persist"}
Waiting(p) == gReq[p].at \in {"publish", "live", "persist"}

------------------------------------------------------------------------------
ConnectionChanged(g, up) ==
    [g EXCEPT !.connected = up, !.generation = @ + 1, !.snap = NoSnapshots]

\* The persist flags after an audit event: one pair for all patches.
PersistFlags(g, status) ==
    CASE status = "Pending" -> [g EXCEPT !.pending = TRUE]
      [] status = "Durable" -> [g EXCEPT !.pending = FALSE, !.degraded = FALSE]
      [] status = "Failed"  -> [g EXCEPT !.pending = FALSE, !.degraded = TRUE]
      [] OTHER -> g

\* ingest_runtime_frame and update_snapshot.
Ingest(g, e) ==
    CASE e.kind = "link" -> ConnectionChanged(g, e.up)
      [] Audit(e) -> PersistFlags(g, e.status)
      [] e.kind = "safety" ->
            [g EXCEPT !.snap.mode = e.mode, !.snap.modeFrom = g.generation]
      [] e.kind = "beat" -> [g EXCEPT !.snap.beat = "fresh"]

\* envelope_tx: an audit event reaches every request that has subscribed.
Mail(es) ==
    [p \in Patches |->
        IF Waiting(p) THEN [gReq[p] EXCEPT !.mail = @ \o SelectSeq(es, Audit)] ELSE gReq[p]]

\* IpcStateHolder::dispatch: before the state is attached, callbacks wait.
Dispatch(e) ==
    IF gHolder.attached
    THEN /\ gState' = Ingest(gState, e) /\ gReq' = Mail(<<e>>)
         /\ UNCHANGED gHolder
    ELSE /\ gHolder' = [gHolder EXCEPT !.pending = Append(@, e)]
         /\ UNCHANGED <<gState, gReq>>

\* IpcStateHolder::attach: what waited is replayed in order, under the lock.
Attach ==
    /\ ~gHolder.attached
    /\ gHolder' = [attached |-> TRUE, pending |-> <<>>]
    /\ gState' = FoldLeft(Ingest, gState, gHolder.pending)
    /\ gReq' = Mail(gHolder.pending)
    /\ UNCHANGED <<gManage, gPi, gInbox, gWire, gSpent>>

\* The IPC reader delivers the next frame, in order.
Deliver ==
    /\ gWire # <<>> /\ gWire' = Tail(gWire)
    /\ Dispatch(Head(gWire))
    /\ UNCHANGED <<gManage, gPi, gInbox, gSpent>>

\* The heartbeat ages past HEARTBEAT_FRESH_MS.
BeatAges ==
    /\ gState.snap.beat = "fresh"
    /\ gState' = [gState EXCEPT !.snap.beat = "stale"]
    /\ UNCHANGED <<gHolder, gReq, gManage, gPi, gInbox, gWire, gSpent>>

------------------------------------------------------------------------------
\* marengo-pi, as the gateway meets it.  It connects, publishes its mode and
\* heartbeat, and loses the connection with the frames still in it.
PiConnects ==
    /\ ~gPi.up /\ gManage # "restart" /\ gSpent.changes < MaxChanges
    /\ gPi' = [gPi EXCEPT !.up = TRUE]
    /\ gWire' = <<[kind |-> "link", up |-> TRUE]>>
    /\ gSpent' = [gSpent EXCEPT !.changes = @ + 1]
    /\ UNCHANGED <<gHolder, gState, gReq, gManage, gInbox>>

LinkLost ==
    /\ gPi.up /\ gSpent.changes < MaxChanges
    /\ gPi' = [gPi EXCEPT !.up = FALSE]
    /\ gWire' = <<[kind |-> "link", up |-> FALSE]>> /\ gInbox' = <<>>
    /\ gSpent' = [gSpent EXCEPT !.changes = @ + 1]
    /\ UNCHANGED <<gHolder, gState, gReq, gManage>>

\* A frame is published: lost when there is no connection.
Publish(es) == gWire' = IF gPi.up THEN gWire \o es ELSE gWire
Room == Len(gWire) < MaxEvents

PiTelemetry ==
    /\ gPi.up /\ Room /\ gSpent.frames < MaxModes
    /\ \/ \E m \in Modes : gPi' = [gPi EXCEPT !.mode = m]
                           /\ Publish(<<[kind |-> "safety", mode |-> m]>>)
       \/ gPi' = gPi /\ Publish(<<[kind |-> "beat"]>>)
    /\ gSpent' = [gSpent EXCEPT !.frames = @ + 1]
    /\ UNCHANGED <<gHolder, gState, gReq, gManage, gInbox>>

\* overlay.rs: a patch is refused (revision, mode, validation), or applied live
\* and queued for the worker; its acknowledgement is published afterwards.
PiRefuses(p) ==
    /\ gInbox # <<>> /\ p = Head(gInbox) /\ gPi.busy = NoPatch /\ Room
    /\ gInbox' = Tail(gInbox)
    /\ Publish(<<[kind |-> "live", patch |-> p, ok |-> FALSE, status |-> "NotApplicable"]>>)
    /\ UNCHANGED <<gHolder, gState, gReq, gManage, gPi, gSpent>>

PiApplies(p) ==
    /\ gInbox # <<>> /\ p = Head(gInbox) /\ gPi.busy = NoPatch
    /\ gPi.mode # "Active"
    /\ gInbox' = Tail(gInbox)
    /\ gPi' = [gPi EXCEPT !.live = @ \cup {p}, !.queue = Append(@, p), !.busy = p]
    /\ UNCHANGED <<gHolder, gState, gReq, gManage, gWire, gSpent>>

PiAcknowledges ==
    /\ gPi.busy # NoPatch /\ Room
    /\ gPi' = [gPi EXCEPT !.busy = NoPatch, !.told = @ \cup {gPi.busy}]
    /\ Publish(<<[kind |-> "live", patch |-> gPi.busy, ok |-> TRUE, status |-> "Pending"]>>)
    /\ UNCHANGED <<gHolder, gState, gReq, gManage, gInbox, gSpent>>

\* limit_persist.rs: the worker writes the oldest patch and reports it.
PiWrites(ok) ==
    /\ gPi.queue # <<>> /\ Room
    /\ LET p == Head(gPi.queue) IN
        /\ gPi' = [gPi EXCEPT !.queue = Tail(@), !.reported = @ \cup {p},
                              !.disk = IF ok THEN @ \cup {p} ELSE @,
                              !.failed = IF ok THEN @ ELSE @ \cup {p}]
        /\ Publish(<<[kind |-> "persist", patch |-> p, ok |-> ok,
                      status |-> IF ok THEN "Durable" ELSE "Failed"]>>)
    /\ UNCHANGED <<gHolder, gState, gReq, gManage, gInbox, gSpent>>

------------------------------------------------------------------------------
\* apply_limit_patch_async up to the publication: the joint, the revision, a
\* session id of its own, and the subscription before the command is sent.
BeginPatch(p) ==
    /\ gHolder.attached /\ gReq[p].at = "idle"
    /\ gReq' = [gReq EXCEPT ![p].at = "publish"]
    /\ UNCHANGED <<gHolder, gState, gManage, gPi, gInbox, gWire, gSpent>>

\* publish_command_envelope: the IPC write fails without a connection.
SendPatch(p) ==
    /\ gReq[p].at = "publish"
    /\ IF gPi.up
       THEN /\ gInbox' = Append(gInbox, p)
            /\ gReq' = [gReq EXCEPT ![p].at = "live"]
       ELSE /\ gReq' = [gReq EXCEPT ![p] = [at |-> "done", mail |-> <<>>, answer |-> "unsent"]]
            /\ UNCHANGED gInbox
    /\ UNCHANGED <<gHolder, gState, gManage, gPi, gWire, gSpent>>

\* recv_action_ack: this session, this action; anything else is skipped.
IsAck_AnySession(p, e) == e.kind = gReq[p].at   \* mutant: the action alone
IsAck(p, e) == e.kind = gReq[p].at /\ e.patch = p

Done(p, answer) == [gReq EXCEPT ![p] = [at |-> "done", mail |-> <<>>, answer |-> answer]]

ReadMail(p) ==
    /\ gReq[p].at \in {"live", "persist"} /\ gReq[p].mail # <<>>
    /\ LET e == Head(gReq[p].mail) IN
        gReq' = CASE ~IsAck(p, e) -> [gReq EXCEPT ![p].mail = Tail(@)]
                  [] IsAck(p, e) /\ gReq[p].at = "live" /\ e.ok ->
                        [gReq EXCEPT ![p].mail = Tail(@), ![p].at = "persist"]
                  [] IsAck(p, e) /\ gReq[p].at = "live" /\ ~e.ok -> Done(p, "refused")
                  [] OTHER -> Done(p, IF e.ok THEN "durable" ELSE "failed")
    /\ UNCHANGED <<gHolder, gState, gManage, gPi, gInbox, gWire, gSpent>>

\* The broadcast ring overran this reader: its oldest mail is gone (Lagged).
MailLags(p) ==
    /\ gReq[p].mail # <<>>
    /\ gReq' = [gReq EXCEPT ![p].mail = Tail(@)]
    /\ UNCHANGED <<gHolder, gState, gManage, gPi, gInbox, gWire, gSpent>>

\* LIVE_APPLY_TIMEOUT and LIMIT_PATCH_PERSIST_TIMEOUT.
PatchTimesOut(p) ==
    /\ gReq[p].at \in {"live", "persist"}
    /\ gReq' = Done(p, IF gReq[p].at = "live" THEN "unanswered" ELSE "pending")
    /\ UNCHANGED <<gHolder, gState, gManage, gPi, gInbox, gWire, gSpent>>

------------------------------------------------------------------------------
\* refuse_unsafe_management_state and the persist flags: post_restart_marengo_pi,
\* post_control_deploy and post_activate ask the same questions.
Evidence ==
    /\ gState.snap.mode \in {"Disabled", "Ready"} /\ gState.snap.beat = "fresh"
Unwritten == gState.pending \/ gState.degraded

\* One management operation at a time holds its lock.
Manage(what) ==
    /\ gHolder.attached /\ gManage = "free" /\ Evidence /\ ~Unwritten
    /\ gManage' = what
    /\ UNCHANGED <<gHolder, gState, gReq, gPi, gInbox, gWire, gSpent>>

\* The script restarts marengo-pi: it stops, its worker finishing or losing
\* what is queued, and the connection goes with the frames in it.
RestartScript ==
    /\ gManage = "restart" /\ gPi.up
    /\ \E n \in 0 .. Len(gPi.queue) :
        gPi' = [gPi EXCEPT !.up = FALSE, !.mode = "Disabled", !.busy = NoPatch, !.queue = <<>>,
                           !.disk = @ \cup ToSet(SubSeq(gPi.queue, 1, n))]
    /\ gWire' = <<[kind |-> "link", up |-> FALSE]>> /\ gInbox' = <<>>
    /\ UNCHANGED <<gHolder, gState, gReq, gManage, gSpent>>

ManageEnds ==
    /\ gManage # "free"
    /\ gManage' = "free"
    /\ UNCHANGED <<gHolder, gState, gReq, gPi, gInbox, gWire, gSpent>>

GatewayNext ==
    \/ Attach \/ Deliver \/ BeatAges
    \/ PiConnects \/ LinkLost \/ PiTelemetry \/ PiAcknowledges
    \/ \E p \in Patches : PiRefuses(p) \/ PiApplies(p)
    \/ \E ok \in BOOLEAN : PiWrites(ok)
    \/ \E p \in Patches : BeginPatch(p) \/ SendPatch(p) \/ ReadMail(p) \/ MailLags(p)
                          \/ PatchTimesOut(p)
    \/ \E w \in Management : Manage(w)
    \/ RestartScript \/ ManageEnds

GatewaySpec == GatewayInit /\ [][GatewayNext]_gvars

------------------------------------------------------------------------------
\* What the operator is told of a patch is true of that patch: "durable" only
\* when its own files were written, "failed" only when its own write failed,
\* "refused" only when it was never applied, "pending" only when it is live --
\* although every request reads the same stream of audit events, late events
\* of earlier patches included.
AnswersAreTrue ==
    \A p \in Patches :
        /\ gReq[p].answer = "durable" => p \in gPi.disk
        /\ gReq[p].answer = "failed" => p \in gPi.failed
        /\ gReq[p].answer \in {"refused", "unsent"} => p \notin gPi.live
        /\ gReq[p].answer = "pending" => p \in gPi.live

\* The evidence a management operation is let through on is of the connection
\* that is up now: a mode or heartbeat heard from a marengo-pi that has gone
\* since never lets a restart, an update or an activation begin.
EvidenceIsCurrent ==
    Evidence => gState.connected /\ gState.snap.modeFrom = gState.generation

\* What the gateway tells the operator, and what it lets through on the
\* runtime's word, is what the runtime itself said.
GatewayTellsTheTruth == AnswersAreTrue /\ EvidenceIsCurrent

\* config.rs: persist_pending is "True while a live apply's write-behind has
\* not reported Durable or Failed".  On one connection, once the Pi's
\* acknowledgement of a live patch has been taken in and its completion has
\* not even been published, the flag is set.
PendingUntilReported ==
    \A p \in Patches :
        gSpent.changes <= 1 /\ gReq[p].at = "persist" /\ p \notin gPi.reported
            => gState.pending

=============================================================================
