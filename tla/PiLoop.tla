------------------------------- MODULE PiLoop --------------------------------
(***************************************************************************)
(* marengo-pi's control loop around Berthier: the two command sources      *)
(* (stdin and Chappe), the motion lease, the gravity preflight swept over  *)
(* several iterations, the enable gate with its held commands and deferred *)
(* arms, and the exits of the loop (main.rs, enable_gate.rs,               *)
(* motion_owner.rs, gravity_preflight.rs, operator_output.rs).             *)
(*                                                                         *)
(*   stdin -> set-zero -> held enables -> enable -> testing -> overlay     *)
(*     -> sweep -> tick -> pump -> poll -> publish -> stdin ...            *)
(*                                                                         *)
(* A command may wait in five places after it was received, so what it     *)
(* asked for may be out of date when it runs.  Each received command is    *)
(* stamped with the stops and hold-offs handled before it was received;    *)
(* the stamps are history that no step reads.                              *)
(*                                                                         *)
(* Davout, Berthier and the reference queue are reduced to what the loop   *)
(* asks of them (modules EnableSession, DriveLoss, Reference).             *)
(***************************************************************************)
EXTENDS Integers, Sequences

CONSTANTS
  MaxSent,      \* commands sent to the process
  StdinLines,   \* lines an operator may type
  ChappeSends,  \* what Consul may send
  MaxHeld,      \* MAX_DEFERRED_COMMANDS
  ChannelSize,  \* capacity of a Chappe broadcast channel
  Slices,       \* iterations a gravity sweep takes
  Patience      \* ENABLE_COMPLETION_TIMEOUT, in iterations

\* The commands of an operator; what the constants are.
StdinKinds == {"enable", "disable", "home", "arm", "mode", "holdoff", "status", "quit"}
PiConstants ==
  /\ StdinLines \subseteq StdinKinds \union {"eof"}
  /\ ChappeSends \subseteq {"zero", "position", "other", "enable", "disable"}
  /\ ChannelSize \in Nat \ {0} /\ Slices \in Nat /\ Patience \in Nat

VARIABLES
  pOwner,   \* the motion lease
  pAt,      \* phase of the loop
  pWire,    \* channels: stdin, enable, lagged (enable dropped messages), zero, test
  pSent,    \* commands sent so far
  pStop,    \* StopSignal: quit, EOF, a signal or a closed operator pipe
  pSys      \* what the loop's handlers own and change

pvars == <<pOwner, pAt, pWire, pSent, pStop, pSys>>

NoSweep == [then |-> [kind |-> "none"], left |-> 0, void |-> {}]
NoEnable == -1
Never0 == [stop |-> 0, off |-> 0]

PiInit ==
  /\ pOwner \in {"stdin", "chappe"}
  /\ pAt = "boot" /\ pStop = FALSE /\ pSent = 0
  /\ pWire = [stdin |-> <<>>, enable |-> <<>>, lagged |-> FALSE, zero |-> 0, test |-> <<>>]
  /\ pSys = [ \* Davout and Berthier
              mode |-> "Disabled", complete |-> FALSE, latched |-> FALSE, episode |-> FALSE,
              control |-> "Disabled", forbid |-> TRUE,
              fault |-> FALSE,  \* UnpublishedTickFault
              \* reference queue: busy, and the stdin commands deferred behind it
              busy |-> FALSE, queued |-> <<>>,
              \* EnableGate: sweep, commands held behind it, pending Enable, deferred arms
              sweep |-> NoSweep, stdin |-> <<>>, chappe |-> <<>>, enable |-> NoEnable, arms |-> <<>>,
              \* history: stops and hold-offs handled, hold-offs received; stamps of
              \* what energised and armed, and the last explicit enable
              now |-> Never0, seen |-> 0, on |-> Never0, arm |-> Never0, explicit |-> 0,
              late |-> FALSE,   \* a held Chappe enable outlived a stop
              swept |-> {} ]    \* what happened during the last sweep that passed

Seen(kind) == pSys.seen + IF kind = "holdoff" THEN 1 ELSE 0
Stamped(kind) == [kind |-> kind, stamp |-> [stop |-> pSys.now.stop, off |-> Seen(kind)]]

------------------------------------------------------------------------------
(* Command sources. *)

\* read_stdin_commands, parse_command: EOF is a quit.
ParseCommand(line) == IF line = "eof" THEN "quit" ELSE line
StdinLine ==
  /\ pSent < MaxSent /\ pSent' = pSent + 1
  /\ \E line \in StdinLines : pWire' = [pWire EXCEPT !.stdin = Append(@, ParseCommand(line))]
  /\ UNCHANGED <<pOwner, pAt, pStop, pSys>>

\* A full broadcast channel drops its oldest message; the reader learns of it.
ChappeSend ==
  /\ pSent < MaxSent /\ pSent' = pSent + 1
  /\ \E msg \in ChappeSends :
       pWire' = CASE msg = "zero" -> [pWire EXCEPT !.zero = @ + 1]
                  [] msg \in {"position", "other"} -> [pWire EXCEPT !.test = Append(@, msg)]
                  [] msg \in {"enable", "disable"} ->
                       IF Len(pWire.enable) < ChannelSize
                       THEN [pWire EXCEPT !.enable = Append(@, msg)]
                       ELSE [pWire EXCEPT !.enable = Append(Tail(@), msg), !.lagged = TRUE]
  /\ UNCHANGED <<pOwner, pAt, pStop, pSys>>

\* SIGINT, SIGTERM, SIGHUP, SIGQUIT, or EPIPE on the operator's pipe.
StopRequested ==
  /\ ~pStop /\ pAt # "closed" /\ pStop' = TRUE
  /\ UNCHANGED <<pOwner, pAt, pWire, pSent, pSys>>

\* classify_stdin and the classes of the Chappe drains
Class(kind) == CASE kind \in {"disable", "quit", "holdoff"} -> "Stop"
                 [] kind = "status" -> "Observe"
                 [] OTHER -> "Motion"
\* MotionLease::admit, then refuse_during_episode
Admitted(source, kind) == Class(kind) = "Motion" => source = pOwner /\ ~pSys.episode

------------------------------------------------------------------------------
(* What the handlers ask of Davout and Berthier: s is the state they own.  *)

Voided(s, why) == IF s.sweep = NoSweep THEN s ELSE [s EXCEPT !.sweep.void = @ \union {why}]
\* disable_all, set_control_mode(Disabled); an episode's end latches.
Stopped(s) == Voided([s EXCEPT !.mode = "Disabled", !.complete = FALSE, !.control = "Disabled",
                               !.latched = @ \/ s.episode, !.episode = FALSE], "stop")

\* enable_targets; an Active session of the same joints is left alone.
MayEnable(s) == ~s.latched /\ ~s.episode /\ ~s.busy
Energised(s, cmd) ==
  IF s.mode = "Active" THEN s
  ELSE [s EXCEPT !.mode = "Active", !.complete = FALSE, !.on = cmd.stamp]
\* ensure_active_for_motion
MayReenable(s) == MayEnable(s) /\ (s.mode = "Active" \/ ~s.forbid)

\* EnableGate::end_preflight: the request is refused, all that waits is discarded.
EndPreflight_KeepsHeld(s) == [s EXCEPT !.sweep = NoSweep]   \* mutant
EndPreflight(s) ==
  IF s.sweep = NoSweep THEN s ELSE [s EXCEPT !.sweep = NoSweep, !.stdin = <<>>, !.chappe = <<>>]
\* PiReferenceQueue::cancel
CancelQueue(s) == [s EXCEPT !.busy = FALSE, !.queued = <<>>]

\* GravitySweep::start refuses without a pose, a policy or a finite envelope.
StartSweep(s, cmd) ==
  {s, [s EXCEPT !.sweep = [then |-> cmd, left |-> Slices, void |-> {}]]}

\* An operator's disable, or enable messages lost.
OperatorStop_KeepsImplicit(s) ==   \* mutant: motion may re-enable afterwards
  CancelQueue([Stopped(s) EXCEPT !.now.stop = @ + 1])
OperatorStop(s) == CancelQueue([Stopped(s) EXCEPT !.forbid = TRUE, !.now.stop = @ + 1])

\* Position-mode arm: re-arm the drives, then the enable must be complete.
ArmRefused(s) == ~MayReenable(s)
Armed(s, cmd) ==
  LET t == Energised(s, cmd)
  IN IF t.complete THEN [t EXCEPT !.control = "Position", !.arm = cmd.stamp] ELSE t

\* EnableGate::submit
Submit(s, cmd) ==
  LET deferred(t) == [t EXCEPT !.arms = Append(@, [cmd |-> cmd, age |-> 0])]
  IN IF s.enable # NoEnable \/ s.arms # <<>> THEN deferred(s)
     ELSE IF ArmRefused(s) THEN s
     ELSE IF Armed(s, cmd).complete THEN Armed(s, cmd) ELSE deferred(Armed(s, cmd))

\* hold-off: control mode Disabled, which in an episode stops every drive.
HoldOff_KeepsArms(s, cmd) ==   \* mutant: deferred arms survive
  [(IF s.episode THEN Stopped(s) ELSE [s EXCEPT !.control = "Disabled"])
     EXCEPT !.now.off = cmd.stamp.off]
HoldOff(s, cmd) ==
  [(IF s.episode THEN Stopped(s) ELSE [s EXCEPT !.control = "Disabled"])
     EXCEPT !.arms = <<>>, !.now.off = cmd.stamp.off]

\* handle_command: the states it may leave.
HandleCommand(s, cmd) ==
  CASE cmd.kind = "enable" -> StartSweep(s, cmd)
    [] cmd.kind = "disable" ->
         {[EndPreflight(OperatorStop(s)) EXCEPT !.enable = NoEnable, !.arms = <<>>]}
    [] cmd.kind = "home" -> {s, [s EXCEPT !.busy = TRUE]}
    [] cmd.kind = "arm" -> {Submit(s, cmd)}
    [] cmd.kind = "mode" -> {IF s.episode \/ s.busy THEN s ELSE [s EXCEPT !.control = "Other"]}
    [] cmd.kind = "holdoff" -> {HoldOff(s, cmd)}
    [] OTHER -> {s}

\* dispatch_stdin_command: behind a busy reference queue, then behind a sweep.
Hold(seq, cmd) == IF Len(seq) < MaxHeld THEN Append(seq, cmd) ELSE seq
Dispatch(s, cmd) ==
  IF s.busy /\ cmd.kind \notin {"home", "disable"} THEN {[s EXCEPT !.queued = Hold(@, cmd)]}
  ELSE IF s.sweep # NoSweep /\ cmd.kind # "disable" THEN {[s EXCEPT !.stdin = Hold(@, cmd)]}
  ELSE HandleCommand(s, cmd)

------------------------------------------------------------------------------
(* One iteration of run_control_loop.  Every phase before the tick returns *)
(* at once when a stop is requested.                                       *)
Phase(at) == pAt = at /\ ~pStop
Goto(at) == pAt' = at /\ UNCHANGED <<pOwner, pSent, pStop>>
ReadyQueued == ~pSys.busy /\ pSys.queued # <<>>
ReadyStdin == pSys.sweep = NoSweep /\ pSys.stdin # <<>>
ReadyChappe == pSys.sweep = NoSweep /\ pSys.chappe # <<>>

\* main: a missing or invalid configuration, a bus that does not open or a
\* refused drive-loss admission ends the process before any drive is written.
Boot ==
  /\ pAt = "boot" /\ pAt' \in {"stdin", "closed"}
  /\ UNCHANGED <<pOwner, pWire, pSent, pStop, pSys>>

\* Held commands run before anything newly received.
StdinHeld ==
  /\ Phase("stdin") /\ Goto("stdin") /\ UNCHANGED pWire
  /\ IF ReadyQueued THEN pSys' \in Dispatch([pSys EXCEPT !.queued = Tail(@)], Head(pSys.queued))
     ELSE ReadyStdin /\ pSys' \in Dispatch([pSys EXCEPT !.stdin = Tail(@)], Head(pSys.stdin))
StdinReceived ==
  /\ Phase("stdin") /\ ~ReadyQueued /\ ~ReadyStdin /\ pWire.stdin # <<>>
  /\ pWire' = [pWire EXCEPT !.stdin = Tail(@)]
  /\ LET kind == Head(pWire.stdin)
     IN IF kind = "quit"
        THEN pAt' = "exit" /\ pStop' = TRUE /\ pSys' = CancelQueue(pSys) /\ UNCHANGED <<pOwner, pSent>>
        ELSE /\ Goto("stdin")
             /\ IF Admitted("stdin", kind) THEN pSys' \in Dispatch([pSys EXCEPT !.seen = Seen(kind)], Stamped(kind))
                ELSE UNCHANGED pSys
StdinDone ==
  /\ Phase("stdin") /\ ~ReadyQueued /\ ~ReadyStdin /\ pWire.stdin = <<>>
  /\ Goto("zero") /\ UNCHANGED <<pWire, pSys>>

\* Set-zero before enable: its admission refuses an enable of this iteration.
SetZeroReceived ==
  /\ Phase("zero") /\ pWire.zero > 0 /\ Goto("zero")
  /\ pWire' = [pWire EXCEPT !.zero = @ - 1]
  /\ pSys' \in IF Admitted("chappe", "home") /\ ~pSys.busy
               THEN {pSys, [pSys EXCEPT !.busy = TRUE]} ELSE {pSys}
SetZeroDone == Phase("zero") /\ pWire.zero = 0 /\ Goto("enable") /\ UNCHANGED <<pWire, pSys>>

\* handle_chappe_enable
ChappeEnable(s, cmd) ==
  IF cmd.kind = "disable" THEN {EndPreflight(OperatorStop(s))}
  ELSE IF s.busy THEN {s}
  ELSE IF s.sweep # NoSweep THEN {[s EXCEPT !.chappe = Hold(@, cmd)]}
  ELSE StartSweep(s, cmd)
EnableHeld ==
  /\ Phase("enable") /\ ReadyChappe /\ Goto("enable") /\ UNCHANGED pWire
  /\ LET cmd == Head(pSys.chappe)
     IN pSys' \in ChappeEnable([pSys EXCEPT !.chappe = Tail(@),
                                           !.late = @ \/ cmd.stamp.stop # pSys.now.stop], cmd)
\* stop_after_lagged_enable: a disable may be lost, so stop and drop the rest.
EnableLagged ==
  /\ Phase("enable") /\ ~ReadyChappe /\ pWire.lagged /\ Goto("test")
  /\ pWire' = [pWire EXCEPT !.enable = <<>>, !.lagged = FALSE]
  /\ pSys' = EndPreflight(OperatorStop(pSys))
EnableReceived ==
  /\ Phase("enable") /\ ~ReadyChappe /\ ~pWire.lagged /\ pWire.enable # <<>> /\ Goto("enable")
  /\ pWire' = [pWire EXCEPT !.enable = Tail(@)]
  /\ IF Admitted("chappe", Head(pWire.enable))
     THEN pSys' \in ChappeEnable(pSys, Stamped(Head(pWire.enable))) ELSE UNCHANGED pSys
EnableDone ==
  /\ Phase("enable") /\ ~ReadyChappe /\ ~pWire.lagged /\ pWire.enable = <<>>
  /\ Goto("test") /\ UNCHANGED <<pWire, pSys>>

\* apply_testing_batch: a Position batch re-arms; other batches only set gains.
ApplyBatch(s, cmd) == IF cmd.kind = "other" \/ ArmRefused(s) THEN s ELSE Armed(s, cmd)
\* drain_testing_commands: batches wait in the channel while a sweep runs.
TestReceived ==
  /\ Phase("test") /\ pSys.sweep = NoSweep /\ pWire.test # <<>> /\ Goto("test")
  /\ pWire' = [pWire EXCEPT !.test = Tail(@)]
  /\ LET cmd == Stamped(Head(pWire.test))
     IN IF ~Admitted("chappe", cmd.kind) \/ pSys.busy THEN UNCHANGED pSys
        ELSE IF cmd.kind = "position" /\ pSys.mode # "Active"
        THEN IF pSys.forbid THEN UNCHANGED pSys ELSE pSys' \in StartSweep(pSys, cmd)
        ELSE pSys' = ApplyBatch(pSys, cmd)
TestDone ==
  /\ Phase("test") /\ (pSys.sweep # NoSweep \/ pWire.test = <<>>)
  /\ Goto("sweep") /\ UNCHANGED pWire
  \* the overlay drain may change a joint's limits
  /\ pSys' \in {pSys, Voided(pSys, "limits")}

\* A sweep that passed: the request goes on, unless Davout refuses it.
Passed(s) ==
  LET cmd == s.sweep.then
      t == [s EXCEPT !.sweep = NoSweep, !.swept = s.sweep.void]
      on == [Energised(t, cmd) EXCEPT !.forbid = FALSE, !.explicit = cmd.stamp.stop]
  IN IF cmd.kind = "position" THEN {ApplyBatch(t, cmd)}
     ELSE IF ~MayEnable(t) THEN {t}
     \* enable_targets may fail: its rollback stops the drives.
     ELSE {t, Stopped(t), IF pOwner = "stdin" THEN [on EXCEPT !.enable = 0] ELSE on}
\* GravitySweep::invalidated
Invalidated_IgnoresStop(s) == s.busy \/ s.sweep.void \ {"stop"} # {}   \* mutant
Invalidated(s) == s.busy \/ s.sweep.void # {}
\* One slice of the grid: more to come, the verdict, or a model error.
SliceOutcomes(s) ==
  {EndPreflight(s)}
    \union IF s.sweep.left > 1 THEN {[s EXCEPT !.sweep.left = @ - 1]} ELSE Passed(s)
AdvanceSweep ==
  /\ Phase("sweep") /\ Goto("tick") /\ UNCHANGED pWire
  /\ IF pSys.sweep = NoSweep THEN UNCHANGED pSys
     ELSE pSys' \in IF Invalidated(pSys) THEN {EndPreflight(pSys)} ELSE SliceOutcomes(pSys)

Aged_Never(s) == s   \* mutant: no deadline
\* Deadlines of the pending Enable and of each deferred arm, in iterations.
Aged(s) ==
  LET older(age) == IF age < Patience THEN age + 1 ELSE age
  IN [s EXCEPT !.enable = IF @ = NoEnable THEN @ ELSE older(@),
               !.arms = [i \in DOMAIN @ |-> [@[i] EXCEPT !.age = older(s.arms[i].age)]]]

\* A tick: poses arrive, a drive is lost, an episode ends, or it fails and
\* every drive is stopped (stop_after_tick_error), with or without a latch.
TickOutcomes(s) ==
  {s} \union {[Stopped(s) EXCEPT !.latched = l, !.fault = TRUE] : l \in {s.latched \/ s.episode, TRUE}}
    \union (IF s.mode = "Active" THEN {[s EXCEPT !.complete = TRUE]} ELSE {})
    \union (IF s.mode = "Active" /\ s.complete /\ s.control = "Position" /\ ~s.episode
            THEN {[s EXCEPT !.episode = TRUE, !.arms = <<>>]} ELSE {})
ControlTick ==
  /\ Phase("tick") /\ Goto("pump") /\ UNCHANGED pWire
  /\ pSys' \in {Aged(t) : t \in TickOutcomes(pSys)}
\* PiReferenceQueue::pump: reference work stops the drives; a failure discards
\* what was deferred behind it.
Pump ==
  /\ pAt = "pump" /\ Goto("poll") /\ UNCHANGED pWire
  /\ pSys' = IF pSys.busy THEN Stopped(pSys) ELSE pSys
PumpEnds ==
  /\ pAt = "pump" /\ Goto("poll") /\ UNCHANGED pWire /\ pSys.busy
  /\ pSys' \in {[Stopped(pSys) EXCEPT !.busy = FALSE], CancelQueue(Stopped(pSys))}

\* EnableGate::poll
Completion(s) == s.mode = "Active" /\ s.complete
PollRefused(s) == [Stopped(s) EXCEPT !.forbid = TRUE, !.enable = NoEnable, !.arms = <<>>]
PollGate ==
  /\ pAt = "poll" /\ UNCHANGED pWire
  /\ LET s == pSys
     IN IF s.enable # NoEnable
        THEN IF Completion(s) THEN pSys' = [s EXCEPT !.enable = NoEnable] /\ Goto("poll")
             ELSE /\ Goto("publish")
                  /\ pSys' = IF s.mode = "Active" /\ s.enable < Patience THEN s ELSE PollRefused(s)
        ELSE IF s.arms = <<>> THEN Goto("publish") /\ UNCHANGED pSys
        ELSE LET front == Head(s.arms)
                 t == Armed(s, front.cmd)
             IN IF ~ArmRefused(s) /\ ~t.complete /\ front.age < Patience
                THEN pSys' = t /\ Goto("publish")
                ELSE /\ pSys' = [(IF ArmRefused(s) THEN s ELSE t) EXCEPT !.arms = Tail(@)]
                     /\ Goto("poll")

\* SafetyState is published at chappe_state_hz; a tick error is kept until one
\* publication that carries it succeeds.
Publish == pAt = "publish" /\ Goto("stdin") /\ UNCHANGED <<pWire, pSys>>
PublishSucceeds ==
  /\ pAt = "publish" /\ pSys.fault /\ Goto("stdin") /\ UNCHANGED pWire
  /\ pSys' = [pSys EXCEPT !.fault = FALSE]

\* The loop ends; finish_owner_shutdown stops every drive (disable_on_exit).
Exit ==
  /\ pStop /\ pAt \in {"stdin", "zero", "enable", "test", "sweep", "tick", "publish", "exit"}
  /\ pAt' = "closed" /\ UNCHANGED <<pOwner, pWire, pSent, pStop>>
  /\ pSys' = Stopped(EndPreflight(CancelQueue(pSys)))
\* run_with_panic_stop
Panic ==
  /\ pAt \notin {"boot", "exit", "closed"} /\ pAt' = "closed" /\ UNCHANGED <<pOwner, pWire, pSent, pStop>>
  /\ pSys' = [Stopped(pSys) EXCEPT !.forbid = TRUE]

PiLoopStep ==
  \/ Boot \/ StdinHeld \/ StdinReceived \/ StdinDone \/ SetZeroReceived \/ SetZeroDone
  \/ EnableHeld \/ EnableLagged \/ EnableReceived \/ EnableDone \/ TestReceived \/ TestDone
  \/ AdvanceSweep \/ ControlTick \/ Pump \/ PumpEnds \/ PollGate
  \/ Publish \/ PublishSucceeds \/ Exit
PiNext == PiLoopStep \/ StdinLine \/ ChappeSend \/ StopRequested \/ Panic
PiSpec == PiInit /\ [][PiNext]_pvars
\* The loop goes on, reference work ends (module Reference, ReferencesAreAnswered)
\* and the in-process bus accepts a SafetyState again and again.
PiFairness == WF_pvars(PiLoopStep) /\ SF_pvars(PumpEnds) /\ SF_pvars(PublishSucceeds)
PiLive == PiSpec /\ PiFairness

------------------------------------------------------------------------------
(***************************************************************************)
(* Whatever waited, and wherever: the drives are on only by a command      *)
(* received after the last operator stop, and only if an enable asked for  *)
(* and preflighted after that stop allowed it; Position mode is held only  *)
(* by an arm or batch received after the last stop and hold-off.  A sweep  *)
(* during which the drives were stopped or limits changed grants nothing.  *)
(* EnableGate::cancel: "no gravity sweep, held command, pending Enable or  *)
(* deferred arm survives" a Disable.                                       *)
(***************************************************************************)
DisableStands ==
  /\ pSys.swept = {}
  /\ pSys.mode = "Active" => pSys.on.stop = pSys.now.stop /\ pSys.explicit = pSys.now.stop
  /\ pSys.control = "Position" =>
       pSys.arm.stop = pSys.now.stop /\ pSys.arm.off >= pSys.now.off
\* The same, but for the one held command that does survive (run pi_disable).
MotionIsConsented == pSys.late \/ DisableStands

(***************************************************************************)
(* Nothing waits for ever: a sweep, the commands held behind it or behind  *)
(* the reference queue, a pending Enable and the deferred arms are all     *)
(* run, refused or discarded, and a failed tick is published even when     *)
(* nothing latched, unless the loop stops first.                           *)
(***************************************************************************)
Pending(s) == s.sweep # NoSweep \/ s.stdin # <<>> \/ s.chappe # <<>> \/ s.queued # <<>>
                \/ s.enable # NoEnable \/ s.arms # <<>> \/ s.fault
WaitsEnd == Pending(pSys) ~> (~Pending(pSys) \/ pAt = "closed")
==============================================================================
