---------------------------- MODULE PiLoopProofs -----------------------------
(***************************************************************************)
(* Why nothing moves without consent, for any number of commands, any      *)
(* sweep length, any queue bound and any timing of stops: a command that   *)
(* waits carries the stops handled before it was received, and whatever    *)
(* waits is discarded, refused or unstarted when that number grows.  The   *)
(* one command that outlives a stop is the held Chappe enable that PiLoop  *)
(* marks `late`; everything below is about behaviours without one.         *)
(***************************************************************************)
EXTENDS PiLoop, TLAPS

Kinds == StdinKinds \union {"position", "other"}
Causes == {"stop", "limits"}   \* of a sweep that grants nothing
Stamps == [stop : Nat, off : Nat]
Cmds == [kind : Kinds, stamp : Stamps]
Sweeps == [then : Cmds, left : Int, void : SUBSET Causes]
Arms == [cmd : Cmds, age : Int]
Phases == {"boot", "stdin", "zero", "enable", "test", "sweep", "tick", "pump", "poll",
           "publish", "exit", "closed"}
Systems ==
  [mode : {"Disabled", "Active"}, complete : BOOLEAN, latched : BOOLEAN, episode : BOOLEAN,
   control : {"Disabled", "Position", "Other"}, forbid : BOOLEAN, fault : BOOLEAN,
   busy : BOOLEAN, queued : Seq(Cmds),
   sweep : {NoSweep} \union Sweeps, stdin : Seq(Cmds), chappe : Seq(Cmds), enable : Int,
   arms : Seq(Arms), now : Stamps, seen : Nat, on : Stamps, arm : Stamps, explicit : Nat,
   late : BOOLEAN, swept : SUBSET Causes]
Wires == [stdin : Seq(StdinKinds), enable : Seq({"enable", "disable"}),
          lagged : BOOLEAN, zero : Nat, test : Seq({"position", "other"})]
PiTypeOK ==
  /\ pOwner \in {"stdin", "chappe"} /\ pAt \in Phases /\ pStop \in BOOLEAN /\ pSent \in Nat
  /\ pWire \in Wires /\ pSys \in Systems

------------------------------------------------------------------------------
(* The parts of the invariant, of a state s at a phase `at`. *)

\* What a command carries is current: no stop since it was received.
Fresh(s, cmd) == cmd.stamp.stop = s.now.stop
\* It was received after the last hold-off handled, and of those seen.
InTurn(s, cmd) == cmd.stamp.off >= s.now.off /\ cmd.stamp.off <= s.seen
\* Commands of stdin: a disable never waits, and an arm is the lease owner's.
Waiting(s, owner, q) ==
  \A i \in DOMAIN q : /\ Fresh(s, q[i]) /\ InTurn(s, q[i]) /\ q[i].kind # "disable"
                      /\ q[i].kind = "arm" => owner = "stdin"
Sorted(q) == \A i, j \in DOMAIN q : i <= j => q[i].stamp.off <= q[j].stamp.off
Before(p, q) ==
  \A i \in DOMAIN p, j \in DOMAIN q : p[i].stamp.off <= q[j].stamp.off

\* Both queues of stdin commands hold current commands, in the order received:
\* what the reference queue defers runs before or after what the sweep holds.
Lines(s, owner) ==
  /\ Waiting(s, owner, s.queued) /\ Waiting(s, owner, s.stdin)
  /\ Sorted(s.queued) /\ Sorted(s.stdin)
  /\ IF s.busy THEN Before(s.queued, s.stdin) ELSE Before(s.stdin, s.queued)

\* Where the two queues and the sweep can meet.
Placed(s, at) ==
  /\ at \in {"zero", "enable", "test", "sweep"} => (s.sweep = NoSweep => s.stdin = <<>>)
  /\ s.queued # <<>> /\ at # "stdin" => s.sweep = NoSweep /\ s.stdin = <<>>
  /\ s.queued # <<>> /\ at \in {"zero", "enable", "test", "sweep", "tick", "pump"} => s.busy
  /\ s.busy /\ s.sweep # NoSweep => at \in {"zero", "enable", "test", "sweep"}
  /\ ~s.busy /\ s.queued # <<>> /\ s.stdin # <<>> => s.sweep # NoSweep

\* A sweep was asked for after the last stop; a Position batch that it would
\* arm, after the last hold-off.
SweepFresh(s) ==
  s.sweep # NoSweep =>
    Fresh(s, s.sweep.then) /\ (s.sweep.then.kind = "position" => s.sweep.then.stamp.off >= s.now.off)

\* The deferred arms are the stdin owner's.  A Chappe stop leaves them in
\* place; then nothing can enable before the gate refuses them.
ArmsFresh(s, at, owner) ==
  /\ s.arms # <<>> => owner = "stdin"
  /\ \A i \in DOMAIN s.arms : s.arms[i].cmd.stamp.off >= s.now.off
  /\ \/ \A i \in DOMAIN s.arms : Fresh(s, s.arms[i].cmd)
     \/ /\ s.forbid /\ s.mode = "Disabled" /\ s.sweep = NoSweep
        /\ at \in {"enable", "test", "sweep", "tick", "pump", "poll"}

\* Held Chappe commands are enables of the Chappe owner.
ChappeHeld(s, owner) ==
  /\ s.chappe # <<>> => owner = "chappe"
  /\ \A i \in DOMAIN s.chappe : s.chappe[i].kind = "enable"

\* DisableStands, of any state, and the permission that implicit enables use.
Stands(s) ==
  /\ s.swept = {}
  /\ s.mode = "Active" => s.on.stop = s.now.stop /\ s.explicit = s.now.stop
  /\ s.control = "Position" => s.arm.stop = s.now.stop /\ s.arm.off >= s.now.off
Permitted(s) == ~s.forbid => s.explicit = s.now.stop

Consent(s, at, owner) ==
  /\ Stands(s) /\ Permitted(s) /\ s.now.off <= s.seen
  /\ at \notin {"exit", "closed"} =>
       /\ Lines(s, owner) /\ Placed(s, at) /\ SweepFresh(s)
       /\ ArmsFresh(s, at, owner) /\ ChappeHeld(s, owner)

ConsentInv == PiTypeOK /\ (pSys.late \/ Consent(pSys, pAt, pOwner))

------------------------------------------------------------------------------
(* Types: what the operators on the state return. *)

\* A running sweep is told from none by the command that it is for.
LEMMA SweepRuns == \A r \in Sweeps : r # NoSweep
BY DEF Sweeps, NoSweep, Cmds, Kinds, StdinKinds

LEMMA NothingWaits == <<>> \in Seq(Cmds) /\ <<>> \in Seq(Arms)
OBVIOUS

LEMMA VoidedTyped ==
  ASSUME NEW s \in Systems, NEW why \in Causes PROVE Voided(s, why) \in Systems
<1>1. CASE s.sweep = NoSweep
  BY <1>1 DEF Voided
<1>2. CASE s.sweep # NoSweep
  <2>1. s.sweep \in Sweeps
    BY <1>2 DEF Systems
  <2>2. [s.sweep EXCEPT !.void = @ \union {why}] \in Sweeps
    BY <2>1 DEF Sweeps
  <2>3. Voided(s, why) = [s EXCEPT !.sweep = [s.sweep EXCEPT !.void = @ \union {why}]]
    BY <1>2 DEF Voided, Systems
  <2> QED
    BY <2>2, <2>3 DEF Systems
<1> QED BY <1>1, <1>2

\* A state t in which no more moves or is permitted than in s, all that waits
\* waits as before, and a deferred arm is at most older.
Quieter(s, t) ==
  /\ t.swept = s.swept /\ t.now = s.now /\ t.seen = s.seen /\ t.late = s.late
  /\ t.on = s.on /\ t.arm = s.arm /\ t.explicit = s.explicit
  /\ t.queued = s.queued /\ t.stdin = s.stdin /\ t.busy = s.busy /\ t.chappe = s.chappe
  /\ t.sweep = NoSweep <=> s.sweep = NoSweep
  /\ s.sweep # NoSweep => t.sweep.then = s.sweep.then
  /\ t.mode \in {s.mode, "Disabled"} /\ t.control \in {s.control, "Disabled", "Other"}
  /\ s.forbid => t.forbid
  /\ \/ t.arms = <<>>
     \/ DOMAIN t.arms = DOMAIN s.arms /\ \A i \in DOMAIN s.arms : t.arms[i].cmd = s.arms[i].cmd

LEMMA QuieterChain ==
  ASSUME NEW s, NEW t, NEW u, Quieter(s, t), Quieter(t, u) PROVE Quieter(s, u)
BY DEF Quieter

LEMMA VoidedQuieter ==
  ASSUME NEW s \in Systems, NEW why \in Causes PROVE Quieter(s, Voided(s, why))
<1>1. CASE s.sweep = NoSweep
  BY <1>1 DEF Voided, Quieter
<1>2. CASE s.sweep # NoSweep
  <2>1. s.sweep \in Sweeps
    BY <1>2 DEF Systems
  <2>2. [s.sweep EXCEPT !.void = @ \union {why}] \in Sweeps
    BY <2>1 DEF Sweeps
  <2>3. Voided(s, why) = [s EXCEPT !.sweep = [s.sweep EXCEPT !.void = @ \union {why}]]
    BY <1>2 DEF Voided, Systems
  <2>4. [s.sweep EXCEPT !.void = @ \union {why}].then = s.sweep.then
    BY <2>1 DEF Sweeps
  <2>5. [s.sweep EXCEPT !.void = @ \union {why}] # NoSweep
    BY <2>2, SweepRuns
  <2> QED
    BY <1>2, <2>3, <2>4, <2>5 DEF Systems, Quieter
<1> QED BY <1>1, <1>2

LEMMA StoppedKeeps ==
  ASSUME NEW s \in Systems
  PROVE  /\ Stopped(s) \in Systems /\ Quieter(s, Stopped(s))
         /\ Stopped(s).mode = "Disabled" /\ Stopped(s).control = "Disabled"
         /\ Stopped(s).arms = s.arms /\ Stopped(s).forbid = s.forbid
<1> DEFINE latch == s.latched \/ s.episode
<1> DEFINE u == [s EXCEPT !.mode = "Disabled", !.complete = FALSE, !.control = "Disabled",
                         !.latched = latch, !.episode = FALSE]
<1>1. latch \in BOOLEAN
  OBVIOUS
<1>2. Stopped(s) = Voided(u, "stop")
  BY DEF Stopped
<1> HIDE DEF latch
<1>3. u \in Systems
  BY <1>1 DEF Systems
<1>4. Quieter(s, u)
  BY <1>1 DEF Quieter, Systems
<1>5. u.mode = "Disabled" /\ u.control = "Disabled" /\ u.arms = s.arms /\ u.forbid = s.forbid
  BY DEF Systems
<1> HIDE DEF u
<1>6. /\ Voided(u, "stop").mode = u.mode /\ Voided(u, "stop").control = u.control
      /\ Voided(u, "stop").arms = u.arms /\ Voided(u, "stop").forbid = u.forbid
  BY <1>3 DEF Voided, Systems
<1>7. Voided(u, "stop") \in Systems /\ Quieter(u, Voided(u, "stop"))
  <2>1. "stop" \in Causes
    BY DEF Causes
  <2> QED BY <2>1, <1>3, VoidedTyped, VoidedQuieter
<1>8. Quieter(s, Voided(u, "stop"))
  BY <1>4, <1>7, QuieterChain
<1> QED BY <1>2, <1>5, <1>6, <1>7, <1>8

LEMMA EndPreflightKeeps ==
  ASSUME NEW s \in Systems, NEW t, t = EndPreflight(s)
  PROVE  /\ t \in Systems /\ t.sweep = NoSweep
         /\ t.stdin = IF s.sweep = NoSweep THEN s.stdin ELSE <<>>
         /\ t.chappe = IF s.sweep = NoSweep THEN s.chappe ELSE <<>>
         /\ t.swept = s.swept /\ t.now = s.now /\ t.seen = s.seen /\ t.late = s.late
         /\ t.on = s.on /\ t.arm = s.arm /\ t.explicit = s.explicit /\ t.mode = s.mode
         /\ t.control = s.control /\ t.forbid = s.forbid /\ t.arms = s.arms
         /\ t.queued = s.queued /\ t.busy = s.busy
BY NothingWaits DEF Systems, EndPreflight

LEMMA CancelKeeps ==
  ASSUME NEW s \in Systems, NEW t, t = CancelQueue(s)
  PROVE  /\ t \in Systems /\ t.queued = <<>> /\ t.busy = FALSE
         /\ t.stdin = s.stdin /\ t.chappe = s.chappe /\ t.sweep = s.sweep
         /\ t.swept = s.swept /\ t.now = s.now /\ t.seen = s.seen /\ t.late = s.late
         /\ t.on = s.on /\ t.arm = s.arm /\ t.explicit = s.explicit /\ t.mode = s.mode
         /\ t.control = s.control /\ t.forbid = s.forbid /\ t.arms = s.arms
BY NothingWaits DEF Systems, CancelQueue

------------------------------------------------------------------------------
(* What keeps the invariant. *)

LEMMA QuieterConsent ==
  ASSUME NEW s \in Systems, NEW t \in Systems, Quieter(s, t), NEW at, NEW o, Consent(s, at, o)
  PROVE  Consent(t, at, o)
<1>1. Stands(t) /\ Permitted(t) /\ t.now.off <= t.seen
  BY DEF Consent, Quieter, Stands, Permitted, Systems
<1>2. Lines(s, o) => Lines(t, o)
  BY DEF Quieter, Lines, Waiting, Fresh, InTurn
<1>3. Placed(s, at) => Placed(t, at)
  BY DEF Quieter, Placed
<1>4. SweepFresh(s) => SweepFresh(t)
  BY DEF Quieter, SweepFresh, Fresh
<1>5. ArmsFresh(s, at, o) => ArmsFresh(t, at, o)
  <2>1. CASE t.arms = <<>>
    BY <2>1 DEF ArmsFresh
  <2>2. CASE /\ DOMAIN t.arms = DOMAIN s.arms
             /\ \A i \in DOMAIN s.arms : t.arms[i].cmd = s.arms[i].cmd
    <3>1. t.arms # <<>> => s.arms # <<>>
      BY <2>2 DEF Systems
    <3> QED BY <2>2, <3>1 DEF ArmsFresh, Quieter, Fresh
  <2> QED BY <2>1, <2>2 DEF Quieter
<1>6. ChappeHeld(s, o) => ChappeHeld(t, o)
  BY DEF Quieter, ChappeHeld
<1> QED BY <1>1, <1>2, <1>3, <1>4, <1>5, <1>6 DEF Consent

\* The loop goes on to its next phase.  After stdin nothing of stdin waits but
\* behind a sweep or the reference queue; after the gate no stale arm is left.
Turns(s, at, to) ==
  \/ at = "boot" /\ to = "stdin"
  \/ at = "stdin" /\ to = "zero" /\ (s.busy \/ s.queued = <<>>)
       /\ (s.sweep # NoSweep \/ s.stdin = <<>>)
  \/ at = "zero" /\ to = "enable"
  \/ at = "enable" /\ to = "test"
  \/ at = "test" /\ to = "sweep"
  \/ at = "tick" /\ to = "pump"
  \/ at = "sweep" /\ to = "tick" /\ ~(s.busy /\ s.sweep # NoSweep)
  \/ at = "pump" /\ to = "poll"
  \/ at = "poll" /\ to = "publish" /\ \A i \in DOMAIN s.arms : Fresh(s, s.arms[i].cmd)
  \/ at = "publish" /\ to = "stdin"

LEMMA PhaseConsent ==
  ASSUME NEW s \in Systems, NEW at, NEW to, NEW o, Consent(s, at, o), Turns(s, at, to)
  PROVE  Consent(s, to, o)
<1>1. at \notin {"exit", "closed"}
  BY DEF Turns
<1>2. Placed(s, to)
  BY <1>1 DEF Turns, Consent, Placed
<1>3. ArmsFresh(s, to, o)
  BY <1>1 DEF Turns, Consent, ArmsFresh
<1>4. to \notin {"exit", "closed"}
  BY DEF Turns
<1> QED BY <1>1, <1>2, <1>3, <1>4 DEF Consent

------------------------------------------------------------------------------
(* Queues. *)

LEMMA Pop ==
  ASSUME NEW S, NEW q \in Seq(S), q # <<>>
  PROVE  /\ Head(q) \in S /\ Head(q) = q[1] /\ 1 \in DOMAIN q /\ Tail(q) \in Seq(S)
         /\ \A i \in DOMAIN Tail(q) : i + 1 \in DOMAIN q /\ Tail(q)[i] = q[i + 1]
OBVIOUS

LEMMA Push ==
  ASSUME NEW S, NEW q \in Seq(S), NEW x \in S, NEW r, r \in {q, Append(q, x)}
  PROVE  /\ r \in Seq(S)
         /\ \A i \in DOMAIN r : (i \in DOMAIN q /\ r[i] = q[i]) \/ r[i] = x
         /\ \A i, j \in DOMAIN r : i <= j => (i \in DOMAIN q /\ r[i] = q[i]) \/ r[j] = x
OBVIOUS

LEMMA HoldPushes ==
  ASSUME NEW q, NEW x PROVE Hold(q, x) \in {q, Append(q, x)}
BY DEF Hold

LEMMA CmdTyped ==
  \A cmd \in Cmds : cmd.kind \in Kinds /\ cmd.stamp \in Stamps
                    /\ cmd.stamp.stop \in Nat /\ cmd.stamp.off \in Nat
BY DEF Cmds, Stamps

\* One more current command at the end of a line.
LEMMA PushWaiting ==
  ASSUME NEW s \in Systems, NEW o, NEW q \in Seq(Cmds), NEW cmd \in Cmds,
         NEW r, r = Hold(q, cmd), Waiting(s, o, q), Sorted(q),
         Fresh(s, cmd), InTurn(s, cmd), cmd.kind # "disable", cmd.kind = "arm" => o = "stdin",
         \A i \in DOMAIN q : q[i].stamp.off <= cmd.stamp.off
  PROVE  /\ r \in Seq(Cmds) /\ Waiting(s, o, r) /\ Sorted(r)
         /\ \A i \in DOMAIN r : r[i].stamp.off <= cmd.stamp.off
<1>1. r \in {q, Append(q, cmd)}
  BY HoldPushes
<1>2. /\ r \in Seq(Cmds)
      /\ \A i \in DOMAIN r : (i \in DOMAIN q /\ r[i] = q[i]) \/ r[i] = cmd
      /\ \A i, j \in DOMAIN r : i <= j => (i \in DOMAIN q /\ r[i] = q[i]) \/ r[j] = cmd
  BY <1>1, Push
<1>3. Waiting(s, o, r)
  BY <1>2 DEF Waiting
<1>4. cmd.stamp.off \in Nat
  BY CmdTyped
<1>5. \A i \in DOMAIN r : r[i].stamp.off <= cmd.stamp.off
  BY <1>2, <1>4
<1>6. Sorted(r)
  <2> SUFFICES ASSUME NEW i \in DOMAIN r, NEW j \in DOMAIN r, i <= j
               PROVE  r[i].stamp.off <= r[j].stamp.off
    BY DEF Sorted
  <2>1. CASE r[j] = cmd
    BY <2>1, <1>5
  <2>2. CASE r[j] # cmd
    <3>1. j \in DOMAIN q /\ r[j] = q[j]
      BY <2>2, <1>2
    <3>2. i \in DOMAIN q /\ r[i] = q[i]
      BY <2>2, <1>2
    <3> QED BY <3>1, <3>2 DEF Sorted
  <2> QED BY <2>1, <2>2
<1> QED BY <1>2, <1>3, <1>5, <1>6

\* The rest of a line is in line.
LEMMA PopWaiting ==
  ASSUME NEW s \in Systems, NEW o, NEW q \in Seq(Cmds), q # <<>>, Waiting(s, o, q), Sorted(q)
  PROVE  /\ Head(q) \in Cmds /\ Tail(q) \in Seq(Cmds)
         /\ Fresh(s, Head(q)) /\ InTurn(s, Head(q)) /\ Head(q).kind # "disable"
         /\ Head(q).kind = "arm" => o = "stdin"
         /\ Waiting(s, o, Tail(q)) /\ Sorted(Tail(q))
         /\ \A i \in DOMAIN Tail(q) : Head(q).stamp.off <= Tail(q)[i].stamp.off
         /\ \E k \in DOMAIN q : Head(q) = q[k]
         /\ \A i \in DOMAIN Tail(q) : \E k \in DOMAIN q : Tail(q)[i] = q[k]
<1>1. /\ Head(q) \in Cmds /\ Head(q) = q[1] /\ 1 \in DOMAIN q /\ Tail(q) \in Seq(Cmds)
      /\ \A i \in DOMAIN Tail(q) : i + 1 \in DOMAIN q /\ Tail(q)[i] = q[i + 1]
  BY Pop
<1>2. \A i \in DOMAIN Tail(q) : i \in Nat /\ i >= 1
  BY <1>1
<1>3. Waiting(s, o, Tail(q))
  BY <1>1 DEF Waiting
<1>4. Sorted(Tail(q))
  BY <1>1, <1>2 DEF Sorted
<1>5. \A i \in DOMAIN Tail(q) : Head(q).stamp.off <= Tail(q)[i].stamp.off
  BY <1>1, <1>2 DEF Sorted
<1>6. Fresh(s, Head(q)) /\ InTurn(s, Head(q)) /\ Head(q).kind # "disable"
      /\ (Head(q).kind = "arm" => o = "stdin")
  BY <1>1 DEF Waiting
<1>7. /\ \E k \in DOMAIN q : Head(q) = q[k]
      /\ \A i \in DOMAIN Tail(q) : \E k \in DOMAIN q : Tail(q)[i] = q[k]
  BY <1>1
<1> QED BY <1>1, <1>3, <1>4, <1>5, <1>6, <1>7

------------------------------------------------------------------------------
(* Stops. *)

\* What an operator's stop leaves of s, apart from the deferred arms.
StopLeft(s, t) ==
  /\ t.mode = "Disabled" /\ t.control = "Disabled" /\ t.forbid
  /\ t.queued = <<>> /\ t.busy = FALSE /\ t.sweep = NoSweep
  /\ t.stdin = IF s.sweep = NoSweep THEN s.stdin ELSE <<>>
  /\ t.chappe = IF s.sweep = NoSweep THEN s.chappe ELSE <<>>
  /\ t.swept = s.swept /\ t.seen = s.seen /\ t.late = s.late /\ t.now.off = s.now.off

LEMMA OperatorStopKeeps ==
  ASSUME NEW s \in Systems, NEW t, t = EndPreflight(OperatorStop(s))
  PROVE  t \in Systems /\ StopLeft(s, t) /\ t.arms = s.arms
<1> DEFINE h == Stopped(s)
           u == [h EXCEPT !.forbid = TRUE, !.now.stop = @ + 1]
           v == CancelQueue(u)
<1>1. h \in Systems /\ Quieter(s, h) /\ h.mode = "Disabled" /\ h.control = "Disabled" /\ h.arms = s.arms
  BY StoppedKeeps
<1>2. OperatorStop(s) = v
  BY DEF OperatorStop
<1> HIDE DEF h
<1>3. [h.now EXCEPT !.stop = @ + 1] \in Stamps /\ [h.now EXCEPT !.stop = @ + 1].off = h.now.off
  <2>1. h.now \in Stamps
    BY <1>1 DEF Systems
  <2> QED BY <2>1 DEF Stamps
<1>4. u = [h EXCEPT !.forbid = TRUE, !.now = [h.now EXCEPT !.stop = @ + 1]]
  BY <1>1 DEF Systems
<1> HIDE DEF u
<1>5. /\ u \in Systems /\ u.forbid /\ u.now.off = h.now.off
      /\ u.mode = h.mode /\ u.control = h.control /\ u.arms = h.arms /\ u.swept = h.swept
      /\ u.seen = h.seen /\ u.late = h.late /\ u.stdin = h.stdin /\ u.chappe = h.chappe
      /\ u.sweep = h.sweep
  BY <1>1, <1>3, <1>4 DEF Systems
<1>6. /\ v \in Systems /\ v.queued = <<>> /\ v.busy = FALSE /\ v.forbid = u.forbid
      /\ v.mode = u.mode /\ v.control = u.control /\ v.arms = u.arms /\ v.swept = u.swept
      /\ v.seen = u.seen /\ v.late = u.late /\ v.stdin = u.stdin /\ v.chappe = u.chappe
      /\ v.sweep = u.sweep /\ v.now = u.now
  BY <1>5, CancelKeeps
<1> HIDE DEF v
<1>7. /\ t \in Systems /\ t.sweep = NoSweep
      /\ t.stdin = IF v.sweep = NoSweep THEN v.stdin ELSE <<>>
      /\ t.chappe = IF v.sweep = NoSweep THEN v.chappe ELSE <<>>
      /\ t.swept = v.swept /\ t.now = v.now /\ t.seen = v.seen /\ t.late = v.late
      /\ t.mode = v.mode /\ t.control = v.control /\ t.forbid = v.forbid /\ t.arms = v.arms
      /\ t.queued = v.queued /\ t.busy = v.busy
  BY <1>2, <1>6, EndPreflightKeeps
<1> QED BY <1>1, <1>5, <1>6, <1>7 DEF Quieter, StopLeft

\* Nothing that may still run is left by a stop but deferred arms, which a
\* Chappe stop leaves to the gate; those of stdin are cleared with it.
LEMMA StopConsent ==
  ASSUME NEW s \in Systems, NEW t \in Systems, NEW at, at \in {"stdin", "enable"}, NEW o,
         Consent(s, at, o), s.sweep = NoSweep => s.stdin = <<>>, StopLeft(s, t),
         t.arms # <<>> => t.arms = s.arms /\ at = "enable"
  PROVE  Consent(t, at, o)
<1>1. t.stdin = <<>>
  BY DEF StopLeft
<1>2. Stands(t) /\ Permitted(t) /\ t.now.off <= t.seen
  BY DEF Consent, Stands, Permitted, StopLeft
<1>3. Lines(t, o)
  BY <1>1 DEF StopLeft, Lines, Waiting, Sorted, Before
<1>4. Placed(t, at)
  BY <1>1 DEF StopLeft, Placed
<1>5. SweepFresh(t)
  BY DEF StopLeft, SweepFresh
<1>6. ArmsFresh(t, at, o)
  BY DEF StopLeft, Consent, ArmsFresh
<1>7. ChappeHeld(t, o)
  BY DEF StopLeft, Consent, ChappeHeld
<1> QED BY <1>2, <1>3, <1>4, <1>5, <1>6, <1>7 DEF Consent

------------------------------------------------------------------------------
(* Starting a sweep, arming, holding off. *)

LEMMA StartSweepTyped ==
  ASSUME PiConstants, NEW s \in Systems, NEW cmd \in Cmds, NEW t \in StartSweep(s, cmd)
  PROVE  t \in Systems /\ t.late = s.late
<1>1. [then |-> cmd, left |-> Slices, void |-> {}] \in Sweeps
  BY DEF PiConstants, Sweeps
<1> QED BY <1>1, ZenonT(40) DEF StartSweep, Systems

\* A current request may be swept for where nothing waits in another's way.
LEMMA StartSweepConsent ==
  ASSUME PiConstants, NEW s \in Systems, NEW cmd \in Cmds, NEW t \in StartSweep(s, cmd),
         NEW at \in {"stdin", "enable", "test"}, NEW o, Consent(s, at, o),
         s.sweep = NoSweep, ~s.busy, Fresh(s, cmd),
         cmd.kind = "position" => cmd.stamp.off >= s.now.off,
         s.arms = <<>> \/ at = "stdin"
  PROVE  Consent(t, at, o)
<1> DEFINE r == [then |-> cmd, left |-> Slices, void |-> {}]
<1>1. r \in Sweeps /\ r.then = cmd
  BY DEF PiConstants, Sweeps
<1>2. CASE t = s
  BY <1>2
<1>3. CASE t = [s EXCEPT !.sweep = r]
  <2>1. r # NoSweep
    BY <1>1, SweepRuns
  <2> HIDE DEF r
  <2>2. /\ t.sweep = r /\ t.swept = s.swept /\ t.now = s.now /\ t.seen = s.seen
        /\ t.on = s.on /\ t.arm = s.arm /\ t.explicit = s.explicit /\ t.mode = s.mode
        /\ t.control = s.control /\ t.forbid = s.forbid /\ t.arms = s.arms
        /\ t.queued = s.queued /\ t.busy = s.busy /\ t.stdin = s.stdin /\ t.chappe = s.chappe
    BY <1>3 DEF Systems
  <2>3. Stands(t) /\ Permitted(t) /\ t.now.off <= t.seen
    BY <2>2 DEF Consent, Stands, Permitted
  <2>4. Lines(t, o)
    BY <2>2 DEF Consent, Lines, Waiting, Fresh, InTurn
  <2>5. Placed(t, at)
    BY <2>2, <2>1 DEF Consent, Placed
  <2>6. SweepFresh(t)
    BY <2>2, <1>1 DEF SweepFresh, Fresh
  <2>7. ArmsFresh(t, at, o)
    BY <2>2 DEF Consent, ArmsFresh, Fresh
  <2>8. ChappeHeld(t, o)
    BY <2>2 DEF Consent, ChappeHeld
  <2> QED BY <2>3, <2>4, <2>5, <2>6, <2>7, <2>8 DEF Consent
<1> QED BY <1>2, <1>3 DEF StartSweep

\* What an arm that is not refused may change.
LEMMA ArmedKeeps ==
  ASSUME NEW s \in Systems, NEW cmd \in Cmds, NEW t, t = Armed(s, cmd)
  PROVE  /\ t \in Systems /\ t.mode = "Active"
         /\ t.on = IF s.mode = "Active" THEN s.on ELSE cmd.stamp
         /\ \/ t.control = s.control /\ t.arm = s.arm
            \/ t.control = "Position" /\ t.arm = cmd.stamp
         /\ t.swept = s.swept /\ t.now = s.now /\ t.seen = s.seen /\ t.late = s.late
         /\ t.explicit = s.explicit /\ t.forbid = s.forbid /\ t.arms = s.arms
         /\ t.queued = s.queued /\ t.busy = s.busy /\ t.stdin = s.stdin /\ t.chappe = s.chappe
         /\ t.sweep = s.sweep
<1> DEFINE e == Energised(s, cmd)
<1>1. cmd.stamp \in Stamps
  BY CmdTyped
<1>2. /\ e \in Systems /\ e.mode = "Active"
      /\ e.on = IF s.mode = "Active" THEN s.on ELSE cmd.stamp
      /\ e.control = s.control /\ e.arm = s.arm
      /\ e.swept = s.swept /\ e.now = s.now /\ e.seen = s.seen /\ e.late = s.late
      /\ e.explicit = s.explicit /\ e.forbid = s.forbid /\ e.arms = s.arms
      /\ e.queued = s.queued /\ e.busy = s.busy /\ e.stdin = s.stdin /\ e.chappe = s.chappe
      /\ e.sweep = s.sweep
  <2>1. CASE s.mode = "Active"
    BY <2>1 DEF Energised
  <2>2. CASE s.mode # "Active"
    <3>1. e = [s EXCEPT !.mode = "Active", !.complete = FALSE, !.on = cmd.stamp]
      BY <2>2 DEF Energised
    <3> QED BY <2>2, <3>1, <1>1, ZenonT(40) DEF Systems
  <2> QED BY <2>1, <2>2
<1>3. t = IF e.complete THEN [e EXCEPT !.control = "Position", !.arm = cmd.stamp] ELSE e
  BY DEF Armed
<1> HIDE DEF e
<1>4. CASE e.complete
  <2>1. t = [e EXCEPT !.control = "Position", !.arm = cmd.stamp]
    BY <1>3, <1>4
  <2>2. t \in Systems
    BY <2>1, <1>1, <1>2 DEF Systems
  <2>3. /\ t.mode = e.mode /\ t.on = e.on /\ t.control = "Position" /\ t.arm = cmd.stamp
        /\ t.swept = e.swept /\ t.now = e.now /\ t.seen = e.seen /\ t.late = e.late
        /\ t.explicit = e.explicit /\ t.forbid = e.forbid /\ t.arms = e.arms
        /\ t.queued = e.queued /\ t.busy = e.busy /\ t.stdin = e.stdin /\ t.chappe = e.chappe
        /\ t.sweep = e.sweep
    BY <2>1, <1>2 DEF Systems
  <2> QED BY <2>2, <2>3, <1>2
<1>5. CASE ~e.complete
  BY <1>2, <1>3, <1>5
<1> QED BY <1>4, <1>5

LEMMA ArmedConsent ==
  ASSUME NEW s \in Systems, NEW cmd \in Cmds, NEW at, NEW o, Consent(s, at, o),
         ~ArmRefused(s), Fresh(s, cmd), cmd.stamp.off >= s.now.off
  PROVE  Consent(Armed(s, cmd), at, o)
<1> DEFINE t == Armed(s, cmd)
<1>1. /\ t \in Systems /\ t.mode = "Active"
      /\ t.on = IF s.mode = "Active" THEN s.on ELSE cmd.stamp
      /\ \/ t.control = s.control /\ t.arm = s.arm
         \/ t.control = "Position" /\ t.arm = cmd.stamp
      /\ t.swept = s.swept /\ t.now = s.now /\ t.seen = s.seen /\ t.late = s.late
      /\ t.explicit = s.explicit /\ t.forbid = s.forbid /\ t.arms = s.arms
      /\ t.queued = s.queued /\ t.busy = s.busy /\ t.stdin = s.stdin /\ t.chappe = s.chappe
      /\ t.sweep = s.sweep
  BY ArmedKeeps
<1>2. s.mode = "Active" \/ ~s.forbid
  BY DEF ArmRefused, MayReenable
<1> HIDE DEF t
<1>3. Stands(t) /\ Permitted(t) /\ t.now.off <= t.seen
  BY <1>1, <1>2 DEF Consent, Stands, Permitted, Fresh
<1>4. Lines(s, o) => Lines(t, o)
  BY <1>1 DEF Lines, Waiting, Fresh, InTurn
<1>5. Placed(s, at) => Placed(t, at)
  BY <1>1 DEF Placed
<1>6. SweepFresh(s) => SweepFresh(t)
  BY <1>1 DEF SweepFresh, Fresh
<1>7. ArmsFresh(s, at, o) => ArmsFresh(t, at, o)
  BY <1>1, <1>2 DEF ArmsFresh, Fresh
<1>8. ChappeHeld(s, o) => ChappeHeld(t, o)
  BY <1>1 DEF ChappeHeld
<1>9. Consent(t, at, o)
  BY <1>3, <1>4, <1>5, <1>6, <1>7, <1>8 DEF Consent
<1> QED BY <1>9 DEF t

LEMMA SubmitConsent ==
  ASSUME NEW s \in Systems, NEW cmd \in Cmds, Consent(s, "stdin", "stdin"),
         Fresh(s, cmd), cmd.stamp.off >= s.now.off
  PROVE  /\ Submit(s, cmd) \in Systems /\ Submit(s, cmd).late = s.late
         /\ Consent(Submit(s, cmd), "stdin", "stdin")
<1> DEFINE defer(t) == [t EXCEPT !.arms = Append(@, [cmd |-> cmd, age |-> 0])]
<1>1. ASSUME NEW t \in Systems, Consent(t, "stdin", "stdin"), t.now = s.now
      PROVE  /\ defer(t) \in Systems /\ defer(t).late = t.late
             /\ Consent(defer(t), "stdin", "stdin")
  <2> DEFINE a == [cmd |-> cmd, age |-> 0]
             r == Append(t.arms, a)
             d == defer(t)
  <2>1. a \in Arms /\ a.cmd = cmd
    BY DEF Arms
  <2>2. t.arms \in Seq(Arms)
    BY DEF Systems
  <2> HIDE DEF a
  <2>3. r \in Seq(Arms) /\ \A i \in DOMAIN r : (i \in DOMAIN t.arms /\ r[i] = t.arms[i]) \/ r[i] = a
    BY <2>1, <2>2, Push
  <2>4. d = [t EXCEPT !.arms = r]
    BY DEF a, Systems
  <2> HIDE DEF d, r
  <2>5. /\ d \in Systems /\ d.arms = r /\ d.late = t.late /\ d.swept = t.swept /\ d.now = t.now
        /\ d.seen = t.seen /\ d.on = t.on /\ d.arm = t.arm /\ d.explicit = t.explicit
        /\ d.mode = t.mode /\ d.control = t.control /\ d.forbid = t.forbid
        /\ d.queued = t.queued /\ d.busy = t.busy /\ d.stdin = t.stdin /\ d.chappe = t.chappe
        /\ d.sweep = t.sweep
    BY <2>3, <2>4 DEF Systems
  <2>6. Stands(d) /\ Permitted(d) /\ d.now.off <= d.seen
    BY <1>1, <2>5 DEF Consent, Stands, Permitted
  <2>7. Lines(d, "stdin") /\ Placed(d, "stdin") /\ SweepFresh(d) /\ ChappeHeld(d, "stdin")
    BY <1>1, <2>5 DEF Consent, Lines, Waiting, Fresh, InTurn, Placed, SweepFresh, ChappeHeld
  <2>8. ArmsFresh(d, "stdin", "stdin")
    BY <1>1, <2>1, <2>3, <2>5 DEF Consent, ArmsFresh, Fresh
  <2>9. Consent(d, "stdin", "stdin")
    BY <2>6, <2>7, <2>8 DEF Consent
  <2> QED BY <2>5, <2>9 DEF d
<1>2. CASE s.enable # NoEnable \/ s.arms # <<>>
  <2>1. Submit(s, cmd) = defer(s)
    BY <1>2 DEF Submit
  <2> HIDE DEF defer
  <2> QED BY <2>1, <1>1
<1>3. CASE ~(s.enable # NoEnable \/ s.arms # <<>>) /\ ArmRefused(s)
  BY <1>3 DEF Submit
<1>4. CASE ~(s.enable # NoEnable \/ s.arms # <<>>) /\ ~ArmRefused(s)
  <2> DEFINE t == Armed(s, cmd)
  <2>1. t \in Systems /\ t.now = s.now /\ t.late = s.late /\ Consent(t, "stdin", "stdin")
    BY <1>4, ArmedKeeps, ArmedConsent
  <2>2. Submit(s, cmd) = IF t.complete THEN t ELSE defer(t)
    BY <1>4 DEF Submit
  <2> HIDE DEF t, defer
  <2> QED BY <2>1, <2>2, <1>1
<1> QED BY <1>2, <1>3, <1>4

\* A hold-off is handled before all that was received after it.
LEMMA HoldOffConsent ==
  ASSUME NEW s \in Systems, NEW cmd \in Cmds, NEW o, Consent(s, "stdin", o),
         ~s.busy, s.sweep = NoSweep, InTurn(s, cmd),
         \A i \in DOMAIN s.queued : cmd.stamp.off <= s.queued[i].stamp.off,
         \A i \in DOMAIN s.stdin : cmd.stamp.off <= s.stdin[i].stamp.off
  PROVE  /\ HoldOff(s, cmd) \in Systems /\ HoldOff(s, cmd).late = s.late
         /\ Consent(HoldOff(s, cmd), "stdin", o)
<1> DEFINE h == IF s.episode THEN Stopped(s) ELSE [s EXCEPT !.control = "Disabled"]
           t == HoldOff(s, cmd)
           w == [h.now EXCEPT !.off = cmd.stamp.off]
<1>1. h \in Systems /\ Quieter(s, h) /\ h.control = "Disabled"
  <2>1. CASE s.episode
    BY <2>1, StoppedKeeps
  <2>2. CASE ~s.episode
    BY <2>2 DEF Systems, Quieter
  <2> QED BY <2>1, <2>2
<1>2. t = [h EXCEPT !.arms = <<>>, !.now.off = cmd.stamp.off]
  BY DEF HoldOff
<1> HIDE DEF h, t
<1>3. h.now \in Stamps /\ cmd.stamp.off \in Nat
  BY <1>1, CmdTyped DEF Systems
<1>4. w \in Stamps /\ w.stop = h.now.stop /\ w.off = cmd.stamp.off
  BY <1>3 DEF Stamps
<1>5. t = [h EXCEPT !.arms = <<>>, !.now = w]
  BY <1>1, <1>2 DEF Systems
<1> HIDE DEF w
<1>6. /\ t \in Systems /\ t.arms = <<>> /\ t.now = w /\ t.swept = h.swept /\ t.late = h.late
      /\ t.seen = h.seen /\ t.on = h.on /\ t.arm = h.arm /\ t.explicit = h.explicit
      /\ t.mode = h.mode /\ t.control = h.control /\ t.forbid = h.forbid
      /\ t.queued = h.queued /\ t.busy = h.busy /\ t.stdin = h.stdin /\ t.chappe = h.chappe
      /\ t.sweep = h.sweep
  BY <1>1, <1>4, <1>5, NothingWaits DEF Systems
<1>7. Consent(h, "stdin", o)
  BY <1>1, QuieterConsent
<1>8. /\ h.queued = s.queued /\ h.stdin = s.stdin /\ h.seen = s.seen /\ h.sweep = NoSweep
      /\ h.late = s.late /\ h.busy = s.busy
  BY <1>1 DEF Quieter
<1>9. Stands(t) /\ Permitted(t) /\ t.now.off <= t.seen
  BY <1>1, <1>4, <1>6, <1>7, <1>8 DEF Consent, Stands, Permitted, InTurn
<1>10. Lines(t, o)
  BY <1>4, <1>6, <1>7, <1>8 DEF Consent, Lines, Waiting, Fresh, InTurn
<1>11. Placed(t, "stdin") /\ SweepFresh(t) /\ ArmsFresh(t, "stdin", o) /\ ChappeHeld(t, o)
  BY <1>6, <1>7, <1>8 DEF Consent, Placed, SweepFresh, ArmsFresh, ChappeHeld
<1>12. Consent(t, "stdin", o)
  BY <1>9, <1>10, <1>11 DEF Consent
<1> QED BY <1>6, <1>8, <1>12 DEF t

------------------------------------------------------------------------------
(* Commands of stdin. *)

\* Where a command stands that is about to be dispatched: behind what it will
\* be queued behind, before what is still to run after it.
NextInLine(s, cmd) ==
  /\ s.busy => \A i \in DOMAIN s.queued : s.queued[i].stamp.off <= cmd.stamp.off
  /\ s.busy => \A i \in DOMAIN s.stdin : cmd.stamp.off <= s.stdin[i].stamp.off
  /\ ~s.busy => \A i \in DOMAIN s.queued : cmd.stamp.off <= s.queued[i].stamp.off
  /\ ~s.busy /\ s.sweep # NoSweep => \A i \in DOMAIN s.stdin : s.stdin[i].stamp.off <= cmd.stamp.off
  /\ s.sweep = NoSweep => \A i \in DOMAIN s.stdin : cmd.stamp.off <= s.stdin[i].stamp.off
  /\ cmd.kind = "disable" /\ s.sweep = NoSweep => s.stdin = <<>>

LEMMA HandleConsent ==
  ASSUME PiConstants, NEW s \in Systems, NEW cmd \in Cmds, NEW o, Consent(s, "stdin", o),
         Fresh(s, cmd), InTurn(s, cmd), cmd.kind = "arm" => o = "stdin", NextInLine(s, cmd),
         s.busy => cmd.kind \in {"home", "disable"},
         s.sweep # NoSweep => cmd.kind = "disable",
         NEW t \in HandleCommand(s, cmd)
  PROVE  t \in Systems /\ t.late = s.late /\ Consent(t, "stdin", o)
<1>1. CASE cmd.kind = "enable"
  <2>1. t \in StartSweep(s, cmd) /\ s.sweep = NoSweep /\ ~s.busy
    BY <1>1 DEF HandleCommand
  <2> QED BY <1>1, <2>1, StartSweepTyped, StartSweepConsent
<1>2. CASE cmd.kind = "disable"
  <2> DEFINE u == EndPreflight(OperatorStop(s))
  <2>1. t = [u EXCEPT !.enable = NoEnable, !.arms = <<>>]
    BY <1>2 DEF HandleCommand
  <2>2. u \in Systems /\ StopLeft(s, u)
    BY OperatorStopKeeps
  <2> HIDE DEF u
  <2>3. NoEnable \in Int
    BY DEF NoEnable
  <2>4. t \in Systems /\ StopLeft(s, t) /\ t.arms = <<>>
    BY <2>1, <2>2, <2>3, NothingWaits DEF Systems, StopLeft
  <2>5. s.sweep = NoSweep => s.stdin = <<>>
    BY <1>2 DEF NextInLine
  <2>6. t.arms # <<>> => t.arms = s.arms /\ "stdin" = "enable"
    BY <2>4
  <2>7. Consent(t, "stdin", o)
    BY <2>4, <2>5, <2>6, StopConsent
  <2> QED BY <2>4, <2>7 DEF StopLeft
<1>3. CASE cmd.kind = "home"
  <2>1. t = s \/ t = [s EXCEPT !.busy = TRUE]
    BY <1>3 DEF HandleCommand
  <2>2. CASE t = s
    BY <2>2
  <2>3. CASE t = [s EXCEPT !.busy = TRUE]
    <3>1. /\ t \in Systems /\ t.busy = TRUE /\ t.late = s.late /\ t.swept = s.swept /\ t.now = s.now
          /\ t.seen = s.seen /\ t.on = s.on /\ t.arm = s.arm /\ t.explicit = s.explicit
          /\ t.mode = s.mode /\ t.control = s.control /\ t.forbid = s.forbid
          /\ t.queued = s.queued /\ t.stdin = s.stdin /\ t.chappe = s.chappe
          /\ t.sweep = s.sweep /\ t.arms = s.arms
      BY <2>3 DEF Systems
    <3>2. s.sweep = NoSweep
      BY <1>3
    <3>3. Before(s.queued, s.stdin)
      <4>1. CASE s.busy
        BY <4>1 DEF Consent, Lines
      <4>2. CASE ~s.busy
        <5>1. s.queued = <<>> \/ s.stdin = <<>>
          BY <4>2, <3>2 DEF Consent, Placed
        <5> QED BY <5>1 DEF Before
      <4> QED BY <4>1, <4>2
    <3>4. Stands(t) /\ Permitted(t) /\ t.now.off <= t.seen
      BY <3>1 DEF Consent, Stands, Permitted
    <3>5. Lines(t, o)
      BY <3>1, <3>3 DEF Consent, Lines, Waiting, Fresh, InTurn
    <3>6. Placed(t, "stdin") /\ SweepFresh(t) /\ ChappeHeld(t, o)
      BY <3>1, <3>2 DEF Consent, Placed, SweepFresh, ChappeHeld
    <3>7. ArmsFresh(t, "stdin", o)
      BY <3>1 DEF Consent, ArmsFresh, Fresh
    <3> QED BY <3>1, <3>4, <3>5, <3>6, <3>7 DEF Consent
  <2> QED BY <2>1, <2>2, <2>3
<1>4. CASE cmd.kind = "arm"
  <2>1. t = Submit(s, cmd) /\ o = "stdin"
    BY <1>4 DEF HandleCommand
  <2> QED BY <2>1, SubmitConsent DEF InTurn
<1>5. CASE cmd.kind = "mode"
  <2>1. t = s \/ t = [s EXCEPT !.control = "Other"]
    BY <1>5 DEF HandleCommand
  <2>2. CASE t = s
    BY <2>2
  <2>3. CASE t = [s EXCEPT !.control = "Other"]
    <3>1. t \in Systems /\ Quieter(s, t)
      BY <2>3 DEF Systems, Quieter
    <3> QED BY <3>1, QuieterConsent DEF Quieter
  <2> QED BY <2>1, <2>2, <2>3
<1>6. CASE cmd.kind = "holdoff"
  <2>1. t = HoldOff(s, cmd) /\ ~s.busy /\ s.sweep = NoSweep
    BY <1>6 DEF HandleCommand
  <2> QED BY <2>1, HoldOffConsent DEF NextInLine
<1>7. CASE cmd.kind \notin {"enable", "disable", "home", "arm", "mode", "holdoff"}
  BY <1>7 DEF HandleCommand
<1> QED BY <1>1, <1>2, <1>3, <1>4, <1>5, <1>6, <1>7

LEMMA DispatchConsent ==
  ASSUME PiConstants, NEW s \in Systems, NEW cmd \in Cmds, NEW o, Consent(s, "stdin", o),
         Fresh(s, cmd), InTurn(s, cmd), cmd.kind = "arm" => o = "stdin", NextInLine(s, cmd),
         NEW t \in Dispatch(s, cmd)
  PROVE  t \in Systems /\ t.late = s.late /\ Consent(t, "stdin", o)
<1>1. CASE s.busy /\ cmd.kind \notin {"home", "disable"}
  <2> DEFINE r == Hold(s.queued, cmd)
  <2>2. s.queued \in Seq(Cmds) /\ Waiting(s, o, s.queued) /\ Sorted(s.queued) /\ s.sweep = NoSweep
    BY <1>1 DEF Systems, Consent, Lines, Placed
  <2>1. t = [s EXCEPT !.queued = r]
    BY <1>1, <2>2 DEF Dispatch
  <2>3. /\ r \in Seq(Cmds) /\ Waiting(s, o, r) /\ Sorted(r)
        /\ \A i \in DOMAIN r : r[i].stamp.off <= cmd.stamp.off
    BY <1>1, <2>2, PushWaiting DEF NextInLine
  <2> HIDE DEF r
  <2>4. /\ t \in Systems /\ t.queued = r /\ t.busy = s.busy /\ t.late = s.late /\ t.swept = s.swept
        /\ t.now = s.now /\ t.seen = s.seen /\ t.on = s.on /\ t.arm = s.arm
        /\ t.explicit = s.explicit /\ t.mode = s.mode /\ t.control = s.control
        /\ t.forbid = s.forbid /\ t.stdin = s.stdin /\ t.chappe = s.chappe
        /\ t.sweep = s.sweep /\ t.arms = s.arms
    BY <2>1, <2>3 DEF Systems
  <2>5. Before(r, s.stdin)
    <3> SUFFICES ASSUME NEW i \in DOMAIN r, NEW j \in DOMAIN s.stdin
                 PROVE  r[i].stamp.off <= s.stdin[j].stamp.off
      BY DEF Before
    <3>1. r[i] \in Cmds /\ s.stdin[j] \in Cmds
      BY <2>3 DEF Systems
    <3>2. r[i].stamp.off \in Nat /\ s.stdin[j].stamp.off \in Nat /\ cmd.stamp.off \in Nat
      BY <3>1, CmdTyped
    <3>3. r[i].stamp.off <= cmd.stamp.off /\ cmd.stamp.off <= s.stdin[j].stamp.off
      BY <1>1, <2>3 DEF NextInLine
    <3> QED BY <3>2, <3>3
  <2>6. Stands(t) /\ Permitted(t) /\ t.now.off <= t.seen
    BY <2>4 DEF Consent, Stands, Permitted
  <2>7. Lines(t, o)
    BY <1>1, <2>3, <2>4, <2>5 DEF Consent, Lines, Waiting, Fresh, InTurn
  <2>8. Placed(t, "stdin") /\ SweepFresh(t) /\ ChappeHeld(t, o)
    BY <1>1, <2>2, <2>4 DEF Consent, Placed, SweepFresh, ChappeHeld
  <2>9. ArmsFresh(t, "stdin", o)
    BY <2>4 DEF Consent, ArmsFresh, Fresh
  <2> QED BY <2>4, <2>6, <2>7, <2>8, <2>9 DEF Consent
<1>2. CASE ~(s.busy /\ cmd.kind \notin {"home", "disable"}) /\ s.sweep # NoSweep /\ cmd.kind # "disable"
  <2> DEFINE r == Hold(s.stdin, cmd)
  <2>1. t = [s EXCEPT !.stdin = r]
    BY <1>2 DEF Dispatch
  <2>2. s.stdin \in Seq(Cmds) /\ Waiting(s, o, s.stdin) /\ Sorted(s.stdin) /\ ~s.busy
    BY <1>2 DEF Systems, Consent, Lines, Placed
  <2>3. /\ r \in Seq(Cmds) /\ Waiting(s, o, r) /\ Sorted(r)
        /\ \A i \in DOMAIN r : r[i].stamp.off <= cmd.stamp.off
    BY <1>2, <2>2, PushWaiting DEF NextInLine
  <2> HIDE DEF r
  <2>4. /\ t \in Systems /\ t.stdin = r /\ t.busy = s.busy /\ t.late = s.late /\ t.swept = s.swept
        /\ t.now = s.now /\ t.seen = s.seen /\ t.on = s.on /\ t.arm = s.arm
        /\ t.explicit = s.explicit /\ t.mode = s.mode /\ t.control = s.control
        /\ t.forbid = s.forbid /\ t.queued = s.queued /\ t.chappe = s.chappe
        /\ t.sweep = s.sweep /\ t.arms = s.arms
    BY <2>1, <2>3 DEF Systems
  <2>5. Before(r, s.queued)
    <3> SUFFICES ASSUME NEW i \in DOMAIN r, NEW j \in DOMAIN s.queued
                 PROVE  r[i].stamp.off <= s.queued[j].stamp.off
      BY DEF Before
    <3>1. r[i] \in Cmds /\ s.queued[j] \in Cmds
      BY <2>3 DEF Systems
    <3>2. r[i].stamp.off \in Nat /\ s.queued[j].stamp.off \in Nat /\ cmd.stamp.off \in Nat
      BY <3>1, CmdTyped
    <3>3. r[i].stamp.off <= cmd.stamp.off /\ cmd.stamp.off <= s.queued[j].stamp.off
      BY <2>2, <2>3 DEF NextInLine
    <3> QED BY <3>2, <3>3
  <2>6. Stands(t) /\ Permitted(t) /\ t.now.off <= t.seen
    BY <2>4 DEF Consent, Stands, Permitted
  <2>7. Lines(t, o)
    BY <2>2, <2>3, <2>4, <2>5 DEF Consent, Lines, Waiting, Fresh, InTurn
  <2>8. Placed(t, "stdin") /\ SweepFresh(t) /\ ChappeHeld(t, o)
    BY <1>2, <2>2, <2>4 DEF Consent, Placed, SweepFresh, ChappeHeld, Fresh
  <2>9. ArmsFresh(t, "stdin", o)
    BY <2>4 DEF Consent, ArmsFresh, Fresh
  <2> QED BY <2>4, <2>6, <2>7, <2>8, <2>9 DEF Consent
<1>3. CASE ~(s.busy /\ cmd.kind \notin {"home", "disable"}) /\ ~(s.sweep # NoSweep /\ cmd.kind # "disable")
  <2>1. t \in HandleCommand(s, cmd)
    BY <1>3 DEF Dispatch
  <2> QED BY <1>3, <2>1, HandleConsent
<1> QED BY <1>1, <1>2, <1>3

------------------------------------------------------------------------------
(* Types, whatever was consented to. *)

\* A handler returns a state of the loop and does not touch the history `late`.
Kept(s, t) == t \in Systems /\ t.late = s.late

LEMMA StopKept ==
  ASSUME NEW s \in Systems PROVE Kept(s, EndPreflight(OperatorStop(s)))
BY OperatorStopKeeps DEF StopLeft, Kept

LEMMA StoppedKept ==
  ASSUME NEW s \in Systems PROVE Kept(s, Stopped(s))
BY StoppedKeeps DEF Quieter, Kept

LEMMA ArmedKept ==
  ASSUME NEW s \in Systems, NEW cmd \in Cmds PROVE Kept(s, Armed(s, cmd))
BY ArmedKeeps DEF Kept

LEMMA SubmitKept ==
  ASSUME NEW s \in Systems, NEW cmd \in Cmds PROVE Kept(s, Submit(s, cmd))
<1> DEFINE a == [cmd |-> cmd, age |-> 0]
           defer(t) == [t EXCEPT !.arms = Append(@, a)]
<1>1. a \in Arms
  BY DEF Arms
<1>2. \/ Submit(s, cmd) = s \/ Submit(s, cmd) = Armed(s, cmd)
      \/ Submit(s, cmd) = defer(s) \/ Submit(s, cmd) = defer(Armed(s, cmd))
  BY DEF Submit
<1> HIDE DEF a
<1>3. ASSUME NEW t \in Systems PROVE defer(t) \in Systems /\ defer(t).late = t.late
  <2>1. t.arms \in Seq(Arms)
    BY DEF Systems
  <2>2. Append(t.arms, a) \in Seq(Arms)
    BY <2>1, <1>1, Push
  <2>3. defer(t) = [t EXCEPT !.arms = Append(t.arms, a)]
    BY DEF Systems
  <2> QED BY <2>2, <2>3 DEF Systems
<1> HIDE DEF defer
<1> QED BY <1>2, <1>3, ArmedKept DEF Kept

LEMMA HoldOffKept ==
  ASSUME NEW s \in Systems, NEW cmd \in Cmds PROVE Kept(s, HoldOff(s, cmd))
<1> DEFINE h == IF s.episode THEN Stopped(s) ELSE [s EXCEPT !.control = "Disabled"]
           t == HoldOff(s, cmd)
           w == [h.now EXCEPT !.off = cmd.stamp.off]
<1>1. h \in Systems /\ h.late = s.late
  <2>1. CASE s.episode
    BY <2>1, StoppedKept DEF Kept
  <2>2. CASE ~s.episode
    BY <2>2 DEF Systems
  <2> QED BY <2>1, <2>2
<1>2. t = [h EXCEPT !.arms = <<>>, !.now.off = cmd.stamp.off]
  BY DEF HoldOff
<1> HIDE DEF h, t
<1>3. h.now \in Stamps /\ cmd.stamp.off \in Nat
  BY <1>1, CmdTyped DEF Systems
<1>4. w \in Stamps
  BY <1>3 DEF Stamps
<1>5. t = [h EXCEPT !.arms = <<>>, !.now = w]
  BY <1>1, <1>2 DEF Systems
<1> HIDE DEF w
<1>6. t \in Systems /\ t.late = h.late
  BY <1>1, <1>4, <1>5, NothingWaits DEF Systems
<1> QED BY <1>1, <1>6 DEF t, Kept

LEMMA StartSweepKept ==
  ASSUME PiConstants, NEW s \in Systems, NEW cmd \in Cmds
  PROVE  \A t \in StartSweep(s, cmd) : Kept(s, t)
BY StartSweepTyped DEF Kept

LEMMA HandleKept ==
  ASSUME PiConstants, NEW s \in Systems, NEW cmd \in Cmds, NEW t \in HandleCommand(s, cmd)
  PROVE  Kept(s, t)
<1>1. CASE cmd.kind = "enable"
  BY <1>1, StartSweepKept DEF HandleCommand
<1>2. CASE cmd.kind = "disable"
  <2> DEFINE u == EndPreflight(OperatorStop(s))
  <2>1. t = [u EXCEPT !.enable = NoEnable, !.arms = <<>>]
    BY <1>2 DEF HandleCommand
  <2>2. u \in Systems /\ u.late = s.late
    BY StopKept DEF Kept
  <2> HIDE DEF u
  <2>3. NoEnable \in Int
    BY DEF NoEnable
  <2> QED BY <2>1, <2>2, <2>3, NothingWaits DEF Systems, Kept
<1>3. CASE cmd.kind = "home"
  <2>1. t = s \/ t = [s EXCEPT !.busy = TRUE]
    BY <1>3 DEF HandleCommand
  <2> QED BY <2>1 DEF Systems, Kept
<1>4. CASE cmd.kind = "arm"
  BY <1>4, SubmitKept DEF HandleCommand
<1>5. CASE cmd.kind = "mode"
  <2>1. t = s \/ t = [s EXCEPT !.control = "Other"]
    BY <1>5 DEF HandleCommand
  <2> QED BY <2>1 DEF Systems, Kept
<1>6. CASE cmd.kind = "holdoff"
  BY <1>6, HoldOffKept DEF HandleCommand
<1>7. CASE cmd.kind \notin {"enable", "disable", "home", "arm", "mode", "holdoff"}
  BY <1>7 DEF HandleCommand, Kept
<1> QED BY <1>1, <1>2, <1>3, <1>4, <1>5, <1>6, <1>7

LEMMA HoldTyped ==
  ASSUME NEW q \in Seq(Cmds), NEW cmd \in Cmds PROVE Hold(q, cmd) \in Seq(Cmds)
BY HoldPushes, Push

LEMMA DispatchKept ==
  ASSUME PiConstants, NEW s \in Systems, NEW cmd \in Cmds, NEW t \in Dispatch(s, cmd)
  PROVE  Kept(s, t)
<1> DEFINE q == Hold(s.queued, cmd)
           r == Hold(s.stdin, cmd)
<1>1. q \in Seq(Cmds) /\ r \in Seq(Cmds)
  BY HoldTyped DEF Systems
<1>2. t = [s EXCEPT !.queued = q] \/ t = [s EXCEPT !.stdin = r] \/ t \in HandleCommand(s, cmd)
  BY DEF Dispatch, Systems
<1> HIDE DEF q, r
<1>3. ASSUME t = [s EXCEPT !.queued = q] \/ t = [s EXCEPT !.stdin = r] PROVE Kept(s, t)
  BY <1>1, <1>3, ZenonT(40) DEF Systems, Kept
<1>4. ASSUME t \in HandleCommand(s, cmd) PROVE Kept(s, t)
  BY <1>4, HandleKept
<1> QED BY <1>2, <1>3, <1>4

LEMMA ChappeEnableKept ==
  ASSUME PiConstants, NEW s \in Systems, NEW cmd \in Cmds, NEW t \in ChappeEnable(s, cmd)
  PROVE  Kept(s, t)
<1> DEFINE r == Hold(s.chappe, cmd)
<1>1. r \in Seq(Cmds)
  BY HoldTyped DEF Systems
<1>2. \/ t = EndPreflight(OperatorStop(s)) \/ t = s \/ t = [s EXCEPT !.chappe = r]
      \/ t \in StartSweep(s, cmd)
  BY DEF ChappeEnable, Systems
<1> HIDE DEF r
<1>3. ASSUME t = [s EXCEPT !.chappe = r] PROVE Kept(s, t)
  BY <1>1, <1>3 DEF Systems, Kept
<1>4. Kept(s, s)
  BY DEF Kept
<1> QED BY <1>2, <1>3, <1>4, StopKept, StartSweepKept

LEMMA ApplyBatchKept ==
  ASSUME NEW s \in Systems, NEW cmd \in Cmds PROVE Kept(s, ApplyBatch(s, cmd))
<1>1. Kept(s, s)
  BY DEF Kept
<1> QED BY <1>1, ArmedKept DEF ApplyBatch

\* A sweep that passed, and an enable that was allowed.
Over(s) == [s EXCEPT !.sweep = NoSweep, !.swept = s.sweep.void]
Allowed(s, cmd) == [Energised(s, cmd) EXCEPT !.forbid = FALSE, !.explicit = cmd.stamp.stop]

\* What a passed sweep returns, by the request that it was for.
LEMMA PassedCases ==
  ASSUME NEW s \in Systems, s.sweep # NoSweep, NEW u \in Passed(s)
  PROVE  \/ s.sweep.then.kind = "position" /\ u = ApplyBatch(Over(s), s.sweep.then)
         \/ s.sweep.then.kind # "position" /\ u \in {Over(s), Stopped(Over(s))}
         \/ /\ s.sweep.then.kind # "position"
            /\ \/ u = Allowed(Over(s), s.sweep.then)
               \/ u = [Allowed(Over(s), s.sweep.then) EXCEPT !.enable = 0]
<1> DEFINE t == Over(s)
           cmd == s.sweep.then
           on == Allowed(t, cmd)
<1>1. u \in IF cmd.kind = "position" THEN {ApplyBatch(t, cmd)}
           ELSE IF ~MayEnable(t) THEN {t}
           ELSE {t, Stopped(t), IF pOwner = "stdin" THEN [on EXCEPT !.enable = 0] ELSE on}
  BY DEF Passed, Over, Allowed
<1> HIDE DEF t, cmd, on
<1>2. \/ cmd.kind = "position" /\ u = ApplyBatch(t, cmd)
      \/ cmd.kind # "position" /\ u \in {t, Stopped(t)}
      \/ cmd.kind # "position" /\ (u = on \/ u = [on EXCEPT !.enable = 0])
  BY <1>1
<1> QED BY <1>2 DEF t, cmd, on

LEMMA EnergisedKept ==
  ASSUME NEW s \in Systems, NEW cmd \in Cmds, NEW e, e = Energised(s, cmd)
  PROVE  /\ e \in Systems /\ e.mode = "Active"
         /\ e.on = IF s.mode = "Active" THEN s.on ELSE cmd.stamp
         /\ e.control = s.control /\ e.arm = s.arm
         /\ e.swept = s.swept /\ e.now = s.now /\ e.seen = s.seen /\ e.late = s.late
         /\ e.explicit = s.explicit /\ e.forbid = s.forbid /\ e.arms = s.arms
         /\ e.queued = s.queued /\ e.busy = s.busy /\ e.stdin = s.stdin /\ e.chappe = s.chappe
         /\ e.sweep = s.sweep
<1>1. CASE s.mode = "Active"
  BY <1>1 DEF Energised
<1>2. CASE s.mode # "Active"
  <2>1. e = [s EXCEPT !.mode = "Active", !.complete = FALSE, !.on = cmd.stamp]
    BY <1>2 DEF Energised
  <2>2. cmd.stamp \in Stamps
    BY CmdTyped
  <2> QED BY <1>2, <2>1, <2>2, ZenonT(40) DEF Systems
<1> QED BY <1>1, <1>2

LEMMA EnablePending ==
  ASSUME NEW s \in Systems, NEW age \in Int, NEW u, u = [s EXCEPT !.enable = age]
  PROVE  /\ u \in Systems /\ u.mode = s.mode /\ u.forbid = s.forbid /\ u.explicit = s.explicit
         /\ u.on = s.on /\ u.control = s.control /\ u.arm = s.arm
         /\ u.swept = s.swept /\ u.now = s.now /\ u.seen = s.seen /\ u.late = s.late
         /\ u.arms = s.arms /\ u.queued = s.queued /\ u.busy = s.busy /\ u.stdin = s.stdin
         /\ u.chappe = s.chappe /\ u.sweep = s.sweep
BY DEF Systems

\* An enable that was allowed.
LEMMA EnabledKeeps ==
  ASSUME NEW s \in Systems, NEW cmd \in Cmds, NEW u,
         u = Allowed(s, cmd)
  PROVE  /\ u \in Systems /\ u.mode = "Active" /\ ~u.forbid /\ u.explicit = cmd.stamp.stop
         /\ u.on = IF s.mode = "Active" THEN s.on ELSE cmd.stamp
         /\ u.control = s.control /\ u.arm = s.arm
         /\ u.swept = s.swept /\ u.now = s.now /\ u.seen = s.seen /\ u.late = s.late
         /\ u.arms = s.arms /\ u.queued = s.queued /\ u.busy = s.busy /\ u.stdin = s.stdin
         /\ u.chappe = s.chappe /\ u.sweep = s.sweep
<1> DEFINE e == Energised(s, cmd)
<1>1. /\ e \in Systems /\ e.mode = "Active"
      /\ e.on = IF s.mode = "Active" THEN s.on ELSE cmd.stamp
      /\ e.control = s.control /\ e.arm = s.arm
      /\ e.swept = s.swept /\ e.now = s.now /\ e.seen = s.seen /\ e.late = s.late
      /\ e.explicit = s.explicit /\ e.forbid = s.forbid /\ e.arms = s.arms
      /\ e.queued = s.queued /\ e.busy = s.busy /\ e.stdin = s.stdin /\ e.chappe = s.chappe
      /\ e.sweep = s.sweep
  BY EnergisedKept
<1>2. u = [e EXCEPT !.forbid = FALSE, !.explicit = cmd.stamp.stop]
  BY DEF Allowed
<1>3. cmd.stamp.stop \in Nat
  BY CmdTyped
<1> HIDE DEF e
<1>4. /\ u \in Systems /\ u.mode = e.mode /\ ~u.forbid /\ u.explicit = cmd.stamp.stop
      /\ u.on = e.on /\ u.control = e.control /\ u.arm = e.arm
      /\ u.swept = e.swept /\ u.now = e.now /\ u.seen = e.seen /\ u.late = e.late
      /\ u.arms = e.arms /\ u.queued = e.queued /\ u.busy = e.busy /\ u.stdin = e.stdin
      /\ u.chappe = e.chappe /\ u.sweep = e.sweep
  BY <1>1, <1>2, <1>3, ZenonT(40) DEF Systems
<1> QED BY <1>1, <1>4

\* The sweep is over and its request is about to go on.
LEMMA SweepOver ==
  ASSUME NEW s \in Systems, s.sweep # NoSweep, NEW t, t = Over(s)
  PROVE  /\ t \in Systems /\ t.sweep = NoSweep /\ t.swept = s.sweep.void /\ s.sweep \in Sweeps
         /\ s.sweep.then \in Cmds /\ t.now = s.now /\ t.seen = s.seen /\ t.late = s.late
         /\ t.on = s.on /\ t.arm = s.arm /\ t.explicit = s.explicit /\ t.mode = s.mode
         /\ t.control = s.control /\ t.forbid = s.forbid /\ t.arms = s.arms
         /\ t.queued = s.queued /\ t.busy = s.busy /\ t.stdin = s.stdin /\ t.chappe = s.chappe
<1>1. s.sweep \in Sweeps
  BY DEF Systems
<1>2. s.sweep.void \in SUBSET Causes /\ s.sweep.then \in Cmds
  BY <1>1 DEF Sweeps
<1>3. t \in Systems /\ t.swept = s.sweep.void
  BY <1>2 DEF Systems, Over
<1>4. /\ t.sweep = NoSweep
      /\ t.now = s.now /\ t.seen = s.seen /\ t.late = s.late
      /\ t.on = s.on /\ t.arm = s.arm /\ t.explicit = s.explicit /\ t.mode = s.mode
      /\ t.control = s.control /\ t.forbid = s.forbid /\ t.arms = s.arms
      /\ t.queued = s.queued /\ t.busy = s.busy /\ t.stdin = s.stdin /\ t.chappe = s.chappe
  BY DEF Systems, Over
<1> QED BY <1>1, <1>2, <1>3, <1>4

LEMMA AllowedKept ==
  ASSUME NEW s \in Systems, NEW cmd \in Cmds PROVE Kept(s, Allowed(s, cmd))
BY EnabledKeeps DEF Kept

LEMMA PassedKept ==
  ASSUME NEW s \in Systems, s.sweep # NoSweep, NEW u \in Passed(s) PROVE Kept(s, u)
<1> DEFINE t == Over(s)
           cmd == s.sweep.then
           on == Allowed(t, cmd)
<1>1. t \in Systems /\ t.late = s.late /\ cmd \in Cmds
  BY SweepOver
<1>2. u = ApplyBatch(t, cmd) \/ u \in {t, Stopped(t)} \/ u = on \/ u = [on EXCEPT !.enable = 0]
  BY PassedCases
<1> HIDE DEF t, cmd
<1>3. on \in Systems /\ on.late = t.late
  BY <1>1, AllowedKept DEF Kept
<1> HIDE DEF on
<1>4. ASSUME u = [on EXCEPT !.enable = 0] PROVE u \in Systems /\ u.late = on.late
  <2>1. 0 \in Int
    OBVIOUS
  <2> QED BY <1>3, <1>4, <2>1, EnablePending
<1> QED BY <1>1, <1>2, <1>3, <1>4, ApplyBatchKept, StoppedKept DEF Kept

LEMMA SliceKept ==
  ASSUME NEW s \in Systems, s.sweep # NoSweep, NEW u \in SliceOutcomes(s) PROVE Kept(s, u)
<1>1. s.sweep \in Sweeps
  BY DEF Systems
<1> DEFINE r == [s.sweep EXCEPT !.left = @ - 1]
<1>2. r \in Sweeps
  BY <1>1 DEF Sweeps
<1>3. u = EndPreflight(s) \/ u = [s EXCEPT !.sweep = r] \/ u \in Passed(s)
  BY DEF SliceOutcomes, Systems
<1> HIDE DEF r
<1>4. ASSUME u = [s EXCEPT !.sweep = r] PROVE Kept(s, u)
  BY <1>2, <1>4 DEF Systems, Kept
<1>5. ASSUME u = EndPreflight(s) PROVE Kept(s, u)
  BY <1>5, EndPreflightKeeps DEF Kept
<1> QED BY <1>3, <1>4, <1>5, PassedKept

\* The gate's ages are of no consequence.
LEMMA AgedKeeps ==
  ASSUME PiConstants, NEW s \in Systems PROVE Aged(s) \in Systems /\ Quieter(s, Aged(s))
<1> DEFINE older(age) == IF age < Patience THEN age + 1 ELSE age
           e == IF s.enable = NoEnable THEN s.enable ELSE older(s.enable)
           a == [i \in DOMAIN s.arms |-> [s.arms[i] EXCEPT !.age = older(@)]]
<1>1. s.arms \in Seq(Arms) /\ s.enable \in Int
  BY DEF Systems
<1>2. e \in Int
  BY <1>1 DEF PiConstants
<1>3. \A i \in DOMAIN s.arms : /\ [s.arms[i] EXCEPT !.age = older(@)] \in Arms
                               /\ [s.arms[i] EXCEPT !.age = older(@)].cmd = s.arms[i].cmd
  <2> TAKE i \in DOMAIN s.arms
  <2>1. s.arms[i] \in Arms
    BY <1>1
  <2> QED BY <2>1 DEF Arms, PiConstants
<1>4. a \in Seq(Arms) /\ DOMAIN a = DOMAIN s.arms /\ \A i \in DOMAIN s.arms : a[i].cmd = s.arms[i].cmd
  <2> DEFINE x(i) == [s.arms[i] EXCEPT !.age = older(@)]
  <2>1. \A i \in DOMAIN s.arms : x(i) \in Arms /\ x(i).cmd = s.arms[i].cmd
    BY <1>3
  <2>2. a = [i \in DOMAIN s.arms |-> x(i)]
    OBVIOUS
  <2> HIDE DEF x, a
  <2>3. a = [i \in 1 .. Len(s.arms) |-> x(i)] /\ Len(s.arms) \in Nat /\ DOMAIN s.arms = 1 .. Len(s.arms)
    BY <1>1, <2>2
  <2>4. \A i \in 1 .. Len(s.arms) : x(i) \in Arms
    BY <2>1, <2>3
  <2> QED BY <2>1, <2>2, <2>3, <2>4
<1>5. Aged(s) = [s EXCEPT !.enable = e, !.arms = a]
  <2> DEFINE u == [s EXCEPT !.enable = e]
             A(q) == [i \in DOMAIN q |-> [q[i] EXCEPT !.age = older(s.arms[i].age)]]
  <2>1. Aged(s) = [u EXCEPT !.arms = A(u.arms)]
    BY DEF Aged
  <2>2. u.arms = s.arms
    BY DEF Systems
  <2>3. a = A(s.arms)
    OBVIOUS
  <2> HIDE DEF A, a, e
  <2> QED BY <2>1, <2>2, <2>3
<1> HIDE DEF e, a
<1>6. Aged(s) \in Systems
  BY <1>2, <1>4, <1>5 DEF Systems
<1>7. /\ Aged(s).arms = a
      /\ Aged(s).swept = s.swept /\ Aged(s).now = s.now /\ Aged(s).seen = s.seen
      /\ Aged(s).late = s.late /\ Aged(s).on = s.on /\ Aged(s).arm = s.arm
      /\ Aged(s).explicit = s.explicit /\ Aged(s).queued = s.queued /\ Aged(s).stdin = s.stdin
      /\ Aged(s).busy = s.busy /\ Aged(s).chappe = s.chappe /\ Aged(s).sweep = s.sweep
      /\ Aged(s).mode = s.mode /\ Aged(s).control = s.control /\ Aged(s).forbid = s.forbid
  BY <1>5 DEF Systems
<1> QED BY <1>4, <1>6, <1>7 DEF Quieter

\* Whatever a tick does, no more moves afterwards.
LEMMA TickKeeps ==
  ASSUME NEW s \in Systems, NEW t \in TickOutcomes(s) PROVE t \in Systems /\ Quieter(s, t)
<1> DEFINE h == Stopped(s)
<1>1. \/ t = s \/ \E l \in BOOLEAN : t = [h EXCEPT !.latched = l, !.fault = TRUE]
      \/ t = [s EXCEPT !.complete = TRUE] \/ t = [s EXCEPT !.episode = TRUE, !.arms = <<>>]
  <2>1. {s.latched \/ s.episode, TRUE} \subseteq BOOLEAN
    OBVIOUS
  <2> HIDE DEF h
  <2> QED BY <2>1 DEF TickOutcomes, h
<1>2. h \in Systems /\ Quieter(s, h)
  BY StoppedKeeps
<1> HIDE DEF h
<1>3. CASE t = s
  BY <1>3 DEF Quieter
<1>4. CASE t = [s EXCEPT !.complete = TRUE]
  BY <1>4 DEF Systems, Quieter
<1>5. CASE t = [s EXCEPT !.episode = TRUE, !.arms = <<>>]
  BY <1>5, NothingWaits DEF Systems, Quieter
<1>6. ASSUME NEW l \in BOOLEAN, t = [h EXCEPT !.latched = l, !.fault = TRUE]
      PROVE  t \in Systems /\ Quieter(s, t)
  <2>1. t \in Systems /\ Quieter(h, t)
    BY <1>2, <1>6 DEF Systems, Quieter
  <2> QED BY <1>2, <2>1, QuieterChain
<1> QED BY <1>1, <1>3, <1>4, <1>5, <1>6

LEMMA ControlTickKeeps ==
  ASSUME PiConstants, NEW s \in Systems, NEW u \in {Aged(t) : t \in TickOutcomes(s)}
  PROVE  u \in Systems /\ Quieter(s, u)
<1>1. PICK t \in TickOutcomes(s) : u = Aged(t)
  OBVIOUS
<1>2. t \in Systems /\ Quieter(s, t)
  BY TickKeeps
<1>3. u \in Systems /\ Quieter(t, u)
  BY <1>1, <1>2, AgedKeeps
<1> QED BY <1>2, <1>3, QuieterChain

LEMMA QuieterKept == ASSUME NEW s, NEW t \in Systems, Quieter(s, t) PROVE Kept(s, t)
BY DEF Quieter, Kept

\* The gate gives up: all it waited for is dropped.
LEMMA PollRefusedKeeps ==
  ASSUME NEW s \in Systems, NEW t, t = PollRefused(s)
  PROVE  t \in Systems /\ Quieter(s, t) /\ t.arms = <<>>
<1> DEFINE h == Stopped(s)
<1>1. h \in Systems /\ Quieter(s, h)
  BY StoppedKeeps
<1>2. t = [h EXCEPT !.forbid = TRUE, !.enable = NoEnable, !.arms = <<>>]
  BY DEF PollRefused
<1> HIDE DEF h
<1>3. NoEnable \in Int
  BY DEF NoEnable
<1>4. t \in Systems /\ Quieter(h, t) /\ t.arms = <<>>
  BY <1>1, <1>2, <1>3, NothingWaits, ZenonT(40) DEF Systems, Quieter
<1> QED BY <1>1, <1>4, QuieterChain

------------------------------------------------------------------------------
(* Every step keeps the types, and `late` once it is set. *)

LEMMA StampedTyped ==
  ASSUME PiTypeOK, NEW kind \in Kinds
  PROVE  /\ Seen(kind) \in Nat /\ Seen(kind) >= pSys.seen /\ Stamped(kind) \in Cmds
         /\ Stamped(kind).kind = kind /\ Stamped(kind).stamp.stop = pSys.now.stop
         /\ Stamped(kind).stamp.off = Seen(kind)
<1>1. pSys.seen \in Nat /\ pSys.now \in Stamps
  BY DEF PiTypeOK, Systems
<1>2. pSys.now.stop \in Nat
  BY <1>1 DEF Stamps
<1>3. Seen(kind) \in Nat /\ Seen(kind) >= pSys.seen
  BY <1>1 DEF Seen
<1> QED BY <1>2, <1>3 DEF Stamped, Cmds, Stamps

\* What is at the head of a channel.
LEMMA WireHeads ==
  ASSUME PiTypeOK
  PROVE  /\ pWire.stdin # <<>> => Head(pWire.stdin) \in StdinKinds /\ Tail(pWire.stdin) \in Seq(StdinKinds)
         /\ pWire.enable # <<>> => /\ Head(pWire.enable) \in {"enable", "disable"}
                                   /\ Tail(pWire.enable) \in Seq({"enable", "disable"})
         /\ pWire.test # <<>> => /\ Head(pWire.test) \in {"position", "other"}
                                 /\ Tail(pWire.test) \in Seq({"position", "other"})
<1>1. /\ pWire.stdin \in Seq(StdinKinds) /\ pWire.enable \in Seq({"enable", "disable"})
      /\ pWire.test \in Seq({"position", "other"})
  BY DEF PiTypeOK, Wires
<1> QED BY <1>1, Pop

LEMMA WireTyped ==
  ASSUME PiConstants, PiTypeOK, PiNext PROVE pWire' \in Wires
<1>0. pWire \in Wires
  BY DEF PiTypeOK, Wires
<1>1. CASE UNCHANGED pWire
  BY <1>0, <1>1
<1>2. CASE StdinLine
  <2>1. PICK line \in StdinLines : pWire' = [pWire EXCEPT !.stdin = Append(@, ParseCommand(line))]
    BY <1>2 DEF StdinLine
  <2>2. ParseCommand(line) \in StdinKinds
    BY DEF ParseCommand, PiConstants, StdinKinds
  <2>3. pWire.stdin \in Seq(StdinKinds)
    BY <1>0 DEF Wires
  <2>4. Append(pWire.stdin, ParseCommand(line)) \in Seq(StdinKinds)
    BY <2>2, <2>3, Push
  <2> QED BY <1>0, <2>1, <2>4 DEF Wires
<1>3. CASE ChappeSend
  <2> DEFINE EnableMsgs == {"enable", "disable"}
             TestMsgs == {"position", "other"}
  <2>1. PICK msg \in ChappeSends :
          pWire' = CASE msg = "zero" -> [pWire EXCEPT !.zero = @ + 1]
                     [] msg \in {"position", "other"} -> [pWire EXCEPT !.test = Append(@, msg)]
                     [] msg \in {"enable", "disable"} ->
                          IF Len(pWire.enable) < ChannelSize
                          THEN [pWire EXCEPT !.enable = Append(@, msg)]
                          ELSE [pWire EXCEPT !.enable = Append(Tail(@), msg), !.lagged = TRUE]
    BY <1>3 DEF ChappeSend
  <2>2. msg \in {"zero", "position", "other", "enable", "disable"}
    BY DEF PiConstants
  <2>3. pWire.test \in Seq(TestMsgs) /\ pWire.enable \in Seq(EnableMsgs) /\ pWire.zero \in Nat
    BY <1>0 DEF Wires
  <2>4. CASE msg = "zero"
    <3>1. pWire' = [pWire EXCEPT !.zero = @ + 1]
      BY <2>1, <2>4
    <3> QED BY <1>0, <2>3, <3>1, SMTT(40) DEF Wires
  <2>5. CASE msg \in TestMsgs
    <3>1. pWire' = [pWire EXCEPT !.test = Append(@, msg)]
      BY <2>1, <2>5
    <3>2. Append(pWire.test, msg) \in Seq(TestMsgs)
      BY <2>3, <2>5, Push
    <3> QED BY <1>0, <3>1, <3>2 DEF Wires
  <2>6. CASE msg \in EnableMsgs
    <3>1. \/ pWire' = [pWire EXCEPT !.enable = Append(@, msg)]
          \/ /\ pWire' = [pWire EXCEPT !.enable = Append(Tail(@), msg), !.lagged = TRUE]
             /\ ~(Len(pWire.enable) < ChannelSize)
      BY <2>1, <2>6
    <3>2. Append(pWire.enable, msg) \in Seq(EnableMsgs)
      BY <2>3, <2>6, Push
    <3>3. ~(Len(pWire.enable) < ChannelSize) => pWire.enable # <<>>
      BY <2>3 DEF PiConstants
    <3>4. pWire.enable # <<>> => Tail(pWire.enable) \in Seq(EnableMsgs)
      BY <2>3, Pop
    <3>5. pWire.enable # <<>> => Append(Tail(pWire.enable), msg) \in Seq(EnableMsgs)
      BY <2>6, <3>4, Push
    <3> QED BY <1>0, <3>1, <3>2, <3>3, <3>5 DEF Wires
  <2> QED BY <2>2, <2>4, <2>5, <2>6
<1>4. CASE StdinReceived
  BY <1>0, <1>4, WireHeads DEF StdinReceived, Wires
<1>5. CASE SetZeroReceived
  <2>1. pWire' = [pWire EXCEPT !.zero = @ - 1] /\ pWire.zero > 0 /\ pWire.zero \in Nat
    BY <1>0, <1>5 DEF SetZeroReceived, Wires
  <2>2. pWire.zero - 1 \in Nat
    BY <2>1
  <2> QED BY <1>0, <2>1, <2>2 DEF Wires
<1>6. CASE EnableLagged
  <2>1. pWire' = [pWire EXCEPT !.enable = <<>>, !.lagged = FALSE]
    BY <1>6 DEF EnableLagged
  <2>2. <<>> \in Seq({"enable", "disable"})
    OBVIOUS
  <2> QED BY <1>0, <2>1, <2>2 DEF Wires
<1>7. CASE EnableReceived
  BY <1>0, <1>7, WireHeads DEF EnableReceived, Wires
<1>8. CASE TestReceived
  BY <1>0, <1>8, WireHeads DEF TestReceived, Wires
<1> QED BY <1>1, <1>2, <1>3, <1>4, <1>5, <1>6, <1>7, <1>8
        DEF PiNext, PiLoopStep, Boot, StdinHeld, StdinDone, SetZeroDone, EnableHeld, EnableDone,
            TestDone, AdvanceSweep, ControlTick, Pump, PumpEnds, PollGate, Publish,
            PublishSucceeds, Exit, StopRequested, Panic

LEMMA LoopTyped ==
  ASSUME PiTypeOK, PiNext
  PROVE  pOwner' = pOwner /\ pAt' \in Phases /\ pStop' \in BOOLEAN /\ pSent' \in Nat
<1> DEFINE Moved == \/ \E at \in Phases : Goto(at)
                    \/ pAt' \in Phases /\ UNCHANGED <<pOwner, pSent, pStop>>
<1>1. CASE StdinReceived
  BY <1>1 DEF PiTypeOK, StdinReceived, Goto, Phases
<1>2. CASE PollGate
  <2>1. Goto("poll") \/ Goto("publish")
    BY <1>2 DEF PollGate
  <2> QED BY <2>1 DEF PiTypeOK, Goto, Phases
<1>3. CASE PiLoopStep /\ ~StdinReceived /\ ~PollGate
  <2>1. Moved
    BY <1>3 DEF PiLoopStep, Boot, StdinHeld, StdinDone, SetZeroReceived, SetZeroDone, EnableHeld,
       EnableLagged, EnableReceived, EnableDone, TestReceived, TestDone, AdvanceSweep, ControlTick,
       Pump, PumpEnds, Publish, PublishSucceeds, Exit, Phases
  <2> QED BY <2>1 DEF PiTypeOK, Goto
<1>4. CASE StdinLine \/ ChappeSend
  <2>1. pSent' = pSent + 1 /\ UNCHANGED <<pOwner, pAt, pStop>>
    BY <1>4 DEF StdinLine, ChappeSend
  <2> QED BY <2>1 DEF PiTypeOK
<1>5. CASE StopRequested \/ Panic
  BY <1>5 DEF PiTypeOK, StopRequested, Panic, Phases
<1> QED BY <1>1, <1>2, <1>3, <1>4, <1>5 DEF PiNext

\* The head of the held Chappe commands is taken up; `late` records its age.
Taken(s) == [s EXCEPT !.chappe = Tail(@),
                      !.late = @ \/ Head(s.chappe).stamp.stop # s.now.stop]
LEMMA ChappePopped ==
  ASSUME NEW s \in Systems, s.chappe # <<>>, NEW u, NEW cmd, cmd = Head(s.chappe), u = Taken(s)
  PROVE  /\ u \in Systems /\ cmd \in Cmds /\ (s.late => u.late)
         /\ (~u.late => cmd.stamp.stop = s.now.stop) /\ u.chappe = Tail(s.chappe)
         /\ u.swept = s.swept /\ u.now = s.now /\ u.seen = s.seen
         /\ u.on = s.on /\ u.arm = s.arm /\ u.explicit = s.explicit /\ u.mode = s.mode
         /\ u.control = s.control /\ u.forbid = s.forbid /\ u.arms = s.arms
         /\ u.queued = s.queued /\ u.busy = s.busy /\ u.stdin = s.stdin /\ u.sweep = s.sweep
<1> DEFINE l == s.late \/ cmd.stamp.stop # s.now.stop
<1>1. s.chappe \in Seq(Cmds)
  BY DEF Systems
<1>2. cmd \in Cmds /\ Tail(s.chappe) \in Seq(Cmds)
  BY <1>1, Pop
<1>3. l \in BOOLEAN /\ (s.late => l) /\ (~l => cmd.stamp.stop = s.now.stop)
  OBVIOUS
<1>4. u = [s EXCEPT !.chappe = Tail(s.chappe), !.late = l]
  BY DEF Systems, Taken
<1> HIDE DEF l
<1>5. u \in Systems /\ u.late = l
  BY <1>2, <1>3, <1>4, ZenonT(40) DEF Systems
<1>6. /\ u.chappe = Tail(s.chappe) /\ u.swept = s.swept /\ u.now = s.now /\ u.seen = s.seen
      /\ u.on = s.on /\ u.arm = s.arm /\ u.explicit = s.explicit /\ u.mode = s.mode
      /\ u.control = s.control /\ u.forbid = s.forbid /\ u.arms = s.arms
      /\ u.queued = s.queued /\ u.busy = s.busy /\ u.stdin = s.stdin /\ u.sweep = s.sweep
  BY <1>4 DEF Systems
<1> QED BY <1>2, <1>3, <1>5, <1>6

\* The head of a queue of stdin commands is taken up.
LEMMA StdinPopped ==
  ASSUME NEW s \in Systems, NEW u,
         \/ s.queued # <<>> /\ u = [s EXCEPT !.queued = Tail(@)]
         \/ s.stdin # <<>> /\ u = [s EXCEPT !.stdin = Tail(@)]
  PROVE  /\ u \in Systems /\ u.late = s.late
         /\ u.swept = s.swept /\ u.now = s.now /\ u.seen = s.seen /\ u.chappe = s.chappe
         /\ u.on = s.on /\ u.arm = s.arm /\ u.explicit = s.explicit /\ u.mode = s.mode
         /\ u.control = s.control /\ u.forbid = s.forbid /\ u.arms = s.arms
         /\ u.busy = s.busy /\ u.sweep = s.sweep
<1>1. s.queued \in Seq(Cmds) /\ s.stdin \in Seq(Cmds)
  BY DEF Systems
<1>2. /\ s.queued # <<>> => Tail(s.queued) \in Seq(Cmds)
      /\ s.stdin # <<>> => Tail(s.stdin) \in Seq(Cmds)
  BY <1>1, Pop
<1>3. CASE s.queued # <<>> /\ u = [s EXCEPT !.queued = Tail(@)]
  BY <1>2, <1>3 DEF Systems
<1>4. CASE s.stdin # <<>> /\ u = [s EXCEPT !.stdin = Tail(@)]
  BY <1>2, <1>4 DEF Systems
<1> QED BY <1>3, <1>4

LEMMA SeenTyped ==
  ASSUME NEW s \in Systems, NEW n \in Nat, NEW u, u = [s EXCEPT !.seen = n]
  PROVE  /\ u \in Systems /\ u.late = s.late /\ u.seen = n
         /\ u.swept = s.swept /\ u.now = s.now /\ u.chappe = s.chappe
         /\ u.on = s.on /\ u.arm = s.arm /\ u.explicit = s.explicit /\ u.mode = s.mode
         /\ u.control = s.control /\ u.forbid = s.forbid /\ u.arms = s.arms
         /\ u.queued = s.queued /\ u.busy = s.busy /\ u.stdin = s.stdin /\ u.sweep = s.sweep
BY DEF Systems

\* The steps of EnableGate::poll.
LEMMA PollCases ==
  ASSUME PollGate
  PROVE  \/ pSys.enable # NoEnable /\ pSys' = [pSys EXCEPT !.enable = NoEnable] /\ Goto("poll")
         \/ pSys.enable # NoEnable /\ pSys.mode = "Active" /\ pSys' = pSys /\ Goto("publish")
         \/ pSys' = PollRefused(pSys) /\ Goto("publish")
         \/ pSys.arms = <<>> /\ pSys' = pSys /\ Goto("publish")
         \/ /\ pSys.arms # <<>> /\ ~ArmRefused(pSys) /\ Goto("publish")
            /\ pSys' = Armed(pSys, Head(pSys.arms).cmd)
         \/ /\ pSys.arms # <<>> /\ ArmRefused(pSys) /\ Goto("poll")
            /\ pSys' = [pSys EXCEPT !.arms = Tail(@)]
         \/ /\ pSys.arms # <<>> /\ ~ArmRefused(pSys) /\ Goto("poll")
            /\ pSys' = [Armed(pSys, Head(pSys.arms).cmd) EXCEPT !.arms = Tail(@)]
<1>1. CASE pSys.enable # NoEnable
  BY <1>1 DEF PollGate, Completion
<1>2. CASE pSys.enable = NoEnable /\ pSys.arms = <<>>
  BY <1>2 DEF PollGate
<1>3. CASE pSys.enable = NoEnable /\ pSys.arms # <<>>
  BY <1>3 DEF PollGate
<1> QED BY <1>1, <1>2, <1>3

LEMMA ArmsHead ==
  ASSUME NEW s \in Systems, s.arms # <<>>
  PROVE  /\ Head(s.arms) \in Arms /\ Head(s.arms).cmd \in Cmds /\ Tail(s.arms) \in Seq(Arms)
         /\ 1 \in DOMAIN s.arms /\ Head(s.arms) = s.arms[1]
         /\ \A i \in DOMAIN Tail(s.arms) : i + 1 \in DOMAIN s.arms /\ Tail(s.arms)[i] = s.arms[i + 1]
<1>1. s.arms \in Seq(Arms)
  BY DEF Systems
<1>2. /\ Head(s.arms) \in Arms /\ Head(s.arms) = s.arms[1] /\ 1 \in DOMAIN s.arms
      /\ Tail(s.arms) \in Seq(Arms)
      /\ \A i \in DOMAIN Tail(s.arms) : i + 1 \in DOMAIN s.arms /\ Tail(s.arms)[i] = s.arms[i + 1]
  BY <1>1, Pop
<1> QED BY <1>2 DEF Arms

\* The gate's front arm is done with.
LEMMA ArmsPopped ==
  ASSUME NEW s \in Systems, s.arms # <<>>, NEW u, u = [s EXCEPT !.arms = Tail(@)]
  PROVE  /\ u \in Systems /\ u.late = s.late /\ u.seen = s.seen /\ u.arms = Tail(s.arms)
         /\ u.swept = s.swept /\ u.now = s.now /\ u.chappe = s.chappe
         /\ u.on = s.on /\ u.arm = s.arm /\ u.explicit = s.explicit /\ u.mode = s.mode
         /\ u.control = s.control /\ u.forbid = s.forbid
         /\ u.queued = s.queued /\ u.busy = s.busy /\ u.stdin = s.stdin /\ u.sweep = s.sweep
<1>1. Tail(s.arms) \in Seq(Arms)
  BY ArmsHead
<1> QED BY <1>1 DEF Systems

LEMMA NotPending ==
  ASSUME NEW s \in Systems, NEW u, u = [s EXCEPT !.enable = NoEnable]
  PROVE  u \in Systems /\ Quieter(s, u)
<1>1. NoEnable \in Int
  BY DEF NoEnable
<1> QED BY <1>1 DEF Systems, Quieter

LEMMA PollTyped ==
  ASSUME PiTypeOK, PollGate PROVE Kept(pSys, pSys')
<1>0. pSys \in Systems
  BY DEF PiTypeOK
<1>1. CASE pSys' = pSys
  BY <1>0, <1>1 DEF Kept
<1>2. CASE pSys' = [pSys EXCEPT !.enable = NoEnable]
  BY <1>0, <1>2, NotPending, QuieterKept
<1>3. CASE pSys' = PollRefused(pSys)
  BY <1>0, <1>3, PollRefusedKeeps, QuieterKept
<1>4. CASE pSys.arms # <<>> /\ pSys' = Armed(pSys, Head(pSys.arms).cmd)
  BY <1>0, <1>4, ArmsHead, ArmedKept
<1>5. CASE pSys.arms # <<>> /\ pSys' = [pSys EXCEPT !.arms = Tail(@)]
  BY <1>0, <1>5, ArmsPopped DEF Kept
<1>6. CASE pSys.arms # <<>> /\ pSys' = [Armed(pSys, Head(pSys.arms).cmd) EXCEPT !.arms = Tail(@)]
  <2> DEFINE t == Armed(pSys, Head(pSys.arms).cmd)
  <2>1. t \in Systems /\ t.late = pSys.late /\ t.arms = pSys.arms
    BY <1>0, <1>6, ArmsHead, ArmedKeeps
  <2>2. pSys' = [t EXCEPT !.arms = Tail(@)] /\ t.arms # <<>>
    BY <1>6, <2>1
  <2> HIDE DEF t
  <2> QED BY <2>1, <2>2, ArmsPopped DEF Kept
<1> QED BY <1>1, <1>2, <1>3, <1>4, <1>5, <1>6, PollCases

LEMMA SysTyped ==
  ASSUME PiConstants, PiTypeOK, PiNext
  PROVE  pSys' \in Systems /\ (pSys.late => pSys'.late)
<1>0. pSys \in Systems
  BY DEF PiTypeOK
<1> DEFINE Goal == pSys' \in Systems /\ (pSys.late => pSys'.late)
<1>1. ASSUME Kept(pSys, pSys') PROVE Goal
  BY <1>1 DEF Kept
<1>2. CASE pSys' = pSys
  BY <1>0, <1>2
<1>3. CASE StdinHeld
  <2>1. CASE ReadyQueued
    <3> DEFINE u == [pSys EXCEPT !.queued = Tail(@)]
               cmd == Head(pSys.queued)
    <3>1. pSys.queued # <<>> /\ pSys' \in Dispatch(u, cmd)
      BY <1>3, <2>1 DEF StdinHeld, ReadyQueued
    <3>2. u \in Systems /\ u.late = pSys.late
      BY <1>0, <3>1, StdinPopped
    <3>3. cmd \in Cmds
      BY <1>0, <3>1, Pop DEF Systems
    <3> HIDE DEF u, cmd
    <3> QED BY <3>1, <3>2, <3>3, DispatchKept DEF Kept
  <2>2. CASE ~ReadyQueued
    <3> DEFINE u == [pSys EXCEPT !.stdin = Tail(@)]
               cmd == Head(pSys.stdin)
    <3>1. pSys.stdin # <<>> /\ pSys' \in Dispatch(u, cmd)
      BY <1>3, <2>2 DEF StdinHeld, ReadyStdin
    <3>2. u \in Systems /\ u.late = pSys.late
      BY <1>0, <3>1, StdinPopped
    <3>3. cmd \in Cmds
      BY <1>0, <3>1, Pop DEF Systems
    <3> HIDE DEF u, cmd
    <3> QED BY <3>1, <3>2, <3>3, DispatchKept DEF Kept
  <2> QED BY <2>1, <2>2
<1>4. CASE StdinReceived
  <2> DEFINE kind == Head(pWire.stdin)
             u == [pSys EXCEPT !.seen = Seen(kind)]
             cmd == Stamped(kind)
  <2>1. kind \in Kinds
    BY <1>4, WireHeads DEF StdinReceived, Kinds
  <2>2. pSys' = pSys \/ pSys' = CancelQueue(pSys) \/ pSys' \in Dispatch(u, cmd)
    BY <1>4 DEF StdinReceived
  <2>3. CASE pSys' = CancelQueue(pSys)
    BY <1>0, <2>3, CancelKeeps
  <2>4. Seen(kind) \in Nat /\ cmd \in Cmds
    BY <2>1, StampedTyped
  <2> HIDE DEF kind
  <2>5. u \in Systems /\ u.late = pSys.late
    BY <1>0, <2>4, SeenTyped
  <2> HIDE DEF u, cmd
  <2>6. CASE pSys' \in Dispatch(u, cmd)
    BY <2>4, <2>5, <2>6, DispatchKept DEF Kept
  <2> QED BY <1>2, <2>2, <2>3, <2>6
<1>5. CASE SetZeroReceived
  <2>1. pSys' = pSys \/ pSys' = [pSys EXCEPT !.busy = TRUE]
    BY <1>5 DEF SetZeroReceived
  <2> QED BY <1>0, <2>1 DEF Systems
<1>6. CASE EnableHeld
  <2> DEFINE cmd == Head(pSys.chappe)
             u == Taken(pSys)
  <2>1. pSys.chappe # <<>> /\ pSys' \in ChappeEnable(u, cmd)
    BY <1>6 DEF EnableHeld, ReadyChappe, Taken
  <2>2. u \in Systems /\ cmd \in Cmds /\ (pSys.late => u.late)
    BY <1>0, <2>1, ChappePopped
  <2> HIDE DEF u, cmd
  <2>3. Kept(u, pSys')
    BY <2>1, <2>2, ChappeEnableKept
  <2> QED BY <2>2, <2>3 DEF Kept
<1>7. CASE EnableLagged
  BY <1>0, <1>1, <1>7, StopKept DEF EnableLagged
<1>8. CASE EnableReceived
  <2> DEFINE cmd == Stamped(Head(pWire.enable))
  <2>1. Head(pWire.enable) \in Kinds
    BY <1>8, WireHeads DEF EnableReceived, Kinds, StdinKinds
  <2>2. cmd \in Cmds
    BY <2>1, StampedTyped
  <2>3. pSys' = pSys \/ pSys' \in ChappeEnable(pSys, cmd)
    BY <1>8 DEF EnableReceived
  <2> HIDE DEF cmd
  <2>4. CASE pSys' \in ChappeEnable(pSys, cmd)
    BY <1>0, <1>1, <2>2, <2>4, ChappeEnableKept
  <2> QED BY <1>2, <2>3, <2>4
<1>9. CASE TestReceived
  <2> DEFINE cmd == Stamped(Head(pWire.test))
  <2>1. Head(pWire.test) \in Kinds
    BY <1>9, WireHeads DEF TestReceived, Kinds
  <2>2. cmd \in Cmds
    BY <2>1, StampedTyped
  <2>3. pSys' = pSys \/ pSys' \in StartSweep(pSys, cmd) \/ pSys' = ApplyBatch(pSys, cmd)
    BY <1>9 DEF TestReceived
  <2> HIDE DEF cmd
  <2>4. CASE pSys' \in StartSweep(pSys, cmd)
    BY <1>0, <1>1, <2>2, <2>4, StartSweepKept
  <2>5. CASE pSys' = ApplyBatch(pSys, cmd)
    BY <1>0, <1>1, <2>2, <2>5, ApplyBatchKept
  <2> QED BY <1>2, <2>3, <2>4, <2>5
<1>10. CASE TestDone
  <2>1. "limits" \in Causes
    BY DEF Causes
  <2>2. pSys' = pSys \/ pSys' = Voided(pSys, "limits")
    BY <1>10 DEF TestDone
  <2>3. Kept(pSys, Voided(pSys, "limits"))
    BY <1>0, <2>1, VoidedTyped, VoidedQuieter, QuieterKept
  <2> QED BY <1>1, <1>2, <2>2, <2>3
<1>11. CASE AdvanceSweep
  <2>1. \/ pSys' = pSys \/ pSys' = EndPreflight(pSys)
        \/ pSys.sweep # NoSweep /\ pSys' \in SliceOutcomes(pSys)
    BY <1>11 DEF AdvanceSweep
  <2>2. Kept(pSys, EndPreflight(pSys))
    BY <1>0, EndPreflightKeeps DEF Kept
  <2>3. pSys.sweep # NoSweep /\ pSys' \in SliceOutcomes(pSys) => Kept(pSys, pSys')
    BY <1>0, SliceKept
  <2> QED BY <1>1, <1>2, <2>1, <2>2, <2>3
<1>12. CASE ControlTick
  <2>1. pSys' \in {Aged(t) : t \in TickOutcomes(pSys)}
    BY <1>12 DEF ControlTick
  <2>2. pSys' \in Systems /\ Quieter(pSys, pSys')
    BY <1>0, <2>1, ControlTickKeeps
  <2> QED BY <1>1, <2>2, QuieterKept
<1>13. CASE Pump
  BY <1>0, <1>1, <1>2, <1>13, StoppedKept DEF Pump
<1>14. CASE PumpEnds
  <2> DEFINE h == Stopped(pSys)
  <2>1. h \in Systems /\ h.late = pSys.late
    BY <1>0, StoppedKept DEF Kept
  <2>2. pSys' = [h EXCEPT !.busy = FALSE] \/ pSys' = CancelQueue(h)
    BY <1>14 DEF PumpEnds
  <2> HIDE DEF h
  <2>3. CASE pSys' = CancelQueue(h)
    BY <2>1, <2>3, CancelKeeps
  <2>4. CASE pSys' = [h EXCEPT !.busy = FALSE]
    BY <2>1, <2>4 DEF Systems
  <2> QED BY <2>2, <2>3, <2>4
<1>15. CASE PollGate
  BY <1>1, <1>15, PollTyped
<1>16. CASE PublishSucceeds
  <2>1. pSys' = [pSys EXCEPT !.fault = FALSE]
    BY <1>16 DEF PublishSucceeds
  <2> QED BY <1>0, <2>1 DEF Systems
<1>17. CASE Exit
  <2> DEFINE v == CancelQueue(pSys)
             w == EndPreflight(v)
  <2>1. v \in Systems /\ v.late = pSys.late
    BY <1>0, CancelKeeps
  <2>2. w \in Systems /\ w.late = v.late
    BY <2>1, EndPreflightKeeps
  <2>3. pSys' = Stopped(w)
    BY <1>17 DEF Exit
  <2> HIDE DEF v, w
  <2> QED BY <2>1, <2>2, <2>3, StoppedKept DEF Kept
<1>18. CASE Panic
  <2> DEFINE h == Stopped(pSys)
  <2>1. h \in Systems /\ h.late = pSys.late
    BY <1>0, StoppedKept DEF Kept
  <2>2. pSys' = [h EXCEPT !.forbid = TRUE]
    BY <1>18 DEF Panic
  <2> HIDE DEF h
  <2> QED BY <2>1, <2>2 DEF Systems
<1> QED BY <1>2, <1>3, <1>4, <1>5, <1>6, <1>7, <1>8, <1>9, <1>10, <1>11, <1>12, <1>13, <1>14,
           <1>15, <1>16, <1>17, <1>18
        DEF PiNext, PiLoopStep, Boot, StdinDone, SetZeroDone, EnableDone, Publish, StdinLine,
            ChappeSend, StopRequested

------------------------------------------------------------------------------
(* Every step keeps the consent. *)

\* What does not depend on what waits.
LEMMA RestConsent ==
  ASSUME NEW s \in Systems, NEW u \in Systems, NEW at, NEW o, Consent(s, at, o),
         u.swept = s.swept, u.now = s.now, u.seen >= s.seen,
         u.on = s.on, u.arm = s.arm, u.explicit = s.explicit, u.mode = s.mode,
         u.control = s.control, u.forbid = s.forbid
  PROVE  Stands(u) /\ Permitted(u) /\ u.now.off <= u.seen
<1>1. s.now.off \in Nat /\ s.seen \in Nat /\ u.seen \in Nat
  BY DEF Systems, Stamps
<1> QED BY <1>1 DEF Consent, Stands, Permitted

\* The head of a line of held stdin commands is next.
LEMMA HeldConsent ==
  ASSUME PiTypeOK, Consent(pSys, "stdin", pOwner),
         NEW u, NEW cmd,
         \/ ReadyQueued /\ u = [pSys EXCEPT !.queued = Tail(@)] /\ cmd = Head(pSys.queued)
         \/ /\ ~ReadyQueued /\ ReadyStdin /\ u = [pSys EXCEPT !.stdin = Tail(@)]
            /\ cmd = Head(pSys.stdin)
  PROVE  /\ u \in Systems /\ cmd \in Cmds /\ u.late = pSys.late
         /\ Consent(u, "stdin", pOwner) /\ Fresh(u, cmd) /\ InTurn(u, cmd)
         /\ (cmd.kind = "arm" => pOwner = "stdin") /\ NextInLine(u, cmd)
<1> DEFINE s == pSys
<1>0. s \in Systems /\ s.queued \in Seq(Cmds) /\ s.stdin \in Seq(Cmds) /\ s.seen \in Nat
  BY DEF PiTypeOK, Systems
<1>1. /\ Waiting(s, pOwner, s.queued) /\ Waiting(s, pOwner, s.stdin)
      /\ Sorted(s.queued) /\ Sorted(s.stdin) /\ Placed(s, "stdin") /\ SweepFresh(s)
      /\ ArmsFresh(s, "stdin", pOwner) /\ ChappeHeld(s, pOwner)
      /\ IF s.busy THEN Before(s.queued, s.stdin) ELSE Before(s.stdin, s.queued)
  BY DEF Consent, Lines
<1>2. CASE ReadyQueued /\ u = [pSys EXCEPT !.queued = Tail(@)] /\ cmd = Head(pSys.queued)
  <2>1. s.queued # <<>> /\ ~s.busy
    BY <1>2 DEF ReadyQueued
  <2>2. /\ u \in Systems /\ u.late = s.late
        /\ u.swept = s.swept /\ u.now = s.now /\ u.seen = s.seen /\ u.chappe = s.chappe
        /\ u.on = s.on /\ u.arm = s.arm /\ u.explicit = s.explicit /\ u.mode = s.mode
        /\ u.control = s.control /\ u.forbid = s.forbid /\ u.arms = s.arms
        /\ u.busy = s.busy /\ u.sweep = s.sweep
    BY <1>0, <1>2, <2>1, StdinPopped
  <2>3. u.queued = Tail(s.queued) /\ u.stdin = s.stdin
    BY <1>0, <1>2 DEF Systems
  <2>4. /\ cmd \in Cmds /\ Tail(s.queued) \in Seq(Cmds)
        /\ Fresh(s, cmd) /\ InTurn(s, cmd) /\ cmd.kind # "disable"
        /\ cmd.kind = "arm" => pOwner = "stdin"
        /\ Waiting(s, pOwner, Tail(s.queued)) /\ Sorted(Tail(s.queued))
        /\ \A i \in DOMAIN Tail(s.queued) : cmd.stamp.off <= Tail(s.queued)[i].stamp.off
        /\ \E k \in DOMAIN s.queued : cmd = s.queued[k]
        /\ \A i \in DOMAIN Tail(s.queued) : \E k \in DOMAIN s.queued : Tail(s.queued)[i] = s.queued[k]
    BY <1>0, <1>1, <1>2, <2>1, PopWaiting, ZenonT(40)
  <2>5. Before(s.stdin, Tail(s.queued)) /\ \A i \in DOMAIN s.stdin : s.stdin[i].stamp.off <= cmd.stamp.off
    BY <1>1, <2>1, <2>4 DEF Before
  <2> HIDE DEF s
  <2>6. Stands(u) /\ Permitted(u) /\ u.now.off <= u.seen
    <3>1. u.seen >= s.seen /\ Consent(s, "stdin", pOwner)
      BY <1>0, <2>2 DEF s
    <3> QED BY <1>0, <2>2, <3>1, RestConsent
  <2>7. Lines(u, pOwner)
    BY <1>1, <2>1, <2>2, <2>3, <2>4, <2>5, SMTT(40) DEF Lines, Waiting, Fresh, InTurn
  <2>8. Placed(u, "stdin") /\ SweepFresh(u) /\ ArmsFresh(u, "stdin", pOwner) /\ ChappeHeld(u, pOwner)
    BY <1>1, <2>1, <2>2, <2>3 DEF Placed, SweepFresh, ArmsFresh, ChappeHeld, Fresh
  <2>9. NextInLine(u, cmd)
    BY <1>1, <2>1, <2>2, <2>3, <2>4, <2>5 DEF NextInLine, Placed
  <2>10. Fresh(u, cmd) /\ InTurn(u, cmd)
    BY <2>2, <2>4 DEF Fresh, InTurn
  <2>11. Consent(u, "stdin", pOwner)
    BY <2>6, <2>7, <2>8 DEF Consent
  <2> QED BY <2>2, <2>4, <2>9, <2>10, <2>11 DEF s
<1>3. CASE /\ ~ReadyQueued /\ ReadyStdin /\ u = [pSys EXCEPT !.stdin = Tail(@)]
           /\ cmd = Head(pSys.stdin)
  <2>1. s.stdin # <<>> /\ s.sweep = NoSweep /\ (s.busy \/ s.queued = <<>>)
    BY <1>3 DEF ReadyQueued, ReadyStdin
  <2>2. /\ u \in Systems /\ u.late = s.late
        /\ u.swept = s.swept /\ u.now = s.now /\ u.seen = s.seen /\ u.chappe = s.chappe
        /\ u.on = s.on /\ u.arm = s.arm /\ u.explicit = s.explicit /\ u.mode = s.mode
        /\ u.control = s.control /\ u.forbid = s.forbid /\ u.arms = s.arms
        /\ u.busy = s.busy /\ u.sweep = s.sweep
    BY <1>0, <1>3, <2>1, StdinPopped
  <2>3. u.stdin = Tail(s.stdin) /\ u.queued = s.queued
    BY <1>0, <1>3 DEF Systems
  <2>4. /\ cmd \in Cmds /\ Tail(s.stdin) \in Seq(Cmds)
        /\ Fresh(s, cmd) /\ InTurn(s, cmd) /\ cmd.kind # "disable"
        /\ cmd.kind = "arm" => pOwner = "stdin"
        /\ Waiting(s, pOwner, Tail(s.stdin)) /\ Sorted(Tail(s.stdin))
        /\ \A i \in DOMAIN Tail(s.stdin) : cmd.stamp.off <= Tail(s.stdin)[i].stamp.off
        /\ \E k \in DOMAIN s.stdin : cmd = s.stdin[k]
        /\ \A i \in DOMAIN Tail(s.stdin) : \E k \in DOMAIN s.stdin : Tail(s.stdin)[i] = s.stdin[k]
    BY <1>0, <1>1, <1>3, <2>1, PopWaiting, ZenonT(40)
  <2>5. /\ s.busy => Before(s.queued, Tail(s.stdin))
        /\ s.busy => \A i \in DOMAIN s.queued : s.queued[i].stamp.off <= cmd.stamp.off
        /\ ~s.busy => Before(Tail(s.stdin), s.queued)
    BY <1>1, <2>1, <2>4 DEF Before
  <2> HIDE DEF s
  <2>6. Stands(u) /\ Permitted(u) /\ u.now.off <= u.seen
    <3>1. u.seen >= s.seen /\ Consent(s, "stdin", pOwner)
      BY <1>0, <2>2 DEF s
    <3> QED BY <1>0, <2>2, <3>1, RestConsent
  <2>7. Lines(u, pOwner)
    BY <1>1, <2>1, <2>2, <2>3, <2>4, <2>5 DEF Lines, Waiting, Fresh, InTurn
  <2>8. Placed(u, "stdin") /\ SweepFresh(u) /\ ArmsFresh(u, "stdin", pOwner) /\ ChappeHeld(u, pOwner)
    BY <1>1, <2>1, <2>2, <2>3 DEF Placed, SweepFresh, ArmsFresh, ChappeHeld, Fresh
  <2>9. NextInLine(u, cmd)
    BY <1>1, <2>1, <2>2, <2>3, <2>4, <2>5 DEF NextInLine, Placed
  <2>10. Fresh(u, cmd) /\ InTurn(u, cmd)
    BY <2>2, <2>4 DEF Fresh, InTurn
  <2>11. Consent(u, "stdin", pOwner)
    BY <2>6, <2>7, <2>8 DEF Consent
  <2> QED BY <2>2, <2>4, <2>9, <2>10, <2>11 DEF s
<1> QED BY <1>2, <1>3

\* A command just received is behind all that waits.
LEMMA ReceivedConsent ==
  ASSUME PiTypeOK, Consent(pSys, "stdin", pOwner), ~ReadyQueued, ~ReadyStdin,
         NEW kind \in Kinds, Admitted("stdin", kind),
         NEW u, u = [pSys EXCEPT !.seen = Seen(kind)], NEW cmd, cmd = Stamped(kind)
  PROVE  /\ u \in Systems /\ cmd \in Cmds /\ u.late = pSys.late
         /\ Consent(u, "stdin", pOwner) /\ Fresh(u, cmd) /\ InTurn(u, cmd)
         /\ (cmd.kind = "arm" => pOwner = "stdin") /\ NextInLine(u, cmd)
<1> DEFINE s == pSys
<1>0. s \in Systems /\ s.queued \in Seq(Cmds) /\ s.stdin \in Seq(Cmds) /\ s.seen \in Nat
      /\ s.now.off \in Nat
  BY DEF PiTypeOK, Systems, Stamps
<1>1. /\ Waiting(s, pOwner, s.queued) /\ Waiting(s, pOwner, s.stdin)
      /\ Sorted(s.queued) /\ Sorted(s.stdin) /\ Placed(s, "stdin") /\ SweepFresh(s)
      /\ ArmsFresh(s, "stdin", pOwner) /\ ChappeHeld(s, pOwner) /\ s.now.off <= s.seen
      /\ IF s.busy THEN Before(s.queued, s.stdin) ELSE Before(s.stdin, s.queued)
  BY DEF Consent, Lines
<1>2. (s.busy \/ s.queued = <<>>) /\ (s.sweep # NoSweep \/ s.stdin = <<>>)
  BY DEF ReadyQueued, ReadyStdin
<1>3. s.busy => s.sweep = NoSweep /\ s.stdin = <<>>
  BY <1>1, <1>2 DEF Placed
<1>4. /\ Seen(kind) \in Nat /\ Seen(kind) >= s.seen /\ cmd \in Cmds
      /\ cmd.kind = kind /\ cmd.stamp.stop = s.now.stop /\ cmd.stamp.off = Seen(kind)
  BY StampedTyped
<1>5. cmd.kind = "arm" => pOwner = "stdin"
  BY <1>4 DEF Admitted, Class
<1>6. /\ u \in Systems /\ u.late = s.late /\ u.seen = Seen(kind)
      /\ u.swept = s.swept /\ u.now = s.now /\ u.chappe = s.chappe
      /\ u.on = s.on /\ u.arm = s.arm /\ u.explicit = s.explicit /\ u.mode = s.mode
      /\ u.control = s.control /\ u.forbid = s.forbid /\ u.arms = s.arms
      /\ u.queued = s.queued /\ u.busy = s.busy /\ u.stdin = s.stdin /\ u.sweep = s.sweep
  BY <1>0, <1>4, SeenTyped
<1> HIDE DEF s
<1>7. Stands(u) /\ Permitted(u) /\ u.now.off <= u.seen
  <2>1. u.seen >= s.seen /\ Consent(s, "stdin", pOwner)
    BY <1>4, <1>6 DEF s
  <2> QED BY <1>0, <1>6, <2>1, RestConsent
<1>8. /\ \A i \in DOMAIN s.queued : s.queued[i].stamp.off \in Nat /\ s.queued[i].stamp.off <= s.seen
      /\ \A i \in DOMAIN s.stdin : s.stdin[i].stamp.off \in Nat /\ s.stdin[i].stamp.off <= s.seen
  <2>1. /\ \A i \in DOMAIN s.queued : s.queued[i] \in Cmds
        /\ \A i \in DOMAIN s.stdin : s.stdin[i] \in Cmds
    BY <1>0
  <2> QED BY <1>1, <2>1, CmdTyped DEF Waiting, InTurn
<1>9. /\ \A i \in DOMAIN s.queued : s.queued[i].stamp.off <= Seen(kind)
      /\ \A i \in DOMAIN s.stdin : s.stdin[i].stamp.off <= Seen(kind)
  BY <1>0, <1>4, <1>8
<1>10. Waiting(u, pOwner, s.queued) /\ Waiting(u, pOwner, s.stdin)
  BY <1>1, <1>6, <1>9 DEF Waiting, Fresh, InTurn
<1>11. Lines(u, pOwner)
  BY <1>1, <1>6, <1>10 DEF Lines
<1>12. Placed(u, "stdin") /\ SweepFresh(u) /\ ArmsFresh(u, "stdin", pOwner) /\ ChappeHeld(u, pOwner)
  BY <1>1, <1>6 DEF Placed, SweepFresh, ArmsFresh, ChappeHeld, Fresh
<1>13. NextInLine(u, cmd)
  BY <1>2, <1>3, <1>4, <1>6, <1>9 DEF NextInLine
<1>14. Fresh(u, cmd) /\ InTurn(u, cmd)
  BY <1>0, <1>1, <1>4, <1>6 DEF Fresh, InTurn
<1>15. Consent(u, "stdin", pOwner)
  BY <1>7, <1>11, <1>12 DEF Consent
<1> QED BY <1>4, <1>5, <1>6, <1>13, <1>14, <1>15 DEF s

\* What has ended: only what stands counts.
LEMMA EndedConsent ==
  ASSUME NEW s \in Systems, NEW u \in Systems, NEW at, NEW o, Consent(s, at, o),
         u.swept = s.swept, u.now = s.now, u.seen = s.seen,
         u.on = s.on, u.arm = s.arm, u.explicit = s.explicit, u.mode \in {s.mode, "Disabled"},
         u.control \in {s.control, "Disabled"}, s.forbid => u.forbid,
         NEW to, to \in {"exit", "closed"}
  PROVE  Consent(u, to, o)
<1>1. Stands(u) /\ Permitted(u) /\ u.now.off <= u.seen
  BY DEF Consent, Stands, Permitted
<1> QED BY <1>1 DEF Consent

LEMMA StdinConsent ==
  ASSUME PiConstants, PiTypeOK, Consent(pSys, pAt, pOwner), ~pSys'.late,
         StdinHeld \/ StdinReceived \/ StdinDone
  PROVE  Consent(pSys', pAt', pOwner)
<1>0. pSys \in Systems /\ pAt = "stdin" /\ Consent(pSys, "stdin", pOwner)
  BY DEF PiTypeOK, StdinHeld, StdinReceived, StdinDone, Phase
<1>1. CASE StdinHeld
  <2>1. PICK u, cmd :
          /\ pSys' \in Dispatch(u, cmd)
          /\ \/ ReadyQueued /\ u = [pSys EXCEPT !.queued = Tail(@)] /\ cmd = Head(pSys.queued)
             \/ /\ ~ReadyQueued /\ ReadyStdin /\ u = [pSys EXCEPT !.stdin = Tail(@)]
                /\ cmd = Head(pSys.stdin)
    BY <1>1 DEF StdinHeld
  <2>2. /\ u \in Systems /\ cmd \in Cmds /\ u.late = pSys.late
        /\ Consent(u, "stdin", pOwner) /\ Fresh(u, cmd) /\ InTurn(u, cmd)
        /\ (cmd.kind = "arm" => pOwner = "stdin") /\ NextInLine(u, cmd)
    BY <1>0, <2>1, HeldConsent
  <2>3. pAt' = "stdin"
    BY <1>1 DEF StdinHeld, Goto
  <2> QED BY <2>1, <2>2, <2>3, DispatchConsent
<1>2. CASE StdinReceived
  <2> DEFINE kind == Head(pWire.stdin)
             u == [pSys EXCEPT !.seen = Seen(kind)]
             cmd == Stamped(kind)
  <2>1. kind \in Kinds /\ ~ReadyQueued /\ ~ReadyStdin
    BY <1>2, WireHeads DEF StdinReceived, Kinds
  <2>2. \/ pSys' = CancelQueue(pSys) /\ pAt' = "exit"
        \/ pSys' = pSys /\ pAt' = "stdin"
        \/ pSys' \in Dispatch(u, cmd) /\ pAt' = "stdin" /\ Admitted("stdin", kind)
    BY <1>2 DEF StdinReceived, Goto
  <2>3. CASE pSys' = CancelQueue(pSys) /\ pAt' = "exit"
    <3>1. /\ pSys' \in Systems
          /\ pSys'.swept = pSys.swept /\ pSys'.now = pSys.now /\ pSys'.seen = pSys.seen
          /\ pSys'.on = pSys.on /\ pSys'.arm = pSys.arm /\ pSys'.explicit = pSys.explicit
          /\ pSys'.mode = pSys.mode /\ pSys'.control = pSys.control /\ pSys'.forbid = pSys.forbid
      BY <1>0, <2>3, CancelKeeps
    <3> QED BY <1>0, <2>3, <3>1, EndedConsent
  <2>4. CASE pSys' \in Dispatch(u, cmd) /\ pAt' = "stdin" /\ Admitted("stdin", kind)
    <3>1. /\ u \in Systems /\ cmd \in Cmds /\ u.late = pSys.late
          /\ Consent(u, "stdin", pOwner) /\ Fresh(u, cmd) /\ InTurn(u, cmd)
          /\ (cmd.kind = "arm" => pOwner = "stdin") /\ NextInLine(u, cmd)
      BY <1>0, <2>1, <2>4, ReceivedConsent
    <3> HIDE DEF u, cmd
    <3> QED BY <2>4, <3>1, DispatchConsent
  <2> QED BY <1>0, <2>2, <2>3, <2>4
<1>3. CASE StdinDone
  <2>1. /\ pSys' = pSys /\ pAt' = "zero" /\ (pSys.busy \/ pSys.queued = <<>>)
        /\ (pSys.sweep # NoSweep \/ pSys.stdin = <<>>)
    BY <1>3 DEF StdinDone, Goto, ReadyQueued, ReadyStdin
  <2>2. Turns(pSys, "stdin", "zero")
    BY <2>1 DEF Turns
  <2>3. Consent(pSys, "zero", pOwner)
    BY <1>0, <2>2, PhaseConsent
  <2> QED BY <2>1, <2>3
<1> QED BY <1>1, <1>2, <1>3

LEMMA ZeroConsent ==
  ASSUME PiTypeOK, Consent(pSys, pAt, pOwner), SetZeroReceived \/ SetZeroDone
  PROVE  Consent(pSys', pAt', pOwner)
<1>0. pSys \in Systems /\ pAt = "zero" /\ Consent(pSys, "zero", pOwner)
  BY DEF PiTypeOK, SetZeroReceived, SetZeroDone, Phase
<1>1. CASE SetZeroDone
  <2>1. pSys' = pSys /\ pAt' = "enable"
    BY <1>1 DEF SetZeroDone, Goto
  <2>2. Turns(pSys, "zero", "enable")
    BY DEF Turns
  <2>3. Consent(pSys, "enable", pOwner)
    BY <1>0, <2>2, PhaseConsent
  <2> QED BY <2>1, <2>3
<1>2. CASE SetZeroReceived /\ pSys' = pSys
  BY <1>0, <1>2 DEF SetZeroReceived, Goto
<1>3. CASE SetZeroReceived /\ pSys' # pSys
  <2> DEFINE s == pSys
             t == [s EXCEPT !.busy = TRUE]
  <2>1. pAt' = "zero" /\ ~s.busy /\ pSys' = t
    BY <1>3 DEF SetZeroReceived, Goto
  <2>2. s \in Systems /\ Consent(s, "zero", pOwner)
    BY <1>0
  <2> HIDE DEF s
  <2>3. /\ t \in Systems /\ t.busy /\ t.swept = s.swept /\ t.now = s.now
        /\ t.seen = s.seen /\ t.on = s.on /\ t.arm = s.arm /\ t.explicit = s.explicit
        /\ t.mode = s.mode /\ t.control = s.control /\ t.forbid = s.forbid
        /\ t.queued = s.queued /\ t.stdin = s.stdin /\ t.chappe = s.chappe
        /\ t.sweep = s.sweep /\ t.arms = s.arms
    BY <2>2 DEF Systems
  <2> HIDE DEF t
  <2>4. s.queued = <<>>
    BY <2>1, <2>2 DEF Consent, Placed
  <2>5. Stands(t) /\ Permitted(t) /\ t.now.off <= t.seen
    BY <2>2, <2>3 DEF Consent, Stands, Permitted
  <2>6. Lines(t, pOwner)
    BY <2>2, <2>3, <2>4 DEF Consent, Lines, Waiting, Fresh, InTurn, Before
  <2>7. Placed(t, "zero") /\ SweepFresh(t) /\ ChappeHeld(t, pOwner)
    BY <2>2, <2>3, <2>4 DEF Consent, Placed, SweepFresh, ChappeHeld, Fresh
  <2>8. ArmsFresh(t, "zero", pOwner)
    BY <2>2, <2>3 DEF Consent, ArmsFresh, Fresh
  <2>9. Consent(t, "zero", pOwner)
    BY <2>5, <2>6, <2>7, <2>8 DEF Consent
  <2> QED BY <2>1, <2>9
<1> QED BY <1>1, <1>2, <1>3

\* handle_chappe_enable on a current request of the Chappe owner.
LEMMA ChappeEnableConsent ==
  ASSUME PiConstants, NEW s \in Systems, NEW cmd \in Cmds, NEW o, Consent(s, "enable", o),
         cmd.kind = "enable" \/ cmd.kind = "disable",
         cmd.kind = "enable" => o = "chappe" /\ Fresh(s, cmd),
         NEW t \in ChappeEnable(s, cmd)
  PROVE  Consent(t, "enable", o)
<1>1. CASE cmd.kind = "disable"
  <2>2. t = EndPreflight(OperatorStop(s))
    BY <1>1 DEF ChappeEnable
  <2>3. t \in Systems /\ StopLeft(s, t) /\ t.arms = s.arms
    BY <2>2, OperatorStopKeeps
  <2>4. s.sweep = NoSweep => s.stdin = <<>>
    BY DEF Consent, Placed
  <2>5. t.arms # <<>> => t.arms = s.arms /\ "enable" = "enable"
    BY <2>3
  <2> QED BY <2>3, <2>4, <2>5, StopConsent
<1>2. CASE cmd.kind = "enable"
  <2>0. o = "chappe" /\ s.arms = <<>> /\ Fresh(s, cmd)
    BY <1>2 DEF Consent, ArmsFresh
  <2>1. CASE s.busy
    BY <1>2, <2>1 DEF ChappeEnable
  <2>2. CASE ~s.busy /\ s.sweep # NoSweep
    <3> DEFINE r == Hold(s.chappe, cmd)
    <3>1. t = [s EXCEPT !.chappe = r]
      BY <1>2, <2>2 DEF ChappeEnable
    <3>2. r \in Seq(Cmds) /\ \A i \in DOMAIN r : (i \in DOMAIN s.chappe /\ r[i] = s.chappe[i]) \/ r[i] = cmd
      <4>1. s.chappe \in Seq(Cmds) /\ r \in {s.chappe, Append(s.chappe, cmd)}
        BY HoldPushes DEF Systems
      <4> QED BY <4>1, Push
    <3> HIDE DEF r
    <3>3. /\ t.chappe = r /\ t.swept = s.swept /\ t.now = s.now
          /\ t.seen = s.seen /\ t.on = s.on /\ t.arm = s.arm /\ t.explicit = s.explicit
          /\ t.mode = s.mode /\ t.control = s.control /\ t.forbid = s.forbid
          /\ t.queued = s.queued /\ t.stdin = s.stdin /\ t.busy = s.busy
          /\ t.sweep = s.sweep /\ t.arms = s.arms
      BY <3>1 DEF Systems
    <3>4. Stands(t) /\ Permitted(t) /\ t.now.off <= t.seen
      BY <3>3 DEF Consent, Stands, Permitted
    <3>5. Lines(t, o) /\ Placed(t, "enable")
      BY <3>3 DEF Consent, Lines, Waiting, Fresh, InTurn, Placed
    <3>6. SweepFresh(t) /\ ArmsFresh(t, "enable", o)
      BY <3>3 DEF Consent, SweepFresh, ArmsFresh, Fresh
    <3>7. ChappeHeld(t, o)
      BY <1>2, <2>0, <3>2, <3>3 DEF Consent, ChappeHeld
    <3> QED BY <3>4, <3>5, <3>6, <3>7 DEF Consent
  <2>3. CASE ~s.busy /\ s.sweep = NoSweep
    <3>1. t \in StartSweep(s, cmd)
      BY <1>2, <2>3 DEF ChappeEnable
    <3> QED BY <1>2, <2>0, <2>3, <3>1, StartSweepConsent
  <2> QED BY <2>1, <2>2, <2>3
<1> QED BY <1>1, <1>2

LEMMA EnableConsent ==
  ASSUME PiConstants, PiTypeOK, Consent(pSys, pAt, pOwner), ~pSys'.late,
         EnableHeld \/ EnableLagged \/ EnableReceived \/ EnableDone
  PROVE  Consent(pSys', pAt', pOwner)
<1>0. pSys \in Systems /\ pAt = "enable" /\ Consent(pSys, "enable", pOwner)
  BY DEF PiTypeOK, EnableHeld, EnableLagged, EnableReceived, EnableDone, Phase
<1>1. CASE EnableHeld
  <2> DEFINE s == pSys
             cmd == Head(s.chappe)
             u == Taken(s)
  <2>1. s.chappe # <<>> /\ pSys' \in ChappeEnable(u, cmd) /\ pAt' = "enable" /\ s.chappe \in Seq(Cmds)
    BY <1>0, <1>1 DEF EnableHeld, ReadyChappe, Taken, Goto, Systems
  <2>2. /\ u \in Systems /\ cmd \in Cmds
        /\ (~u.late => cmd.stamp.stop = s.now.stop) /\ u.chappe = Tail(s.chappe)
        /\ u.swept = s.swept /\ u.now = s.now /\ u.seen = s.seen
        /\ u.on = s.on /\ u.arm = s.arm /\ u.explicit = s.explicit /\ u.mode = s.mode
        /\ u.control = s.control /\ u.forbid = s.forbid /\ u.arms = s.arms
        /\ u.queued = s.queued /\ u.busy = s.busy /\ u.stdin = s.stdin /\ u.sweep = s.sweep
    BY <1>0, <2>1, ChappePopped
  <2>3. s \in Systems /\ Consent(s, "enable", pOwner)
    BY <1>0
  <2>4. /\ cmd = s.chappe[1] /\ 1 \in DOMAIN s.chappe
        /\ \A i \in DOMAIN Tail(s.chappe) : i + 1 \in DOMAIN s.chappe /\ Tail(s.chappe)[i] = s.chappe[i + 1]
    BY <2>1, Pop
  <2>5. s.chappe # <<>>
    BY <2>1
  <2> HIDE DEF s
  <2> HIDE DEF cmd, u
  <2>6. cmd.kind = "enable" /\ pOwner = "chappe"
    BY <2>3, <2>4, <2>5 DEF Consent, ChappeHeld
  <2>7. ~u.late
    BY <2>1, <2>2, ChappeEnableKept DEF Kept
  <2>8. Stands(u) /\ Permitted(u) /\ u.now.off <= u.seen
    BY <2>2, <2>3 DEF Consent, Stands, Permitted
  <2>9. Lines(u, pOwner) /\ Placed(u, "enable")
    BY <2>2, <2>3 DEF Consent, Lines, Waiting, Fresh, InTurn, Placed
  <2>10. SweepFresh(u) /\ ArmsFresh(u, "enable", pOwner)
    BY <2>2, <2>3 DEF Consent, SweepFresh, ArmsFresh, Fresh
  <2>11. ChappeHeld(u, pOwner)
    BY <2>2, <2>3, <2>4, <2>6 DEF Consent, ChappeHeld
  <2>12. Consent(u, "enable", pOwner)
    BY <2>8, <2>9, <2>10, <2>11 DEF Consent
  <2>13. Fresh(u, cmd)
    BY <2>2, <2>7 DEF Fresh
  <2>14. Consent(pSys', "enable", pOwner)
    BY <2>1, <2>2, <2>6, <2>12, <2>13, ChappeEnableConsent
  <2> QED BY <2>1, <2>14
<1>2. CASE EnableLagged
  <2> DEFINE t == EndPreflight(OperatorStop(pSys))
  <2>1. pSys' = t /\ pAt' = "test"
    BY <1>2 DEF EnableLagged, Goto
  <2>2. t \in Systems /\ StopLeft(pSys, t) /\ t.arms = pSys.arms
    BY <1>0, OperatorStopKeeps
  <2> HIDE DEF t
  <2>3. pSys.sweep = NoSweep => pSys.stdin = <<>>
    BY <1>0 DEF Consent, Placed
  <2>4. t.arms # <<>> => t.arms = pSys.arms /\ "enable" = "enable"
    BY <2>2
  <2>5. Consent(t, "enable", pOwner)
    BY <1>0, <2>2, <2>3, <2>4, StopConsent
  <2>6. Turns(t, "enable", "test")
    BY DEF Turns
  <2>7. Consent(t, "test", pOwner)
    BY <2>2, <2>5, <2>6, PhaseConsent
  <2> QED BY <2>1, <2>7
<1>3. CASE EnableReceived
  <2> DEFINE kind == Head(pWire.enable)
             cmd == Stamped(kind)
  <2>1. pAt' = "enable"
    BY <1>3 DEF EnableReceived, Goto
  <2>2. kind \in Kinds /\ kind \in {"enable", "disable"}
    BY <1>3, WireHeads DEF EnableReceived, Kinds, StdinKinds
  <2>3. \/ pSys' = pSys
        \/ pSys' \in ChappeEnable(pSys, cmd) /\ Admitted("chappe", kind)
    BY <1>3 DEF EnableReceived
  <2>4. cmd \in Cmds /\ cmd.kind = kind /\ cmd.stamp.stop = pSys.now.stop
    BY <2>2, StampedTyped
  <2> HIDE DEF kind, cmd
  <2>5. CASE pSys' \in ChappeEnable(pSys, cmd) /\ Admitted("chappe", kind)
    <3>1. kind = "enable" => pOwner = "chappe"
      BY <2>5 DEF Admitted, Class
    <3>2. Consent(pSys', "enable", pOwner)
      BY <1>0, <2>2, <2>4, <2>5, <3>1, ChappeEnableConsent DEF Fresh
    <3> QED BY <2>1, <3>2
  <2> QED BY <1>0, <2>1, <2>3, <2>5
<1>4. CASE EnableDone
  <2>1. pSys' = pSys /\ pAt' = "test"
    BY <1>4 DEF EnableDone, Goto
  <2>2. Turns(pSys, "enable", "test")
    BY DEF Turns
  <2>3. Consent(pSys, "test", pOwner)
    BY <1>0, <2>2, PhaseConsent
  <2> QED BY <2>1, <2>3
<1> QED BY <1>1, <1>2, <1>3, <1>4

\* A batch of the Chappe owner that is current.
LEMMA ApplyBatchConsent ==
  ASSUME NEW s \in Systems, NEW cmd \in Cmds, NEW at, NEW o, Consent(s, at, o),
         Fresh(s, cmd), cmd.kind # "other" => cmd.stamp.off >= s.now.off
  PROVE  Consent(ApplyBatch(s, cmd), at, o)
<1>1. CASE cmd.kind = "other" \/ ArmRefused(s)
  BY <1>1 DEF ApplyBatch
<1>2. CASE ~(cmd.kind = "other" \/ ArmRefused(s))
  BY <1>2, ArmedConsent DEF ApplyBatch
<1> QED BY <1>1, <1>2

LEMMA TestConsent ==
  ASSUME PiConstants, PiTypeOK, Consent(pSys, pAt, pOwner), TestReceived \/ TestDone
  PROVE  Consent(pSys', pAt', pOwner)
<1>0. pSys \in Systems /\ pAt = "test" /\ Consent(pSys, "test", pOwner)
  BY DEF PiTypeOK, TestReceived, TestDone, Phase
<1>1. CASE TestReceived
  <2> DEFINE kind == Head(pWire.test)
             cmd == Stamped(kind)
  <2>1. pAt' = "test" /\ pSys.sweep = NoSweep
    BY <1>1 DEF TestReceived, Goto
  <2>2. kind \in Kinds /\ kind \in {"position", "other"}
    BY <1>1, WireHeads DEF TestReceived, Kinds
  <2>3. /\ cmd \in Cmds /\ cmd.kind = kind /\ cmd.stamp.stop = pSys.now.stop
        /\ cmd.stamp.off = Seen(kind) /\ Seen(kind) \in Nat /\ Seen(kind) >= pSys.seen
    BY <2>2, StampedTyped
  <2>4. \/ pSys' = pSys
        \/ /\ Admitted("chappe", cmd.kind) /\ ~pSys.busy
           /\ pSys' \in StartSweep(pSys, cmd) \/ pSys' = ApplyBatch(pSys, cmd)
    BY <1>1 DEF TestReceived
  <2> HIDE DEF kind, cmd
  <2>5. Fresh(pSys, cmd) /\ cmd.stamp.off >= pSys.now.off
    <3>1. pSys.now.off \in Nat /\ pSys.seen \in Nat
      BY <1>0 DEF Systems, Stamps
    <3> QED BY <1>0, <2>3, <3>1 DEF Fresh, Consent
  <2>6. CASE pSys' = ApplyBatch(pSys, cmd)
    <3>1. Consent(ApplyBatch(pSys, cmd), "test", pOwner)
      BY <1>0, <2>3, <2>5, ApplyBatchConsent
    <3> QED BY <2>1, <2>6, <3>1
  <2>7. CASE Admitted("chappe", cmd.kind) /\ ~pSys.busy /\ pSys' \in StartSweep(pSys, cmd)
    <3>1. pOwner = "chappe"
      BY <2>2, <2>3, <2>7 DEF Admitted, Class
    <3>2. pSys.arms = <<>>
      BY <1>0, <3>1 DEF Consent, ArmsFresh
    <3>3. Consent(pSys', "test", pOwner)
      BY <1>0, <2>1, <2>3, <2>5, <2>7, <3>2, StartSweepConsent
    <3> QED BY <2>1, <3>3
  <2> QED BY <1>0, <2>1, <2>4, <2>6, <2>7
<1>2. CASE TestDone
  <2>1. (pSys' = pSys \/ pSys' = Voided(pSys, "limits")) /\ pAt' = "sweep" /\ "limits" \in Causes
    BY <1>2 DEF TestDone, Goto, Causes
  <2>2. pSys' \in Systems /\ Consent(pSys', "test", pOwner)
    BY <1>0, <2>1, VoidedTyped, VoidedQuieter, QuieterConsent
  <2>3. Turns(pSys', "test", "sweep")
    BY DEF Turns
  <2>4. Consent(pSys', "sweep", pOwner)
    BY <2>2, <2>3, PhaseConsent
  <2> QED BY <2>1, <2>4
<1> QED BY <1>1, <1>2

\* The sweep's end discards all that waited behind it.
LEMMA EndPreflightConsent ==
  ASSUME NEW s \in Systems, s.sweep # NoSweep, NEW o, Consent(s, "sweep", o),
         NEW t, t = EndPreflight(s)
  PROVE  t \in Systems /\ Consent(t, "sweep", o)
<1>1. /\ t \in Systems /\ t.sweep = NoSweep
      /\ t.stdin = IF s.sweep = NoSweep THEN s.stdin ELSE <<>>
      /\ t.chappe = IF s.sweep = NoSweep THEN s.chappe ELSE <<>>
      /\ t.swept = s.swept /\ t.now = s.now /\ t.seen = s.seen /\ t.late = s.late
      /\ t.on = s.on /\ t.arm = s.arm /\ t.explicit = s.explicit /\ t.mode = s.mode
      /\ t.control = s.control /\ t.forbid = s.forbid /\ t.arms = s.arms
      /\ t.queued = s.queued /\ t.busy = s.busy
  BY EndPreflightKeeps
<1>2. t.stdin = <<>> /\ t.chappe = <<>> /\ t.queued = <<>>
  BY <1>1 DEF Consent, Placed
<1>3. Stands(t) /\ Permitted(t) /\ t.now.off <= t.seen
  BY <1>1 DEF Consent, Stands, Permitted
<1>4. Lines(t, o) /\ Placed(t, "sweep")
  BY <1>1, <1>2 DEF Lines, Waiting, Sorted, Before, Placed
<1>5. SweepFresh(t) /\ ArmsFresh(t, "sweep", o) /\ ChappeHeld(t, o)
  BY <1>1, <1>2 DEF Consent, SweepFresh, ArmsFresh, ChappeHeld, Fresh
<1> QED BY <1>1, <1>3, <1>4, <1>5 DEF Consent

\* A sweep in which nothing happened is over.
LEMMA OverConsent ==
  ASSUME NEW s \in Systems, s.sweep # NoSweep, NEW o, Consent(s, "sweep", o), s.sweep.void = {},
         NEW t, t = Over(s)
  PROVE  /\ t \in Systems /\ Consent(t, "tick", o) /\ s.sweep.then \in Cmds
         /\ Fresh(t, s.sweep.then)
         /\ (s.sweep.then.kind = "position" => s.sweep.then.stamp.off >= t.now.off)
         /\ \A i \in DOMAIN t.arms : Fresh(t, t.arms[i].cmd)
<1>1. /\ t \in Systems /\ t.sweep = NoSweep /\ t.swept = s.sweep.void
      /\ s.sweep.then \in Cmds /\ t.now = s.now /\ t.seen = s.seen
      /\ t.on = s.on /\ t.arm = s.arm /\ t.explicit = s.explicit /\ t.mode = s.mode
      /\ t.control = s.control /\ t.forbid = s.forbid /\ t.arms = s.arms
      /\ t.queued = s.queued /\ t.busy = s.busy /\ t.stdin = s.stdin /\ t.chappe = s.chappe
  BY SweepOver
<1>2. s.queued = <<>>
  BY DEF Consent, Placed
<1>3. Stands(t) /\ Permitted(t) /\ t.now.off <= t.seen
  BY <1>1 DEF Consent, Stands, Permitted
<1>4. Lines(t, o) /\ Placed(t, "tick")
  BY <1>1, <1>2 DEF Consent, Lines, Waiting, Fresh, InTurn, Placed
<1>5. \A i \in DOMAIN s.arms : Fresh(s, s.arms[i].cmd)
  BY DEF Consent, ArmsFresh
<1>6. SweepFresh(t) /\ ArmsFresh(t, "tick", o) /\ ChappeHeld(t, o)
  BY <1>1, <1>5 DEF Consent, SweepFresh, ArmsFresh, ChappeHeld, Fresh
<1>7. Consent(t, "tick", o)
  BY <1>3, <1>4, <1>6 DEF Consent
<1>8. /\ Fresh(t, s.sweep.then)
      /\ (s.sweep.then.kind = "position" => s.sweep.then.stamp.off >= t.now.off)
      /\ \A i \in DOMAIN t.arms : Fresh(t, t.arms[i].cmd)
  BY <1>1, <1>5 DEF Consent, SweepFresh, Fresh
<1> QED BY <1>1, <1>7, <1>8

\* The enable that the sweep was for.
LEMMA AllowedConsent ==
  ASSUME NEW s \in Systems, NEW cmd \in Cmds, NEW o, Consent(s, "tick", o), Fresh(s, cmd),
         \A i \in DOMAIN s.arms : Fresh(s, s.arms[i].cmd), NEW u, u = Allowed(s, cmd)
  PROVE  u \in Systems /\ Consent(u, "tick", o)
<1>1. /\ u \in Systems /\ u.mode = "Active" /\ ~u.forbid /\ u.explicit = cmd.stamp.stop
      /\ u.on = IF s.mode = "Active" THEN s.on ELSE cmd.stamp
      /\ u.control = s.control /\ u.arm = s.arm
      /\ u.swept = s.swept /\ u.now = s.now /\ u.seen = s.seen /\ u.late = s.late
      /\ u.arms = s.arms /\ u.queued = s.queued /\ u.busy = s.busy /\ u.stdin = s.stdin
      /\ u.chappe = s.chappe /\ u.sweep = s.sweep
  BY EnabledKeeps
<1>2. Stands(u) /\ Permitted(u) /\ u.now.off <= u.seen
  BY <1>1 DEF Consent, Stands, Permitted, Fresh
<1>3. Lines(u, o) /\ Placed(u, "tick")
  BY <1>1 DEF Consent, Lines, Waiting, Fresh, InTurn, Placed
<1>4. SweepFresh(u) /\ ArmsFresh(u, "tick", o) /\ ChappeHeld(u, o)
  BY <1>1 DEF Consent, SweepFresh, ArmsFresh, ChappeHeld, Fresh
<1> QED BY <1>1, <1>2, <1>3, <1>4 DEF Consent

LEMMA PendingQuieter ==
  ASSUME NEW s \in Systems, NEW age \in Int, NEW u, u = [s EXCEPT !.enable = age]
  PROVE  u \in Systems /\ Quieter(s, u)
BY DEF Systems, Quieter

LEMMA PassedConsent ==
  ASSUME NEW s \in Systems, s.sweep # NoSweep, NEW o, Consent(s, "sweep", o), s.sweep.void = {},
         NEW u \in Passed(s)
  PROVE  Consent(u, "tick", o)
<1> DEFINE t == Over(s)
           cmd == s.sweep.then
           on == Allowed(t, cmd)
<1>1. /\ t \in Systems /\ Consent(t, "tick", o) /\ cmd \in Cmds /\ Fresh(t, cmd)
      /\ (cmd.kind = "position" => cmd.stamp.off >= t.now.off)
      /\ \A i \in DOMAIN t.arms : Fresh(t, t.arms[i].cmd)
  BY OverConsent
<1>2. \/ cmd.kind = "position" /\ u = ApplyBatch(t, cmd)
      \/ cmd.kind # "position" /\ u \in {t, Stopped(t)}
      \/ cmd.kind # "position" /\ (u = on \/ u = [on EXCEPT !.enable = 0])
  BY PassedCases
<1> HIDE DEF t, cmd
<1>3. on \in Systems /\ Consent(on, "tick", o)
  BY <1>1, AllowedConsent
<1> HIDE DEF on
<1>4. CASE cmd.kind = "position" /\ u = ApplyBatch(t, cmd)
  BY <1>1, <1>4, ApplyBatchConsent
<1>5. CASE u \in {t, Stopped(t)}
  <2>1. Stopped(t) \in Systems /\ Quieter(t, Stopped(t))
    BY <1>1, StoppedKeeps
  <2>2. Consent(Stopped(t), "tick", o)
    BY <1>1, <2>1, QuieterConsent
  <2> QED BY <1>1, <1>5, <2>2
<1>6. CASE u = [on EXCEPT !.enable = 0]
  <2>1. 0 \in Int
    OBVIOUS
  <2>2. u \in Systems /\ Quieter(on, u)
    BY <1>3, <1>6, <2>1, PendingQuieter
  <2> QED BY <1>3, <2>2, QuieterConsent
<1> QED BY <1>2, <1>3, <1>4, <1>5, <1>6

LEMMA SweepConsent ==
  ASSUME PiTypeOK, Consent(pSys, pAt, pOwner), AdvanceSweep
  PROVE  Consent(pSys', pAt', pOwner)
<1>0. pSys \in Systems /\ Consent(pSys, "sweep", pOwner) /\ pAt' = "tick"
  BY DEF PiTypeOK, AdvanceSweep, Phase, Goto
<1>1. CASE pSys.sweep = NoSweep
  <2>1. pSys' = pSys
    BY <1>1 DEF AdvanceSweep
  <2>2. Turns(pSys, "sweep", "tick")
    BY <1>1 DEF Turns
  <2>3. Consent(pSys, "tick", pOwner)
    BY <1>0, <2>2, PhaseConsent
  <2> QED BY <1>0, <2>1, <2>3
<1>2. CASE pSys.sweep # NoSweep /\ pSys' = EndPreflight(pSys)
  <2>1. pSys' \in Systems /\ Consent(pSys', "sweep", pOwner)
    BY <1>0, <1>2, EndPreflightConsent
  <2>2. pSys'.sweep = NoSweep
    BY <1>0, <1>2, EndPreflightKeeps
  <2>3. Turns(pSys', "sweep", "tick")
    BY <2>2 DEF Turns
  <2>4. Consent(pSys', "tick", pOwner)
    BY <2>1, <2>3, PhaseConsent
  <2> QED BY <1>0, <2>4
<1>3. CASE pSys.sweep # NoSweep /\ pSys' # EndPreflight(pSys)
  <2> DEFINE s == pSys
             r == [s.sweep EXCEPT !.left = @ - 1]
  <2>1. ~s.busy /\ s.sweep.void = {} /\ pSys' \in SliceOutcomes(pSys)
    BY <1>3 DEF AdvanceSweep, Invalidated
  <2>2. s.sweep \in Sweeps
    BY <1>0, <1>3 DEF Systems
  <2>3. r \in Sweeps /\ r.then = s.sweep.then
    BY <2>2 DEF Sweeps
  <2>4. pSys' = [s EXCEPT !.sweep = r] \/ pSys' \in Passed(s)
    BY <1>0, <1>3, <2>1 DEF SliceOutcomes, Systems
  <2> HIDE DEF r
  <2>5. CASE pSys' = [s EXCEPT !.sweep = r]
    <3>1. r # NoSweep
      BY <2>3, SweepRuns
    <3>2. pSys' \in Systems /\ Quieter(pSys, pSys') /\ ~pSys'.busy
      BY <1>0, <1>3, <2>1, <2>3, <2>5, <3>1 DEF Systems, Quieter
    <3>3. Consent(pSys', "sweep", pOwner)
      BY <1>0, <3>2, QuieterConsent
    <3>4. Turns(pSys', "sweep", "tick")
      BY <3>2 DEF Turns
    <3>5. Consent(pSys', "tick", pOwner)
      BY <3>2, <3>3, <3>4, PhaseConsent
    <3> QED BY <1>0, <3>5
  <2>6. CASE pSys' \in Passed(s)
    <3>1. Consent(pSys', "tick", pOwner)
      BY <1>0, <1>3, <2>1, <2>6, PassedConsent
    <3> QED BY <1>0, <3>1
  <2> QED BY <2>4, <2>5, <2>6
<1> QED BY <1>1, <1>2, <1>3

\* Reference work has ended, with or without what was deferred behind it.
LEMMA PumpEndsConsent ==
  ASSUME NEW s \in Systems, s.busy, NEW o, Consent(s, "pump", o), NEW t \in Systems, ~t.busy,
         t.queued = s.queued \/ t.queued = <<>>,
         t.swept = s.swept /\ t.now = s.now /\ t.seen = s.seen,
         t.on = s.on /\ t.arm = s.arm /\ t.explicit = s.explicit /\ t.mode = s.mode,
         t.control = s.control /\ t.forbid = s.forbid /\ t.arms = s.arms,
         t.stdin = s.stdin /\ t.chappe = s.chappe /\ t.sweep = s.sweep
  PROVE  Consent(t, "poll", o)
<1>1. s.queued # <<>> => s.stdin = <<>>
  BY DEF Consent, Placed
<1>2. Stands(t) /\ Permitted(t) /\ t.now.off <= t.seen
  BY DEF Consent, Stands, Permitted
<1>3. Waiting(t, o, t.queued) /\ Waiting(t, o, t.stdin) /\ Sorted(t.queued) /\ Sorted(t.stdin)
  BY DEF Consent, Lines, Waiting, Fresh, InTurn, Sorted
<1>4. Before(t.stdin, t.queued)
  BY <1>1 DEF Before
<1>5. Lines(t, o) /\ Placed(t, "poll")
  BY <1>1, <1>3, <1>4 DEF Consent, Lines, Placed
<1>6. SweepFresh(t) /\ ArmsFresh(t, "poll", o) /\ ChappeHeld(t, o)
  BY DEF Consent, SweepFresh, ArmsFresh, ChappeHeld, Fresh
<1> QED BY <1>2, <1>5, <1>6 DEF Consent

LEMMA TickConsent ==
  ASSUME PiConstants, PiTypeOK, Consent(pSys, pAt, pOwner), ControlTick \/ Pump \/ PumpEnds
  PROVE  Consent(pSys', pAt', pOwner)
<1>0. pSys \in Systems
  BY DEF PiTypeOK
<1>1. CASE ControlTick
  <2>1. Consent(pSys, "tick", pOwner) /\ pAt' = "pump" /\ pSys' \in {Aged(t) : t \in TickOutcomes(pSys)}
    BY <1>1 DEF ControlTick, Phase, Goto
  <2>2. pSys' \in Systems /\ Quieter(pSys, pSys')
    BY <1>0, <2>1, ControlTickKeeps
  <2>3. Consent(pSys', "tick", pOwner)
    BY <1>0, <2>1, <2>2, QuieterConsent
  <2>4. Turns(pSys', "tick", "pump")
    BY DEF Turns
  <2>5. Consent(pSys', "pump", pOwner)
    BY <2>2, <2>3, <2>4, PhaseConsent
  <2> QED BY <2>1, <2>5
<1>2. Stopped(pSys) \in Systems /\ Quieter(pSys, Stopped(pSys))
  BY <1>0, StoppedKeeps
<1>3. CASE Pump
  <2>1. Consent(pSys, "pump", pOwner) /\ pAt' = "poll" /\ (pSys' = pSys \/ pSys' = Stopped(pSys))
    BY <1>3 DEF Pump, Goto
  <2>2. pSys' \in Systems /\ Consent(pSys', "pump", pOwner)
    BY <1>0, <1>2, <2>1, QuieterConsent
  <2>3. Turns(pSys', "pump", "poll")
    BY DEF Turns
  <2>4. Consent(pSys', "poll", pOwner)
    BY <2>2, <2>3, PhaseConsent
  <2> QED BY <2>1, <2>4
<1>4. CASE PumpEnds
  <2> DEFINE h == Stopped(pSys)
  <2>1. Consent(pSys, "pump", pOwner) /\ pAt' = "poll" /\ pSys.busy
    BY <1>4 DEF PumpEnds, Goto
  <2>2. h \in Systems /\ Consent(h, "pump", pOwner) /\ h.busy
    BY <1>0, <1>2, <2>1, QuieterConsent DEF Quieter
  <2>3. pSys' = [h EXCEPT !.busy = FALSE] \/ pSys' = CancelQueue(h)
    BY <1>4 DEF PumpEnds
  <2> HIDE DEF h
  <2>4. CASE pSys' = CancelQueue(h)
    <3>1. /\ pSys' \in Systems /\ pSys'.queued = <<>> /\ ~pSys'.busy
          /\ pSys'.stdin = h.stdin /\ pSys'.chappe = h.chappe /\ pSys'.sweep = h.sweep
          /\ pSys'.swept = h.swept /\ pSys'.now = h.now /\ pSys'.seen = h.seen
          /\ pSys'.on = h.on /\ pSys'.arm = h.arm /\ pSys'.explicit = h.explicit /\ pSys'.mode = h.mode
          /\ pSys'.control = h.control /\ pSys'.forbid = h.forbid /\ pSys'.arms = h.arms
      BY <2>2, <2>4, CancelKeeps, ZenonT(40)
    <3>2. Consent(pSys', "poll", pOwner)
      BY <2>2, <3>1, PumpEndsConsent
    <3> QED BY <2>1, <3>2
  <2>5. CASE pSys' = [h EXCEPT !.busy = FALSE]
    <3>1. /\ pSys' \in Systems /\ pSys'.queued = h.queued /\ ~pSys'.busy
          /\ pSys'.stdin = h.stdin /\ pSys'.chappe = h.chappe /\ pSys'.sweep = h.sweep
          /\ pSys'.swept = h.swept /\ pSys'.now = h.now /\ pSys'.seen = h.seen
          /\ pSys'.on = h.on /\ pSys'.arm = h.arm /\ pSys'.explicit = h.explicit /\ pSys'.mode = h.mode
          /\ pSys'.control = h.control /\ pSys'.forbid = h.forbid /\ pSys'.arms = h.arms
      BY <2>2, <2>5 DEF Systems
    <3>2. Consent(pSys', "poll", pOwner)
      BY <2>2, <3>1, PumpEndsConsent
    <3> QED BY <2>1, <3>2
  <2> QED BY <2>3, <2>4, <2>5
<1> QED BY <1>1, <1>3, <1>4

\* The rest of the deferred arms.
LEMMA ArmsPoppedConsent ==
  ASSUME NEW s \in Systems, s.arms # <<>>, NEW o, Consent(s, "poll", o),
         NEW u, u = [s EXCEPT !.arms = Tail(@)]
  PROVE  Consent(u, "poll", o)
<1>1. /\ u \in Systems /\ u.seen = s.seen /\ u.arms = Tail(s.arms)
      /\ u.swept = s.swept /\ u.now = s.now /\ u.chappe = s.chappe
      /\ u.on = s.on /\ u.arm = s.arm /\ u.explicit = s.explicit /\ u.mode = s.mode
      /\ u.control = s.control /\ u.forbid = s.forbid
      /\ u.queued = s.queued /\ u.busy = s.busy /\ u.stdin = s.stdin /\ u.sweep = s.sweep
  BY ArmsPopped
<1>2. \A i \in DOMAIN u.arms : i + 1 \in DOMAIN s.arms /\ u.arms[i] = s.arms[i + 1]
  BY <1>1, ArmsHead
<1>3. Stands(u) /\ Permitted(u) /\ u.now.off <= u.seen
  BY <1>1 DEF Consent, Stands, Permitted
<1>4. Lines(u, o) /\ Placed(u, "poll") /\ SweepFresh(u) /\ ChappeHeld(u, o)
  BY <1>1 DEF Consent, Lines, Waiting, Fresh, InTurn, Placed, SweepFresh, ChappeHeld
<1>5. ArmsFresh(u, "poll", o)
  BY <1>1, <1>2 DEF Consent, ArmsFresh, Fresh
<1> QED BY <1>3, <1>4, <1>5 DEF Consent

\* Where drives are on or may be re-enabled, no deferred arm is stale.
LEMMA LiveArmsFresh ==
  ASSUME NEW s \in Systems, NEW o, Consent(s, "poll", o), s.mode = "Active" \/ ~s.forbid
  PROVE  \A i \in DOMAIN s.arms : Fresh(s, s.arms[i].cmd)
BY DEF Consent, ArmsFresh

LEMMA PollConsent ==
  ASSUME PiTypeOK, Consent(pSys, pAt, pOwner), PollGate
  PROVE  Consent(pSys', pAt', pOwner)
<1>0. pSys \in Systems /\ Consent(pSys, "poll", pOwner)
  BY DEF PiTypeOK, PollGate
<1>1. ASSUME NEW t \in Systems, Consent(t, "poll", pOwner), \A i \in DOMAIN t.arms : Fresh(t, t.arms[i].cmd)
      PROVE  Consent(t, "publish", pOwner)
  <2>1. Turns(t, "poll", "publish")
    BY <1>1 DEF Turns
  <2> QED BY <1>1, <2>1, PhaseConsent
<1>2. CASE pSys' = [pSys EXCEPT !.enable = NoEnable] /\ Goto("poll")
  <2>1. pSys' \in Systems /\ Quieter(pSys, pSys')
    BY <1>0, <1>2, NotPending
  <2>2. Consent(pSys', "poll", pOwner)
    BY <1>0, <2>1, QuieterConsent
  <2> QED BY <1>2, <2>2 DEF Goto
<1>3. CASE pSys.mode = "Active" /\ pSys' = pSys /\ Goto("publish")
  <2>1. \A i \in DOMAIN pSys.arms : Fresh(pSys, pSys.arms[i].cmd)
    BY <1>0, <1>3, LiveArmsFresh
  <2>2. Consent(pSys, "publish", pOwner)
    BY <1>0, <1>1, <2>1
  <2> QED BY <1>3, <2>2 DEF Goto
<1>4. CASE pSys' = PollRefused(pSys) /\ Goto("publish")
  <2>1. pSys' \in Systems /\ Quieter(pSys, pSys') /\ pSys'.arms = <<>>
    BY <1>0, <1>4, PollRefusedKeeps
  <2>2. Consent(pSys', "poll", pOwner)
    BY <1>0, <2>1, QuieterConsent
  <2>3. Consent(pSys', "publish", pOwner)
    BY <1>1, <2>1, <2>2
  <2> QED BY <1>4, <2>3 DEF Goto
<1>5. CASE pSys.arms = <<>> /\ pSys' = pSys /\ Goto("publish")
  <2>1. Consent(pSys, "publish", pOwner)
    BY <1>0, <1>1, <1>5
  <2> QED BY <1>5, <2>1 DEF Goto
<1>6. CASE pSys.arms # <<>> /\ ArmRefused(pSys) /\ Goto("poll") /\ pSys' = [pSys EXCEPT !.arms = Tail(@)]
  <2>1. Consent(pSys', "poll", pOwner)
    BY <1>0, <1>6, ArmsPoppedConsent
  <2> QED BY <1>6, <2>1 DEF Goto
<1>7. ASSUME pSys.arms # <<>>, ~ArmRefused(pSys)
      PROVE  /\ Armed(pSys, Head(pSys.arms).cmd) \in Systems
             /\ Armed(pSys, Head(pSys.arms).cmd).arms = pSys.arms
             /\ Armed(pSys, Head(pSys.arms).cmd).now = pSys.now
             /\ Consent(Armed(pSys, Head(pSys.arms).cmd), "poll", pOwner)
             /\ \A i \in DOMAIN pSys.arms : Fresh(pSys, pSys.arms[i].cmd)
  <2> DEFINE cmd == Head(pSys.arms).cmd
  <2>1. pSys.mode = "Active" \/ ~pSys.forbid
    BY <1>7 DEF ArmRefused, MayReenable
  <2>2. \A i \in DOMAIN pSys.arms : Fresh(pSys, pSys.arms[i].cmd)
    BY <1>0, <2>1, LiveArmsFresh
  <2>3. cmd \in Cmds /\ 1 \in DOMAIN pSys.arms /\ Head(pSys.arms) = pSys.arms[1]
    BY <1>0, <1>7, ArmsHead
  <2>4. Fresh(pSys, cmd) /\ cmd.stamp.off >= pSys.now.off
    BY <1>0, <2>2, <2>3 DEF Consent, ArmsFresh
  <2>5. Armed(pSys, cmd) \in Systems /\ Armed(pSys, cmd).arms = pSys.arms /\ Armed(pSys, cmd).now = pSys.now
    BY <1>0, <2>3, ArmedKeeps
  <2> HIDE DEF cmd
  <2>6. Consent(Armed(pSys, cmd), "poll", pOwner)
    BY <1>0, <1>7, <2>3, <2>4, ArmedConsent
  <2> QED BY <2>2, <2>5, <2>6 DEF cmd
<1>8. CASE /\ pSys.arms # <<>> /\ ~ArmRefused(pSys) /\ Goto("publish")
           /\ pSys' = Armed(pSys, Head(pSys.arms).cmd)
  <2>1. pSys' \in Systems /\ pSys'.arms = pSys.arms /\ pSys'.now = pSys.now /\ Consent(pSys', "poll", pOwner)
    BY <1>7, <1>8
  <2>2. \A i \in DOMAIN pSys'.arms : Fresh(pSys', pSys'.arms[i].cmd)
    BY <1>7, <1>8, <2>1 DEF Fresh
  <2>3. Consent(pSys', "publish", pOwner)
    BY <1>1, <2>1, <2>2
  <2> QED BY <1>8, <2>3 DEF Goto
<1>9. CASE /\ pSys.arms # <<>> /\ ~ArmRefused(pSys) /\ Goto("poll")
           /\ pSys' = [Armed(pSys, Head(pSys.arms).cmd) EXCEPT !.arms = Tail(@)]
  <2> DEFINE t == Armed(pSys, Head(pSys.arms).cmd)
  <2>1. t \in Systems /\ t.arms # <<>> /\ Consent(t, "poll", pOwner)
    BY <1>7, <1>9
  <2>2. pSys' = [t EXCEPT !.arms = Tail(@)]
    BY <1>9
  <2> HIDE DEF t
  <2>3. Consent(pSys', "poll", pOwner)
    BY <2>1, <2>2, ArmsPoppedConsent
  <2> QED BY <1>9, <2>3 DEF Goto
<1> QED BY <1>2, <1>3, <1>4, <1>5, <1>6, <1>8, <1>9, PollCases

LEMMA PublishConsent ==
  ASSUME PiTypeOK, Consent(pSys, pAt, pOwner), Publish \/ PublishSucceeds
  PROVE  Consent(pSys', pAt', pOwner)
<1>1. /\ pSys \in Systems /\ Consent(pSys, "publish", pOwner) /\ pAt' = "stdin"
      /\ pSys' = pSys \/ pSys' = [pSys EXCEPT !.fault = FALSE]
  BY DEF PiTypeOK, Publish, PublishSucceeds, Goto
<1>2. pSys' \in Systems /\ Quieter(pSys, pSys')
  BY <1>1, ZenonT(40) DEF Systems, Quieter
<1>3. Consent(pSys', "publish", pOwner)
  BY <1>1, <1>2, QuieterConsent
<1>4. Turns(pSys', "publish", "stdin")
  BY DEF Turns
<1>5. Consent(pSys', "stdin", pOwner)
  BY <1>2, <1>3, <1>4, PhaseConsent
<1> QED BY <1>1, <1>5

LEMMA EndConsent ==
  ASSUME PiTypeOK, Consent(pSys, pAt, pOwner), Exit \/ Panic
  PROVE  Consent(pSys', pAt', pOwner)
<1>0. pSys \in Systems
  BY DEF PiTypeOK
<1>1. CASE Exit
  <2> DEFINE v == CancelQueue(pSys)
             w == EndPreflight(v)
             t == Stopped(w)
  <2>1. pSys' = t /\ pAt' = "closed"
    BY <1>1 DEF Exit
  <2>2. /\ v \in Systems /\ v.swept = pSys.swept /\ v.now = pSys.now /\ v.seen = pSys.seen
        /\ v.on = pSys.on /\ v.arm = pSys.arm /\ v.explicit = pSys.explicit /\ v.mode = pSys.mode
        /\ v.control = pSys.control /\ v.forbid = pSys.forbid
    BY <1>0, CancelKeeps
  <2>3. /\ w \in Systems /\ w.swept = v.swept /\ w.now = v.now /\ w.seen = v.seen
        /\ w.on = v.on /\ w.arm = v.arm /\ w.explicit = v.explicit /\ w.mode = v.mode
        /\ w.control = v.control /\ w.forbid = v.forbid
    BY <2>2, EndPreflightKeeps
  <2> HIDE DEF v
  <2>4. t \in Systems /\ Quieter(w, t) /\ t.mode = "Disabled" /\ t.control = "Disabled" /\ t.forbid = w.forbid
    BY <2>3, StoppedKeeps
  <2> HIDE DEF w, t
  <2>5. /\ t.swept = pSys.swept /\ t.now = pSys.now /\ t.seen = pSys.seen
        /\ t.on = pSys.on /\ t.arm = pSys.arm /\ t.explicit = pSys.explicit
    BY <2>2, <2>3, <2>4 DEF Quieter
  <2>6. Consent(t, "closed", pOwner)
    BY <1>0, <2>2, <2>3, <2>4, <2>5, EndedConsent
  <2> QED BY <2>1, <2>6
<1>2. CASE Panic
  <2> DEFINE h == Stopped(pSys)
             t == [h EXCEPT !.forbid = TRUE]
  <2>1. pSys' = t /\ pAt' = "closed"
    BY <1>2 DEF Panic
  <2>2. h \in Systems /\ Quieter(pSys, h) /\ h.mode = "Disabled" /\ h.control = "Disabled"
    BY <1>0, StoppedKeeps
  <2> HIDE DEF h
  <2>3. /\ t \in Systems /\ t.forbid /\ t.swept = h.swept /\ t.now = h.now /\ t.seen = h.seen
        /\ t.on = h.on /\ t.arm = h.arm /\ t.explicit = h.explicit /\ t.mode = h.mode
        /\ t.control = h.control
    BY <2>2 DEF Systems
  <2> HIDE DEF t
  <2>4. Consent(t, "closed", pOwner)
    BY <1>0, <2>2, <2>3, EndedConsent DEF Quieter
  <2> QED BY <2>1, <2>4
<1> QED BY <1>1, <1>2

LEMMA BootConsent ==
  ASSUME PiTypeOK, Consent(pSys, pAt, pOwner), Boot PROVE Consent(pSys', pAt', pOwner)
<1>1. pSys \in Systems /\ Consent(pSys, "boot", pOwner) /\ pSys' = pSys /\ pAt' \in {"stdin", "closed"}
  BY DEF PiTypeOK, Boot
<1>2. Turns(pSys, "boot", "stdin")
  BY DEF Turns
<1>3. Consent(pSys, "stdin", pOwner)
  BY <1>1, <1>2, PhaseConsent
<1>4. Consent(pSys, "closed", pOwner)
  BY <1>1 DEF Consent
<1> QED BY <1>1, <1>3, <1>4

------------------------------------------------------------------------------
(* The theorems. *)

LEMMA InitConsented ==
  ASSUME PiInit PROVE PiTypeOK /\ Consent(pSys, pAt, pOwner)
<1>1. /\ <<>> \in Seq(StdinKinds) /\ <<>> \in Seq({"enable", "disable"})
      /\ <<>> \in Seq({"position", "other"}) /\ <<>> \in Seq(Cmds) /\ <<>> \in Seq(Arms)
  OBVIOUS
<1>2. Never0 \in Stamps /\ Never0.stop = 0 /\ Never0.off = 0 /\ NoEnable \in Int
  BY DEF Never0, Stamps, NoEnable
<1>3. pSys \in Systems
  BY <1>1, <1>2 DEF PiInit, Systems
<1>4. pWire \in Wires
  BY <1>1 DEF PiInit, Wires
<1>5. PiTypeOK
  BY <1>3, <1>4 DEF PiInit, PiTypeOK, Wires, Phases
<1>6. /\ pSys.queued = <<>> /\ pSys.stdin = <<>> /\ pSys.chappe = <<>> /\ pSys.arms = <<>>
      /\ pSys.sweep = NoSweep /\ ~pSys.busy /\ pSys.mode = "Disabled" /\ pSys.control = "Disabled"
      /\ pSys.forbid /\ pSys.swept = {} /\ pSys.now = Never0 /\ pSys.seen = 0
  BY DEF PiInit
<1>7. Stands(pSys) /\ Permitted(pSys) /\ pSys.now.off <= pSys.seen
  BY <1>2, <1>6 DEF Stands, Permitted
<1>8. Lines(pSys, pOwner) /\ Placed(pSys, pAt) /\ SweepFresh(pSys)
  BY <1>6 DEF Lines, Waiting, Sorted, Before, Placed, SweepFresh
<1>9. ArmsFresh(pSys, pAt, pOwner) /\ ChappeHeld(pSys, pOwner)
  BY <1>6 DEF ArmsFresh, ChappeHeld
<1> QED BY <1>5, <1>7, <1>8, <1>9 DEF Consent

LEMMA TypeStep == ASSUME PiConstants, PiTypeOK, [PiNext]_pvars PROVE PiTypeOK'
<1>1. CASE UNCHANGED pvars
  BY <1>1 DEF PiTypeOK, pvars
<1>2. CASE PiNext
  <2>1. pWire' \in Wires
    BY <1>2, WireTyped
  <2>2. pOwner' = pOwner /\ pAt' \in Phases /\ pStop' \in BOOLEAN /\ pSent' \in Nat
    BY <1>2, LoopTyped
  <2>3. pSys' \in Systems
    BY <1>2, SysTyped
  <2> QED BY <2>1, <2>2, <2>3 DEF PiTypeOK, Wires
<1> QED BY <1>1, <1>2

LEMMA ConsentStep == ASSUME PiConstants, ConsentInv, [PiNext]_pvars PROVE ConsentInv'
<1>0. PiTypeOK /\ PiTypeOK'
  BY TypeStep DEF ConsentInv
<1>1. CASE UNCHANGED pvars
  <2>1. pSys' = pSys /\ pAt' = pAt /\ pOwner' = pOwner
    BY <1>1 DEF pvars
  <2>2. pSys.late \/ Consent(pSys, pAt, pOwner)
    BY DEF ConsentInv
  <2>3. pSys'.late \/ Consent(pSys', pAt', pOwner')
    BY <2>1, <2>2
  <2> QED BY <1>0, <2>3 DEF ConsentInv
<1>2. CASE PiNext /\ pSys'.late
  BY <1>0, <1>2 DEF ConsentInv
<1>3. CASE PiNext /\ ~pSys'.late
  <2>1. ~pSys.late /\ pOwner' = pOwner
    BY <1>0, <1>3, SysTyped, LoopTyped
  <2>2. Consent(pSys, pAt, pOwner)
    BY <2>1 DEF ConsentInv
  <2> SUFFICES Consent(pSys', pAt', pOwner)
    BY <1>0, <2>1 DEF ConsentInv
  <2>3. CASE StdinHeld \/ StdinReceived \/ StdinDone
    BY <1>0, <1>3, <2>2, <2>3, StdinConsent
  <2>4. CASE SetZeroReceived \/ SetZeroDone
    BY <1>0, <2>2, <2>4, ZeroConsent
  <2>5. CASE EnableHeld \/ EnableLagged \/ EnableReceived \/ EnableDone
    BY <1>0, <1>3, <2>2, <2>5, EnableConsent
  <2>6. CASE TestReceived \/ TestDone
    BY <1>0, <2>2, <2>6, TestConsent
  <2>7. CASE AdvanceSweep
    BY <1>0, <2>2, <2>7, SweepConsent
  <2>8. CASE ControlTick \/ Pump \/ PumpEnds
    BY <1>0, <2>2, <2>8, TickConsent
  <2>9. CASE PollGate
    BY <1>0, <2>2, <2>9, PollConsent
  <2>10. CASE Publish \/ PublishSucceeds
    BY <1>0, <2>2, <2>10, PublishConsent
  <2>11. CASE Exit \/ Panic
    BY <1>0, <2>2, <2>11, EndConsent
  <2>12. CASE Boot
    BY <1>0, <2>2, <2>12, BootConsent
  <2>13. CASE StdinLine \/ ChappeSend \/ StopRequested
    BY <2>2, <2>13 DEF StdinLine, ChappeSend, StopRequested
  <2> QED BY <1>3, <2>3, <2>4, <2>5, <2>6, <2>7, <2>8, <2>9, <2>10, <2>11, <2>12, <2>13
          DEF PiNext, PiLoopStep
<1> QED BY <1>1, <1>2, <1>3

\* The state of marengo-pi's loop, its channels and its queues keep their types,
\* whatever is typed, sent, lost or held, and whenever the process is stopped.
THEOREM PiTypeCorrect == ASSUME PiConstants PROVE PiSpec => []PiTypeOK
<1>1. PiInit => PiTypeOK
  BY InitConsented
<1>2. PiTypeOK /\ [PiNext]_pvars => PiTypeOK'
  BY TypeStep
<1> QED BY <1>1, <1>2, PTL DEF PiSpec

\* Drives are on, and Position is held, only by commands received after the last
\* operator stop and hold-off (EnableGate, PiReferenceQueue, motion_owner.rs).
THEOREM MotionConsented == ASSUME PiConstants PROVE PiSpec => []MotionIsConsented
<1>1. PiInit => ConsentInv
  BY InitConsented DEF ConsentInv
<1>2. ConsentInv /\ [PiNext]_pvars => ConsentInv'
  BY ConsentStep
<1>3. ConsentInv => MotionIsConsented
  BY DEF ConsentInv, Consent, Stands, MotionIsConsented, DisableStands
<1> QED BY <1>1, <1>2, <1>3, PTL DEF PiSpec
==============================================================================
