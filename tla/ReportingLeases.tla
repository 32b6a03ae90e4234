-------------------------- MODULE ReportingLeases ---------------------------
(***************************************************************************)
(* Free-drive sensing: the type-24 streams of the drives, kept by          *)
(* crates/davout/src/active_reporting.rs under the leases Consul's modals  *)
(* hold, and Supervisor::sync_active_reporting, solicit_status_feedback    *)
(* and release_reporting_for_exit of lib.rs that drive it.                 *)
(*                                                                         *)
(* One tick is one control period, which is also the write spacing of an   *)
(* interface.  Instants are kept as ages, saturating where no comparison   *)
(* tells them apart any more.  A drive (external) streams from the On it   *)
(* acts on to the next Off, across host processes; it may drop its stream  *)
(* unasked, die, and it ignores every frame in its post-SetZero blackout.  *)
(***************************************************************************)
EXTENDS Naturals, Sequences, FiniteSets, SequencesExt

CONSTANTS Motors,        \* the configured joints, in order
          Interface,     \* [joint -> CAN interface]
          LeaseIds,
          MaxLeases,     \* MAX_LEASES_PER_JOINT
          Ttl,           \* DEFAULT_LEASE_TTL, in periods
          Stale,         \* ACTIVE_REPORTING_FEEDBACK_STALE
          Heartbeat,     \* ACTIVE_REPORTING_HEARTBEAT
          BlackoutFrom, Quiet,  \* POST_SET_ZERO_BLACKOUT_FROM, _QUIET
          ExitWait,      \* periods release_reporting_for_exit may wait
          Never,         \* no such instant
          Diagnostics,   \* bench.active_reporting_diagnostics
          MaxLeaseCalls, MaxReportFaults

Drives == Range(Motors)
Cap(age, limit) == IF age < limit THEN age + 1 ELSE limit

VARIABLES leases,    \* joint -> [lease id -> periods left], 0 when expired
          rep,       \* joint -> [applied, on, rx, zero], see FreshJoint
          slots,     \* interfaces that took a type-24 write this period
          beat,      \* [used, cursor]: last_heartbeat_attempt and its rotation
          host,      \* [mode, shed, pc, left, off]
          drive,     \* joint -> [streaming, dead]
          waiting,   \* ghost: joint -> periods its stream has been wrong
          calls, mishaps

leasevars == <<leases, rep, slots, beat, host, drive, waiting, calls, mishaps>>

FreshJoint == [applied |-> FALSE, on |-> Never, rx |-> Never, zero |-> Never]
NoLease == [x \in {} |-> 0]
FreshHost == [mode |-> "Disabled", shed |-> {}, pc |-> "resync", left |-> 0,
              off |-> [j \in Drives |-> "none"]]

ReportingInit ==
  /\ leases = [j \in Drives |-> NoLease]
  /\ rep = [j \in Drives |-> FreshJoint]
  /\ slots = {}
  /\ beat = [used |-> FALSE, cursor |-> 0]
  /\ host = FreshHost
  /\ drive = [j \in Drives |-> [streaming |-> FALSE, dead |-> FALSE]]
  /\ waiting = [j \in Drives |-> 0]
  /\ calls = 0 /\ mishaps = 0

Mishap == mishaps < MaxReportFaults /\ mishaps' = mishaps + 1
Calls == host.pc = "run" /\ calls < MaxLeaseCalls /\ calls' = calls + 1

-----------------------------------------------------------------------------
\* has_live_lease and desired, on the leases ls
Desired(ls, j) ==
  /\ host.mode # "Active"
  /\ Diagnostics \/ \E id \in DOMAIN ls[j] : ls[j][id] > 0

\* set_zero_blackout_possible
BlackoutPossible_Never(j) == FALSE
BlackoutPossible(j) == rep[j].zero # Never /\ rep[j].zero \in BlackoutFrom .. Quiet - 1

\* The joints sync_holding writes nothing to.
Held == {j \in Drives : BlackoutPossible(j) \/ j \in host.shed}

\* expire_stale
Expired(ls) == [j \in Drives |->
  [id \in {x \in DOMAIN ls[j] : ls[j][x] > 0} |-> ls[j][id]]]

\* A stream on paper that has gone silent; one never heard from ages from
\* the On that was written.
FeedbackStale_Never(j) == FALSE
FeedbackStale(j) ==
  /\ rep[j].applied
  /\ IF rep[j].rx # Never THEN rep[j].rx >= Stale
     ELSE rep[j].on # Never /\ rep[j].on >= Stale

\* The one healthy stream whose refresh is due, rotating from the cursor.
RefreshDue(ls, j) ==
  /\ j \notin Held /\ Desired(ls, j) /\ rep[j].applied
  /\ rep[j].rx # Never /\ rep[j].rx < Stale
  /\ rep[j].on = Never \/ rep[j].on >= Heartbeat
HeartbeatMotor(ls) ==
  LET n     == Len(Motors)
      at(k) == ((beat.cursor + k) % n) + 1
      due   == {k \in 0 .. n - 1 : RefreshDue(ls, Motors[at(k)])}
  IN  IF beat.used \/ due = {} THEN {}
      ELSE {Motors[at(CHOOSE k \in due : \A m \in due : k <= m)]}

\* The joints with a type-24 write due, healthy refreshes apart.
DueNow(ls) == {j \in Drives :
  \/ Desired(ls, j) /\ (~rep[j].applied \/ FeedbackStale(j))
  \/ ~Desired(ls, j) /\ rep[j].applied}

First(js) == LET at == {i \in DOMAIN Motors : Motors[i] \in js}
             IN  Motors[CHOOSE i \in at : \A k \in at : i <= k]

\* What sync_holding writes: on each interface whose slot is free the first
\* joint in configured order, a refresh only when nothing else is due there.
SyncWrites(ls) ==
  LET On(i, js) == {j \in js \ Held : Interface[j] = i}
      pick(i)   == IF On(i, DueNow(ls)) # {} THEN {First(On(i, DueNow(ls)))}
                   ELSE On(i, HeartbeatMotor(ls))
  IN  UNION {pick(i) : i \in {Interface[j] : j \in Drives} \ slots}

\* The drives after they were sent frames, On to the members of `on': a dead
\* drive, and one in its blackout, acts on nothing.
Acted(js, on) == [j \in Drives |->
  IF j \in js /\ ~drive[j].dead /\ ~(rep[j].zero # Never /\ rep[j].zero \in BlackoutFrom .. Quiet - 1)
  THEN [drive[j] EXCEPT !.streaming = j \in on] ELSE drive[j]]

\* The bookkeeping of one accepted write (record_off for an Off).
Recorded(r, on) == IF on THEN [r EXCEPT !.applied = TRUE, !.on = 0]
                   ELSE [r EXCEPT !.applied = FALSE, !.on = Never]

\* sync_active_reporting on the leases ls.  A failed write uses up its slot
\* and changes nothing else; a later call retries it.
Sync(ls) ==
  LET live == Expired(ls)
      w    == SyncWrites(live)
      on   == {j \in w : Desired(live, j)}
      hb   == w \cap (HeartbeatMotor(live) \ DueNow(live))
  IN  \E failed \in SUBSET w :
        /\ IF failed = {} THEN UNCHANGED mishaps ELSE Mishap
        /\ leases' = live
        /\ slots' = slots \cup {Interface[j] : j \in w}
        /\ beat' = IF hb = {} THEN beat
                   ELSE [used |-> TRUE, cursor |-> (CHOOSE i \in DOMAIN Motors :
                                             Motors[i] \in hb) % Len(Motors)]
        /\ rep' = [j \in Drives |-> IF j \in w \ failed
                                    THEN Recorded(rep[j], j \in on) ELSE rep[j]]
        /\ drive' = Acted(w \ failed, on)

-----------------------------------------------------------------------------
(* Lease calls, each followed by a sync; a refused call does not sync. *)

\* acquire: an unknown id needs room, expired entries still count.
Acquire(j, id) ==
  /\ Calls
  /\ id \in DOMAIN leases[j] \/ Cardinality(DOMAIN leases[j]) < MaxLeases
  /\ Sync([leases EXCEPT ![j] = [x \in DOMAIN @ \cup {id} |-> IF x = id THEN Ttl ELSE @[x]]])
  /\ UNCHANGED <<host, waiting>>

Renew(j, id) ==
  /\ Calls /\ id \in DOMAIN leases[j]
  /\ Sync([leases EXCEPT ![j][id] = Ttl])
  /\ UNCHANGED <<host, waiting>>

Release(j, id) ==
  /\ Calls
  /\ Sync([leases EXCEPT ![j] = [x \in DOMAIN @ \ {id} |-> @[x]]])
  /\ UNCHANGED <<host, waiting>>

\* solicit_status_feedback: a Disable to every drive not already streaming
\* by wish, which answers with a status; none while Active.
SolicitStatus ==
  /\ Calls /\ host.mode # "Active"
  /\ rep' = [j \in Drives |->
       IF ~Desired(leases, j) /\ ~drive[j].dead THEN [rep[j] EXCEPT !.rx = 0] ELSE rep[j]]
  /\ UNCHANGED <<leases, slots, beat, host, drive, waiting, mishaps>>

-----------------------------------------------------------------------------
(* The rest of the supervisor, as far as sensing sees it. *)

\* Activation, and a stop, which forgets when feedback came; both end in a
\* sync (ModeSync) before anything else the host does.
ModeChanges ==
  /\ Calls
  /\ \/ /\ host.mode = "Disabled"
        /\ host' = [host EXCEPT !.mode = "Active", !.pc = "resync"]
        /\ UNCHANGED rep
     \/ /\ host.mode = "Active"
        /\ \E lost \in SUBSET Drives :
             /\ Cardinality(lost) <= 1
             /\ host' = [host EXCEPT !.mode = "Disabled", !.pc = "resync",
                                     !.shed = @ \cup lost]
        /\ rep' = [j \in Drives |-> [rep[j] EXCEPT !.rx = Never]]
  /\ UNCHANGED <<leases, slots, beat, drive, waiting, mishaps>>

\* A reference sets j's zero: its blackout is ahead.
SetZeroWritten(j) ==
  /\ Calls /\ host.mode = "Disabled" /\ ~drive[j].dead
  /\ rep' = [rep EXCEPT ![j].zero = 0]
  /\ UNCHANGED <<leases, slots, beat, host, drive, waiting, mishaps>>

ModeSync ==
  /\ host.pc = "resync"
  /\ Sync(leases)
  /\ host' = [host EXCEPT !.pc = "run"]
  /\ UNCHANGED <<waiting, calls>>

\* The control loop's own call, once a period.
PeriodSync ==
  /\ host.pc = "run"
  /\ Sync(leases)
  /\ host' = [host EXCEPT !.pc = "sleep"]
  /\ UNCHANGED <<waiting, calls>>

\* Nothing the host owes this joint: its stream is what it should be, the
\* host holds its writes, it cannot act, or a drive before it on its
\* interface died streaming, whose retries then take every slot.
Excused(j) ==
  \/ drive[j].streaming = (Desired(Expired(leases), j))
  \/ j \in Held \/ drive[j].dead
  \/ ~rep[j].applied /\ drive[j].streaming
  \/ \E i, k \in DOMAIN Motors :
        /\ i < k /\ Motors[k] = j /\ Interface[Motors[i]] = Interface[j]
        /\ drive[Motors[i]].dead /\ FeedbackStale(Motors[i])
        /\ Desired(leases, Motors[i])

\* A period ends: reports of streaming drives are read, everything ages.
Tick ==
  /\ host.pc = "sleep"
  /\ host' = [host EXCEPT !.pc = "run"]
  /\ slots' = {}
  /\ beat' = [beat EXCEPT !.used = FALSE]
  /\ leases' = [j \in Drives |-> [id \in DOMAIN leases[j] |->
                  IF leases[j][id] = 0 THEN 0 ELSE leases[j][id] - 1]]
  /\ rep' = [j \in Drives |->
       [rep[j] EXCEPT
          !.on = IF @ = Never THEN @ ELSE Cap(@, Heartbeat),
          !.rx = IF drive[j].streaming /\ ~drive[j].dead THEN 0
                 ELSE IF @ = Never THEN @ ELSE Cap(@, Stale),
          !.zero = IF @ = Never \/ @ + 1 >= Quiet THEN Never ELSE @ + 1]]
  /\ waiting' = [j \in Drives |->
       IF Excused(j) THEN 0 ELSE Cap(waiting[j], Stale + Len(Motors) + MaxReportFaults + 2)]
  /\ UNCHANGED <<drive, calls, mishaps>>

\* The drive drops its stream unasked, or goes dead.
DriveFails(j) ==
  /\ Mishap /\ ~drive[j].dead
  /\ \/ drive[j].streaming /\ drive' = [drive EXCEPT ![j].streaming = FALSE]
     \/ drive' = [drive EXCEPT ![j] = [streaming |-> FALSE, dead |-> TRUE]]
  /\ UNCHANGED <<leases, rep, slots, beat, host, waiting, calls>>

-----------------------------------------------------------------------------
(* Process exit: release_reporting_for_exit. *)

ExitBegins ==
  /\ host.pc = "sleep"
  /\ host' = [host EXCEPT !.pc = "exit", !.left = ExitWait]
  /\ UNCHANGED <<leases, rep, slots, beat, drive, waiting, calls, mishaps>>

\* One pass over the drives without an outcome; it ends the call when none
\* is left in its blackout, or the wait would pass the deadline.
ExitPass ==
  /\ host.pc = "exit"
  /\ LET open  == {j \in Drives : host.off[j] = "none"}
         later == {j \in open \ host.shed : BlackoutPossible(j)}
         now   == open \ (host.shed \cup later)
     IN  \E failed \in SUBSET now :
           /\ IF failed = {} THEN UNCHANGED mishaps ELSE Mishap
           /\ drive' = Acted(now \ failed, {})
           /\ rep' = [j \in Drives |-> IF j \in now \ failed
                                       THEN Recorded(rep[j], FALSE) ELSE rep[j]]
           /\ LET ends == later = {} \/ \A j \in later : Quiet - rep[j].zero > host.left
              IN  host' = [host EXCEPT !.pc = IF ends THEN "gone" ELSE "exitwait",
                             !.off = [j \in Drives |->
                                IF j \in open \cap host.shed THEN "shed"
                                ELSE IF j \in failed THEN "failed"
                                ELSE IF j \in now THEN "sent"
                                ELSE IF j \in later /\ ends THEN "blackout"
                                ELSE @[j]]]
  /\ UNCHANGED <<leases, slots, beat, waiting, calls>>

\* The sleep to the next end of a blackout, one period at a time.
ExitSleeps ==
  /\ host.pc = "exitwait" /\ host.left > 0
  /\ host' = [host EXCEPT !.left = @ - 1, !.pc = "exit"]
  /\ rep' = [j \in Drives |-> [rep[j] EXCEPT
               !.zero = IF @ = Never \/ @ + 1 >= Quiet THEN Never ELSE @ + 1]]
  /\ UNCHANGED <<leases, slots, beat, drive, waiting, calls, mishaps>>

\* The next process knows nothing of the streams it inherits.
Restart ==
  /\ host.pc = "gone" /\ calls < MaxLeaseCalls /\ calls' = calls + 1
  /\ leases' = [j \in Drives |-> NoLease]
  /\ rep' = [j \in Drives |-> [FreshJoint EXCEPT !.zero = rep[j].zero]]
  /\ slots' = {} /\ beat' = [used |-> FALSE, cursor |-> 0]
  /\ host' = FreshHost
  /\ waiting' = [j \in Drives |-> 0]
  /\ UNCHANGED <<drive, mishaps>>

ReportingNext ==
  \/ \E j \in Drives, id \in LeaseIds : Acquire(j, id) \/ Renew(j, id) \/ Release(j, id)
  \/ \E j \in Drives : SetZeroWritten(j) \/ DriveFails(j)
  \/ SolicitStatus \/ ModeChanges \/ ModeSync \/ PeriodSync \/ Tick
  \/ ExitBegins \/ ExitPass \/ ExitSleeps \/ Restart

ReportingSpec == ReportingInit /\ [][ReportingNext]_leasevars

-----------------------------------------------------------------------------
\* A drive whose joint a client holds a lease on streams, and one nobody
\* wants any more stops, within the stale window and one slot for each motor
\* and failed write: whatever drops a stream, delays a write or changes the
\* wish meanwhile.  The exception is stated in Excused: a drive that died
\* streaming starves the joints behind it on its interface, although the
\* comment of sync promises that `anything deferred is written by a later
\* call'.
StreamFollowsWish ==
  \A j \in Drives : waiting[j] <= Stale + Len(Motors) + mishaps

\* After an exit no drive reported as sent keeps streaming, a drive that had
\* its zero set moments before and one that streamed for an earlier process
\* included (release_reporting_for_exit).
ExitLeavesQuiet ==
  \A j \in Drives : host.pc = "gone" /\ host.off[j] = "sent" => ~drive[j].streaming

ReportingHolds == StreamFollowsWish /\ ExitLeavesQuiet
=============================================================================
