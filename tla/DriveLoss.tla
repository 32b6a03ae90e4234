------------------------------ MODULE DriveLoss ------------------------------
(***************************************************************************)
(* The loss of one drive while Active: Davout's drive_loss.rs, the degraded*)
(* hold of Berthier's control tick and marengo-pi's control loop around it.*)
(*                                                                         *)
(*   loop: operator, reporting sync, enforce_degraded_deadline             *)
(*   tick: drain -> look at poses -> compose -> admit -> write -> drain    *)
(*         -> at rest? -> observe                                          *)
(*   loop: stop_after_tick_error, report events                            *)
(*                                                                         *)
(* An Active joint whose drive leaves a host frame unanswered beyond the   *)
(* watchdog loses its grant.  The same unanswered frame is judged by six   *)
(* calls of one tick, each with its own clock reading, so time may pass    *)
(* between any two steps.  A qualifying loss disables the joint's subtree  *)
(* and starts an episode in which the others hold, then lower to rest; the *)
(* process has at most one, and every end of it latches.                   *)
(*                                                                         *)
(* A session enables every joint.  Its enable gate is abstracted to        *)
(* `enabling' (module EnableSession); frames reach a drive when they are   *)
(* written, replies may be read by a later drain.                          *)
(***************************************************************************)
EXTENDS Integers, FiniteSets, Sequences

CONSTANTS
    Joint,      \* configured joints, one drive each
    Subtree,    \* installed plans: admitted joint |-> joints its loss sheds
    Watchdog,   \* comm_watchdog_ms
    Hold,       \* hold_window_s
    Lower,      \* the longest time left for the lower (lower_max_s)
    Grace,      \* SHED_REPLY_GRACE
    Mortal,     \* drives that may fall silent
    Returns,    \* drive modes in which a silent drive may come back
    Commands,   \* what the operator and the readers of the loop may do
    Modes,      \* control modes the operator selects
    Hazardous,  \* any frame or control law may latch a fault
    Refusing,   \* sets of drives whose Disable or stop writes may be refused
    Stalls,     \* an iteration of the loop may last longer than one period
    Paced       \* the loop sleeps out its period: replies are in when it ticks

ControlModes == {"Disabled", "GravityComp", "Position", "TorqueOnly"}

ASSUME DriveLossAssumption ==
    /\ DOMAIN Subtree \subseteq Joint
    /\ \A j \in DOMAIN Subtree : j \in Subtree[j] /\ Subtree[j] \subseteq Joint
    /\ Watchdog \in Nat \ {0} /\ Hold \in Nat /\ Lower \in Nat /\ Grace \in Nat
    /\ Mortal \subseteq Joint /\ Returns \subseteq {"Reset", "Run"}
    /\ Commands \subseteq {"enable", "reenable", "disable", "mode", "lower",
                           "facet", "sync"}
    /\ Modes \subseteq ControlModes
    /\ Hazardous \in BOOLEAN /\ Stalls \in BOOLEAN /\ Paced \in BOOLEAN
    /\ Refusing \subseteq SUBSET Joint /\ {} \in Refusing

VARIABLES
    pc,           \* where the loop is
    lost,         \* a grant was gone before this drain read anything
    \* Supervisor
    mode, fault, granted, silent, active, enabling, controlMode, asked,
    shed, shedAge, episode, outcome,
    \* Berthier
    phase, said, staged,
    \* drives
    dead, driveMode, reply,
    fresh,        \* drives whose only unread reply is to a write of this period
    wrote,        \* drives the last step wrote anything but a Disable to
    ticked        \* this iteration has already lasted a period

supervisorVars == <<mode, fault, granted, silent, active, enabling, controlMode, asked>>
lossVars == <<shed, shedAge, episode, outcome>>
controlVars == <<phase, said, staged>>
driveVars == <<dead, driveMode, reply, fresh>>
vars == <<pc, lost, supervisorVars, lossVars, controlVars, driveVars, wrote, ticked>>

Never == -1
None == [lost |-> {}, age |-> 0, due |-> 0]
Faults == {"none", "Communication", "Transport", "DriveState", "Device",
           "Controller", "StopDelivery"}
End == {"LowerComplete", "Deadline", "Stopped"}
DriveMode == {"Reset", "Run"}
Events == {<<"DriveLost">>, <<"LowerStarted">>, <<"LowerComplete">>}
            \cup {<<"Ended", end>> : end \in End}

TypeOK ==
    /\ pc \in {"loop", "drain1", "read1", "look", "recheck", "relook", "compose",
               "admit", "watch", "write", "drain2", "read2", "rest", "end",
               "failed", "restop", "report"}
    /\ lost \in BOOLEAN
    /\ mode \in {"Disabled", "Active"} /\ fault \in Faults
    /\ granted \subseteq Joint /\ silent \subseteq Joint /\ active \subseteq Joint
    /\ enabling \in BOOLEAN
    /\ controlMode \in ControlModes
    /\ asked \in [Joint -> Never .. Watchdog + 1]
    /\ shed \subseteq Joint /\ shedAge \in 0 .. Grace + 1
    /\ episode \in [lost : SUBSET Joint, age : 0 .. Hold + Lower + 1,
                    due : 0 .. Hold + Lower]
    /\ outcome \in End \cup {"none"}
    /\ phase \in {"none", "Hold", "LowerRequested", "Lowering"}
    /\ said \in Seq(Events) /\ staged \subseteq Joint
    /\ dead \subseteq Joint
    /\ driveMode \in [Joint -> DriveMode] /\ reply \in [Joint -> SUBSET DriveMode]
    /\ fresh \subseteq Joint /\ wrote \subseteq Joint
    /\ ticked \in BOOLEAN

\* A process whose references are acquired, before its first enable.
Init ==
    /\ pc = "loop" /\ lost = FALSE
    /\ mode = "Disabled" /\ fault = "none"
    /\ granted = Joint /\ silent = {} /\ active = {} /\ enabling = FALSE
    /\ controlMode = "Disabled"
    /\ asked = [j \in Joint |-> Never]
    /\ shed = {} /\ shedAge = 0 /\ episode = None /\ outcome = "none"
    /\ phase = "none" /\ said = <<>> /\ staged = {}
    /\ dead = {} /\ driveMode = [j \in Joint |-> "Reset"]
    /\ reply = [j \in Joint |-> {}] /\ fresh = {}
    /\ wrote = {} /\ ticked = FALSE

------------------------------------------------------------------------------
Latched == fault # "none"
InEpisode == episode # None

\* pose_is_current: no host frame is unanswered beyond the watchdog.
Current(j, ages) == ages[j] <= Watchdog

\* note_asked: the earliest unanswered frame counts.
Asked_Latest(S) ==   \* mutant: the latest unanswered frame counts
    [j \in Joint |-> IF j \in S THEN 0 ELSE asked[j]]
Asked(S) == [j \in Joint |-> IF j \in S /\ asked[j] = Never THEN 0 ELSE asked[j]]

\* reference_binding_valid: the Active grants that have lapsed by now.
Lapsed(ages) == {j \in active \cap granted : ~Current(j, ages)}

\* enforce_degraded_deadline
Expired_Late == InEpisode /\ episode.age > episode.due   \* mutant: off by one
Expired_Holding ==   \* mutant: a lower is left to finish
    InEpisode /\ phase # "Lowering" /\ episode.age >= episode.due
Expired == InEpisode /\ episode.age >= episode.due

\* What is unread once each hearing drive of S has answered in mode m[j].
Answers(unread, S, m) ==
    [j \in Joint |-> IF j \in S \ dead THEN unread[j] \cup {m[j]} ELSE unread[j]]
\* A reply need not be in before the period is over.
Expecting(S) == fresh \cup {j \in S : reply[j] = {}}
ToReset(S) == [j \in Joint |-> IF j \in S \ dead THEN "Reset" ELSE driveMode[j]]

(***************************************************************************)
(* perform_stop: zero speed, neutral MIT and Disable to every drive, only  *)
(* Disable to a shed one (S).  It ends an episode, which latches.          *)
(***************************************************************************)
StopTargets_All(S) == Joint   \* mutant: shed drives get the full stop sequence
StopTargets(S) == Joint \ S

StopFault(class, refused) ==
    IF Latched THEN fault
    ELSE IF class # "none" THEN class
    ELSE IF refused # {} THEN "StopDelivery" ELSE "none"

\* end_degraded_episode_on_stop
EndFault_Silent(f) == f   \* mutant: an ended episode does not latch
EndFault(f) == IF f = "none" /\ InEpisode THEN "Communication" ELSE f

PerformStop(class, end, refused, S, unread) ==
    /\ fault' = EndFault(StopFault(class, refused))
    /\ granted' = IF StopFault(class, refused) # "none" THEN {} ELSE granted
    /\ mode' = "Disabled" /\ controlMode' = "Disabled"
    /\ active' = {} /\ enabling' = FALSE
    /\ outcome' = IF InEpisode THEN end ELSE outcome
    /\ episode' = None
    /\ driveMode' = ToReset(Joint \ refused)
    /\ reply' = Answers(unread, Joint \ refused, ToReset(Joint))
    /\ fresh' = Expecting(Joint)
    /\ wrote' = StopTargets(S)
    /\ asked' = [j \in Joint |-> Never]
    /\ staged' = {} /\ lost' = FALSE

\* A stop with nothing new shed; Berthier learns of it at its next observe.
Stop(class, end, refused, unread, next) ==
    /\ PerformStop(class, end, refused, shed, unread)
    /\ pc' = next
    /\ UNCHANGED <<silent, shed, shedAge, phase, said, dead, ticked>>

(***************************************************************************)
(* shed_decision: exactly one Active joint lost its grant, for silence, it *)
(* has a plan, and every joint that would hold has its grant and a current *)
(* pose.  g are the grants, s the silent joints, ages the unanswered ages. *)
(***************************************************************************)
SheddingModes == {"GravityComp", "Position"}
Qualifies(j, g, s, ages) ==
    /\ mode = "Active" /\ ~Latched /\ ~InEpisode /\ shed = {} /\ ~enabling
    /\ controlMode \in SheddingModes
    /\ active \ g = {j} /\ j \in s /\ j \in DOMAIN Subtree
    /\ active \ Subtree[j] # {}
    /\ \A k \in active \ Subtree[j] : k \in g /\ Current(k, ages)

\* A batch composed before the shed keeps only the joints that hold.
Retained(j) == staged \ Subtree[j]

\* shed_for_drive_loss: one Disable per address, then the episode.
Shed(j, g, s, ages, unread, next) ==
    /\ Qualifies(j, g, s, ages)
    /\ shed' = Subtree[j] /\ shedAge' = 0
    /\ granted' = g \ Subtree[j] /\ silent' = s
    /\ active' = active \ Subtree[j]
    /\ asked' = [k \in Joint |-> IF k \in Subtree[j] THEN Never ELSE ages[k]]
    /\ \E due \in Hold .. Hold + Lower : episode' = [lost |-> {j}, age |-> 0, due |-> due]
    /\ driveMode' = ToReset(Subtree[j])
    /\ reply' = Answers(unread, Subtree[j], ToReset(Joint))
    /\ fresh' = Expecting(Subtree[j])
    /\ staged' = Retained(j)
    /\ wrote' = {} /\ lost' = FALSE
    /\ pc' = next
    /\ UNCHANGED <<mode, fault, enabling, controlMode, outcome, phase, said, dead, ticked>>

\* The bus refused one of the Disables: latch and stop everything.
ShedFails(j, g, s, ages, unread, refused, next) ==
    /\ Qualifies(j, g, s, ages) /\ refused \cap Subtree[j] # {}
    /\ PerformStop("Transport", "Stopped", refused, Subtree[j], unread)
    /\ shed' = Subtree[j] /\ shedAge' = 0 /\ silent' = s
    /\ pc' = next
    /\ UNCHANGED <<phase, said, dead, ticked>>

\* A lost grant that is not all an episode may answer: stop everything.
LapseStops(g, s, ages, unread, next) ==
    /\ ~(active \subseteq g)
    /\ \A j \in Joint : ~Qualifies(j, g, s, ages)
    /\ \E refused \in Refusing : Stop("none", "Stopped", refused, unread, next)

\* The answers to a lapse judged now: g are the grants left.
LapseAnswered(g, ages, unread, next, failed) ==
    LET s == silent \cup (granted \ g)
    IN \/ \E j \in Joint :
           \/ Shed(j, g, s, ages, unread, next)
           \/ \E refused \in Refusing : ShedFails(j, g, s, ages, unread, refused, failed)
       \/ LapseStops(g, s, ages, unread, failed)

DeadlineStops(next) ==
    Expired /\ \E refused \in Refusing : Stop("none", "Deadline", refused, reply, next)

(***************************************************************************)
(* poll_feedback.  Grants are not judged before the queue is read (a host  *)
(* stall would count as silence), but one lost earlier may shed here.      *)
(***************************************************************************)
Held_Judged == active \subseteq granted \ Lapsed(asked)   \* mutant: judged unread
Held == active \subseteq granted
Drain(here, next) ==
    /\ pc = here
    /\ \/ DeadlineStops("failed")
       \/ /\ ~Expired
          /\ \/ /\ mode = "Active" => Held
                /\ pc' = next /\ lost' = FALSE /\ wrote' = {}
                /\ UNCHANGED <<supervisorVars, lossVars, controlVars, driveVars, ticked>>
             \/ mode = "Active" /\ \E j \in Joint :
                    \/ Shed(j, granted, silent, asked, reply, next)
                    \/ \E refused \in Refusing :
                           ShedFails(j, granted, silent, asked, reply, refused, "failed")
             \/ /\ mode = "Active" /\ ~Held
                /\ \A j \in Joint : ~Qualifies(j, granted, silent, asked)
                /\ pc' = next /\ lost' = TRUE /\ wrote' = {}
                /\ UNCHANGED <<supervisorVars, lossVars, controlVars, driveVars, ticked>>

\* inspect_shed_frame, and the Run expected of an Active drive.
ShedFrameBad_Strict(j) == "Run" \in reply[j]   \* mutant: no grace
ShedFrameBad(j) == "Run" \in reply[j] /\ shedAge > Grace
FrameBad(j) ==
    IF j \in shed THEN ShedFrameBad(j)
    ELSE j \in active /\ ~enabling /\ "Reset" \in reply[j]

\* The read takes what has arrived (R); an Active drive's Run frame is a pose
\* and answers every frame before it, a shed drive's never is.
Read(here, next) ==
    /\ pc = here
    /\ \E R \in SUBSET Joint :
        LET unread == [j \in Joint |-> IF j \in R THEN {} ELSE reply[j]]
            poses == {j \in R \cap active : ~enabling /\ "Run" \in reply[j]}
            ages == [j \in Joint |-> IF j \in poses THEN Never ELSE asked[j]]
            g == granted \ Lapsed(ages)
        IN /\ {j \in Joint \ fresh : reply[j] # {}} \subseteq R
           /\ \A j \in R : reply[j] # {}
           /\ \/ /\ \E j \in R : FrameBad(j)
                 /\ \E refused \in Refusing :
                        Stop("DriveState", "Stopped", refused, unread, "failed")
              \/ /\ Hazardous
                 /\ \E refused \in Refusing :
                        Stop("Device", "Stopped", refused, unread, "failed")
              \/ /\ \A j \in R : ~FrameBad(j)
                 /\ \/ /\ lost
                       /\ \E refused \in Refusing :
                              Stop("none", "Stopped", refused, unread, "failed")
                    \/ /\ ~lost /\ mode = "Active" /\ ~(active \subseteq g)
                       /\ LapseAnswered(g, ages, unread, next, "failed")
                    \/ /\ ~lost /\ (mode = "Active" => active \subseteq g)
                       /\ asked' = ages /\ reply' = unread
                       /\ pc' = next /\ wrote' = {}
                       /\ UNCHANGED <<lost, mode, fault, granted, silent, active, enabling,
                                      controlMode, lossVars, controlVars, dead, driveMode,
                                      fresh, ticked>>

\* The enable gate completes: every Enable is read back and every joint posed.
EnableCompletes ==
    /\ pc \in {"read1", "read2"} /\ enabling /\ dead = {} /\ ~lost
    /\ active \subseteq granted \ Lapsed(asked)
    /\ enabling' = FALSE
    /\ driveMode' = [j \in Joint |-> "Run"]
    /\ reply' = [j \in Joint |-> {}] /\ fresh' = {}
    /\ asked' = [j \in Joint |-> Never]
    /\ pc' = IF pc = "read1" THEN "look" ELSE "rest"
    /\ wrote' = {}
    /\ UNCHANGED <<lost, mode, fault, granted, silent, active, controlMode, lossVars,
                   controlVars, dead, ticked>>

(***************************************************************************)
(* Berthier: observe_degraded_episode follows Davout's episode.            *)
(***************************************************************************)
ObservedPhase ==
    CASE InEpisode /\ phase = "none" -> "Hold"
      [] ~InEpisode /\ phase # "none" -> "none"
      [] OTHER -> phase
ObservedMode == IF InEpisode /\ phase = "none" THEN "Position" ELSE controlMode
ObservedEvents_Lossy ==   \* mutant: the end is not reported
    IF InEpisode /\ phase = "none" THEN Append(said, <<"DriveLost">>) ELSE said
ObservedEvents ==
    CASE InEpisode /\ phase = "none" -> Append(said, <<"DriveLost">>)
      [] ~InEpisode /\ phase # "none" -> Append(said, <<"Ended", outcome>>)
      [] OTHER -> said
Observe ==
    phase' = ObservedPhase /\ said' = ObservedEvents /\ controlMode' = ObservedMode

\* feedback_gaps: joints the tick needs a pose of and has none.
Frozen(ph) == IF ph = "none" THEN {} ELSE shed
Gaps(ph) ==
    {j \in active : ~Current(j, asked)} \cup ((Joint \ active) \ Frozen(ph))
NeedsFeedback(cm) == mode = "Active" /\ cm # "Disabled" /\ ~enabling

Look ==
    /\ pc = "look"
    /\ Observe
    /\ pc' = IF mode # "Active" THEN "end"
             ELSE IF NeedsFeedback(ObservedMode) /\ Gaps(ObservedPhase) # {}
             THEN "recheck" ELSE "compose"
    /\ wrote' = {}
    /\ UNCHANGED <<lost, mode, fault, granted, silent, active, enabling, asked,
                   lossVars, staged, driveVars, ticked>>

\* check_active_references after a stale look: the grants are judged again.
Recheck_Skipped ==   \* mutant: a stale pose fails the tick unjudged
    /\ pc = "recheck" /\ pc' = "relook" /\ wrote' = {}
    /\ UNCHANGED <<lost, supervisorVars, lossVars, controlVars, driveVars, ticked>>
Recheck ==
    /\ pc = "recheck"
    /\ LET g == granted \ Lapsed(asked)
       IN \/ /\ active \subseteq g
             /\ pc' = "relook" /\ wrote' = {}
             /\ UNCHANGED <<lost, supervisorVars, lossVars, controlVars, driveVars, ticked>>
          \/ ~(active \subseteq g) /\ LapseAnswered(g, asked, reply, "relook", "failed")

\* The second look, which must find every pose.
Relook ==
    /\ pc = "relook"
    /\ Gaps(ObservedPhase) = {}
    /\ Observe
    /\ pc' = "compose" /\ wrote' = {}
    /\ UNCHANGED <<lost, mode, fault, granted, silent, active, enabling, asked,
                   lossVars, staged, driveVars, ticked>>

\* MissingFeedback latches a controller fault.
RelookFails ==
    /\ pc = "relook" /\ Gaps(ObservedPhase) # {}
    /\ \E refused \in Refusing :
           PerformStop("Controller", "Stopped", refused, shed, reply)
    /\ phase' = ObservedPhase /\ said' = ObservedEvents
    /\ pc' = "failed"
    /\ UNCHANGED <<silent, shed, shedAge, dead, ticked>>

\* advance_degraded_phase, then the batch for every Active joint.
LowerDue ==
    \/ phase = "Hold" /\ episode.age >= Hold
    \/ phase = "LowerRequested"
Compose ==
    /\ pc = "compose"
    /\ IF LowerDue /\ controlMode = "Position"
       THEN phase' = "Lowering" /\ said' = Append(said, <<"LowerStarted">>)
       ELSE UNCHANGED <<phase, said>>
    /\ staged' = IF enabling THEN {} ELSE active
    /\ pc' = "admit" /\ wrote' = {}
    /\ UNCHANGED <<lost, supervisorVars, lossVars, driveVars, ticked>>

\* A fuse of the control law or the gravity model fails the tick.
ComposeFails ==
    /\ pc = "compose" /\ Hazardous
    /\ \E refused \in Refusing : Stop("Controller", "Stopped", refused, reply, "failed")

(***************************************************************************)
(* admit_and_send_mit_with: the deadline, the grants, the joints named,    *)
(* the pose watchdog, the write.                                           *)
(***************************************************************************)
Admit ==
    /\ pc = "admit"
    /\ \/ DeadlineStops("failed")
       \/ /\ ~Expired
          /\ LET g == granted \ Lapsed(asked)
             IN \/ /\ active \subseteq g
                   /\ pc' = IF staged \subseteq active THEN "watch" ELSE "failed"
                   /\ wrote' = {}
                   /\ UNCHANGED <<lost, supervisorVars, lossVars, controlVars, driveVars,
                                  ticked>>
                \/ ~(active \subseteq g) /\ LapseAnswered(g, asked, reply, "watch", "failed")

\* check_comm_watchdog and shed_after_stale_pose
Watch ==
    /\ pc = "watch"
    /\ LET g == granted \ Lapsed(asked)
           stale == {j \in active : ~Current(j, asked)}
           s == silent \cup (granted \ g)
       IN \/ /\ stale = {} \/ enabling
             /\ pc' = "write" /\ wrote' = {}
             /\ UNCHANGED <<lost, supervisorVars, lossVars, controlVars, driveVars, ticked>>
          \/ /\ stale # {} /\ ~enabling
             /\ \/ \E j \in Joint :
                    \/ Shed(j, g, s, asked, reply, "write")
                    \/ \E refused \in Refusing : ShedFails(j, g, s, asked, reply, refused, "failed")
                \/ /\ \A j \in Joint : ~Qualifies(j, g, s, asked)
                   /\ \E refused \in Refusing :
                          Stop("Communication", "Stopped", refused, reply, "failed")

Write ==
    /\ pc = "write"
    /\ wrote' = staged
    /\ reply' = Answers(reply, staged, driveMode)
    /\ fresh' = Expecting(staged)
    /\ asked' = Asked(active)
    /\ staged' = {}
    /\ pc' = "drain2"
    /\ UNCHANGED <<lost, mode, fault, granted, silent, active, enabling, controlMode,
                   lossVars, phase, said, dead, driveMode, ticked>>

WriteFails ==
    /\ pc = "write" /\ Refusing # {{}}
    /\ \E refused \in Refusing : Stop("Transport", "Stopped", refused, reply, "failed")

\* complete_degraded_lower_at_rest
AtRest ==
    /\ pc = "rest" /\ phase = "Lowering"
    /\ phase' = "none" /\ said' = Append(said, <<"LowerComplete">>)
    /\ \E refused \in Refusing :
        /\ PerformStop("none", "LowerComplete", refused, shed, reply)
        /\ pc' = IF refused = {} THEN "end" ELSE "failed"
    /\ UNCHANGED <<silent, shed, shedAge, dead, ticked>>

NotAtRest ==
    /\ pc = "rest"
    /\ pc' = "end" /\ wrote' = {}
    /\ UNCHANGED <<lost, supervisorVars, lossVars, controlVars, driveVars, ticked>>

\* The end of the tick: a stop may have ended Davout's episode.
TickEnds ==
    /\ pc \in {"end", "failed"}
    /\ Observe
    /\ pc' = IF pc = "failed" THEN "restop" ELSE "report"
    /\ wrote' = {}
    /\ UNCHANGED <<lost, mode, fault, granted, silent, active, enabling, asked,
                   lossVars, staged, driveVars, ticked>>

(***************************************************************************)
(* marengo-pi's loop around the tick.                                      *)
(***************************************************************************)
StopAfterTickError ==
    /\ pc = "restop"
    /\ \/ \E refused \in Refusing : Stop("none", "Stopped", refused, reply, "report")
       \/ /\ Latched /\ mode # "Active" /\ controlMode = "Disabled"
          /\ pc' = "report" /\ wrote' = {}
          /\ UNCHANGED <<lost, supervisorVars, lossVars, controlVars, driveVars, ticked>>

\* take_degraded_events, report_degraded_events
Report ==
    /\ pc = "report"
    /\ Observe
    /\ pc' = "loop" /\ wrote' = {} /\ ticked' = FALSE
    /\ fresh' = IF Paced THEN {} ELSE fresh
    /\ UNCHANGED <<lost, mode, fault, granted, silent, active, enabling, asked,
                   lossVars, staged, dead, driveMode, reply>>

\* enforce_degraded_deadline; the tick follows either way.
StartTick ==
    /\ pc = "loop"
    /\ \/ DeadlineStops("drain1")
       \/ /\ ~Expired
          /\ pc' = "drain1" /\ wrote' = {}
          /\ UNCHANGED <<lost, supervisorVars, lossVars, controlVars, driveVars, ticked>>

Enable ==
    /\ pc = "loop" /\ "enable" \in Commands
    /\ ~Latched /\ ~InEpisode /\ mode = "Disabled" /\ granted = Joint
    /\ mode' = "Active" /\ active' = Joint /\ enabling' = TRUE
    /\ asked' = [j \in Joint |-> 0]
    /\ wrote' = Joint
    /\ UNCHANGED <<pc, lost, fault, granted, silent, controlMode, lossVars,
                   controlVars, driveVars, ticked>>

\* An enable while Active judges the grants and is refused or does nothing.
EnableAgain ==
    /\ pc = "loop" /\ "reenable" \in Commands
    /\ ~Latched /\ ~InEpisode /\ mode = "Active"
    /\ LET g == granted \ Lapsed(asked)
       IN ~(active \subseteq g) /\ LapseAnswered(g, asked, reply, "loop", "loop")

DisableAll ==
    /\ pc = "loop" /\ "disable" \in Commands
    /\ \E refused \in Refusing : Stop("none", "Stopped", refused, reply, "loop")

\* set_control_mode: while either side knows of an episode only Disabled is
\* honoured, and it stops every drive.
SetControlMode(m) ==
    /\ pc = "loop" /\ "mode" \in Commands
    /\ \/ /\ ~InEpisode
          /\ m # controlMode /\ (phase # "none" => m = "Disabled")
          /\ controlMode' = m
          /\ wrote' = {}
          /\ UNCHANGED <<pc, lost, mode, fault, granted, silent, active, enabling, asked,
                         lossVars, controlVars, driveVars, ticked>>
       \/ /\ InEpisode /\ m = "Disabled"
          /\ \E refused \in Refusing : Stop("none", "Stopped", refused, reply, "loop")

\* request_degraded_lower
RequestLower ==
    /\ pc = "loop" /\ "lower" \in Commands
    /\ InEpisode \/ phase # "none"
    /\ phase' = IF ObservedPhase = "Hold" THEN "LowerRequested" ELSE ObservedPhase
    /\ said' = ObservedEvents /\ controlMode' = ObservedMode
    /\ wrote' = {}
    /\ UNCHANGED <<pc, lost, mode, fault, granted, silent, active, enabling, asked,
                   lossVars, staged, driveVars, ticked>>

\* A facet read (homing_state) judges the grants and answers nothing.
ReadFacet ==
    /\ pc = "loop" /\ "facet" \in Commands /\ mode = "Active"
    /\ Lapsed(asked) # {}
    /\ granted' = granted \ Lapsed(asked)
    /\ silent' = silent \cup Lapsed(asked)
    /\ wrote' = {}
    /\ UNCHANGED <<pc, lost, mode, fault, active, enabling, controlMode, asked,
                   lossVars, controlVars, driveVars, ticked>>

\* sync_active_reporting, release_reporting_for_exit: type-24 writes.
SyncTargets == Joint \ shed
SyncReporting ==
    /\ pc = "loop" /\ "sync" \in Commands
    /\ wrote' = SyncTargets
    /\ UNCHANGED <<pc, lost, supervisorVars, lossVars, controlVars, driveVars, ticked>>

------------------------------------------------------------------------------
\* Drives fall silent, hearing nothing, and may come back as they were or in
\* Reset, with a frame that says so.
DriveDies(j) ==
    /\ j \in Mortal \ dead
    /\ dead' = dead \cup {j}
    /\ reply' = IF j \in fresh THEN [reply EXCEPT ![j] = {}] ELSE reply
    /\ wrote' = {}
    /\ UNCHANGED <<pc, lost, supervisorVars, lossVars, controlVars, driveMode, fresh, ticked>>

DriveReturns(j, m) ==
    /\ j \in dead /\ m \in Returns
    /\ m = "Run" => driveMode[j] = "Run"
    /\ dead' = dead \ {j}
    /\ driveMode' = [driveMode EXCEPT ![j] = m]
    /\ reply' = [reply EXCEPT ![j] = @ \cup {m}]
    /\ wrote' = {}
    /\ UNCHANGED <<pc, lost, supervisorVars, lossVars, controlVars, fresh, ticked>>

Older(age, bound) == IF age < bound THEN age + 1 ELSE age

Tick ==
    /\ Stalls \/ ~ticked
    /\ ticked' = TRUE
    /\ asked' = [j \in Joint |->
                    IF asked[j] = Never THEN Never ELSE Older(asked[j], Watchdog + 1)]
    /\ shedAge' = IF shed = {} THEN 0 ELSE Older(shedAge, Grace + 1)
    /\ episode' = IF InEpisode
                  THEN [episode EXCEPT !.age = Older(@, episode.due + 1)] ELSE episode
    /\ fresh' = {} /\ wrote' = {}
    /\ UNCHANGED <<pc, lost, mode, fault, granted, silent, active, enabling, controlMode,
                   shed, outcome, controlVars, dead, driveMode, reply>>

------------------------------------------------------------------------------
TickStep ==
    \/ Drain("drain1", "read1") \/ Read("read1", "look")
    \/ Look \/ Recheck \/ Relook \/ RelookFails \/ Compose \/ ComposeFails
    \/ Admit \/ Watch \/ Write \/ WriteFails
    \/ Drain("drain2", "read2") \/ Read("read2", "rest")
    \/ EnableCompletes \/ AtRest \/ NotAtRest \/ TickEnds
LoopStep == StopAfterTickError \/ Report \/ StartTick
OperatorStep ==
    \/ Enable \/ EnableAgain \/ DisableAll \/ RequestLower \/ ReadFacet \/ SyncReporting
    \/ \E m \in Modes : SetControlMode(m)
DriveStep ==
    \E j \in Joint : DriveDies(j) \/ \E m \in DriveMode : DriveReturns(j, m)

Next == TickStep \/ LoopStep \/ OperatorStep \/ DriveStep \/ Tick

Spec == Init /\ [][Next]_vars

\* The loop and its tick go on, and time passes; nothing else is promised.
FairSpec == Spec /\ WF_vars(TickStep \/ LoopStep) /\ SF_vars(StartTick) /\ WF_vars(Tick)

------------------------------------------------------------------------------
(***************************************************************************)
(* A shed drive is never written anything but a Disable again: not by a    *)
(* batch composed before the shed, a stop, or the reporting sync.          *)
(***************************************************************************)
ShedNeverCommanded == wrote \cap shed = {}

(***************************************************************************)
(* A shed is owned by an Active episode or by a latched stop; in           *)
(* particular every end of an episode latches, and the process never runs  *)
(* again.                                                                  *)
(***************************************************************************)
ShedIsOwned ==
    shed # {} =>
        \/ InEpisode /\ mode = "Active" /\ active # {} /\ active \cap shed = {}
        \/ Latched /\ mode = "Disabled"

(***************************************************************************)
(* What the operator is told: an announced episode is announced as ended   *)
(* exactly once, in order, with the end Davout recorded.                   *)
(***************************************************************************)
Terminal(e) == e \in {<<"LowerComplete">>} \cup {<<"Ended", end>> : end \in End}
EventsTellTheEpisode ==
    /\ \A i \in 1 .. Len(said) : said[i] = <<"DriveLost">> <=> i = 1
    /\ \A i \in 1 .. Len(said) : Terminal(said[i]) =>
        /\ i = Len(said)
        /\ outcome = IF said[i] = <<"LowerComplete">> THEN "LowerComplete" ELSE said[i][2]
    /\ said # <<>> => phase # "none" \/ Terminal(said[Len(said)])

(***************************************************************************)
(* No servo batch is written in a period that begins after the deadline,   *)
(* whatever the controller does.                                           *)
(***************************************************************************)
MovesInTime == pc = "write" /\ InEpisode /\ pc' = "drain2" => episode.age <= episode.due

(***************************************************************************)
(* One silent drive with a plan does not drop the arm: wherever in the     *)
(* tick the lapse is noticed first, the subtree is shed and the others     *)
(* stay Active.  (For an environment without operator stops or faults; a   *)
(* drive that comes back in Reset is a fault, and two silent drives stop   *)
(* the arm.)                                                               *)
(***************************************************************************)
DropHasCause ==
    mode = "Active" /\ mode' = "Disabled" =>
        \/ enabling \/ controlMode \notin SheddingModes
        \/ shed' # {}
        \/ \E j \in active :
               driveMode[j] = "Reset" \/ \E k \in active \ {j} : {j, k} \subseteq dead

(***************************************************************************)
(* An episode that nobody stops runs its course: late replies of the shed  *)
(* drives, their missing poses and the return of a rebooted drive do not   *)
(* cut it short.                                                           *)
(***************************************************************************)
EpisodeRunsItsCourse == outcome \in {"none", "LowerComplete", "Deadline"}

\* Once nothing is left to observe, an ended episode has been reported.
EpisodeReported == outcome # "none" /\ phase = "none" => said # <<>>

\* The holding joints never hold for ever.
EpisodeEnds == InEpisode ~> mode = "Disabled"

\* A drive that stays silent leaves the Active set.
LostDriveLeaves == \A j \in Joint : (j \in active \cap dead) ~> (j \notin active \cap dead)
==============================================================================
