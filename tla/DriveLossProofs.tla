--------------------------- MODULE DriveLossProofs ---------------------------
(***************************************************************************)
(* What holds of every shed, for every arm, plan and timing: it is owned   *)
(* by an Active episode or a latched stop, a shed drive is written nothing *)
(* but its Disable, its episode is told as it went, and nothing moves past *)
(* the deadline.                                                           *)
(***************************************************************************)
EXTENDS DriveLoss, TLAPS

\* An episode names the drive it lost, so that ageing it is not ending it.
EpisodeNamed == episode = None \/ episode.lost # {}

\* The two properties, and what they need: a Disabled supervisor commands no
\* joint, and no batch under way names a shed one.
IInv ==
    /\ ShedIsOwned
    /\ ShedNeverCommanded
    /\ EpisodeNamed
    /\ mode \in {"Disabled", "Active"}
    /\ mode = "Disabled" => active = {}
    /\ staged \cap shed = {}

\* What IInv is about, apart from the writes.
ownVars == <<mode, fault, active, episode, shed>>

\* A step that leaves the ownership alone and writes no shed drive.
LEMMA QuietStep ==
    ASSUME IInv, UNCHANGED ownVars, staged' \cap shed = {}, wrote' \cap shed = {}
    PROVE  IInv'
BY DEF IInv, ownVars, ShedIsOwned, ShedNeverCommanded, EpisodeNamed, InEpisode, Latched, None

\* Every all-address stop latches when something was shed, and ends the episode.
LEMMA StopStep ==
    ASSUME IInv, NEW class, NEW end, NEW refused, NEW unread,
           PerformStop(class, end, refused, shed, unread), shed' = shed
    PROVE  IInv'
<1>1. mode' = "Disabled" /\ active' = {} /\ episode' = None /\ staged' = {}
      /\ wrote' = Joint \ shed
  BY DEF PerformStop, StopTargets
<1>2. shed # {} => Latched'
  <2>1. fault' = EndFault(StopFault(class, refused))
    BY DEF PerformStop
  <2>2. CASE Latched
    BY <2>1, <2>2 DEF EndFault, StopFault, Latched
  <2>3. CASE InEpisode
    BY <2>1, <2>3 DEF EndFault, StopFault, Latched
  <2>4. shed # {} => Latched \/ InEpisode
    BY DEF IInv, ShedIsOwned
  <2> QED
    BY <2>2, <2>3, <2>4
<1> QED
  BY <1>1, <1>2 DEF IInv, ShedIsOwned, ShedNeverCommanded, EpisodeNamed, InEpisode, None

\* Shedding leaves an Active episode of the joints that hold.
LEMMA ShedStep ==
    ASSUME IInv, NEW j, NEW g, NEW s, NEW ages, NEW unread, NEW next,
           Shed(j, g, s, ages, unread, next)
    PROVE  IInv'
<1>1. mode = "Active" /\ active \ Subtree[j] # {}
  BY DEF Shed, Qualifies
<1>2. mode' = "Active" /\ fault' = fault /\ active' = active \ Subtree[j]
      /\ shed' = Subtree[j] /\ staged' = staged \ Subtree[j] /\ wrote' = {}
  BY <1>1 DEF Shed, Retained
<1>3. PICK due \in Hold .. Hold + Lower : episode' = [lost |-> {j}, age |-> 0, due |-> due]
  BY DEF Shed
<1>4. episode'.lost # {} /\ episode' # None
  BY <1>3 DEF None
<1> QED
  BY <1>1, <1>2, <1>4 DEF IInv, ShedIsOwned, ShedNeverCommanded, EpisodeNamed, InEpisode, None

\* A refused Disable latches and stops every drive.
LEMMA ShedFailsStep ==
    ASSUME IInv, NEW j, NEW g, NEW s, NEW ages, NEW unread, NEW refused, NEW next,
           ShedFails(j, g, s, ages, unread, refused, next)
    PROVE  IInv'
<1>1. mode' = "Disabled" /\ active' = {} /\ episode' = None /\ staged' = {}
      /\ shed' = Subtree[j] /\ wrote' = Joint \ Subtree[j]
  BY DEF ShedFails, PerformStop, StopTargets
<1>2. Latched'
  <2>1. fault' = EndFault(StopFault("Transport", refused))
    BY DEF ShedFails, PerformStop
  <2> QED
    BY <2>1 DEF EndFault, StopFault, Latched
<1> QED
  BY <1>1, <1>2 DEF IInv, ShedIsOwned, ShedNeverCommanded, EpisodeNamed, InEpisode, None

\* However a lapsed grant is answered.
LEMMA LapseStep ==
    ASSUME IInv, NEW g, NEW ages, NEW unread, NEW next, NEW failed,
           LapseAnswered(g, ages, unread, next, failed)
    PROVE  IInv'
BY StopStep, ShedStep, ShedFailsStep DEF LapseAnswered, LapseStops, Stop

\* enforce_degraded_deadline, wherever it is called.
LEMMA DeadlineStep ==
    ASSUME IInv, NEW next, DeadlineStops(next)
    PROVE  IInv'
BY StopStep DEF DeadlineStops, Stop

\* poll_feedback up to the read.
LEMMA DrainStep ==
    ASSUME IInv, NEW here, NEW next, Drain(here, next)
    PROVE  IInv'
<1>1. CASE DeadlineStops("failed")
  BY <1>1, DeadlineStep
<1>2. CASE \E j \in Joint :
               \/ Shed(j, granted, silent, asked, reply, next)
               \/ \E refused \in Refusing :
                      ShedFails(j, granted, silent, asked, reply, refused, "failed")
  BY <1>2, ShedStep, ShedFailsStep
<1>3. CASE wrote' = {} /\ UNCHANGED <<supervisorVars, lossVars, controlVars>>
  BY <1>3, QuietStep DEF IInv, ownVars, supervisorVars, lossVars, controlVars
<1> QED
  BY <1>1, <1>2, <1>3 DEF Drain

\* poll_feedback from the read on.
LEMMA ReadStep ==
    ASSUME IInv, NEW here, NEW next, Read(here, next)
    PROVE  IInv'
<1>1. PICK R \in SUBSET Joint :
        LET unread == [j \in Joint |-> IF j \in R THEN {} ELSE reply[j]]
            poses == {j \in R \cap active : ~enabling /\ "Run" \in reply[j]}
            ages == [j \in Joint |-> IF j \in poses THEN Never ELSE asked[j]]
            g == granted \ Lapsed(ages)
        IN \/ \E refused \in Refusing :
                  \/ Stop("DriveState", "Stopped", refused, unread, "failed")
                  \/ Stop("Device", "Stopped", refused, unread, "failed")
                  \/ Stop("none", "Stopped", refused, unread, "failed")
           \/ LapseAnswered(g, ages, unread, next, "failed")
           \/ wrote' = {} /\ UNCHANGED <<ownVars, controlVars>>
  BY DEF Read, ownVars, lossVars
<1> QED
  BY <1>1, StopStep, LapseStep, QuietStep DEF IInv, Stop, controlVars

\* Every step of the tick.
LEMMA TickStepKeeps ==
    ASSUME IInv, TickStep
    PROVE  IInv'
<1> USE DEF supervisorVars, lossVars, controlVars, driveVars
<1>1. CASE Drain("drain1", "read1") \/ Drain("drain2", "read2")
  BY <1>1, DrainStep
<1>2. CASE Read("read1", "look") \/ Read("read2", "rest")
  BY <1>2, ReadStep
<1>3. CASE Look \/ Relook \/ TickEnds \/ EnableCompletes \/ NotAtRest
  BY <1>3, QuietStep DEF Look, Relook, TickEnds, EnableCompletes, NotAtRest, Observe,
     IInv, ownVars
<1>4. CASE Recheck
  <2>1. CASE wrote' = {} /\ UNCHANGED <<ownVars, staged>>
    BY <2>1, QuietStep DEF IInv, ownVars
  <2> QED
    BY <1>4, <2>1, LapseStep DEF Recheck, ownVars
<1>5. CASE RelookFails \/ ComposeFails \/ WriteFails
  BY <1>5, StopStep DEF RelookFails, ComposeFails, WriteFails, Stop
<1>6. CASE Compose
  <2>1. active \cap shed = {}
    BY DEF IInv, ShedIsOwned
  <2>2. staged' \in {{}, active} /\ wrote' = {} /\ UNCHANGED ownVars
    BY <1>6 DEF Compose, ownVars
  <2> QED
    BY <2>1, <2>2, QuietStep
<1>7. CASE Admit
  <2>1. CASE wrote' = {} /\ UNCHANGED <<ownVars, staged>>
    BY <2>1, QuietStep DEF IInv, ownVars
  <2> QED
    BY <1>7, <2>1, LapseStep, DeadlineStep DEF Admit, ownVars
<1>8. CASE Watch
  <2>1. CASE wrote' = {} /\ UNCHANGED <<ownVars, staged>>
    BY <2>1, QuietStep DEF IInv, ownVars
  <2>2. CASE \E refused \in Refusing :
                 Stop("Communication", "Stopped", refused, reply, "failed")
    BY <2>2, StopStep DEF Stop
  <2> QED
    BY <1>8, <2>1, <2>2, ShedStep, ShedFailsStep DEF Watch, ownVars
<1>9. CASE Write
  BY <1>9, QuietStep DEF Write, IInv, ownVars
<1>10. CASE AtRest
  BY <1>10, StopStep DEF AtRest
<1> QED
  BY <1>1, <1>2, <1>3, <1>4, <1>5, <1>6, <1>7, <1>8, <1>9, <1>10 DEF TickStep

\* Every step of the loop around it.
LEMMA LoopStepKeeps ==
    ASSUME IInv, LoopStep
    PROVE  IInv'
<1> USE DEF supervisorVars, lossVars, controlVars, driveVars
<1>1. CASE StopAfterTickError
  <2>1. CASE wrote' = {} /\ UNCHANGED <<ownVars, staged>>
    BY <2>1, QuietStep DEF IInv, ownVars
  <2> QED
    BY <1>1, <2>1, StopStep DEF StopAfterTickError, Stop, ownVars
<1>2. CASE Report
  BY <1>2, QuietStep DEF Report, Observe, IInv, ownVars
<1>3. CASE StartTick
  <2>1. CASE wrote' = {} /\ UNCHANGED <<ownVars, staged>>
    BY <2>1, QuietStep DEF IInv, ownVars
  <2> QED
    BY <1>3, <2>1, DeadlineStep DEF StartTick, ownVars
<1> QED
  BY <1>1, <1>2, <1>3 DEF LoopStep

\* The operator: nothing is enabled once something was shed.
LEMMA OperatorStepKeeps ==
    ASSUME IInv, OperatorStep
    PROVE  IInv'
<1> USE DEF supervisorVars, lossVars, controlVars, driveVars
<1>1. CASE Enable
  <2>1. shed = {}
    BY <1>1 DEF Enable, IInv, ShedIsOwned
  <2> QED
    BY <1>1, <2>1 DEF Enable, IInv, ShedIsOwned, ShedNeverCommanded, EpisodeNamed, None
<1>2. CASE EnableAgain
  BY <1>2, LapseStep DEF EnableAgain
<1>3. CASE DisableAll
  BY <1>3, StopStep DEF DisableAll, Stop
<1>4. CASE RequestLower \/ ReadFacet \/ SyncReporting
  BY <1>4, QuietStep DEF RequestLower, ReadFacet, SyncReporting, SyncTargets, IInv, ownVars
<1>5. ASSUME NEW m \in Modes, SetControlMode(m) PROVE IInv'
  <2>1. CASE wrote' = {} /\ UNCHANGED <<ownVars, staged>>
    BY <2>1, QuietStep DEF IInv, ownVars
  <2> QED
    BY <1>5, <2>1, StopStep DEF SetControlMode, Stop, ownVars
<1> QED
  BY <1>1, <1>2, <1>3, <1>4, <1>5 DEF OperatorStep

\* Drives and time.
LEMMA WorldStepKeeps ==
    ASSUME IInv, DriveStep \/ Tick
    PROVE  IInv'
<1> USE DEF supervisorVars, lossVars, controlVars, driveVars
<1>1. CASE DriveStep
  <2>1. wrote' = {} /\ UNCHANGED <<ownVars, staged>>
    BY <1>1 DEF DriveStep, DriveDies, DriveReturns, ownVars
  <2> QED
    BY <2>1, QuietStep DEF IInv, ownVars
<1>2. CASE Tick
  <2>1. wrote' = {} /\ UNCHANGED <<mode, fault, active, shed, staged>>
    BY <1>2 DEF Tick
  <2>2. CASE InEpisode
    <3>1. episode.lost # {}
      BY <2>2 DEF IInv, EpisodeNamed, InEpisode
    <3>2. episode' = [episode EXCEPT !.age = Older(@, episode.due + 1)]
      BY <1>2, <2>2 DEF Tick
    <3>3. episode'.lost = episode.lost
      BY <3>2
    <3>4. InEpisode' /\ EpisodeNamed'
      BY <3>1, <3>3 DEF InEpisode, EpisodeNamed, None
    <3> QED
      BY <2>1, <2>2, <3>4 DEF IInv, ShedIsOwned, ShedNeverCommanded, Latched
  <2>3. CASE ~InEpisode
    <3>1. UNCHANGED ownVars
      BY <1>2, <2>1, <2>3 DEF Tick, ownVars
    <3> QED
      BY <2>1, <3>1, QuietStep DEF IInv, ownVars
  <2> QED
    BY <2>2, <2>3
<1> QED
  BY <1>1, <1>2

\* The invariant is inductive.
LEMMA Inductive == Spec => []IInv
<1>1. Init => IInv
  BY DEF Init, IInv, ShedIsOwned, ShedNeverCommanded, EpisodeNamed
<1>2. IInv /\ [Next]_vars => IInv'
  <2> SUFFICES ASSUME IInv, [Next]_vars PROVE IInv'
    OBVIOUS
  <2>1. CASE UNCHANGED vars
    BY <2>1, QuietStep DEF IInv, ShedNeverCommanded, vars, ownVars, supervisorVars,
       lossVars, controlVars
  <2> QED
    BY <2>1, TickStepKeeps, LoopStepKeeps, OperatorStepKeeps, WorldStepKeeps DEF Next
<1> QED
  BY <1>1, <1>2, PTL DEF Spec

(***************************************************************************)
(* Once drive_loss.rs has shed a subtree, either its episode runs with the *)
(* other joints Active, or the supervisor is Disabled with a fault latched:*)
(* no interleaving of lapses, stops, deadline and operator ends the        *)
(* episode without the latch that keeps the process from running again.    *)
(***************************************************************************)
THEOREM ShedOwned == Spec => []ShedIsOwned
<1>1. IInv => ShedIsOwned
  BY DEF IInv
<1> QED
  BY <1>1, Inductive, PTL

(***************************************************************************)
(* No batch, stop sequence, enable or reporting write addresses a drive    *)
(* after it was shed.                                                      *)
(***************************************************************************)
THEOREM ShedUncommanded == Spec => []ShedNeverCommanded
<1>1. IInv => ShedNeverCommanded
  BY DEF IInv
<1> QED
  BY <1>1, Inductive, PTL
------------------------------------------------------------------------------
(***************************************************************************)
(* What the operator is told.  The story has one chapter per process: once *)
(* something was shed no second episode starts, an outcome is given only   *)
(* when the episode ends, and between the look at the episode and the end  *)
(* of the tick a phase means that the episode runs, since every stop there *)
(* fails the tick.                                                         *)
(***************************************************************************)
Following ==
    pc \in {"recheck", "relook", "compose", "admit", "watch", "write", "drain2", "read2", "rest"}
        /\ phase # "none" => InEpisode

Unfinished == \A i \in 1 .. Len(said) : ~Terminal(said[i])

TellInv ==
    /\ said \in Seq(Events) /\ outcome \in End \cup {"none"}
    /\ EventsTellTheEpisode
    /\ phase # "none" => said # <<>> /\ Unfinished /\ (InEpisode \/ outcome # "none")
    /\ said # <<>> \/ outcome # "none" => shed # {}
    /\ InEpisode => outcome = "none" /\ shed # {}
    /\ Following

\* The events are told apart.
LEMMA EventsDiffer ==
    /\ <<"DriveLost">> \in Events /\ <<"LowerStarted">> \in Events /\ <<"LowerComplete">> \in Events
    /\ ~Terminal(<<"DriveLost">>) /\ ~Terminal(<<"LowerStarted">>) /\ Terminal(<<"LowerComplete">>)
    /\ <<"LowerStarted">> # <<"DriveLost">> /\ <<"LowerComplete">> # <<"DriveLost">>
    /\ \A end \in End : /\ <<"Ended", end>> \in Events /\ Terminal(<<"Ended", end>>)
                        /\ <<"Ended", end>> # <<"DriveLost">>
                        /\ <<"Ended", end>> # <<"LowerComplete">>
                        /\ <<"Ended", end>>[2] = end
BY DEF Events, Terminal

\* Whoever was told of an end was told Davout's outcome.
LEMMA EndedHasOutcome ==
    ASSUME TellInv, NEW i \in 1 .. Len(said), Terminal(said[i])
    PROVE  outcome \in End /\ ~InEpisode /\ phase = "none"
<1>1. outcome \in End
  <2>1. CASE said[i] = <<"LowerComplete">>
    BY <2>1 DEF TellInv, EventsTellTheEpisode, End
  <2>2. CASE \E end \in End : said[i] = <<"Ended", end>>
    <3>1. PICK end \in End : said[i] = <<"Ended", end>>
      BY <2>2
    <3>2. said[i] # <<"LowerComplete">> /\ said[i][2] = end
      BY <3>1, EventsDiffer
    <3>3. outcome = said[i][2]
      BY <3>2 DEF TellInv, EventsTellTheEpisode
    <3> QED BY <3>2, <3>3
  <2> QED BY <2>1, <2>2 DEF Terminal
<1> QED BY <1>1 DEF TellInv, Unfinished, End

\* An episode nobody observed yet was not told of.
LEMMA UntoldIsEmpty ==
    ASSUME TellInv, phase = "none", InEpisode
    PROVE  said = <<>>
<1> SUFFICES ASSUME said # <<>> PROVE FALSE
  OBVIOUS
<1>1. Len(said) \in 1 .. Len(said) /\ Terminal(said[Len(said)])
  BY DEF TellInv, EventsTellTheEpisode
<1> QED BY <1>1, EndedHasOutcome

\* A step that tells nothing and neither starts nor ends an episode.
LEMMA TellSame ==
    ASSUME TellInv, UNCHANGED <<said, phase, outcome, shed>>, InEpisode' <=> InEpisode, Following'
    PROVE  TellInv'
BY DEF TellInv, EventsTellTheEpisode, Unfinished

\* An event that ends nothing, told while the episode runs.
LEMMA TellMore ==
    ASSUME TellInv, InEpisode, NEW e,
           \/ said = <<>> /\ e = <<"DriveLost">>
           \/ said # <<>> /\ e = <<"LowerStarted">>,
           said' = Append(said, e), phase' # "none", shed' = shed,
           (InEpisode' /\ outcome' = outcome) \/ (outcome' \in End /\ ~InEpisode'), Following'
    PROVE  TellInv'
<1>0. said \in Seq(Events) /\ e \in Events /\ ~Terminal(e)
  BY EventsDiffer DEF TellInv
<1>1. /\ Len(said) \in Nat /\ Len(said') = Len(said) + 1 /\ said'[Len(said')] = e
      /\ \A i \in 1 .. Len(said) : said'[i] = said[i]
      /\ said' \in Seq(Events) /\ said' # <<>> /\ ~Terminal(e)
  BY <1>0
<1>2. Unfinished
  BY EndedHasOutcome DEF Unfinished
<1>3. Unfinished'
  BY <1>1, <1>2 DEF Unfinished
<1>4. \A i \in 1 .. Len(said') : said'[i] = <<"DriveLost">> <=> i = 1
  <2>1. CASE said = <<>>
    BY <1>1, <2>1
  <2>2. CASE said # <<>>
    BY <1>1, <2>2 DEF TellInv, EventsTellTheEpisode
  <2> QED BY <2>1, <2>2
<1>5. EventsTellTheEpisode'
  BY <1>3, <1>4 DEF EventsTellTheEpisode, Unfinished
<1> QED BY <1>1, <1>3, <1>5 DEF TellInv, End

\* The end is told, once, as Davout recorded it.
LEMMA TellEnd ==
    ASSUME TellInv, phase # "none", NEW e \in Events,
           outcome' \in End, ~InEpisode',
           (e = <<"LowerComplete">> /\ outcome' = "LowerComplete") \/ e = <<"Ended", outcome'>>,
           said' = Append(said, e), phase' = "none", shed' = shed
    PROVE  TellInv'
<1>0. said \in Seq(Events) /\ said # <<>> /\ e # <<"DriveLost">> /\ Terminal(e)
  BY EventsDiffer DEF TellInv
<1>1. /\ Len(said) \in Nat \ {0} /\ Len(said') = Len(said) + 1 /\ said'[Len(said')] = e
      /\ \A i \in 1 .. Len(said) : said'[i] = said[i]
      /\ said' \in Seq(Events) /\ said' # <<>> /\ e # <<"DriveLost">> /\ Terminal(e)
  BY <1>0
<1>2. Unfinished
  BY DEF TellInv
<1>3. \A i \in 1 .. Len(said') : said'[i] = <<"DriveLost">> <=> i = 1
  BY <1>1 DEF TellInv, EventsTellTheEpisode
<1>4. \A i \in 1 .. Len(said') : Terminal(said'[i]) => i = Len(said') /\ said'[i] = e
  BY <1>1, <1>2 DEF Unfinished
<1>5. outcome' = IF e = <<"LowerComplete">> THEN "LowerComplete" ELSE e[2]
  BY EventsDiffer
<1>6. EventsTellTheEpisode'
  BY <1>1, <1>3, <1>4, <1>5 DEF EventsTellTheEpisode
<1> QED BY <1>1, <1>6 DEF TellInv, Following, End

\* A stop with nothing new shed: it fails the tick, or happens outside of it.
LEMMA TellStop ==
    ASSUME TellInv, NEW class, NEW end \in End, NEW refused, NEW unread,
           PerformStop(class, end, refused, shed, unread),
           UNCHANGED <<shed, phase, said>>,
           pc' \in {"loop", "drain1", "end", "failed", "report"}
    PROVE  TellInv'
<1>1. outcome' = (IF InEpisode THEN end ELSE outcome) /\ ~InEpisode'
  BY DEF PerformStop, InEpisode
<1>2. CASE ~InEpisode
  BY <1>1, <1>2 DEF TellInv, EventsTellTheEpisode, Unfinished, Following
<1>3. CASE InEpisode
  <2>1. Unfinished
    BY <1>3, EndedHasOutcome DEF Unfinished
  <2>2. EventsTellTheEpisode'
    BY <2>1 DEF TellInv, EventsTellTheEpisode, Unfinished
  <2> QED BY <1>1, <1>3, <2>1, <2>2 DEF TellInv, Unfinished, Following, End
<1> QED BY <1>2, <1>3

\* Nothing was shed, told or ended before the first shed.
LEMMA BeforeTheShed ==
    ASSUME TellInv, NEW j \in Joint, NEW g, NEW s, NEW ages, Qualifies(j, g, s, ages)
    PROVE  said = <<>> /\ phase = "none" /\ outcome = "none" /\ ~InEpisode /\ Subtree[j] # {}
BY DriveLossAssumption DEF DriveLossAssumption, Qualifies, TellInv

\* The shed starts the one episode.
LEMMA TellShed ==
    ASSUME TellInv, NEW j \in Joint, NEW g, NEW s, NEW ages, NEW unread, NEW next,
           Shed(j, g, s, ages, unread, next)
    PROVE  TellInv'
<1>1. said = <<>> /\ phase = "none" /\ outcome = "none" /\ Subtree[j] # {}
  BY BeforeTheShed DEF Shed
<1>2. said' = <<>> /\ phase' = "none" /\ outcome' = "none" /\ shed' # {}
  BY <1>1 DEF Shed
<1> QED BY <1>2 DEF TellInv, EventsTellTheEpisode, Following

\* A shed whose Disable was refused starts none.
LEMMA TellShedFails ==
    ASSUME TellInv, NEW j \in Joint, NEW g, NEW s, NEW ages, NEW unread, NEW refused, NEW next,
           ShedFails(j, g, s, ages, unread, refused, next)
    PROVE  TellInv'
<1>1. said = <<>> /\ phase = "none" /\ outcome = "none" /\ ~InEpisode /\ Subtree[j] # {}
  BY BeforeTheShed DEF ShedFails
<1>2. said' = <<>> /\ phase' = "none" /\ outcome' = "none" /\ shed' # {} /\ ~InEpisode'
  BY <1>1 DEF ShedFails, PerformStop, InEpisode
<1> QED BY <1>2 DEF TellInv, EventsTellTheEpisode, Following

\* observe_degraded_episode tells the start and the end.
LEMMA TellObserve ==
    ASSUME TellInv, said' = ObservedEvents, phase' = "none" <=> ObservedPhase = "none",
           UNCHANGED <<outcome, episode, shed>>
    PROVE  TellInv'
<1>1. Following' /\ (InEpisode' <=> InEpisode)
  BY DEF Following, ObservedPhase, InEpisode
<1>2. CASE InEpisode /\ phase = "none"
  <2>1. said = <<>> /\ said' = Append(said, <<"DriveLost">>) /\ phase' # "none"
    BY <1>2, UntoldIsEmpty DEF ObservedEvents, ObservedPhase
  <2> QED BY <1>1, <1>2, <2>1, TellMore
<1>3. CASE ~InEpisode /\ phase # "none"
  <2>1. said' = Append(said, <<"Ended", outcome>>) /\ phase' = "none"
    BY <1>3 DEF ObservedEvents, ObservedPhase
  <2>2. outcome \in End
    BY <1>3 DEF TellInv
  <2> QED BY <1>1, <1>3, <2>1, <2>2, TellEnd, EventsDiffer
<1>4. CASE (InEpisode /\ phase # "none") \/ (~InEpisode /\ phase = "none")
  <2>1. said' = said /\ (phase' = "none" <=> phase = "none")
    BY <1>4 DEF ObservedEvents, ObservedPhase
  <2> QED BY <1>1, <2>1 DEF TellInv, EventsTellTheEpisode, Unfinished
<1> QED BY <1>2, <1>3, <1>4 DEF InEpisode

\* However a lapsed grant is answered, in the tick or in the loop.
LEMMA TellLapse ==
    ASSUME TellInv, NEW g, NEW ages, NEW unread, NEW next, NEW failed \in {"failed", "loop"},
           LapseAnswered(g, ages, unread, next, failed)
    PROVE  TellInv'
<1>1. CASE LapseStops(g, silent \cup (granted \ g), ages, unread, failed)
  BY <1>1, TellStop DEF LapseStops, Stop, End
<1> QED BY <1>1, TellShed, TellShedFails DEF LapseAnswered

\* The deadline, wherever it is enforced.
LEMMA TellDeadline ==
    ASSUME TellInv, NEW next \in {"failed", "drain1"}, DeadlineStops(next)
    PROVE  TellInv'
BY TellStop DEF DeadlineStops, Stop, End

\* A step inside the tick that tells nothing.
LEMMA TellOn ==
    ASSUME TellInv, UNCHANGED <<said, phase, outcome, shed, episode>>,
           \/ pc' = pc
           \/ pc' \notin {"recheck", "relook", "compose", "admit", "watch", "write", "drain2",
                          "read2", "rest"}
           \/ pc \in {"recheck", "relook", "compose", "admit", "watch", "write", "drain2", "read2"}
    PROVE  TellInv'
<1>1. Following' /\ (InEpisode' <=> InEpisode)
  BY DEF TellInv, Following, InEpisode
<1> QED BY <1>1, TellSame

\* Every step of the tick.
LEMMA TellTick ==
    ASSUME TellInv, TickStep
    PROVE  TellInv'
<1> USE DEF supervisorVars, lossVars, controlVars, driveVars
<1>1. ASSUME NEW here, NEW next, Drain(here, next),
             <<here, next>> \in {<<"drain1", "read1">>, <<"drain2", "read2">>}
      PROVE  TellInv'
  <2>1. CASE DeadlineStops("failed")
    BY <2>1, TellDeadline
  <2>2. CASE \E j \in Joint :
               \/ Shed(j, granted, silent, asked, reply, next)
               \/ \E refused \in Refusing :
                      ShedFails(j, granted, silent, asked, reply, refused, "failed")
    BY <2>2, TellShed, TellShedFails
  <2>3. CASE pc = here /\ pc' = next /\ UNCHANGED <<supervisorVars, lossVars, controlVars>>
    BY <1>1, <2>3, TellOn
  <2> QED BY <1>1, <2>1, <2>2, <2>3 DEF Drain
<1>2. ASSUME NEW here, NEW next, Read(here, next),
             <<here, next>> \in {<<"read1", "look">>, <<"read2", "rest">>}
      PROVE  TellInv'
  <2>1. PICK R \in SUBSET Joint :
        LET unread == [j \in Joint |-> IF j \in R THEN {} ELSE reply[j]]
            poses == {j \in R \cap active : ~enabling /\ "Run" \in reply[j]}
            ages == [j \in Joint |-> IF j \in poses THEN Never ELSE asked[j]]
            g == granted \ Lapsed(ages)
        IN \/ \E refused \in Refusing :
                  \/ Stop("DriveState", "Stopped", refused, unread, "failed")
                  \/ Stop("Device", "Stopped", refused, unread, "failed")
                  \/ Stop("none", "Stopped", refused, unread, "failed")
           \/ LapseAnswered(g, ages, unread, next, "failed")
           \/ pc = here /\ pc' = next /\ UNCHANGED <<lossVars, controlVars>>
    BY <1>2 DEF Read
  <2>2. CASE pc = here /\ pc' = next /\ UNCHANGED <<lossVars, controlVars>>
    BY <1>2, <2>2, TellOn
  <2>3. ASSUME NEW class, NEW refused, NEW unread, Stop(class, "Stopped", refused, unread, "failed")
        PROVE  TellInv'
    BY <2>3, TellStop DEF Stop, End
  <2> QED BY <2>1, <2>2, <2>3, TellLapse
<1>3. CASE Look \/ Relook \/ TickEnds
  BY <1>3, TellObserve DEF Look, Relook, TickEnds, Observe
<1>4. CASE EnableCompletes \/ NotAtRest \/ Write
  BY <1>4, TellOn DEF EnableCompletes, NotAtRest, Write
<1>5. CASE Recheck
  <2>1. CASE pc = "recheck" /\ UNCHANGED <<lossVars, controlVars>>
    BY <2>1, TellOn
  <2> QED BY <1>5, <2>1, TellLapse DEF Recheck
<1>6. CASE RelookFails
  <2>1. PICK refused \in Refusing : PerformStop("Controller", "Stopped", refused, shed, reply)
    BY <1>6 DEF RelookFails
  <2>2. /\ ~InEpisode' /\ outcome' = (IF InEpisode THEN "Stopped" ELSE outcome) /\ Following'
        /\ shed' = shed /\ phase' = ObservedPhase /\ said' = ObservedEvents
        /\ phase # "none" => InEpisode
    BY <1>6, <2>1 DEF RelookFails, PerformStop, InEpisode, Following, TellInv
  <2>3. CASE InEpisode /\ phase = "none"
    <3>1. said = <<>> /\ said' = Append(said, <<"DriveLost">>) /\ phase' # "none"
      BY <2>2, <2>3, UntoldIsEmpty DEF ObservedEvents, ObservedPhase
    <3> QED BY <2>2, <2>3, <3>1, TellMore DEF End
  <2>4. CASE (InEpisode /\ phase # "none") \/ ~InEpisode
    <3>1. UNCHANGED <<said, phase>> /\ pc' = "failed"
      BY <1>6, <2>2, <2>4 DEF ObservedEvents, ObservedPhase, RelookFails
    <3> QED BY <2>1, <2>2, <3>1, TellStop DEF End
  <2> QED BY <2>3, <2>4
<1>7. CASE ComposeFails \/ WriteFails
  BY <1>7, TellStop DEF ComposeFails, WriteFails, Stop, End
<1>8. CASE Compose
  <2>1. UNCHANGED <<outcome, shed, episode>> /\ pc = "compose"
    BY <1>8 DEF Compose
  <2>2. CASE LowerDue /\ controlMode = "Position"
    <3>1. phase' = "Lowering" /\ said' = Append(said, <<"LowerStarted">>) /\ phase # "none"
      BY <1>8, <2>2 DEF Compose, LowerDue
    <3>2. InEpisode /\ InEpisode' /\ said # <<>> /\ Following'
      BY <2>1, <3>1 DEF TellInv, Following, InEpisode
    <3> QED BY <2>1, <3>1, <3>2, TellMore
  <2>3. CASE ~(LowerDue /\ controlMode = "Position")
    BY <1>8, <2>1, <2>3, TellOn DEF Compose
  <2> QED BY <2>2, <2>3
<1>9. CASE Admit
  <2>1. CASE pc = "admit" /\ UNCHANGED <<lossVars, controlVars>>
    BY <2>1, TellOn
  <2> QED BY <1>9, <2>1, TellLapse, TellDeadline DEF Admit
<1>10. CASE Watch
  <2>1. CASE pc = "watch" /\ UNCHANGED <<lossVars, controlVars>>
    BY <2>1, TellOn
  <2>2. CASE \E refused \in Refusing :
                 Stop("Communication", "Stopped", refused, reply, "failed")
    BY <2>2, TellStop DEF Stop, End
  <2> QED BY <1>10, <2>1, <2>2, TellShed, TellShedFails DEF Watch
<1>11. CASE AtRest
  <2>1. /\ InEpisode /\ phase # "none" /\ phase' = "none" /\ shed' = shed
        /\ said' = Append(said, <<"LowerComplete">>)
    BY <1>11 DEF AtRest, TellInv, Following
  <2>2. outcome' = "LowerComplete" /\ ~InEpisode'
    BY <1>11, <2>1 DEF AtRest, PerformStop, InEpisode
  <2> QED BY <2>1, <2>2, TellEnd, EventsDiffer DEF End
<1> QED BY <1>1, <1>2, <1>3, <1>4, <1>5, <1>6, <1>7, <1>8, <1>9, <1>10, <1>11 DEF TickStep

\* Every step of the loop around it.
LEMMA TellLoop ==
    ASSUME TellInv, LoopStep
    PROVE  TellInv'
<1> USE DEF supervisorVars, lossVars, controlVars, driveVars
<1>1. CASE StopAfterTickError
  <2>1. CASE pc' = "report" /\ UNCHANGED <<lossVars, controlVars>>
    BY <2>1, TellOn
  <2> QED BY <1>1, <2>1, TellStop DEF StopAfterTickError, Stop, End
<1>2. CASE Report
  BY <1>2, TellObserve DEF Report, Observe
<1>3. CASE StartTick
  <2>1. CASE pc' = "drain1" /\ UNCHANGED <<lossVars, controlVars>>
    BY <2>1, TellOn
  <2> QED BY <1>3, <2>1, TellDeadline DEF StartTick
<1> QED BY <1>1, <1>2, <1>3 DEF LoopStep

\* The operator.
LEMMA TellOperator ==
    ASSUME TellInv, OperatorStep
    PROVE  TellInv'
<1> USE DEF supervisorVars, lossVars, controlVars, driveVars
<1>1. CASE Enable \/ ReadFacet \/ SyncReporting
  BY <1>1, TellOn DEF Enable, ReadFacet, SyncReporting
<1>2. CASE EnableAgain
  BY <1>2, TellLapse DEF EnableAgain
<1>3. CASE DisableAll
  BY <1>3, TellStop DEF DisableAll, Stop, End
<1>4. CASE RequestLower
  <2>1. phase' = "none" <=> ObservedPhase = "none"
    BY <1>4 DEF RequestLower
  <2> QED BY <1>4, <2>1, TellObserve DEF RequestLower
<1>5. ASSUME NEW m \in Modes, SetControlMode(m) PROVE TellInv'
  <2>1. CASE pc' = pc /\ UNCHANGED <<lossVars, controlVars>>
    BY <2>1, TellOn
  <2> QED BY <1>5, <2>1, TellStop DEF SetControlMode, Stop, End
<1> QED BY <1>1, <1>2, <1>3, <1>4, <1>5 DEF OperatorStep

\* Drives and time.
LEMMA TellWorld ==
    ASSUME TellInv, EpisodeNamed, DriveStep \/ Tick
    PROVE  TellInv'
<1> USE DEF supervisorVars, lossVars, controlVars, driveVars
<1>1. CASE DriveStep
  BY <1>1, TellOn DEF DriveStep, DriveDies, DriveReturns
<1>2. CASE Tick
  <2>1. InEpisode' <=> InEpisode
    <3>1. CASE ~InEpisode
      BY <1>2, <3>1 DEF Tick, InEpisode
    <3>2. CASE InEpisode
      <4>1. episode' = [episode EXCEPT !.age = Older(@, episode.due + 1)] /\ episode.lost # {}
        BY <1>2, <3>2 DEF Tick, EpisodeNamed, InEpisode
      <4>2. episode'.lost = episode.lost
        BY <4>1
      <4> QED BY <3>2, <4>1, <4>2 DEF InEpisode, None
    <3> QED BY <3>1, <3>2
  <2>2. Following' /\ UNCHANGED <<said, phase, outcome, shed>>
    BY <1>2, <2>1 DEF Tick, TellInv, Following
  <2> QED BY <2>1, <2>2, TellSame
<1> QED BY <1>1, <1>2

\* The story is an invariant.
LEMMA TellHolds == Spec => []TellInv
<1>1. Init => TellInv
  BY DEF Init, TellInv, EventsTellTheEpisode, Following, InEpisode, Events, End
<1>2. TellInv /\ IInv /\ [Next]_vars => TellInv'
  <2> SUFFICES ASSUME TellInv, IInv, [Next]_vars PROVE TellInv'
    OBVIOUS
  <2>1. CASE UNCHANGED vars
    BY <2>1, TellOn DEF vars, lossVars, controlVars
  <2>2. EpisodeNamed
    BY DEF IInv
  <2> QED BY <2>1, <2>2, TellTick, TellLoop, TellOperator, TellWorld DEF Next
<1> QED BY <1>1, <1>2, Inductive, PTL DEF Spec

(***************************************************************************)
(* Whatever stops, faults, deadlines and operators do: an announced        *)
(* episode is announced as ended once, last, and with Davout's outcome.    *)
(***************************************************************************)
THEOREM EpisodeTold == Spec => []EventsTellTheEpisode
<1>1. TellInv => EventsTellTheEpisode
  BY DEF TellInv
<1> QED BY <1>1, TellHolds, PTL

------------------------------------------------------------------------------
(***************************************************************************)
(* The deadline.  Between its check at admission and the write at most one *)
(* period passes in a host that does not stall, and an episode that starts *)
(* in between has its whole hold window left.                              *)
(***************************************************************************)
InTime ==
    pc \in {"watch", "write"} /\ InEpisode =>
        IF ticked THEN episode.age <= episode.due ELSE episode.age < episode.due

DueInv ==
    /\ InTime
    /\ ticked \in BOOLEAN
    /\ episode \in [lost : SUBSET Joint, age : Nat, due : Nat]

\* A step that leaves the episode alone and does not pass the admission.
LEMMA DueSame ==
    ASSUME DueInv, UNCHANGED episode, ticked' \in BOOLEAN,
           \/ pc' \notin {"watch", "write"}
           \/ pc \in {"watch", "write"} /\ ticked' = ticked
    PROVE  DueInv'
BY DEF DueInv, InTime, InEpisode

\* A stop ends the episode.
LEMMA DueStop ==
    ASSUME DueInv, NEW class, NEW end, NEW refused, NEW S, NEW unread,
           PerformStop(class, end, refused, S, unread), ticked' = ticked
    PROVE  DueInv'
BY DEF DueInv, InTime, InEpisode, PerformStop, None

\* A new episode has its hold window left.
LEMMA DueShed ==
    ASSUME DueInv, Hold # 0, NEW j \in Joint, NEW g, NEW s, NEW ages, NEW unread, NEW next,
           Shed(j, g, s, ages, unread, next)
    PROVE  DueInv'
<1>1. PICK due \in Hold .. Hold + Lower : episode' = [lost |-> {j}, age |-> 0, due |-> due]
  BY DEF Shed
<1>2. due \in Nat /\ 0 < due
  BY DriveLossAssumption DEF DriveLossAssumption
<1>3. ticked' \in BOOLEAN
  BY DEF Shed, DueInv
<1> QED BY <1>1, <1>2, <1>3 DEF DueInv, InTime

\* A lapse is answered by a stop or by a new episode.
LEMMA DueLapse ==
    ASSUME DueInv, Hold # 0, NEW g, NEW ages, NEW unread, NEW next, NEW failed,
           LapseAnswered(g, ages, unread, next, failed)
    PROVE  DueInv'
BY DueStop, DueShed DEF LapseAnswered, LapseStops, Stop, ShedFails

\* The deadline that was reached ends the episode.
LEMMA DueDeadline ==
    ASSUME DueInv, NEW next, DeadlineStops(next)
    PROVE  DueInv'
BY DueStop DEF DeadlineStops, Stop

\* Every step of the tick: admission lets only an unexpired episode through.
LEMMA DueTick ==
    ASSUME DueInv, Hold # 0, TickStep
    PROVE  DueInv'
<1> USE DEF supervisorVars, lossVars, controlVars, driveVars
<1>0. ticked \in BOOLEAN
  BY DEF DueInv
<1>1. ASSUME NEW here, NEW next \in {"read1", "read2"}, Drain(here, next) PROVE DueInv'
  <2>1. CASE \E j \in Joint :
               \/ Shed(j, granted, silent, asked, reply, next)
               \/ \E refused \in Refusing :
                      ShedFails(j, granted, silent, asked, reply, refused, "failed")
    BY <2>1, DueShed, DueStop DEF ShedFails
  <2>2. CASE pc' = next /\ UNCHANGED <<lossVars, ticked>>
    BY <1>0, <2>2, DueSame
  <2> QED BY <1>1, <2>1, <2>2, DueDeadline DEF Drain
<1>2. ASSUME NEW here, NEW next \in {"look", "rest"}, Read(here, next) PROVE DueInv'
  <2>1. PICK R \in SUBSET Joint :
        LET unread == [j \in Joint |-> IF j \in R THEN {} ELSE reply[j]]
            poses == {j \in R \cap active : ~enabling /\ "Run" \in reply[j]}
            ages == [j \in Joint |-> IF j \in poses THEN Never ELSE asked[j]]
            g == granted \ Lapsed(ages)
        IN \/ \E class, refused : Stop(class, "Stopped", refused, unread, "failed")
           \/ LapseAnswered(g, ages, unread, next, "failed")
           \/ pc' = next /\ UNCHANGED <<lossVars, ticked>>
    BY <1>2 DEF Read
  <2>2. CASE pc' = next /\ UNCHANGED <<lossVars, ticked>>
    BY <1>0, <2>2, DueSame
  <2> QED BY <2>1, <2>2, DueStop, DueLapse DEF Stop
<1>3. CASE Look \/ Relook \/ TickEnds \/ EnableCompletes \/ NotAtRest \/ Compose \/ Write
  BY <1>0, <1>3, DueSame DEF Look, Relook, TickEnds, EnableCompletes, NotAtRest, Compose, Write
<1>4. CASE RelookFails \/ ComposeFails \/ WriteFails \/ AtRest
  BY <1>4, DueStop DEF RelookFails, ComposeFails, WriteFails, AtRest, Stop
<1>5. CASE Recheck
  <2>1. CASE pc' = "relook" /\ UNCHANGED <<lossVars, ticked>>
    BY <1>0, <2>1, DueSame
  <2> QED BY <1>5, <2>1, DueLapse DEF Recheck
<1>6. CASE Admit
  <2>1. CASE ~Expired /\ UNCHANGED <<lossVars, ticked>>
    BY <2>1 DEF Expired, DueInv, InTime, InEpisode
  <2> QED BY <1>6, <2>1, DueLapse, DueDeadline DEF Admit
<1>7. CASE Watch
  <2>1. CASE pc = "watch" /\ UNCHANGED <<lossVars, ticked>>
    BY <1>0, <2>1, DueSame
  <2> QED BY <1>7, <2>1, DueShed, DueStop DEF Watch, ShedFails, Stop
<1> QED BY <1>1, <1>2, <1>3, <1>4, <1>5, <1>6, <1>7 DEF TickStep

\* Every other step; only time ages an episode, once in an iteration.
LEMMA DueOther ==
    ASSUME DueInv, EpisodeNamed, Hold # 0, ~Stalls, LoopStep \/ OperatorStep \/ DriveStep \/ Tick
    PROVE  DueInv'
<1> USE DEF supervisorVars, lossVars, controlVars, driveVars
<1>0. ticked \in BOOLEAN
  BY DEF DueInv
<1>1. CASE LoopStep
  <2>1. CASE pc' \in {"report", "loop", "drain1"} /\ UNCHANGED lossVars /\ ticked' \in BOOLEAN
    BY <2>1, DueSame
  <2> QED BY <1>0, <1>1, <2>1, DueStop, DueDeadline
          DEF LoopStep, StopAfterTickError, Report, StartTick, Stop
<1>2. CASE OperatorStep
  <2>1. CASE EnableAgain
    BY <2>1, DueLapse DEF EnableAgain
  <2>2. CASE DisableAll
    BY <2>2, DueStop DEF DisableAll, Stop
  <2>3. CASE Enable \/ RequestLower \/ ReadFacet \/ SyncReporting
    BY <1>0, <2>3, DueSame DEF Enable, RequestLower, ReadFacet, SyncReporting
  <2>4. ASSUME NEW m \in Modes, SetControlMode(m) PROVE DueInv'
    <3>1. CASE pc = "loop" /\ UNCHANGED <<pc, lossVars, ticked>>
      BY <1>0, <3>1, DueSame
    <3> QED BY <2>4, <3>1, DueStop DEF SetControlMode, Stop
  <2> QED BY <1>2, <2>1, <2>2, <2>3, <2>4 DEF OperatorStep
<1>3. CASE DriveStep
  <2>1. UNCHANGED <<pc, episode, ticked>>
    BY <1>3 DEF DriveStep, DriveDies, DriveReturns
  <2> QED BY <2>1 DEF DueInv, InTime, InEpisode
<1>4. CASE Tick
  <2>1. ticked = FALSE /\ ticked' = TRUE /\ pc' = pc
    BY <1>0, <1>4 DEF Tick
  <2>2. CASE ~InEpisode
    BY <1>4, <2>1, <2>2 DEF Tick, DueInv, InTime, InEpisode
  <2>3. CASE InEpisode
    <3>1. /\ episode' = [episode EXCEPT !.age = Older(episode.age, episode.due + 1)]
          /\ episode \in [lost : SUBSET Joint, age : Nat, due : Nat]
      BY <1>4, <2>3 DEF Tick, DueInv
    <3>2. /\ episode'.age = Older(episode.age, episode.due + 1) /\ episode'.due = episode.due
          /\ episode' \in [lost : SUBSET Joint, age : Nat, due : Nat]
      BY <3>1 DEF Older
    <3>3. pc \in {"watch", "write"} => episode'.age <= episode'.due
      BY <2>1, <2>3, <3>1, <3>2 DEF DueInv, InTime, Older
    <3> QED BY <2>1, <3>2, <3>3 DEF DueInv, InTime
  <2> QED BY <2>2, <2>3
<1> QED BY <1>1, <1>2, <1>3, <1>4

(***************************************************************************)
(* In a host that keeps its period, and with the positive hold window that *)
(* the configuration demands, no servo batch is written more than a period *)
(* after the deadline was last checked: none follows a deadline that       *)
(* passed before the period began.                                         *)
(***************************************************************************)
THEOREM WritesInTime ==
    ASSUME ~Stalls, Hold # 0
    PROVE  Spec => [][MovesInTime]_vars
<1>1. Init => DueInv
  <2> SUFFICES ASSUME Init PROVE DueInv
    OBVIOUS
  <2>1. pc = "loop" /\ ticked = FALSE /\ episode = [lost |-> {}, age |-> 0, due |-> 0]
    BY DEF Init, None
  <2> QED BY <2>1 DEF DueInv, InTime
<1>2. DueInv /\ IInv /\ [Next]_vars => DueInv'
  <2> SUFFICES ASSUME DueInv, IInv, [Next]_vars PROVE DueInv'
    OBVIOUS
  <2>1. CASE UNCHANGED vars
    BY <2>1 DEF vars, lossVars, DueInv, InTime, InEpisode
  <2>2. EpisodeNamed
    BY DEF IInv
  <2> QED BY <2>1, <2>2, DueTick, DueOther DEF Next
<1>3. DueInv => MovesInTime
  BY DEF DueInv, InTime, MovesInTime
<1> QED BY <1>1, <1>2, <1>3, Inductive, PTL DEF Spec

------------------------------------------------------------------------------
(***************************************************************************)
(* Types.                                                                  *)
(***************************************************************************)
EpisodeTyped ==
    episode \in [lost : SUBSET Joint, age : 0 .. Hold + Lower + 1, due : 0 .. Hold + Lower]
Unread == [Joint -> SUBSET DriveMode]

\* The place of the loop.
Place == {"loop", "drain1", "read1", "look", "recheck", "relook", "compose", "admit", "watch",
          "write", "drain2", "read2", "rest", "end", "failed", "restop", "report"}

\* Drives that answer, and drives that are reset.
LEMMA AnswersType ==
    ASSUME TypeOK, NEW unread \in Unread, NEW S
    PROVE  /\ ToReset(S) \in [Joint -> DriveMode]
           /\ \A m \in [Joint -> DriveMode] : Answers(unread, S, m) \in Unread
BY DEF TypeOK, Answers, ToReset, DriveMode, Unread

\* A stop, whatever class, end and refusals.
LEMMA TypeStop ==
    ASSUME TypeOK, NEW class \in Faults, NEW end \in End, NEW refused, NEW S, NEW unread \in Unread,
           PerformStop(class, end, refused, S, unread),
           pc' \in Place, silent' \subseteq Joint, shed' \subseteq Joint, shedAge' \in 0 .. Grace + 1,
           phase' \in {"none", "Hold", "LowerRequested", "Lowering"}, said' \in Seq(Events),
           UNCHANGED <<dead, ticked>>
    PROVE  TypeOK'
<1>1. mode' = "Disabled" /\ controlMode' = "Disabled" /\ active' = {} /\ enabling' = FALSE
      /\ staged' = {} /\ lost' = FALSE /\ episode' = None
  BY DEF PerformStop
<1>2. fault' \in Faults
  BY DEF PerformStop, EndFault, StopFault, Faults, TypeOK
<1>3. granted' \subseteq Joint /\ outcome' \in End \cup {"none"}
  BY DEF PerformStop, TypeOK
<1>4. driveMode' \in [Joint -> DriveMode] /\ reply' \in Unread
  BY AnswersType DEF PerformStop
<1>5. fresh' \subseteq Joint /\ wrote' \subseteq Joint
  BY DEF PerformStop, Expecting, StopTargets, TypeOK
<1>6. asked' \in [Joint -> Never .. Watchdog + 1]
  BY DriveLossAssumption DEF DriveLossAssumption, PerformStop, Never
<1>7. EpisodeTyped'
  BY <1>1, DriveLossAssumption DEF DriveLossAssumption, EpisodeTyped, None
<1>8. dead' \subseteq Joint /\ ticked' \in BOOLEAN
  BY DEF TypeOK
<1> QED BY <1>1, <1>2, <1>3, <1>4, <1>5, <1>6, <1>7, <1>8
        DEF TypeOK, ControlModes, Place, EpisodeTyped, Unread

\* A stop with nothing new shed.
LEMMA TypeStopped ==
    ASSUME TypeOK, NEW class \in Faults, NEW end \in End, NEW refused, NEW unread \in Unread,
           NEW next \in Place, Stop(class, end, refused, unread, next)
    PROVE  TypeOK'
<1>1. /\ silent' \subseteq Joint /\ shed' \subseteq Joint /\ shedAge' \in 0 .. Grace + 1
      /\ phase' \in {"none", "Hold", "LowerRequested", "Lowering"} /\ said' \in Seq(Events)
      /\ UNCHANGED <<dead, ticked>> /\ pc' \in Place
  BY DEF Stop, TypeOK
<1> QED BY <1>1, TypeStop DEF Stop

\* A shed, carried out or refused.
LEMMA TypeShed ==
    ASSUME TypeOK, NEW j \in Joint, NEW g \in SUBSET Joint, NEW s \in SUBSET Joint,
           NEW ages \in [Joint -> Never .. Watchdog + 1], NEW unread \in Unread,
           NEW next \in Place, NEW refused,
           \/ Shed(j, g, s, ages, unread, next)
           \/ ShedFails(j, g, s, ages, unread, refused, next)
    PROVE  TypeOK'
<1>1. Subtree[j] \subseteq Joint
  BY DriveLossAssumption DEF DriveLossAssumption, Shed, ShedFails, Qualifies
<1>2. CASE Shed(j, g, s, ages, unread, next)
  <2>1. PICK due \in Hold .. Hold + Lower : episode' = [lost |-> {j}, age |-> 0, due |-> due]
    BY <1>2 DEF Shed
  <2>2. EpisodeTyped'
    BY <2>1, DriveLossAssumption DEF DriveLossAssumption, EpisodeTyped
  <2>3. /\ shed' = Subtree[j] /\ shedAge' = 0 /\ granted' = g \ Subtree[j] /\ silent' = s
        /\ active' = active \ Subtree[j] /\ staged' = staged \ Subtree[j]
        /\ wrote' = {} /\ lost' = FALSE /\ pc' = next
        /\ UNCHANGED <<mode, fault, enabling, controlMode, outcome, phase, said, dead, ticked>>
    BY <1>2 DEF Shed, Retained
  <2>4. driveMode' \in [Joint -> DriveMode] /\ reply' \in Unread
    BY <1>2, AnswersType DEF Shed
  <2>5. fresh' \subseteq Joint
    BY <1>1, <1>2 DEF Shed, Expecting, TypeOK
  <2>6. asked' \in [Joint -> Never .. Watchdog + 1]
    BY <1>2, DriveLossAssumption DEF DriveLossAssumption, Shed, Never
  <2>7. shedAge' \in 0 .. Grace + 1
    BY <2>3, DriveLossAssumption DEF DriveLossAssumption
  <2> QED BY <1>1, <2>2, <2>3, <2>4, <2>5, <2>6, <2>7 DEF TypeOK, Place, EpisodeTyped, Unread
<1>3. CASE ShedFails(j, g, s, ages, unread, refused, next)
  <2>1. /\ silent' \subseteq Joint /\ shed' \subseteq Joint /\ shedAge' = 0
        /\ phase' \in {"none", "Hold", "LowerRequested", "Lowering"} /\ said' \in Seq(Events)
        /\ UNCHANGED <<dead, ticked>> /\ pc' \in Place
    BY <1>1, <1>3 DEF ShedFails, TypeOK
  <2>2. shedAge' \in 0 .. Grace + 1
    BY <2>1, DriveLossAssumption DEF DriveLossAssumption
  <2> QED BY <1>3, <2>1, <2>2, TypeStop DEF ShedFails, Faults, End
<1> QED BY <1>2, <1>3

\* However a lapsed grant is answered.
LEMMA TypeLapse ==
    ASSUME TypeOK, NEW g \in SUBSET Joint, NEW ages \in [Joint -> Never .. Watchdog + 1],
           NEW unread \in Unread, NEW next \in Place, NEW failed \in Place,
           LapseAnswered(g, ages, unread, next, failed)
    PROVE  TypeOK'
<1>1. silent \cup (granted \ g) \in SUBSET Joint
  BY DEF TypeOK
<1>2. CASE LapseStops(g, silent \cup (granted \ g), ages, unread, failed)
  BY <1>2, TypeStopped DEF LapseStops, Faults, End
<1> QED BY <1>1, <1>2, TypeShed DEF LapseAnswered

\* The deadline.
LEMMA TypeDeadline ==
    ASSUME TypeOK, NEW next \in Place, DeadlineStops(next)
    PROVE  TypeOK'
BY TypeStopped DEF DeadlineStops, Faults, End, TypeOK, Unread

\* observe_degraded_episode.
LEMMA TypeObserve ==
    ASSUME TypeOK, TellInv
    PROVE  /\ ObservedPhase \in {"none", "Hold", "LowerRequested", "Lowering"}
           /\ ObservedEvents \in Seq(Events) /\ ObservedMode \in ControlModes
<1>1. ObservedPhase \in {"none", "Hold", "LowerRequested", "Lowering"} /\ ObservedMode \in ControlModes
  BY DEF TypeOK, ObservedPhase, ObservedMode, ControlModes
<1>2. ~InEpisode /\ phase # "none" => <<"Ended", outcome>> \in Events
  BY EventsDiffer DEF TellInv
<1>3. said \in Seq(Events) /\ <<"DriveLost">> \in Events
  BY EventsDiffer DEF TellInv
<1> QED BY <1>1, <1>2, <1>3 DEF ObservedEvents

\* Every step of the tick.
LEMMA TypeTick ==
    ASSUME TypeOK, TellInv, TickStep
    PROVE  TypeOK'
<1> USE DEF supervisorVars, lossVars, controlVars, driveVars
<1>0. reply \in Unread /\ granted \in SUBSET Joint /\ silent \in SUBSET Joint
      /\ asked \in [Joint -> Never .. Watchdog + 1]
  BY DEF TypeOK, Unread
<1>1. ASSUME NEW here, NEW next \in Place, Drain(here, next) PROVE TypeOK'
  <2>1. CASE \E j \in Joint :
               \/ Shed(j, granted, silent, asked, reply, next)
               \/ \E refused \in Refusing :
                      ShedFails(j, granted, silent, asked, reply, refused, "failed")
    BY <1>0, <2>1, TypeShed DEF Place
  <2>2. CASE /\ pc' = next /\ lost' \in BOOLEAN /\ wrote' = {}
             /\ UNCHANGED <<supervisorVars, lossVars, controlVars, driveVars, ticked>>
    BY <2>2 DEF TypeOK, Place
  <2> QED BY <1>1, <2>1, <2>2, TypeDeadline DEF Drain, Place
<1>2. ASSUME NEW here, NEW next \in Place, Read(here, next) PROVE TypeOK'
  <2>1. PICK R \in SUBSET Joint :
        LET unread == [j \in Joint |-> IF j \in R THEN {} ELSE reply[j]]
            poses == {j \in R \cap active : ~enabling /\ "Run" \in reply[j]}
            ages == [j \in Joint |-> IF j \in poses THEN Never ELSE asked[j]]
            g == granted \ Lapsed(ages)
        IN \/ \E class \in Faults : \E refused : Stop(class, "Stopped", refused, unread, "failed")
           \/ LapseAnswered(g, ages, unread, next, "failed")
           \/ /\ asked' = ages /\ reply' = unread /\ pc' = next /\ wrote' = {}
              /\ UNCHANGED <<lost, mode, fault, granted, silent, active, enabling,
                             controlMode, lossVars, controlVars, dead, driveMode, fresh, ticked>>
    BY <1>2 DEF Read, Faults
  <2> DEFINE unread == [j \in Joint |-> IF j \in R THEN {} ELSE reply[j]]
             poses == {j \in R \cap active : ~enabling /\ "Run" \in reply[j]}
             ages == [j \in Joint |-> IF j \in poses THEN Never ELSE asked[j]]
             g == granted \ Lapsed(ages)
  <2>2. unread \in Unread /\ ages \in [Joint -> Never .. Watchdog + 1] /\ g \in SUBSET Joint
    <3>1. unread \in Unread
      BY <1>0 DEF Unread
    <3>2. ages \in [Joint -> Never .. Watchdog + 1]
      BY <1>0, DriveLossAssumption DEF DriveLossAssumption, Never
    <3> QED BY <1>0, <3>1, <3>2
  <2>3. \/ \E class \in Faults : \E refused : Stop(class, "Stopped", refused, unread, "failed")
        \/ LapseAnswered(g, ages, unread, next, "failed")
        \/ /\ asked' = ages /\ reply' = unread /\ pc' = next /\ wrote' = {}
           /\ UNCHANGED <<lost, mode, fault, granted, silent, active, enabling,
                          controlMode, lossVars, controlVars, dead, driveMode, fresh, ticked>>
    BY <2>1
  <2> HIDE DEF unread, ages, g
  <2>4. "failed" \in Place /\ "Stopped" \in End
    BY DEF Place, End
  <2>5. CASE /\ asked' = ages /\ reply' = unread /\ pc' = next /\ wrote' = {}
             /\ UNCHANGED <<lost, mode, fault, granted, silent, active, enabling,
                            controlMode, lossVars, controlVars, dead, driveMode, fresh, ticked>>
    BY <2>2, <2>5 DEF TypeOK, Place, Unread
  <2> QED BY <2>2, <2>3, <2>4, <2>5, TypeStopped, TypeLapse
<1>3. CASE Look \/ Relook \/ TickEnds
  <2>1. /\ phase' = ObservedPhase /\ said' = ObservedEvents /\ controlMode' = ObservedMode
        /\ pc' \in Place /\ wrote' = {}
        /\ UNCHANGED <<lost, mode, fault, granted, silent, active, enabling, asked, lossVars, staged,
                       driveVars, ticked>>
    BY <1>3 DEF Look, Relook, TickEnds, Observe, Place
  <2> QED BY <2>1, TypeObserve DEF TypeOK, Place
<1>4. CASE EnableCompletes
  <2>1. asked' \in [Joint -> Never .. Watchdog + 1]
    BY <1>4, DriveLossAssumption DEF DriveLossAssumption, EnableCompletes, Never
  <2>2. /\ driveMode' \in [Joint -> DriveMode] /\ reply' \in [Joint -> SUBSET DriveMode]
        /\ fresh' = {} /\ wrote' = {} /\ enabling' = FALSE /\ pc' \in Place
    BY <1>4 DEF EnableCompletes, DriveMode, Place
  <2> QED BY <1>4, <2>1, <2>2 DEF EnableCompletes, TypeOK, Place
<1>5. CASE NotAtRest
  BY <1>5 DEF NotAtRest, TypeOK
<1>6. CASE Recheck
  <2>1. CASE /\ pc' = "relook" /\ wrote' = {}
             /\ UNCHANGED <<lost, supervisorVars, lossVars, controlVars, driveVars, ticked>>
    BY <2>1 DEF TypeOK
  <2>2. granted \ Lapsed(asked) \in SUBSET Joint /\ "relook" \in Place /\ "failed" \in Place
    BY <1>0 DEF Place
  <2> QED BY <1>0, <1>6, <2>1, <2>2, TypeLapse DEF Recheck
<1>7. CASE RelookFails
  <2>1. PICK refused \in Refusing : PerformStop("Controller", "Stopped", refused, shed, reply)
    BY <1>7 DEF RelookFails
  <2>2. /\ silent' \subseteq Joint /\ shed' \subseteq Joint /\ shedAge' \in 0 .. Grace + 1
        /\ UNCHANGED <<dead, ticked>> /\ pc' \in Place
        /\ phase' = ObservedPhase /\ said' = ObservedEvents
    BY <1>7 DEF RelookFails, TypeOK, Place
  <2>3. "Controller" \in Faults /\ "Stopped" \in End
    BY DEF Faults, End
  <2> QED BY <1>0, <2>1, <2>2, <2>3, TypeObserve, TypeStop
<1>8. CASE ComposeFails \/ WriteFails
  <2>1. \E class \in Faults : \E refused : Stop(class, "Stopped", refused, reply, "failed")
    BY <1>8 DEF ComposeFails, WriteFails, Faults
  <2>2. "failed" \in Place /\ "Stopped" \in End
    BY DEF Place, End
  <2> QED BY <1>0, <2>1, <2>2, TypeStopped
<1>9. CASE Compose
  <2>1. phase' \in {"none", "Hold", "LowerRequested", "Lowering"}
    BY <1>9 DEF Compose, TypeOK
  <2>2. said' \in Seq(Events)
    <3>1. said \in Seq(Events) /\ <<"LowerStarted">> \in Events
      BY EventsDiffer DEF TellInv
    <3>2. said' = said \/ said' = Append(said, <<"LowerStarted">>)
      BY <1>9 DEF Compose
    <3> QED BY <3>1, <3>2
  <2>3. /\ staged' \subseteq Joint /\ pc' = "admit" /\ wrote' = {}
        /\ UNCHANGED <<lost, supervisorVars, lossVars, driveVars, ticked>>
    BY <1>9 DEF Compose, TypeOK
  <2> QED BY <2>1, <2>2, <2>3 DEF TypeOK
<1>10. CASE Admit
  <2>1. CASE /\ pc' \in {"watch", "failed"} /\ wrote' = {}
             /\ UNCHANGED <<lost, supervisorVars, lossVars, controlVars, driveVars, ticked>>
    BY <2>1 DEF TypeOK
  <2>2. granted \ Lapsed(asked) \in SUBSET Joint /\ "watch" \in Place /\ "failed" \in Place
    BY <1>0 DEF Place
  <2> QED BY <1>0, <1>10, <2>1, <2>2, TypeLapse, TypeDeadline DEF Admit
<1>11. CASE Watch
  <2> DEFINE g == granted \ Lapsed(asked)
             s == silent \cup (granted \ g)
  <2>1. CASE /\ pc' = "write" /\ wrote' = {}
             /\ UNCHANGED <<lost, supervisorVars, lossVars, controlVars, driveVars, ticked>>
    BY <2>1 DEF TypeOK
  <2>2. g \in SUBSET Joint /\ s \in SUBSET Joint /\ "write" \in Place /\ "failed" \in Place
    BY <1>0 DEF Place
  <2>3. CASE \E j \in Joint :
               \/ Shed(j, g, s, asked, reply, "write")
               \/ \E refused \in Refusing : ShedFails(j, g, s, asked, reply, refused, "failed")
    <3> HIDE DEF g, s
    <3> QED BY <1>0, <2>2, <2>3, TypeShed
  <2>4. CASE \E refused \in Refusing : Stop("Communication", "Stopped", refused, reply, "failed")
    BY <1>0, <2>2, <2>4, TypeStopped DEF Faults, End
  <2> QED BY <1>11, <2>1, <2>3, <2>4 DEF Watch
<1>12. CASE Write
  <2>1. reply' \in Unread
    BY <1>0, <1>12, AnswersType DEF Write, TypeOK
  <2>2. asked' \in [Joint -> Never .. Watchdog + 1]
    BY <1>0, <1>12, DriveLossAssumption DEF DriveLossAssumption, Write, Asked, Never
  <2>3. fresh' \subseteq Joint /\ wrote' \subseteq Joint /\ staged' = {} /\ pc' = "drain2"
    BY <1>12 DEF Write, Expecting, TypeOK
  <2> QED BY <1>12, <2>1, <2>2, <2>3 DEF Write, TypeOK, Unread
<1>13. CASE AtRest
  <2>1. PICK refused \in Refusing : PerformStop("none", "LowerComplete", refused, shed, reply)
    BY <1>13 DEF AtRest
  <2>2. /\ silent' \subseteq Joint /\ shed' \subseteq Joint /\ shedAge' \in 0 .. Grace + 1
        /\ UNCHANGED <<dead, ticked>> /\ pc' \in Place /\ phase' = "none"
    BY <1>13 DEF AtRest, TypeOK, Place
  <2>3. said' \in Seq(Events)
    <3>1. said \in Seq(Events) /\ <<"LowerComplete">> \in Events
      BY EventsDiffer DEF TellInv
    <3> QED BY <1>13, <3>1 DEF AtRest
  <2>4. "none" \in Faults /\ "LowerComplete" \in End
    BY DEF Faults, End
  <2> QED BY <1>0, <2>1, <2>2, <2>3, <2>4, TypeStop
<1> QED BY <1>1, <1>2, <1>3, <1>4, <1>5, <1>6, <1>7, <1>8, <1>9, <1>10, <1>11, <1>12, <1>13
        DEF TickStep, Place

\* Every step of the loop and of the operator.
LEMMA TypeLoop ==
    ASSUME TypeOK, TellInv, LoopStep \/ OperatorStep
    PROVE  TypeOK'
<1> USE DEF supervisorVars, lossVars, controlVars, driveVars
<1>0. reply \in Unread /\ granted \in SUBSET Joint /\ silent \in SUBSET Joint
      /\ asked \in [Joint -> Never .. Watchdog + 1]
      /\ {"loop", "drain1", "report"} \subseteq Place /\ "Stopped" \in End /\ "none" \in Faults
  BY DEF TypeOK, Unread, Place, End, Faults
<1>1. ASSUME NEW refused, NEW next \in {"loop", "report"}, Stop("none", "Stopped", refused, reply, next)
      PROVE  TypeOK'
  BY <1>0, <1>1, TypeStopped
<1>2. CASE StopAfterTickError
  <2>1. CASE /\ pc' = "report" /\ wrote' = {}
             /\ UNCHANGED <<lost, supervisorVars, lossVars, controlVars, driveVars, ticked>>
    BY <2>1 DEF TypeOK
  <2> QED BY <1>1, <1>2, <2>1 DEF StopAfterTickError
<1>3. CASE Report
  <2>1. fresh' \subseteq Joint
    BY <1>3 DEF Report, TypeOK
  <2>2. /\ phase' = ObservedPhase /\ said' = ObservedEvents /\ controlMode' = ObservedMode
        /\ pc' = "loop" /\ wrote' = {} /\ ticked' = FALSE
        /\ UNCHANGED <<lost, mode, fault, granted, silent, active, enabling, asked,
                       lossVars, staged, dead, driveMode, reply>>
    BY <1>3 DEF Report, Observe
  <2> QED BY <2>1, <2>2, TypeObserve DEF TypeOK
<1>4. CASE StartTick
  <2>1. CASE /\ pc' = "drain1" /\ wrote' = {}
             /\ UNCHANGED <<lost, supervisorVars, lossVars, controlVars, driveVars, ticked>>
    BY <2>1 DEF TypeOK
  <2> QED BY <1>0, <1>4, <2>1, TypeDeadline DEF StartTick
<1>5. CASE Enable
  <2>1. asked' \in [Joint -> Never .. Watchdog + 1]
    BY <1>5, DriveLossAssumption DEF DriveLossAssumption, Enable, Never
  <2> QED BY <1>5, <2>1 DEF Enable, TypeOK
<1>6. CASE EnableAgain
  <2>1. granted \ Lapsed(asked) \in SUBSET Joint
    BY <1>0
  <2> QED BY <1>0, <1>6, <2>1, TypeLapse DEF EnableAgain
<1>7. CASE DisableAll
  BY <1>1, <1>7 DEF DisableAll
<1>8. CASE RequestLower
  <2>1. /\ phase' \in {"LowerRequested", ObservedPhase}
        /\ said' = ObservedEvents /\ controlMode' = ObservedMode /\ wrote' = {}
        /\ UNCHANGED <<pc, lost, mode, fault, granted, silent, active, enabling, asked,
                       lossVars, staged, driveVars, ticked>>
    BY <1>8 DEF RequestLower
  <2> QED BY <2>1, TypeObserve DEF TypeOK
<1>9. CASE ReadFacet
  BY <1>9 DEF ReadFacet, TypeOK, Lapsed
<1>10. CASE SyncReporting
  BY <1>10 DEF SyncReporting, SyncTargets, TypeOK
<1>11. ASSUME NEW m \in Modes, SetControlMode(m) PROVE TypeOK'
  <2>1. CASE /\ controlMode' = m /\ wrote' = {}
             /\ UNCHANGED <<pc, lost, mode, fault, granted, silent, active, enabling, asked,
                            lossVars, controlVars, driveVars, ticked>>
    <3>1. m \in ControlModes
      BY DriveLossAssumption DEF DriveLossAssumption
    <3> QED BY <2>1, <3>1 DEF TypeOK
  <2> QED BY <1>1, <1>11, <2>1 DEF SetControlMode
<1> QED BY <1>2, <1>3, <1>4, <1>5, <1>6, <1>7, <1>8, <1>9, <1>10, <1>11 DEF LoopStep, OperatorStep

\* Drives and time; ages stop one beyond their bound.
LEMMA TypeWorld ==
    ASSUME TypeOK, DriveStep \/ Tick
    PROVE  TypeOK'
<1> USE DEF supervisorVars, lossVars, controlVars, driveVars
<1>1. ASSUME NEW j \in Joint, DriveDies(j) PROVE TypeOK'
  <2>1. reply' \in [Joint -> SUBSET DriveMode]
    BY <1>1 DEF DriveDies, TypeOK
  <2> QED BY <1>1, <2>1 DEF DriveDies, TypeOK
<1>2. ASSUME NEW j \in Joint, NEW m \in DriveMode, DriveReturns(j, m) PROVE TypeOK'
  <2>1. reply' \in [Joint -> SUBSET DriveMode] /\ driveMode' \in [Joint -> DriveMode]
    BY <1>2 DEF DriveReturns, TypeOK
  <2> QED BY <1>2, <2>1 DEF DriveReturns, TypeOK
<1>3. CASE Tick
  <2>1. asked' \in [Joint -> Never .. Watchdog + 1]
    <3>1. /\ asked \in [Joint -> Never .. Watchdog + 1]
          /\ asked' = [j \in Joint |->
                        IF asked[j] = Never THEN Never ELSE Older(asked[j], Watchdog + 1)]
      BY <1>3 DEF Tick, TypeOK
    <3>2. \A a \in Never .. Watchdog + 1 : Older(a, Watchdog + 1) \in Never .. Watchdog + 1
      BY DriveLossAssumption DEF DriveLossAssumption, Older, Never
    <3>3. Never \in Never .. Watchdog + 1
      BY DriveLossAssumption DEF DriveLossAssumption, Never
    <3> QED BY <3>1, <3>2, <3>3
  <2>2. shedAge' \in 0 .. Grace + 1
    <3>1. shedAge \in 0 .. Grace + 1 /\ shedAge' \in {0, Older(shedAge, Grace + 1)}
      BY <1>3 DEF Tick, TypeOK
    <3> QED BY <3>1, DriveLossAssumption DEF DriveLossAssumption, Older
  <2>3. EpisodeTyped'
    <3>1. EpisodeTyped
      BY DEF TypeOK, EpisodeTyped
    <3>2. CASE InEpisode
      <4>1. episode' = [episode EXCEPT !.age = Older(episode.age, episode.due + 1)]
        BY <1>3, <3>2 DEF Tick
      <4>2. Older(episode.age, episode.due + 1) \in 0 .. Hold + Lower + 1
        BY <3>1, DriveLossAssumption DEF DriveLossAssumption, EpisodeTyped, Older
      <4> QED BY <3>1, <4>1, <4>2 DEF EpisodeTyped
    <3>3. CASE ~InEpisode
      BY <1>3, <3>1, <3>3 DEF Tick, EpisodeTyped
    <3> QED BY <3>2, <3>3
  <2>4. /\ fresh' = {} /\ wrote' = {} /\ ticked' = TRUE
        /\ UNCHANGED <<pc, lost, mode, fault, granted, silent, active, enabling, controlMode,
                       shed, outcome, controlVars, dead, driveMode, reply>>
    BY <1>3 DEF Tick
  <2> QED BY <2>1, <2>2, <2>3, <2>4 DEF TypeOK, EpisodeTyped
<1> QED BY <1>1, <1>2, <1>3 DEF DriveStep

(***************************************************************************)
(* Every step keeps the state in its types; the ages stay within a period  *)
(* of the bounds that judge them.                                          *)
(***************************************************************************)
THEOREM LossTypeCorrect == Spec => []TypeOK
<1>1. Init => TypeOK
  <2> SUFFICES ASSUME Init PROVE TypeOK
    OBVIOUS
  <2>1. asked \in [Joint -> Never .. Watchdog + 1] /\ shedAge \in 0 .. Grace + 1
    BY DriveLossAssumption DEF DriveLossAssumption, Init, Never
  <2>2. EpisodeTyped
    BY DriveLossAssumption DEF DriveLossAssumption, Init, EpisodeTyped, None
  <2>3. /\ driveMode \in [Joint -> DriveMode] /\ reply \in [Joint -> SUBSET DriveMode]
        /\ said \in Seq(Events)
    BY DEF Init, DriveMode
  <2> QED BY <2>1, <2>2, <2>3 DEF Init, TypeOK, EpisodeTyped, Faults, ControlModes
<1>2. TypeOK /\ TellInv /\ [Next]_vars => TypeOK'
  <2> SUFFICES ASSUME TypeOK, TellInv, [Next]_vars PROVE TypeOK'
    OBVIOUS
  <2>1. CASE UNCHANGED vars
    BY <2>1 DEF vars, TypeOK, supervisorVars, lossVars, controlVars, driveVars
  <2> QED BY <2>1, TypeTick, TypeLoop, TypeWorld DEF Next
<1> QED BY <1>1, <1>2, TellHolds, PTL DEF Spec
==============================================================================
