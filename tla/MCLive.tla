-------------------------------- MODULE MCLive --------------------------------
(***************************************************************************)
(* What must eventually happen, on small instances, one of them in each    *)
(* behaviour (`part`):                                                     *)
(*   "session"    the enable session of one drive that may fall silent;    *)
(*   "loss"       the loss of one drive of an arm;                         *)
(*   "pi"         marengo-pi's loop and whatever waits in it.              *)
(* Variables of the same name are shared; those a part does not use are    *)
(* Off.                                                                    *)
(***************************************************************************)
EXTENDS EnableSession, TLC

VARIABLES
    part,
    \* DriveLoss, besides the names it shares with EnableSession
    silent, enabling, controlMode, asked, shed, shedAge, episode, outcome, phase,
    said, staged, reply, fresh, wrote, ticked,
    pOwner, pAt, pWire, pSent, pStop, pSys   \* PiLoop

MCRoute == [j \in Joint |-> CHOOSE b \in Bus : TRUE]
NoStopFailure == {{}}

Loss == INSTANCE DriveLoss WITH
    Joint <- {"shoulder", "elbow", "wrist"},
    Subtree <- [elbow |-> {"elbow", "wrist"}, wrist |-> {"wrist"}],
    Watchdog <- 2, Hold <- 1, Lower <- 1, Grace <- 2, Mortal <- {"elbow"},
    Returns <- {"Reset"}, Commands <- {"enable", "mode", "lower"},
    Modes <- {"GravityComp", "Position"}, Hazardous <- FALSE,
    Refusing <- {{}}, Paced <- FALSE, Stalls <- FALSE
Pi == INSTANCE PiLoop WITH
    MaxSent <- 2,
    StdinLines <- {"enable", "disable", "holdoff", "home", "eof", "mode", "status"},
    ChappeSends <- {"disable", "enable", "position", "zero", "other"}, MaxHeld <- 1,
    ChannelSize <- 1, Slices <- 2, Patience <- 1

Off == "off"
SessionOff ==
    /\ cont = Off /\ targets = Off /\ transition = Off /\ sinceActive = Off
    /\ echoPending = Off /\ writesPending = Off /\ staggered = Off
    /\ gateOpen = Off /\ offWritten = Off /\ offEchoAge = Off
    /\ zeroAge = Off /\ posed = Off /\ solicitAge = Off /\ applied = Off
    /\ slotUsed = Off /\ batchSent = Off /\ tx = Off /\ inbox = Off
    /\ rx = Off /\ streaming = Off /\ driveZero = Off /\ reported = Off
    /\ ran = Off /\ rebooted = Off
SharedOff ==
    /\ pc = Off /\ lost = Off /\ mode = Off /\ fault = Off /\ granted = Off
    /\ driveMode = Off
LossOff ==
    /\ silent = Off /\ enabling = Off /\ controlMode = Off /\ asked = Off
    /\ shed = Off /\ shedAge = Off /\ episode = Off /\ outcome = Off
    /\ phase = Off /\ said = Off /\ staged = Off /\ reply = Off
    /\ fresh = Off /\ wrote = Off /\ ticked = Off
PiOff ==
    /\ pOwner = Off /\ pAt = Off /\ pWire = Off /\ pSent = Off
    /\ pStop = Off /\ pSys = Off
ownVars ==
    <<cont, targets, transition, sinceActive, echoPending, writesPending,
      staggered, gateOpen, offWritten, offEchoAge, zeroAge, posed,
      solicitAge, applied, slotUsed, batchSent, tx, inbox, rx, streaming,
      driveZero, reported, ran, rebooted>>
sharedVars ==
    <<pc, lost, mode, fault, granted, driveMode>>
lossVars ==
    <<silent, enabling, controlMode, asked, shed, shedAge, episode, outcome,
      phase, said, staged, reply, fresh, wrote, ticked>>
piVars ==
    <<pOwner, pAt, pWire, pSent, pStop, pSys>>
allVars ==
    <<part, vars, lossVars, piVars>>

MCInit ==
    \/ /\ part = "session" /\ Init
       /\ LossOff /\ PiOff
    \/ /\ part = "loss" /\ Loss!Init
       /\ SessionOff /\ out = Off /\ PiOff
    \/ /\ part = "pi" /\ Pi!PiInit
       /\ SessionOff /\ SharedOff /\ active = Off /\ dead = Off /\ out = Off
       /\ LossOff

\* An action of one part leaves the variables of the others as they are.
InSession(A) ==
    /\ part = "session" /\ A
    /\ UNCHANGED <<part, lossVars, piVars>>
InLoss(A) ==
    /\ part = "loss" /\ A
    /\ UNCHANGED <<part, ownVars, out, piVars>>
InPi(A) ==
    /\ part = "pi" /\ A
    /\ UNCHANGED <<part, ownVars, sharedVars, active, dead, out, lossVars>>

MCNext ==
    \/ InSession(Next) \/ InLoss(Loss!Next) \/ InPi(Pi!PiNext)
    \* Commands are bounded: this part ends.
    \/ part = "pi" /\ UNCHANGED allVars

(***************************************************************************)
(* The fairness of EnableSession's and DriveLoss's FairSpec and of         *)
(* PiFairness.  A part never changes, so that fairness of a disjunction    *)
(* over the parts is the fairness of each part's own action.               *)
(***************************************************************************)
MCSpec ==
    /\ MCInit /\ [][MCNext]_allVars
    /\ WF_allVars(\/ InSession(ReadStep)
                  \/ InLoss(Loss!TickStep \/ Loss!LoopStep)
                  \/ InPi(Pi!PiLoopStep))
    /\ WF_allVars(InSession(ReturnStep) \/ InLoss(Loss!Tick))
    /\ SF_allVars(InSession(DrainStep) \/ InLoss(Loss!StartTick) \/ InPi(Pi!PumpEnds))
    /\ SF_allVars(InSession(CommandStep) \/ InPi(Pi!PublishSucceeds))
    /\ SF_allVars(InSession(Tick))
    /\ \A j \in Joint :
        /\ SF_allVars(InSession(DriveActs(j)))
        /\ SF_allVars(InSession(\E m \in DriveMode : DriveSends(j, m)))
------------------------------------------------------------------------------
(***************************************************************************)
(* What each part owes and how it is paid, numbered together: EchoDecides  *)
(* and SilentDriveStops of EnableSession, EpisodeEnds and LostDriveLeaves  *)
(* of DriveLoss, WaitsEnd of PiLoop.                                       *)
(***************************************************************************)
Waits(k) ==
    CASE part = "session" ->
            mode = "Active" /\ <<echoPending # {}, active \cap dead # {}>>[k]
      [] part = "loss" -> <<Loss!InEpisode, active \cap dead # {}>>[k]
      [] part = "pi" -> k = 1 /\ Pi!Pending(pSys)

Done(k) ==
    CASE part = "session" -> mode = "Disabled" \/ (k = 1 /\ echoPending = {})
      [] part = "loss" -> IF k = 1 THEN mode = "Disabled" ELSE active \cap dead = {}
      [] part = "pi" -> ~Pi!Pending(pSys) \/ pAt = "closed"

PromisesAreKept == \A k \in 1..2 : Waits(k) ~> Done(k)
==============================================================================
