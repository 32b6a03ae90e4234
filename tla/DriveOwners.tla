----------------------------- MODULE DriveOwners -----------------------------
(***************************************************************************)
(* Who may command the drives: the processes on one host that open the CAN *)
(* interfaces (marengo-pi, and the motor-repl commands set-zero, disable,  *)
(* status and protocol-inspect), the exclusive claim a motor owner takes   *)
(* on each interface (claim_interface), and the stops that need no claim:  *)
(* `disable`, the exit stop after a failed set-zero, and the two-pass stop *)
(* a signal starts in a thread of its own.                                 *)
(*                                                                         *)
(* One drive per interface.  A frame written reaches the drive and every   *)
(* other socket on the interface in the order of the writes; an owner that *)
(* reads another writer's command latches (CanReceive) and stops its       *)
(* drives.                                                                 *)
(***************************************************************************)
EXTENDS Naturals, FiniteSets

CONSTANTS
    Interfaces,  \* 1..n, opened in this order
    Procs,       \* the processes that may start
    Command,     \* Procs -> {"pi", "set-zero", "disable", "status", "inspect"}
    Attempts,    \* STOP_WRITE_ATTEMPTS
    MaxBusy,     \* bound: writes refused because a transmit queue is full
    MaxFaults    \* bound: failed configuration loads, opens and killed processes

None == "none"
SetZeros == {p \in Procs : Command[p] = "set-zero"}

VARIABLES
    claim,    \* per interface: the process whose socket is bound to its name
    down,     \* the interfaces that are down: opening and writing there fails
    pc,       \* per process: its main thread
    next,     \* per process: the interface its open or stop is at
    outcome,  \* per process: CommandOutcome, or None
    heard,    \* per process: it has read another writer's command since it opened
    foreign,  \* per process: another writer's command waits to be read
    sig,      \* per set-zero: its signal thread, the interface it is at, and
              \* (ghost) whether the signal came before its sockets were open
    reach,    \* per process: interfaces whose drive its last stop reached
    sent,     \* per process: it has put a frame on the bus
    drive,    \* per interface: what its drive was last told, and by whom
    busy, faults  \* what the bounds have left

wvars == <<claim, down, pc, next, outcome, heard, foreign, sig, reach, sent, drive,
           busy, faults>>

\* A stop goes to every configured address (stop_addresses).
Last == Cardinality(Interfaces)

\* What the constants are.
OwnersConstants ==
    /\ Last \in Nat \ {0} /\ Interfaces = 1 .. Last
    /\ None \notin Procs /\ Attempts \in Nat \ {0}

OwnersInit ==
    /\ claim = [i \in Interfaces |-> None]
    /\ down \in SUBSET Interfaces
    /\ pc = [p \in Procs |-> "absent"]
    /\ next = [p \in Procs |-> 1]
    /\ outcome = [p \in Procs |-> None]
    /\ heard = [p \in Procs |-> FALSE]
    /\ foreign = [p \in Procs |-> FALSE]
    /\ sig = [p \in SetZeros |-> [at |-> "none", next |-> 1, early |-> FALSE]]
    /\ reach = [p \in Procs |-> {}]
    /\ sent = [p \in Procs |-> FALSE]
    /\ drive = [i \in Interfaces |-> [state |-> "off", by |-> None]]
    /\ busy = 0 /\ faults = 0

\* A frame of p on interface i: the drive takes it, and the interface's owner
\* will read it as another writer's unless its own socket wrote it.
Put(p, i, state, own) ==
    /\ drive' = [drive EXCEPT ![i] = [state |-> state, by |-> p]]
    /\ sent' = [sent EXCEPT ![p] = TRUE]
    /\ foreign' = [q \in Procs |-> foreign[q] \/ (q = claim[i] /\ ~own)]

Goes(p, where) == pc' = [pc EXCEPT ![p] = where]

-----------------------------------------------------------------------------
(* Starting and opening.                                                   *)

\* main: disable is handled before anything is loaded; set-zero arms its exit
\* stop first, with the signal thread.
Start(p) ==
    /\ pc[p] = "absent"
    /\ Goes(p, IF Command[p] = "disable" THEN "stopping" ELSE "loading")
    /\ sig' = IF p \in SetZeros THEN [sig EXCEPT ![p].at = "armed"] ELSE sig
    /\ UNCHANGED <<claim, down, next, outcome, heard, foreign, reach, sent, drive, busy, faults>>

Ends(p, how) == outcome' = [outcome EXCEPT ![p] = how] /\ Goes(p, "finishing")

\* run_command: control.yaml and motors.yaml.
Load(p) ==
    /\ pc[p] = "loading"
    /\ \/ Goes(p, "opening") /\ UNCHANGED <<outcome, faults>>
       \/ faults < MaxFaults /\ faults' = faults + 1 /\ Ends(p, "failed")
    /\ UNCHANGED <<claim, down, next, heard, foreign, sig, reach, sent, drive, busy>>

\* claim_interface and open_socket for the next interface; a claim held by
\* another process is InterfaceOwned, and dropping the router gives up the
\* claims already taken.
ClaimInterface(p) ==
    LET i == next[p]
        dropped == [j \in Interfaces |-> IF claim[j] = p THEN None ELSE claim[j]]
        refused(how) ==
            /\ claim' = dropped /\ Ends(p, how) /\ next' = [next EXCEPT ![p] = 1]
    IN  \/ claim[i] # None /\ refused("owned")
        \/ claim[i] = None /\ i \in down /\ refused("failed")
        \/ /\ claim[i] = None /\ i \notin down
           /\ claim' = [claim EXCEPT ![i] = p]
           /\ IF i = Last THEN Goes(p, "open") /\ next' = [next EXCEPT ![p] = 1]
              ELSE next' = [next EXCEPT ![p] = @ + 1] /\ UNCHANGED pc
           /\ UNCHANGED outcome

OpenNext(p) ==
    /\ pc[p] = "opening"
    /\ ClaimInterface(p)
    /\ UNCHANGED <<down, heard, foreign, sig, reach, sent, drive, busy, faults>>

-----------------------------------------------------------------------------
(* The owner's work.                                                       *)

\* An owner reads its sockets; only with nothing foreign read does it go on to
\* write an Enable.
Receive(p) ==
    /\ pc[p] = "open" /\ Command[p] \in {"pi", "set-zero"}
    /\ heard' = [heard EXCEPT ![p] = @ \/ foreign[p]]
    /\ foreign' = [foreign EXCEPT ![p] = FALSE]
    /\ Goes(p, IF heard'[p] THEN "latched" ELSE "checked")
    /\ UNCHANGED <<claim, down, next, outcome, sig, reach, sent, drive, busy, faults>>

WriteEnable(p, i) ==
    /\ pc[p] = "checked"
    /\ Put(p, i, "run", TRUE)
    /\ Goes(p, "open")
    /\ UNCHANGED <<claim, down, next, outcome, heard, sig, reach, busy, faults>>

\* The transaction, the session or the inspection ends: Davout's own stop goes
\* to every drive of the owner, whatever the reason.
OwnStop(p) ==
    /\ pc[p] \in {"open", "latched"}
    /\ drive' = [i \in Interfaces |->
                   IF claim[i] = p THEN [state |-> "off", by |-> p] ELSE drive[i]]
    /\ sent' = [sent EXCEPT ![p] = TRUE]
    /\ \/ pc[p] = "latched" /\ Ends(p, "failed")
       \/ pc[p] = "open" /\ Ends(p, "done")
       \/ /\ pc[p] = "open" /\ Command[p] = "pi"
          /\ UNCHANGED <<pc, outcome>>
    /\ UNCHANGED <<claim, down, next, heard, foreign, sig, reach, busy, faults>>

\* An error return of set-zero before or after its own stop; `status` returns
\* without sending anything.
Fails(p) ==
    /\ pc[p] = "open" /\ faults < MaxFaults /\ Command[p] # "pi"
    /\ faults' = faults + 1
    /\ Ends(p, IF Command[p] = "status" THEN "done" ELSE "failed")
    /\ UNCHANGED <<claim, down, next, heard, foreign, sig, reach, sent, drive, busy>>

-----------------------------------------------------------------------------
(* The stops.                                                              *)

\* exit_stop_required.
ExitStopRequired_AnyError(p) == Command[p] = "set-zero" /\ outcome[p] # "done"
ExitStopRequired(p) ==
    /\ Command[p] = "set-zero"
    /\ outcome[p] \notin {"done", "owned"}

\* ExitStop::finish: the error exit stops every drive, and main exits.
Finish(p) ==
    /\ pc[p] = "finishing"
    /\ IF ExitStopRequired(p)
       THEN Goes(p, "stopping") /\ reach' = [reach EXCEPT ![p] = {}]
       ELSE Goes(p, "exiting") /\ UNCHANGED reach
    /\ UNCHANGED <<claim, down, next, outcome, heard, foreign, sig, sent, drive, busy, faults>>

\* disable_drives, one drive: an interface that is down fails only its own
\* drive, a full transmit queue is tried again up to Attempts times.
DisableOne(p, i) ==
    \/ /\ i \in down
       /\ UNCHANGED <<drive, sent, foreign, reach, busy>>
    \/ /\ i \notin down
       /\ Put(p, i, "off", FALSE)
       /\ reach' = [reach EXCEPT ![p] = @ \cup {i}]
       /\ UNCHANGED busy
    \/ /\ i \notin down /\ busy + Attempts <= MaxBusy
       /\ busy' = busy + Attempts
       /\ UNCHANGED <<drive, sent, foreign, reach>>

MainStop(p) ==
    /\ pc[p] = "stopping"
    /\ DisableOne(p, next[p])
    /\ IF next[p] = Last
       THEN Goes(p, "exiting") /\ next' = [next EXCEPT ![p] = 1]
       ELSE next' = [next EXCEPT ![p] = @ + 1] /\ UNCHANGED pc
    /\ outcome' = IF Command[p] = "disable" /\ next[p] = Last
                  THEN [outcome EXCEPT ![p] = IF reach'[p] = Interfaces THEN "done" ELSE "failed"]
                  ELSE outcome
    /\ UNCHANGED <<claim, down, heard, sig, faults>>

\* SIGTERM, SIGINT or SIGHUP: the thread stops every drive, waits, stops every
\* drive again, and exits the process.
Signal(p) ==
    /\ sig[p].at = "armed" /\ pc[p] \notin {"ended", "killed"}
    /\ sig' = [sig EXCEPT ![p] = [at |-> "first", next |-> 1,
                                 early |-> pc[p] \in {"loading", "opening"}]]
    /\ UNCHANGED <<claim, down, pc, next, outcome, heard, foreign, reach, sent, drive, busy, faults>>

SignalPass_Once(p) == sig[p].at = "first" /\ sig[p].next = Last
SignalPass(p) == sig[p].at = "second" /\ sig[p].next = Last

SignalStop(p) ==
    LET i == sig[p].next IN
    /\ sig[p].at \in {"first", "second"}
    /\ DisableOne(p, i)
    /\ sig' = [sig EXCEPT ![p] =
         IF i < Last THEN [@ EXCEPT !.next = i + 1]
         ELSE [@ EXCEPT !.at = IF SignalPass(p) THEN "exit" ELSE "pause", !.next = 1]]
    /\ UNCHANGED <<claim, down, pc, next, outcome, heard, faults>>

\* The pause outlasts the main thread's way from a read to the write after it.
SecondPass(p) ==
    /\ sig[p].at = "pause" /\ pc[p] # "checked"
    /\ sig' = [sig EXCEPT ![p].at = "second"]
    /\ UNCHANGED <<claim, down, pc, next, outcome, heard, foreign, reach, sent, drive, busy, faults>>

\* The process ends: its main thread exits, its signal thread exits it, or it
\* is killed.  The kernel releases its claims.
Exit(p) ==
    /\ pc[p] \notin {"absent", "ended", "killed"}
    /\ \/ pc[p] = "exiting" /\ Goes(p, "ended") /\ UNCHANGED faults
       \/ p \in SetZeros /\ sig[p].at = "exit" /\ Goes(p, "ended") /\ UNCHANGED faults
       \/ faults < MaxFaults /\ faults' = faults + 1 /\ Goes(p, "killed")
    /\ claim' = [i \in Interfaces |-> IF claim[i] = p THEN None ELSE claim[i]]
    /\ sig' = IF p \in SetZeros THEN [sig EXCEPT ![p].at = "none", ![p].next = 1] ELSE sig
    /\ UNCHANGED <<down, next, outcome, heard, foreign, reach, sent, drive, busy>>

OwnersNext ==
    \E p \in Procs :
        \/ Start(p) \/ Load(p) \/ OpenNext(p) \/ Receive(p)
        \/ \E i \in Interfaces : claim[i] = p /\ WriteEnable(p, i)
        \/ OwnStop(p) \/ Fails(p) \/ Finish(p) \/ MainStop(p) \/ Exit(p)
        \/ p \in SetZeros /\ (Signal(p) \/ SignalStop(p) \/ SecondPass(p))

OwnersSpec == OwnersInit /\ [][OwnersNext]_wvars

-----------------------------------------------------------------------------
(* Properties.                                                             *)

\* A set-zero refused because another process owns an interface has sent
\* nothing, not even a stop (exit_stop_required): the owner's session goes on.
\* The one exception is the operator's signal, which stops every drive.
RefusedIsSilent ==
    \A p \in SetZeros :
        outcome[p] = "owned" /\ sent[p] => sig[p].at # "armed"

\* A set-zero that ended by itself or by a signal left no drive running on its
\* Enable, on any interface that is up and takes writes (ExitStop, signal_stop): whether its
\* transaction succeeded, failed, latched or was overtaken by the signal
\* between a read and the Enable after it.  A signal that comes before the
\* sockets are open is left out: the first pass is then not heard, and the
\* claim of signal_stop rests on the second pass alone, which an Enable
\* written during it can overtake.
EndedMeansStopped ==
    \A p \in SetZeros, i \in Interfaces :
        pc[p] = "ended" /\ ~sig[p].early /\ drive[i] = [state |-> "run", by |-> p]
            => i \in down \/ busy > 0

\* `disable` says done only when every drive was told, whoever owns it.
DisableSaysTrue ==
    \A p \in Procs :
        Command[p] = "disable" /\ outcome[p] = "done" => reach[p] = Interfaces

OwnersHold == RefusedIsSilent /\ EndedMeansStopped /\ DisableSaysTrue
=============================================================================
