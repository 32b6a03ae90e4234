------------------------------ MODULE MCSession ------------------------------
(***************************************************************************)
(* Davout's supervisor on small instances, one of them in each behaviour   *)
(* (`part`):                                                               *)
(*   "session"    one drive, asynchronous wire, failing stops;             *)
(*   "zero"       the same drive with SetZero and its reporting blackout;  *)
(*   "reference"  the acquisition of a reference, two transactions;        *)
(*   "orders"     one transaction, and two orders of an operator;          *)
(*   "calm"       both, and nothing fails.                                 *)
(* Variables that a part does not use are Off, or rest in the initial      *)
(* state of the enable session.                                            *)
(***************************************************************************)
EXTENDS EnableSession, Reference, TLC

VARIABLE part

MCRoute == [j \in Joint |-> CHOOSE b \in Bus : TRUE]
\* Stops that reach every drive, or none.
NoStopFailure == {{}}
MCStopFailures == {{}, Joint}

Zero == INSTANCE EnableSession WITH
    Quiet <- 3, BlackoutFrom <- 1, Deaf <- 2, Sensed <- Joint, PromptWire <- TRUE,
    PromptDrain <- TRUE,
    Zeroed <- Joint, Faulty <- {}, StopFailures <- NoStopFailure, MaxTx <- 1, MaxRx <- 1

Orders == INSTANCE Reference WITH MaxTxn <- 1, MaxOrders <- 2
Calm == INSTANCE Reference WITH MaxOrders <- 2, MaxMishaps <- 0

Off == "off"
ReferenceParts == {"reference", "orders", "calm"}
ReferenceOff ==
    /\ rRes = Off /\ rSeq = Off /\ rTxn = Off /\ rPend = Off /\ rJobs = Off
    /\ rAuth = Off /\ rDev = Off /\ rEcho = Off /\ rStop = Off
    /\ rFault = Off /\ rEstop = Off /\ rPolicy = Off /\ rDue = Off
    /\ rOut = Off /\ rAt = Off /\ rRx = Off /\ rDrive = Off /\ rQ = Off
    /\ rDefer = Off /\ rMishaps = Off /\ rOrders = Off /\ rLoose = Off
    /\ rSpoilt = Off /\ rBad = Off
SessionRests == Init /\ streaming = {}
allVars == <<part, vars, rvars>>

MCInit ==
    \/ part = "session" /\ Init /\ ReferenceOff
    \/ part = "zero" /\ Zero!Init /\ ReferenceOff
    \/ /\ part \in ReferenceParts /\ SessionRests
       /\ IF part = "orders" THEN Orders!ReferenceInit ELSE ReferenceInit

MCNext ==
    /\ UNCHANGED part
    /\ \/ part = "session" /\ Next /\ UNCHANGED rvars
       \/ part = "zero" /\ Zero!Next /\ UNCHANGED rvars
       \/ /\ UNCHANGED vars
          /\ \/ part = "reference" /\ ReferenceNext
             \/ part = "orders" /\ Orders!ReferenceNext
             \/ part = "calm" /\ Calm!ReferenceNext
       \* The bounded orders of a reference run out.
       \/ part \in ReferenceParts /\ UNCHANGED <<vars, rvars>>

MCSpec == MCInit /\ [][MCNext]_allVars
------------------------------------------------------------------------------
\* The type invariant, with the constants of the part that runs.
SessionTypeOK ==
    /\ IF part = "zero" THEN Zero!TypeOK ELSE TypeOK
    /\ part \in {"reference", "calm"} => RefTypeOK
    /\ part = "orders" => Orders!RefTypeOK

\* A drive may be deaf for a while after SetZero: the gate that waits for the
\* reporting Off never lets one be written in that window (EnableSession).
ZeroGateHolds == part = "zero" => Zero!GateAvoidsBlackout

\* A grant rests on the evidence of its own acquisition, and an armed target
\* belongs to a live reservation (Reference).
ReferenceHolds == part \in ReferenceParts => GrantFromOwnEvidence /\ ArmedIsOwned
==============================================================================
