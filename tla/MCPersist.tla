------------------------------ MODULE MCPersist ------------------------------
(***************************************************************************)
(* What must survive the process, on small instances, one of them in each  *)
(* behaviour (`part`):                                                     *)
(*   "limits"   the overlay and its write-behind worker;                   *)
(*   "journal"  the reference journal, two processes one after the other.  *)
(* Each rests in its initial state while the other runs.                   *)
(***************************************************************************)
EXTENDS LimitPersist, ReferenceJournal

VARIABLE part

LimitsRest == Init /\ live.motors = [j \in Joint |-> CHOOSE b \in Bound : TRUE]
JobOf(k) == <<(k \div MaxJobs) + 1, (k % MaxJobs) + 1>>
ASSUME JobsNumbered == JobIds = {JobOf(k) : k \in 0..MaxCommands}

allVars == <<part, vars, jvars>>

MCInit ==
    /\ JournalInit
    /\ \/ part = "limits" /\ Init
       \/ part = "journal" /\ LimitsRest

MCNext ==
    /\ UNCHANGED part
    /\ \/ part = "limits" /\ Next /\ UNCHANGED jvars
       \/ part = "journal" /\ JournalNext /\ UNCHANGED vars
       \* Jobs and processes are bounded: the journal ends.
       \/ part = "journal" /\ UNCHANGED <<vars, jvars>>

\* The two worker threads are scheduled (the fairness of LimitPersist and of
\* ReferenceJournal).
MCSpec ==
    /\ MCInit /\ [][MCNext]_allVars
    /\ WF_vars(part = "limits" /\ WorkerStep)
    /\ WF_jvars(part = "journal" /\ JournalWorkerStep)
------------------------------------------------------------------------------
(***************************************************************************)
(* No accepted command and no accepted job waits for ever, and closing the *)
(* queue ends the worker: no wake-up is lost between the owner, the        *)
(* worker's wait and close (EveryCommandAnswered and CloseEndsWorker of    *)
(* LimitPersist, JobsAreJudged of ReferenceJournal, numbered together).    *)
(***************************************************************************)
WorkersAnswer ==
    \A k \in 0..MaxCommands :
        \/ k \in Session /\ told[k] = "Pending"
        \/ k = 0 /\ owner = "closed"
        \/ JobOf(k)[1] = jLife /\ JobOf(k)[2] < jSeq
        ~>
        /\ k \in Session => told[k] # "Pending" \/ workerError \/ report = "TimedOut"
        /\ k = 0 /\ part = "limits" => worker = "exited" \/ report \in {"TimedOut", "WorkerFailed"}
        /\ part = "journal" => jVerdict[JobOf(k)] # "none"
==============================================================================
