--------------------------- MODULE ReferenceJournal ---------------------------
(***************************************************************************)
(* Davout's reference journal (reference_journal.rs): a bounded queue whose *)
(* completions are never coalesced, the worker thread that writes one SQLite *)
(* row per job, and the file under crashes, failing transactions and a      *)
(* worker that panics.  The mutex makes every method one step; each SQLite  *)
(* transaction is atomic on disk (external), its reported result is not.    *)
(* A new process numbers its jobs from 1 again: only the session allocated  *)
(* by each open keeps its rows apart from those of an earlier process.      *)
(***************************************************************************)
EXTENDS Integers, Sequences, FiniteSets

CONSTANTS
  MaxJobs,          \* jobs one process submits
  Lives,            \* processes, one after the other
  CreditCapacity,   \* CREDIT_CAPACITY
  JournalEvents,    \* EVENT_CAPACITY
  MaxSession        \* the last session number (i64::MAX)

ASSUME JournalAssumption ==
  /\ MaxJobs \in Nat /\ Lives \in Nat \ {0} /\ CreditCapacity \in Nat
  /\ JournalEvents \in Nat /\ MaxSession \in Nat

VARIABLES
  jClosed, jQueued, jFlight, jCompleted, jCredits, jFinished, jError,  \* State
  jpc, jHand,                \* the worker: where it is, what it holds
  jSession,                  \* the open database's session, 0 when closed
  jFile, jNext, jRows,       \* the file, next_session, the rows
  jPruned,                   \* rows dropped by retention
  jLife, jSeq,               \* the process and its next job number
  jTaken, jVerdict,          \* results consumed by the owner, results published
  jDrain                     \* the owner's shutdown drain

qvars == <<jClosed, jQueued, jFlight, jCompleted, jCredits, jFinished, jError>>
diskVars == <<jFile, jNext, jRows, jPruned>>
jobOwnerVars == <<jLife, jSeq, jTaken, jDrain>>
jvars == <<qvars, jpc, jHand, jSession, diskVars, jobOwnerVars, jVerdict>>

JobIds == (1 .. Lives) \X (1 .. MaxJobs)
Nobody == <<0, 0>>
Row(j, s) == [session |-> s, key |-> j[2], body |-> j]

JournalInit ==
  /\ jClosed = FALSE /\ jQueued = <<>> /\ jFlight = Nobody /\ jCompleted = {}
  /\ jCredits = 0 /\ jFinished = FALSE /\ jError = FALSE
  /\ jpc = "idle" /\ jHand = [job |-> Nobody, result |-> "none", progress |-> 0]
  /\ jSession = 0 /\ jFile = "absent" /\ jNext = 0 /\ jRows = {} /\ jPruned = {}
  /\ jLife = 1 /\ jSeq = 1 /\ jTaken = {} /\ jDrain = "none"
  /\ jVerdict = [j \in JobIds |-> "none"]

\* Progress of the flight, in the order the panic handler compares.
Opening == 0
Encoding == 1
Writing == 2
CommitAttempted == 3
Committed == 4

-----------------------------------------------------------------------------
\* The owner's side.

AdmissionOpen == ~(jClosed \/ jFinished \/ jError)

HasCredit == AdmissionOpen /\ jCredits < CreditCapacity

Submit ==
  /\ jDrain = "none"
  /\ jSeq <= MaxJobs
  /\ HasCredit
  /\ jCredits' = jCredits + 1
  /\ jQueued' = Append(jQueued, <<jLife, jSeq>>)
  /\ jSeq' = jSeq + 1
  /\ UNCHANGED <<jClosed, jFlight, jCompleted, jFinished, jError, jpc, jHand, jSession,
                 diskVars, jLife, jTaken, jDrain, jVerdict>>

TakeMatching(done) ==
  /\ jCompleted' = jCompleted \ done
  /\ jTaken' = jTaken \union done
  /\ jCredits' = jCredits - Cardinality(done)

Collect ==
  \E c \in jCompleted :
    /\ jDrain = "none"
    /\ TakeMatching({c})
    /\ UNCHANGED <<jClosed, jQueued, jFlight, jFinished, jError, jpc, jHand, jSession,
                   diskVars, jLife, jSeq, jDrain, jVerdict>>

\* drain_reference_journal_until: close and wait, up to a deadline, for the worker to end ...
CloseJournal ==
  /\ jDrain = "none"
  /\ jClosed' = TRUE
  /\ jDrain' = "waiting"
  /\ UNCHANGED <<jQueued, jFlight, jCompleted, jCredits, jFinished, jError, jpc, jHand,
                 jSession, diskVars, jLife, jSeq, jTaken, jVerdict>>

\* ... collect what completed, ...
CollectPending ==
  /\ jDrain = "waiting"
  /\ TakeMatching(jCompleted)
  /\ jDrain' = "collected"
  /\ UNCHANGED <<jClosed, jQueued, jFlight, jFinished, jError, jpc, jHand, jSession,
                 diskVars, jLife, jSeq, jVerdict>>

\* ... and report (ReferenceJournalDrain::is_complete).
IsComplete_IgnoresFlight ==
  /\ jQueued = <<>> /\ jCompleted = {}
IsComplete ==
  /\ jpc = "gone"
  /\ jQueued = <<>> /\ jFlight = Nobody /\ jCompleted = {} /\ jCredits = 0

Report ==
  /\ jDrain = "collected"
  /\ jDrain' = IF IsComplete THEN "complete" ELSE "incomplete"
  /\ UNCHANGED <<qvars, jpc, jHand, jSession, diskVars, jLife, jSeq, jTaken, jVerdict>>

-----------------------------------------------------------------------------
\* The worker.

Complete(j, result) ==
  /\ jCompleted' = jCompleted \union {[job |-> j, result |-> result]}
  /\ jFlight' = Nobody
  /\ jVerdict' = [jVerdict EXCEPT ![j] = result]

Job == jHand.job

Progress(p) == jHand' = [jHand EXCEPT !.progress = p]

Holds(p, result) == jHand' = [jHand EXCEPT !.progress = p, !.result = result]

\* An error inside the closure closes the database: the next job opens a new session.
Fails(result) ==
  /\ Holds(jHand.progress, result)
  /\ jSession' = 0
  /\ jpc' = "publish"

TakeJob ==
  /\ jpc = "idle"
  /\ jQueued # <<>>
  /\ jQueued' = Tail(jQueued)
  /\ jFlight' = Head(jQueued)
  /\ jHand' = [job |-> Head(jQueued), result |-> "none", progress |-> Opening]
  /\ jpc' = IF jSession = 0 THEN "open" ELSE "encode"
  /\ UNCHANGED <<jClosed, jCompleted, jCredits, jFinished, jError, jSession, diskVars,
                 jobOwnerVars, jVerdict>>

WorkerReturns ==
  /\ jpc = "idle"
  /\ jQueued = <<>>
  /\ jClosed
  /\ jpc' = "finish"
  /\ UNCHANGED <<qvars, jHand, jSession, diskVars, jobOwnerVars, jVerdict>>

Finish ==
  /\ jpc = "finish"
  /\ jFinished' = TRUE
  /\ jpc' = "gone"
  /\ UNCHANGED <<jClosed, jQueued, jFlight, jCompleted, jCredits, jError, jHand, jSession,
                 diskVars, jobOwnerVars, jVerdict>>

\* Database::open.  A file made by create_new is empty until the schema transaction
\* commits; an empty file is refused by every later open.
OpenCreates ==
  /\ jpc = "open" /\ jFile = "absent"
  /\ jFile' = "empty"
  /\ jpc' = "schema"
  /\ UNCHANGED <<qvars, jHand, jSession, jNext, jRows, jPruned, jobOwnerVars, jVerdict>>

SchemaCommits ==
  /\ jpc = "schema"
  /\ jFile' = "ready"
  /\ jpc' = "session"
  /\ UNCHANGED <<qvars, jHand, jSession, jNext, jRows, jPruned, jobOwnerVars, jVerdict>>

ValidateHistory ==
  /\ Cardinality(jRows) <= JournalEvents
  /\ \A r \in jRows : r.session \in 1 .. jNext

OpenExisting ==
  /\ jpc = "open" /\ jFile = "ready"
  /\ ValidateHistory
  /\ jpc' = "session"
  /\ UNCHANGED <<qvars, jHand, jSession, diskVars, jobOwnerVars, jVerdict>>

AllocateSession ==
  /\ jpc = "session"
  /\ jNext < MaxSession
  /\ jNext' = jNext + 1
  /\ jSession' = jNext + 1
  /\ jpc' = "prune"
  /\ UNCHANGED <<qvars, jHand, jFile, jRows, jPruned, jobOwnerVars, jVerdict>>

\* Sessions up to c go, oldest first, until at most half the rows are left; the page
\* bound may ask for more (any larger c); the current session stays.
JournalAfter(c) == {r \in jRows : r.session > c}
EnoughDropped(c) == c = jSession - 1 \/ Cardinality(JournalAfter(c)) <= JournalEvents \div 2
PruneOldestSessions ==
  /\ jpc = "prune"
  /\ \E c \in 0 .. jSession - 1 :
       /\ EnoughDropped(c)
       /\ jRows' = JournalAfter(c)
       /\ jPruned' = jPruned \union (jRows \ JournalAfter(c))
  /\ jpc' = "encode"
  /\ UNCHANGED <<qvars, jHand, jSession, jFile, jNext, jobOwnerVars, jVerdict>>

\* Any I/O error, a refused resource, a held lock, an exhausted counter.
OpenFails ==
  /\ jpc \in {"open", "schema", "session", "prune"}
  /\ Fails("failed")
  /\ UNCHANGED <<qvars, diskVars, jobOwnerVars, jVerdict>>

Encode ==
  /\ jpc = "encode"
  /\ \/ Progress(Writing) /\ jpc' = "insert" /\ UNCHANGED jSession
     \/ /\ Holds(Encoding, "failed")
        /\ jSession' = 0 /\ jpc' = "publish"
  /\ UNCHANGED <<qvars, diskVars, jobOwnerVars, jVerdict>>

\* The transaction up to its commit: the row of this key must not exist with another
\* body, the table must have room.
Conflict == \E r \in jRows : r.session = jSession /\ r.key = Job[2] /\ r.body # Job
Room == Cardinality(jRows) < JournalEvents
Insert ==
  /\ jpc = "insert"
  /\ \/ /\ ~Conflict /\ Room
        /\ Progress(CommitAttempted)
        /\ jpc' = "commit"
        /\ UNCHANGED jSession
     \/ Fails("failed")          \* begin or insertion failed, rolled back
     \/ Fails("uncertain")       \* the rollback failed as well
  /\ UNCHANGED <<qvars, diskVars, jobOwnerVars, jVerdict>>

Stored == jRows' = jRows \union {Row(Job, jSession)}

CommitFails_Failed ==
  /\ jpc = "commit"
  /\ Stored \/ UNCHANGED jRows
  /\ Fails("failed")
  /\ UNCHANGED <<qvars, jFile, jNext, jPruned, jobOwnerVars, jVerdict>>
CommitFails ==
  /\ jpc = "commit"
  /\ Stored \/ UNCHANGED jRows
  /\ Fails("uncertain")
  /\ UNCHANGED <<qvars, jFile, jNext, jPruned, jobOwnerVars, jVerdict>>

Commit ==
  /\ jpc = "commit"
  /\ Stored
  /\ Progress(Committed)
  /\ jpc' = "readback"
  /\ UNCHANGED <<qvars, jSession, jFile, jNext, jPruned, jobOwnerVars, jVerdict>>

Readback ==
  /\ jpc = "readback"
  /\ \/ /\ Row(Job, jSession) \in jRows
        /\ Holds(Committed, "durable")
        /\ jpc' = "publish"
        /\ UNCHANGED jSession
     \/ Fails("uncertain")
  /\ UNCHANGED <<qvars, diskVars, jobOwnerVars, jVerdict>>

Publish ==
  /\ jpc = "publish"
  /\ Complete(Job, jHand.result)
  /\ jpc' = "idle"
  /\ jHand' = [job |-> Nobody, result |-> "none", progress |-> 0]
  /\ UNCHANGED <<jClosed, jQueued, jCredits, jFinished, jError, jSession, diskVars, jobOwnerVars>>

\* A panic anywhere in the loop is caught by spawn's closure.
Working == jpc \notin {"unwind", "unwindPublish", "finish", "gone"}
Unwind ==
  /\ Working
  /\ jpc' = "unwind"
  /\ jSession' = 0
  /\ UNCHANGED <<qvars, jHand, diskVars, jobOwnerVars, jVerdict>>

FlightResult_LateFailed ==
  IF jHand.progress > CommitAttempted THEN "uncertain" ELSE "failed"
FlightResult == IF jHand.progress >= Writing THEN "uncertain" ELSE "failed"

\* The flight is judged by its progress, then every queued job has failed.
UnwindTakes ==
  /\ jpc = "unwind"
  /\ jClosed' = TRUE /\ jError' = TRUE
  /\ \/ /\ jFlight # Nobody
        /\ jHand' = [job |-> jFlight, result |-> FlightResult, progress |-> 0]
        /\ jFlight' = Nobody
        /\ jpc' = "unwindPublish"
        /\ UNCHANGED jQueued
     \/ /\ jFlight = Nobody /\ jQueued # <<>>
        /\ jHand' = [job |-> Head(jQueued), result |-> "failed", progress |-> 0]
        /\ jQueued' = Tail(jQueued)
        /\ jpc' = "unwindPublish"
        /\ UNCHANGED jFlight
     \/ /\ jFlight = Nobody /\ jQueued = <<>>
        /\ jHand' = [job |-> Nobody, result |-> "none", progress |-> 0]
        /\ jpc' = "finish"
        /\ UNCHANGED <<jFlight, jQueued>>
  /\ UNCHANGED <<jCompleted, jCredits, jFinished, jSession, diskVars, jobOwnerVars, jVerdict>>

UnwindPublishes ==
  /\ jpc = "unwindPublish"
  /\ Complete(Job, jHand.result)
  /\ jpc' = "unwind"
  /\ jHand' = [job |-> Nobody, result |-> "none", progress |-> 0]
  /\ UNCHANGED <<jClosed, jQueued, jCredits, jFinished, jError, jSession, diskVars, jobOwnerVars>>

-----------------------------------------------------------------------------
\* The process dies at any point; the file is what it was.  Jobs start at 1 again.
Crash ==
  /\ jLife < Lives
  /\ jLife' = jLife + 1 /\ jSeq' = 1 /\ jTaken' = {} /\ jDrain' = "none"
  /\ jClosed' = FALSE /\ jQueued' = <<>> /\ jFlight' = Nobody /\ jCompleted' = {}
  /\ jCredits' = 0 /\ jFinished' = FALSE /\ jError' = FALSE
  /\ jpc' = "idle" /\ jHand' = [job |-> Nobody, result |-> "none", progress |-> 0]
  /\ jSession' = 0
  /\ jVerdict' = [j \in JobIds |-> IF j[1] = jLife /\ j[2] < jSeq /\ jVerdict[j] = "none"
                                     THEN "lost" ELSE jVerdict[j]]
  /\ UNCHANGED diskVars

JournalWorkerStep ==
  \/ TakeJob \/ WorkerReturns \/ Finish
  \/ OpenCreates \/ SchemaCommits \/ OpenExisting \/ AllocateSession
  \/ PruneOldestSessions \/ OpenFails
  \/ Encode \/ Insert \/ CommitFails \/ Commit \/ Readback \/ Publish
  \/ UnwindTakes \/ UnwindPublishes

JournalNext ==
  \/ Submit \/ Collect \/ CloseJournal \/ CollectPending \/ Report
  \/ JournalWorkerStep \/ Unwind \/ Crash

JournalSpec == JournalInit /\ [][JournalNext]_jvars
JournalFairness == WF_jvars(JournalWorkerStep)
-----------------------------------------------------------------------------
Unfinished == {<<jLife, s>> : s \in {q \in 1 .. jSeq - 1 : jVerdict[<<jLife, q>>] = "none"}}

Written == jRows \union jPruned

\* A credit is held by exactly one of: a queued job, the job in the worker's hands, an
\* unconsumed completion (submit, complete, take_matching), so no completion ever finds its
\* slot taken; a drain that reports completion left no accepted job without a consumed result;
\* and no two rows ever shared a key, across errors, reopened sessions and processes
\* (Database::open allocates, append compares), nor did retention drop a row while it kept an
\* older one or touch the session in use.
JournalAccounts ==
  /\ jCredits = Cardinality(jCompleted) + Cardinality(Unfinished)
  /\ jCredits <= CreditCapacity
  /\ jDrain = "complete" =>
       \A s \in 1 .. jSeq - 1 : \E c \in jTaken : c.job = <<jLife, s>>
  /\ \A r, q \in Written : (r.session = q.session /\ r.key = q.key) => r = q
  /\ \A r \in jPruned : r.session # jSession /\ \A q \in jRows : r.session < q.session

\* The journal keeps the promises of a job ledger: durable only with a row on disk, failed
\* only without one and for good, one verdict per job, whatever fails or dies when
\* (append's classification of errors, the panic handler's, complete).
Ledger == INSTANCE JobLedger WITH
  LedgerJobs <- JobIds,
  accepted <- {j \in JobIds : jVerdict[j] # "none" \/ (j[1] = jLife /\ j[2] < jSeq)},
  stored <- {r.body : r \in Written},
  judged <- jVerdict
ImplementsLedger == Ledger!LedgerSpec

\* Every accepted job is judged, or the process died first: no lost wake-up between submit,
\* the worker's wait and close, and no panic that strands the queue.
JobsAreJudged ==
  \A j \in JobIds : (j[1] = jLife /\ j[2] < jSeq) ~> (jVerdict[j] # "none")
==============================================================================
