---------------------------- MODULE DeployLedger ----------------------------
(***************************************************************************)
(* Self-update of the robot (marengo-deploy, the gateway's deploy.rs, and  *)
(* the scripts it starts).  deploy-job.json is one entry that four writers *)
(* share: the enqueue helper, the update script -- run by the unit, or by  *)
(* hand --, and the gateway, which reconciles an entry its script left     *)
(* behind and demotes a success that cannot be served.  Writers hold an    *)
(* advisory lock for a rename; the gateway holds it from its read on.      *)
(***************************************************************************)
EXTENDS Integers, FiniteSets

CONSTANTS
    Runs,           \* update runs, each with a job id of its own
    Revs,           \* revisions; each run installs the one it was given
    MaxAge,         \* DEPLOY_JOB_MAX_AGE_SECS, in ticks
    OrphanAge,      \* 120 s, in ticks
    MaxPolls        \* bound: status polls

NoRun == "none"

VARIABLES
    dFile,      \* deploy-job.json
    dWriter,    \* the run whose entry was last put there by a helper or script
    dRun,       \* each run: where it is, its revision, how it was started
    dRev, dWww, \* .deploy-rev and whether the web root is there
    dEver,      \* revisions that have been installed
    dGate,      \* the gateway's post_control_deploy, under deploy_lock
    dPoll,      \* a status poll between its reconcile and its demote
    dPolls      \* bound

dvars == <<dFile, dWriter, dRun, dRev, dWww, dEver, dGate, dPoll, dPolls>>

NoEntry == [read |-> "missing", state |-> "idle", id |-> NoRun, target |-> "none"]
IdleGate == [at |-> "idle", id |-> NoRun]
NoPoll == [at |-> "idle", entry |-> NoEntry]

DeployInit ==
    /\ \E read \in {"missing", "corrupt", "ok"} : dFile = [NoEntry EXCEPT !.read = read]
    /\ dWriter = NoRun
    /\ dRun = [r \in Runs |-> [at |-> "none", rev |-> "none", by |-> "none", age |-> 0]]
    /\ dRev \in Revs \cup {"none"} /\ dWww \in BOOLEAN /\ dEver = {dRev}
    /\ dGate = IdleGate /\ dPoll = NoPoll /\ dPolls = 0

Entry(state, r) == [read |-> "ok", state |-> state, id |-> r, target |-> dRun[r].rev]
UnitActive == \E r \in Runs : dRun[r].by = "unit" /\ dRun[r].at \in {"started", "working", "built", "installed"}
\* RUN_LOCK: the run that builds in the staging checkout.
RunLocked == \E r \in Runs : dRun[r].at \in {"built", "installed", "working"}

\* reconcile_job: promoted when the installed revision is its target, failed
\* when it is too old, or orphaned by its unit.
Reconciled_PromotesIdleUnit(e) ==   \* mutant: a unit that ended is a success
    IF e.state = "running" /\ ~UnitActive THEN [e EXCEPT !.state = "succeeded"] ELSE e
Reconciled(e) ==
    IF e.read # "ok" \/ e.state # "running" THEN e
    ELSE IF e.target = dRev THEN [e EXCEPT !.state = "succeeded"]
    ELSE IF \/ dRun[e.id].age > MaxAge
            \/ dRun[e.id].by = "unit" /\ ~UnitActive /\ dRun[e.id].age > OrphanAge
         THEN [e EXCEPT !.state = "failed"]
    ELSE e

\* current_version_status: load_reconciled_job under the lock, then the fetch of
\* the upstream tip, then assemble_version_status.
Poll ==
    /\ dPoll.at = "idle" /\ dPolls < MaxPolls /\ dPolls' = dPolls + 1
    /\ dFile' = Reconciled(dFile)
    /\ dPoll' = [at |-> "fetched", entry |-> Reconciled(dFile)]
    /\ UNCHANGED <<dWriter, dRun, dRev, dWww, dEver, dGate>>

\* compare_and_write_job: only while the ledger still holds the job that was read.
CompareAndWrite_Writes(id, e) == e   \* mutant: the ledger is not read again
CompareAndWrite(id, e) == IF dFile.read = "ok" /\ dFile.id = id THEN e ELSE dFile
Servable(e) == e.target = dRev /\ dWww
Demote ==
    /\ dPoll.at = "fetched"
    /\ LET e == dPoll.entry IN
        dFile' = IF e.read = "ok" /\ e.state = "succeeded" /\ ~Servable(e)
                 THEN CompareAndWrite(e.id, [e EXCEPT !.state = "failed"]) ELSE dFile
    /\ dPoll' = NoPoll
    /\ UNCHANGED <<dWriter, dRun, dRev, dWww, dEver, dGate, dPolls>>

\* post_control_deploy: the lock, the reconciled ledger (anything but a readable
\* one that is not running is refused), then the fetch, then the helper.
BeginDeploy ==
    /\ dGate.at = "idle"
    /\ dFile' = Reconciled(dFile)
    /\ Reconciled(dFile).read = "ok" /\ Reconciled(dFile).state # "running"
    /\ dGate' = [at |-> "fetch", id |-> NoRun]
    /\ UNCHANGED <<dWriter, dRun, dRev, dWww, dEver, dPoll, dPolls>>

\* The tip is known: nothing to do, no answer from GitHub, or a job id is made.
FetchTip(r, rev) ==
    /\ dGate.at = "fetch" /\ dRun[r].at = "none" /\ ~(rev = dRev /\ dWww)
    /\ dGate' = [at |-> "enqueue", id |-> r]
    /\ dRun' = [dRun EXCEPT ![r] = [at |-> "asked", rev |-> rev, by |-> "unit", age |-> 0]]
    /\ UNCHANGED <<dFile, dWriter, dRev, dWww, dEver, dPoll, dPolls>>
FetchEnds ==
    /\ dGate.at = "fetch" /\ dGate' = IdleGate
    /\ UNCHANGED <<dFile, dWriter, dRun, dRev, dWww, dEver, dPoll, dPolls>>

\* pi-enqueue-self-update.sh: refused while the unit is active; else the entry
\* is written as running, whatever it was, and the unit is started.
Enqueue(r, starts) ==
    /\ dGate.at = "enqueue" /\ dGate.id = r /\ dGate' = IdleGate
    /\ IF UnitActive
       THEN dRun' = [dRun EXCEPT ![r].at = "refused"] /\ UNCHANGED <<dFile, dWriter>>
       ELSE /\ dRun' = [dRun EXCEPT ![r].at = IF starts THEN "started" ELSE "failed"]
            /\ dFile' = Entry(IF starts THEN "running" ELSE "failed", r)
            /\ dWriter' = r
    /\ UNCHANGED <<dRev, dWww, dEver, dPoll, dPolls>>

\* The script started by hand (MCP pi_native).
RunByHand(r, rev) ==
    /\ dRun[r].at = "none"
    /\ dRun' = [dRun EXCEPT ![r] = [at |-> "started", rev |-> rev, by |-> "hand", age |-> 0]]
    /\ UNCHANGED <<dFile, dWriter, dRev, dWww, dEver, dGate, dPoll, dPolls>>

\* pi-self-update.sh: RUN_LOCK, or the enqueued entry is marked failed if it is
\* still this run's.
Refused(r) ==
    /\ dRun[r].at = "started" /\ RunLocked
    /\ dRun' = [dRun EXCEPT ![r].at = "failed"]
    /\ dFile' = IF dFile.read = "ok" /\ dFile.id = r THEN [dFile EXCEPT !.state = "failed"] ELSE dFile
    /\ UNCHANGED <<dWriter, dRev, dWww, dEver, dGate, dPoll, dPolls>>
Writes(r, state) == dFile' = Entry(state, r) /\ dWriter' = r
StartsWork(r) ==
    /\ dRun[r].at = "started" /\ ~RunLocked
    /\ dRun' = [dRun EXCEPT ![r].at = "working", ![r].age = 0] /\ Writes(r, "running")
    /\ UNCHANGED <<dRev, dWww, dEver, dGate, dPoll, dPolls>>
\* Fetch, lfs and build report their phases; any of them may fail the run.
Builds(r) ==
    /\ dRun[r].at = "working"
    /\ \/ dRun' = [dRun EXCEPT ![r].at = "built"] /\ Writes(r, "running")
       \/ dRun' = [dRun EXCEPT ![r].at = "failed"] /\ Writes(r, "failed")
    /\ UNCHANGED <<dRev, dWww, dEver, dGate, dPoll, dPolls>>
\* install-pi.sh replaces .deploy-rev and the web root, then restarts the gateway
\* (what it was doing is gone).
Installs(r, www) ==
    /\ dRun[r].at = "built"
    /\ dRun' = [dRun EXCEPT ![r].at = "installed"]
    /\ dRev' = dRun[r].rev /\ dWww' = www /\ dEver' = dEver \cup {dRun[r].rev}
    /\ dGate' = IdleGate /\ dPoll' = NoPoll
    /\ UNCHANGED <<dFile, dWriter, dPolls>>
InstallFails(r) ==
    /\ dRun[r].at = "built" /\ dRun' = [dRun EXCEPT ![r].at = "failed"] /\ Writes(r, "failed")
    /\ UNCHANGED <<dRev, dWww, dEver, dGate, dPoll, dPolls>>
Finishes(r) ==
    /\ dRun[r].at = "installed" /\ dRun' = [dRun EXCEPT ![r].at = "done"] /\ Writes(r, "succeeded")
    /\ UNCHANGED <<dRev, dWww, dEver, dGate, dPoll, dPolls>>
\* The run is killed and writes nothing.
Killed(r) ==
    /\ dRun[r].at \in {"started", "working", "built", "installed"}
    /\ dRun' = [dRun EXCEPT ![r].at = "killed"]
    /\ UNCHANGED <<dFile, dWriter, dRev, dWww, dEver, dGate, dPoll, dPolls>>

\* Time passes: what the entry's started_at, or the file's mtime, is old by.
DeployTick ==
    /\ dFile.state = "running" /\ dRun[dFile.id].age <= MaxAge
    /\ dRun' = [dRun EXCEPT ![dFile.id].age = @ + 1]
    /\ UNCHANGED <<dFile, dWriter, dRev, dWww, dEver, dGate, dPoll, dPolls>>

DeployNext ==
    \/ Poll \/ Demote \/ BeginDeploy \/ FetchEnds \/ DeployTick
    \/ \E r \in Runs, rev \in Revs : FetchTip(r, rev) \/ RunByHand(r, rev)
    \/ \E r \in Runs, b \in BOOLEAN : Enqueue(r, b) \/ Installs(r, b)
    \/ \E r \in Runs : Refused(r) \/ StartsWork(r) \/ Builds(r) \/ InstallFails(r)
                       \/ Finishes(r) \/ Killed(r)

DeploySpec == DeployInit /\ [][DeployNext]_dvars

------------------------------------------------------------------------------
\* The ledger names the run that last wrote it: neither a reconcile nor a demote
\* decided on an earlier read puts an older job's entry over a newer one.
EntryIsTheWriters == dFile.id = dWriter

\* An entry that says succeeded names a revision that was installed, whoever
\* wrote it, although runs are killed, time out and overlap.
SucceededIsInstalled == dFile.state = "succeeded" => dFile.target \in dEver

\* One run at a time builds and installs.
OneBuildAtATime == Cardinality({r \in Runs : dRun[r].at \in {"working", "built", "installed"}}) <= 1

\* The ledger as a whole.
DeployHolds == EntryIsTheWriters /\ SucceededIsInstalled /\ OneBuildAtATime
=============================================================================
