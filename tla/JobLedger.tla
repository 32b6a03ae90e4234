------------------------------ MODULE JobLedger ------------------------------
(***************************************************************************)
(* What a durable history promises the owner of a job, whoever keeps it: a *)
(* job is accepted once and judged at most once, a job judged durable is   *)
(* stored, and a job judged failed is not stored and never will be.  A job *)
(* whose verdict was lost with the process, or that was judged uncertain,  *)
(* may be stored or not.  ReferenceJournal implements this specification.  *)
(***************************************************************************)
CONSTANT LedgerJobs

VARIABLES accepted, stored, judged

ledgerVars == <<accepted, stored, judged>>

Verdicts == {"durable", "failed", "uncertain"}

LedgerInit ==
  /\ accepted = {}
  /\ stored = {}
  /\ judged = [j \in LedgerJobs |-> "none"]

Accept(j) ==
  /\ j \notin accepted
  /\ accepted' = accepted \union {j}
  /\ UNCHANGED <<stored, judged>>

Record(j) ==
  /\ j \in accepted
  /\ judged[j] = "none"
  /\ stored' = stored \union {j}
  /\ UNCHANGED <<accepted, judged>>

Judge(j, v) ==
  /\ j \in accepted
  /\ judged[j] = "none"
  /\ v = "durable" => j \in stored
  /\ v = "failed" => j \notin stored
  /\ judged' = [judged EXCEPT ![j] = v]
  /\ UNCHANGED <<accepted, stored>>

\* The process dies: the jobs without a verdict never get one.
Abandon ==
  /\ judged' = [j \in LedgerJobs |->
                  IF j \in accepted /\ judged[j] = "none" THEN "lost" ELSE judged[j]]
  /\ UNCHANGED <<accepted, stored>>

LedgerNext ==
  \/ \E j \in LedgerJobs : Accept(j) \/ Record(j) \/ \E v \in Verdicts : Judge(j, v)
  \/ Abandon

LedgerSpec == LedgerInit /\ [][LedgerNext]_ledgerVars
==============================================================================
