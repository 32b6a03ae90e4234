-------------------------- MODULE DriveOwnersProofs ---------------------------
(***************************************************************************)
(* What a tool that ends says of the drives is true: OwnersHold of         *)
(* DriveOwners, for any number of interfaces and processes and any bounds  *)
(* on faults and refused writes.                                           *)
(*                                                                         *)
(* The invariant speaks of one process at a time.  Holds(p) is disturbed   *)
(* by p itself, step by step; of another process it only needs what Frame  *)
(* states, since a claim is released by its holder alone and a drive runs  *)
(* on p's Enable only if p wrote last.                                     *)
(***************************************************************************)
EXTENDS DriveOwners, TLAPS

-----------------------------------------------------------------------------
(* The inductive invariant.                                                *)

Phases == {"absent", "loading", "opening", "open", "checked", "latched",
           "finishing", "stopping", "exiting", "ended", "killed"}
Threads == [at : {"none", "armed", "first", "pause", "second", "exit"},
            next : Interfaces, early : BOOLEAN]
OwnersTypeOK ==
    /\ claim \in [Interfaces -> Procs \cup {None}]
    /\ down \subseteq Interfaces
    /\ pc \in [Procs -> Phases]
    /\ next \in [Procs -> Interfaces]
    /\ outcome \in [Procs -> {None, "done", "failed", "owned"}]
    /\ heard \in [Procs -> BOOLEAN]
    /\ foreign \in [Procs -> BOOLEAN]
    /\ sig \in [SetZeros -> Threads]
    /\ reach \in [Procs -> SUBSET Interfaces]
    /\ sent \in [Procs -> BOOLEAN]
    /\ drive \in [Interfaces -> [state : {"off", "run"}, by : Procs \cup {None}]]
    /\ busy \in Nat /\ faults \in Nat

Closed == {"absent", "loading", "opening"}   \* before the sockets are open
Active == {"open", "checked"}                \* may still write an Enable
Runs(p, i) == drive[i].state = "run" /\ drive[i].by = p
Excused(i) == i \in down \/ busy > 0

\* The claims a process has taken so far, and keeps until it has stopped; it
\* opens and stops from the first interface on.
Claims(p) ==
    /\ pc[p] \notin {"opening", "stopping", "ended", "killed"} => next[p] = 1
    /\ pc[p] = "opening" => \A i \in Interfaces : i < next[p] => claim[i] = p
    /\ pc[p] \in Active \cup {"latched"} => \A i \in Interfaces : claim[i] = p

\* Where a process may be with the outcome it has.
Outcomes(p) ==
    /\ pc[p] \in Closed \cup Active \cup {"latched"} => outcome[p] = None
    /\ pc[p] = "stopping" => outcome[p] # "owned"
    /\ Command[p] = "disable" =>
         /\ pc[p] \in {"absent", "stopping", "exiting", "ended", "killed"}
         /\ pc[p] = "stopping" => outcome[p] # "done"
         /\ outcome[p] = "done" => reach[p] = Interfaces

\* A set-zero that was not signalled is silent until its sockets are open.
Silent(p) ==
    /\ pc[p] = "absent" => sig[p].at = "none" /\ ~sent[p]
    /\ sig[p].at = "armed" /\ sent[p] => pc[p] \notin Closed /\ outcome[p] # "owned"
    /\ sig[p].at \in {"first", "pause", "second", "exit"} /\ ~sig[p].early
         => pc[p] \notin Closed

\* After the first pass of its signal a set-zero that is still at work has
\* another writer's command to read, its own signal thread's.
Deafened(p) ==
    /\ ~sig[p].early /\ pc[p] \in Active =>
         \A i \in Interfaces \ down :
             \/ sig[p].at \in {"pause", "second", "exit"}
             \/ sig[p].at = "first" /\ i < sig[p].next
             => foreign[p] \/ busy > 0
    /\ ~sig[p].early /\ pc[p] = "checked" /\ sig[p].at \in {"second", "exit"}
         => \A i \in Interfaces : Excused(i)

\* The drives that may still run on the Enable of a set-zero; the second pass
\* of its signal starts from the first interface again.
Stopped(p) ==
  /\ sig[p].at = "pause" => sig[p].next = 1
  /\ \A i \in Interfaces : Runs(p, i) =>
        /\ pc[p] \notin Closed
        /\ pc[p] = "finishing" => outcome[p] \notin {"done", "owned"}
        /\ pc[p] = "stopping" => i >= next[p] \/ Excused(i)
        /\ pc[p] = "exiting" => Excused(i)
        /\ pc[p] = "ended" /\ ~sig[p].early => Excused(i)
        /\ sig[p].at = "second" /\ ~sig[p].early => i >= sig[p].next \/ Excused(i)
        /\ sig[p].at = "exit" /\ ~sig[p].early => Excused(i)

Holds(p) ==
    /\ Claims(p) /\ Outcomes(p)
    /\ p \in SetZeros => Silent(p) /\ Deafened(p) /\ Stopped(p)

OwnersInv == OwnersTypeOK /\ \A p \in Procs : Holds(p)

\* What a step of another process leaves to p.
Frame(p) ==
    /\ pc'[p] = pc[p] /\ next'[p] = next[p] /\ outcome'[p] = outcome[p]
    /\ reach'[p] = reach[p] /\ sent'[p] = sent[p]
    /\ p \in SetZeros => sig'[p] = sig[p]
    /\ foreign[p] => foreign'[p]
    /\ \A i \in Interfaces : claim[i] = p => claim'[i] = p
    /\ \A i \in Interfaces : Runs(p, i)' => Runs(p, i)
    /\ down' = down /\ (busy > 0 => busy' > 0)
-----------------------------------------------------------------------------
LEMMA FrameKeeps ==
  ASSUME OwnersTypeOK, NEW p \in Procs, Holds(p), Frame(p)
  PROVE  Holds(p)'
<1> USE DEF Frame, Excused
<1>1. Claims(p)'
  BY DEF Holds, Claims
<1>2. Outcomes(p)'
  BY DEF Holds, Outcomes
<1>3. ASSUME p \in SetZeros PROVE Silent(p)'
  BY <1>3 DEF Holds, Silent
<1>4. ASSUME p \in SetZeros PROVE Deafened(p)'
  BY <1>4 DEF Holds, Deafened
<1>5. ASSUME p \in SetZeros PROVE Stopped(p)'
  BY <1>5 DEF Holds, Stopped
<1> QED
  BY <1>1, <1>2, <1>3, <1>4, <1>5 DEF Holds, SetZeros

-----------------------------------------------------------------------------
(* Types.                                                                  *)

\* The rules for a single update of a function.
LEMMA Updated ==
  ASSUME NEW S, NEW T, NEW f \in [S -> T], NEW x \in S, NEW v \in T
  PROVE  /\ [f EXCEPT ![x] = v] \in [S -> T]
         /\ [f EXCEPT ![x] = v][x] = v
         /\ \A y \in S : y # x => [f EXCEPT ![x] = v][y] = f[y]
OBVIOUS

LEMMA PutTypes ==
  ASSUME OwnersTypeOK, NEW p \in Procs, NEW i \in Interfaces,
         NEW state \in {"off", "run"}, NEW own, Put(p, i, state, own)
  PROVE  /\ foreign' \in [Procs -> BOOLEAN]
         /\ sent' \in [Procs -> BOOLEAN]
         /\ drive' \in [Interfaces -> [state : {"off", "run"}, by : Procs \cup {None}]]
<1>1. \A q \in Procs : (foreign[q] \/ (q = claim[i] /\ ~own)) \in BOOLEAN
  OBVIOUS
<1>2. foreign' \in [Procs -> BOOLEAN]
  BY <1>1 DEF Put
<1>3. sent' \in [Procs -> BOOLEAN]
  BY DEF Put, OwnersTypeOK
<1>4. [state |-> state, by |-> p] \in [state : {"off", "run"}, by : Procs \cup {None}]
  OBVIOUS
<1>5. drive' \in [Interfaces -> [state : {"off", "run"}, by : Procs \cup {None}]]
  BY <1>4, Updated DEF Put, OwnersTypeOK
<1> QED
  BY <1>2, <1>3, <1>5

LEMMA DisableOneTypes ==
  ASSUME OwnersTypeOK, OwnersConstants, NEW p \in Procs, NEW i \in Interfaces,
         DisableOne(p, i)
  PROVE  /\ foreign' \in [Procs -> BOOLEAN]
         /\ reach' \in [Procs -> SUBSET Interfaces]
         /\ sent' \in [Procs -> BOOLEAN]
         /\ drive' \in [Interfaces -> [state : {"off", "run"}, by : Procs \cup {None}]]
         /\ busy' \in Nat
<1>1. CASE i \in down /\ UNCHANGED <<drive, sent, foreign, reach, busy>>
  BY <1>1 DEF OwnersTypeOK
<1>2. CASE /\ Put(p, i, "off", FALSE)
           /\ reach' = [reach EXCEPT ![p] = @ \cup {i}]
           /\ UNCHANGED busy
  <2>1. reach' \in [Procs -> SUBSET Interfaces] /\ busy' \in Nat
    BY <1>2 DEF OwnersTypeOK
  <2> QED
    BY <1>2, <2>1, PutTypes
<1>3. CASE busy' = busy + Attempts /\ UNCHANGED <<drive, sent, foreign, reach>>
  BY <1>3 DEF OwnersTypeOK, OwnersConstants
<1> QED
  BY <1>1, <1>2, <1>3 DEF DisableOne

LEMMA OneIsAnInterface ==
  ASSUME OwnersConstants PROVE 1 \in Interfaces
BY DEF OwnersConstants

\* Where a signal thread goes from the interface it is at.
LEMMA SignalMoves ==
  ASSUME OwnersTypeOK, OwnersConstants, NEW p \in SetZeros, SignalStop(p)
  PROVE  \E t \in Threads :
           /\ sig' = [sig EXCEPT ![p] = t]
           /\ sig'[p] = t
           /\ t.early = sig[p].early
           /\ \/ sig[p].next < Last /\ t.at = sig[p].at /\ t.next = sig[p].next + 1
              \/ sig[p].next = Last /\ sig[p].at = "second" /\ t.at = "exit" /\ t.next = 1
              \/ sig[p].next = Last /\ sig[p].at = "first" /\ t.at = "pause" /\ t.next = 1
<1>0. sig[p] \in Threads /\ sig \in [SetZeros -> Threads] /\ sig[p].next \in Interfaces
  BY DEF OwnersTypeOK, Threads
<1> DEFINE i == sig[p].next
<1>1. CASE i < Last
  <2>1. [sig[p] EXCEPT !.next = i + 1] \in Threads
    BY <1>0, <1>1 DEF Threads, OwnersConstants
  <2>2. sig' = [sig EXCEPT ![p] = [sig[p] EXCEPT !.next = i + 1]]
    BY <1>0, <1>1 DEF SignalStop, OwnersConstants
  <2> QED
    BY <1>0, <1>1, <2>1, <2>2, Updated DEF Threads
<1>2. CASE i = Last /\ sig[p].at = "second"
  <2>1. [sig[p] EXCEPT !.at = "exit", !.next = 1] \in Threads
    BY <1>0, OneIsAnInterface DEF Threads
  <2>2. sig' = [sig EXCEPT ![p] = [sig[p] EXCEPT !.at = "exit", !.next = 1]]
    <3>1. ~(i < Last) /\ SignalPass(p)
      BY <1>2 DEF SignalPass, OwnersConstants
    <3> QED
      BY <3>1 DEF SignalStop
  <2> QED
    BY <1>0, <1>2, <2>1, <2>2, Updated DEF Threads
<1>3. CASE i = Last /\ sig[p].at = "first"
  <2>1. [sig[p] EXCEPT !.at = "pause", !.next = 1] \in Threads
    BY <1>0, OneIsAnInterface DEF Threads
  <2>2. sig' = [sig EXCEPT ![p] = [sig[p] EXCEPT !.at = "pause", !.next = 1]]
    <3>1. ~(i < Last) /\ ~SignalPass(p)
      BY <1>3 DEF SignalPass, OwnersConstants
    <3> QED
      BY <3>1 DEF SignalStop
  <2> QED
    BY <1>0, <1>3, <2>1, <2>2, Updated DEF Threads
<1>4. (i < Last \/ i = Last) /\ sig[p].at \in {"first", "second"}
  BY <1>0 DEF SignalStop, OwnersConstants
<1> QED
  BY <1>1, <1>2, <1>3, <1>4

LEMMA TypeStep ==
  ASSUME OwnersTypeOK, OwnersConstants, NEW p \in Procs,
         \/ Start(p) \/ Load(p) \/ OpenNext(p) \/ Receive(p)
         \/ \E i \in Interfaces : claim[i] = p /\ WriteEnable(p, i)
         \/ OwnStop(p) \/ Fails(p) \/ Finish(p) \/ MainStop(p) \/ Exit(p)
         \/ p \in SetZeros /\ (Signal(p) \/ SignalStop(p) \/ SecondPass(p))
  PROVE  OwnersTypeOK'
<1> USE DEF OwnersTypeOK, Goes, Phases, Threads
<1>1. CASE Start(p)
  <2>1. \A t \in Threads : [t EXCEPT !.at = "armed"] \in Threads
    OBVIOUS
  <2>2. sig' \in [SetZeros -> Threads]
    <3>1. CASE p \in SetZeros
      <4>1. sig' = [sig EXCEPT ![p] = [sig[p] EXCEPT !.at = "armed"]]
        BY <1>1, <3>1 DEF Start
      <4>2. sig[p] \in Threads
        BY <3>1
      <4> QED
        BY <2>1, <3>1, <4>1, <4>2, Updated
    <3>2. CASE p \notin SetZeros
      BY <1>1, <3>2 DEF Start
    <3> QED
      BY <3>1, <3>2
  <2>3. pc' \in [Procs -> Phases]
    BY <1>1 DEF Start
  <2> QED
    BY <1>1, <2>2, <2>3 DEF Start
<1>2. CASE Load(p)
  <2>1. outcome' \in [Procs -> {None, "done", "failed", "owned"}]
    BY <1>2 DEF Load, Ends
  <2>2. pc' \in [Procs -> Phases]
    BY <1>2 DEF Load, Ends
  <2>3. faults' \in Nat
    BY <1>2 DEF Load
  <2> QED
    BY <1>2, <2>1, <2>2, <2>3 DEF Load
<1>3. CASE OpenNext(p)
  <2>1. claim' \in [Interfaces -> Procs \cup {None}]
    BY <1>3 DEF OpenNext, ClaimInterface
  <2>2. outcome' \in [Procs -> {None, "done", "failed", "owned"}] /\ pc' \in [Procs -> Phases]
    BY <1>3 DEF OpenNext, ClaimInterface, Ends
  <2>3. next[p] \in Interfaces /\ (next[p] # Last => next[p] + 1 \in Interfaces)
    BY DEF OwnersConstants
  <2>4. next' \in [Procs -> Interfaces]
    <3>1. \E v \in {1, next[p] + 1} : next' = [next EXCEPT ![p] = v] /\ v \in Interfaces
      BY <1>3, <2>3, OneIsAnInterface DEF OpenNext, ClaimInterface
    <3> QED
      BY <3>1, Updated
  <2> QED
    BY <1>3, <2>1, <2>2, <2>4 DEF OpenNext
<1>4. CASE Receive(p)
  <2>1. (heard[p] \/ foreign[p]) \in BOOLEAN
    OBVIOUS
  <2>2. heard' = [heard EXCEPT ![p] = heard[p] \/ foreign[p]]
    BY <1>4 DEF Receive
  <2>3. heard' \in [Procs -> BOOLEAN]
    BY <2>1, <2>2, Updated
  <2>4. foreign' \in [Procs -> BOOLEAN] /\ pc' \in [Procs -> Phases]
    BY <1>4 DEF Receive
  <2> QED
    BY <1>4, <2>3, <2>4 DEF Receive
<1>5. ASSUME NEW i \in Interfaces, WriteEnable(p, i) PROVE OwnersTypeOK'
  <2>1. Put(p, i, "run", TRUE)
    BY <1>5 DEF WriteEnable
  <2> QED
    BY <1>5, <2>1, PutTypes DEF WriteEnable
<1>6. CASE OwnStop(p)
  BY <1>6 DEF OwnStop, Ends
<1>7. CASE Fails(p)
  BY <1>7 DEF Fails, Ends
<1>8. CASE Finish(p)
  BY <1>8 DEF Finish
<1>9. CASE MainStop(p)
  <2>1. DisableOne(p, next[p]) /\ next[p] \in Interfaces
    BY <1>9 DEF MainStop
  <2> QED
    <3>0. next[p] # Last => next[p] + 1 \in Interfaces
      BY <2>1 DEF OwnersConstants
    <3>1. pc' \in [Procs -> Phases] /\ next' \in [Procs -> Interfaces]
      BY <1>9, <3>0, OneIsAnInterface DEF MainStop
    <3>2. outcome' \in [Procs -> {None, "done", "failed", "owned"}]
      BY <1>9 DEF MainStop
    <3> QED
      BY <1>9, <2>1, <3>1, <3>2, DisableOneTypes DEF MainStop
<1>10. CASE Exit(p)
  <2>1. sig' \in [SetZeros -> Threads]
    <3>1. CASE p \notin SetZeros
      BY <1>10, <3>1 DEF Exit
    <3>2. CASE p \in SetZeros
      <4>1. [sig[p] EXCEPT !.at = "none", !.next = 1] \in Threads
        <5>1. sig[p] \in Threads
          BY <3>2
        <5> QED
          BY <5>1, OneIsAnInterface
      <4>2. sig' = [sig EXCEPT ![p] = [sig[p] EXCEPT !.at = "none", !.next = 1]]
        BY <1>10, <3>2 DEF Exit
      <4> QED
        BY <3>2, <4>1, <4>2, Updated
    <3> QED
      BY <3>1, <3>2
  <2>2. claim' \in [Interfaces -> Procs \cup {None}]
    BY <1>10 DEF Exit
  <2>3. pc' \in [Procs -> Phases]
    <3>1. \E v \in {"ended", "killed"} : pc' = [pc EXCEPT ![p] = v]
      BY <1>10 DEF Exit
    <3> QED
      BY <3>1, Updated
  <2>4. faults' \in Nat
    BY <1>10 DEF Exit
  <2> QED
    BY <1>10, <2>1, <2>2, <2>3, <2>4 DEF Exit
<1>11. CASE p \in SetZeros /\ Signal(p)
  <2>1. [at |-> "first", next |-> 1, early |-> pc[p] \in {"loading", "opening"}] \in Threads
    BY OneIsAnInterface DEF Threads
  <2>2. sig' \in [SetZeros -> Threads]
    BY <1>11, <2>1, Updated DEF Signal
  <2> QED
    BY <1>11, <2>2 DEF Signal
<1>12. CASE p \in SetZeros /\ SignalStop(p)
  <2>1. DisableOne(p, sig[p].next) /\ sig[p].next \in Interfaces
    BY <1>12 DEF SignalStop
  <2> QED
    <3>1. PICK t \in Threads : sig' = [sig EXCEPT ![p] = t]
      BY <1>12, <2>1, SignalMoves
    <3>2. sig' \in [SetZeros -> Threads]
      BY <1>12, <3>1, Updated
    <3> QED
      BY <1>12, <2>1, <3>2, DisableOneTypes DEF SignalStop
<1>13. CASE p \in SetZeros /\ SecondPass(p)
  <2>1. \A t \in Threads : [t EXCEPT !.at = "second"] \in Threads
    OBVIOUS
  <2>2. sig' = [sig EXCEPT ![p] = [sig[p] EXCEPT !.at = "second"]] /\ sig[p] \in Threads
    BY <1>13 DEF SecondPass
  <2>3. sig' \in [SetZeros -> Threads]
    BY <1>13, <2>1, <2>2, Updated
  <2> QED
    BY <1>13, <2>3 DEF SecondPass
<1> QED
  BY <1>1, <1>2, <1>3, <1>4, <1>5, <1>6, <1>7, <1>8, <1>9, <1>10, <1>11, <1>12, <1>13

-----------------------------------------------------------------------------
(* A step of another process.                                              *)

\* Another process' frame leaves p's commands to read, and p's drives only
\* what p last told them.
LEMMA PutFrames ==
  ASSUME OwnersTypeOK, NEW q \in Procs, NEW p \in Procs, p # q, NEW j \in Interfaces,
         NEW state, NEW own, Put(q, j, state, own)
  PROVE  /\ sent'[p] = sent[p]
         /\ foreign[p] => foreign'[p]
         /\ \A i \in Interfaces : Runs(p, i)' => Runs(p, i)
<1>1. sent'[p] = sent[p]
  BY DEF Put, OwnersTypeOK
<1>2. foreign'[p] = (foreign[p] \/ (p = claim[j] /\ ~own))
  BY DEF Put
<1>3. ASSUME NEW i \in Interfaces, Runs(p, i)' PROVE Runs(p, i)
  <2>1. CASE i = j
    <3>1. drive'[i].by = q
      BY <2>1 DEF Put, OwnersTypeOK
    <3> QED
      BY <1>3, <3>1 DEF Runs
  <2>2. CASE i # j
    <3>1. drive'[i] = drive[i]
      BY <2>2 DEF Put, OwnersTypeOK
    <3> QED
      BY <1>3, <3>1 DEF Runs
  <2> QED
    BY <2>1, <2>2
<1> QED
  BY <1>1, <1>2, <1>3

LEMMA DisableOneFrames ==
  ASSUME OwnersTypeOK, OwnersConstants, NEW q \in Procs, NEW p \in Procs, p # q,
         NEW j \in Interfaces, DisableOne(q, j)
  PROVE  /\ sent'[p] = sent[p] /\ reach'[p] = reach[p]
         /\ foreign[p] => foreign'[p]
         /\ \A i \in Interfaces : Runs(p, i)' => Runs(p, i)
         /\ busy > 0 => busy' > 0
<1>1. CASE Put(q, j, "off", FALSE) /\ reach' = [reach EXCEPT ![q] = @ \cup {j}] /\ busy' = busy
  <2>1. reach'[p] = reach[p]
    BY <1>1 DEF OwnersTypeOK
  <2> QED
    BY <1>1, <2>1, PutFrames
<1>2. CASE UNCHANGED <<drive, sent, foreign, reach>> /\ (busy' = busy \/ busy' = busy + Attempts)
  <2>1. busy > 0 => busy' > 0
    BY <1>2 DEF OwnersTypeOK, OwnersConstants
  <2> QED
    BY <1>2, <2>1 DEF Runs
<1> QED
  BY <1>1, <1>2 DEF DisableOne

LEMMA OthersFrame ==
  ASSUME OwnersTypeOK, OwnersConstants, NEW q \in Procs, NEW p \in Procs, p # q,
         \/ Start(q) \/ Load(q) \/ OpenNext(q) \/ Receive(q)
         \/ \E i \in Interfaces : claim[i] = q /\ WriteEnable(q, i)
         \/ OwnStop(q) \/ Fails(q) \/ Finish(q) \/ MainStop(q) \/ Exit(q)
         \/ q \in SetZeros /\ (Signal(q) \/ SignalStop(q) \/ SecondPass(q))
  PROVE  Frame(p)
<1> USE DEF OwnersTypeOK, Goes, Frame
<1>1. CASE Start(q)
  BY <1>1 DEF Start, Runs
<1>2. CASE Load(q)
  BY <1>2 DEF Load, Ends, Runs
<1>3. CASE OpenNext(q)
  <2>1. \A i \in Interfaces : claim[i] = p => claim'[i] = p
    BY <1>3 DEF OpenNext, ClaimInterface, OwnersConstants
  <2>2. pc'[p] = pc[p] /\ next'[p] = next[p] /\ outcome'[p] = outcome[p]
    BY <1>3 DEF OpenNext, ClaimInterface, Ends
  <2> QED
    BY <1>3, <2>1, <2>2 DEF OpenNext, Runs
<1>4. CASE Receive(q)
  BY <1>4 DEF Receive, Runs
<1>5. ASSUME NEW i \in Interfaces, WriteEnable(q, i) PROVE Frame(p)
  <2>1. Put(q, i, "run", TRUE)
    BY <1>5 DEF WriteEnable
  <2> QED
    BY <1>5, <2>1, PutFrames DEF WriteEnable
<1>6. CASE OwnStop(q)
  <2>1. \A i \in Interfaces : Runs(p, i)' => Runs(p, i)
    BY <1>6 DEF OwnStop, Runs
  <2> QED
    BY <1>6, <2>1 DEF OwnStop, Ends
<1>7. CASE Fails(q)
  BY <1>7 DEF Fails, Ends, Runs
<1>8. CASE Finish(q)
  BY <1>8 DEF Finish, Runs
<1>9. CASE MainStop(q)
  <2>1. DisableOne(q, next[q]) /\ next[q] \in Interfaces
    BY <1>9 DEF MainStop
  <2>2. pc'[p] = pc[p] /\ next'[p] = next[p] /\ outcome'[p] = outcome[p]
    BY <1>9 DEF MainStop
  <2> QED
    BY <1>9, <2>1, <2>2, DisableOneFrames DEF MainStop
<1>10. CASE Exit(q)
  <2>1. p \in SetZeros => sig'[p] = sig[p]
    BY <1>10 DEF Exit
  <2>2. pc'[p] = pc[p]
    BY <1>10 DEF Exit
  <2> QED
    BY <1>10, <2>1, <2>2 DEF Exit, Runs
<1>11. CASE q \in SetZeros /\ Signal(q)
  BY <1>11 DEF Signal, Runs
<1>12. CASE q \in SetZeros /\ SignalStop(q)
  <2>1. DisableOne(q, sig[q].next) /\ sig[q].next \in Interfaces
    BY <1>12 DEF SignalStop, Threads
  <2>2. p \in SetZeros => sig'[p] = sig[p]
    BY <1>12 DEF SignalStop
  <2> QED
    BY <1>12, <2>1, <2>2, DisableOneFrames DEF SignalStop
<1>13. CASE q \in SetZeros /\ SecondPass(q)
  BY <1>13 DEF SecondPass, Runs
<1> QED
  BY <1>1, <1>2, <1>3, <1>4, <1>5, <1>6, <1>7, <1>8, <1>9, <1>10, <1>11, <1>12, <1>13

-----------------------------------------------------------------------------
(* A step of the process itself.                                           *)

\* Steps of the main thread that reach no drive and keep claims and places.
LEMMA QuietKeeps ==
  ASSUME OwnersTypeOK, OwnersConstants, NEW p \in Procs, Holds(p),
         Start(p) \/ Load(p) \/ Fails(p) \/ Finish(p)
  PROVE  Holds(p)'
<1> USE DEF OwnersTypeOK, Goes, Ends, Start, Load, Fails, Finish
<1>0. p \in DOMAIN pc /\ pc[p] \in {"absent", "loading", "open", "finishing"}
  OBVIOUS
<1>1. Claims(p)'
  BY <1>0 DEF Holds, Claims, Active, OwnersConstants
<1>2. Outcomes(p)'
  <2>1. CASE Start(p)
    BY <2>1 DEF Holds, Outcomes, Closed, Active, None
  <2>2. CASE Load(p)
    BY <2>2 DEF Holds, Outcomes, Closed, Active, None
  <2>3. CASE Fails(p)
    BY <2>3 DEF Holds, Outcomes, Closed, Active, None
  <2>4. CASE Finish(p)
    BY <2>4 DEF Holds, Outcomes, Closed, Active, None, ExitStopRequired
  <2> QED
    BY <2>1, <2>2, <2>3, <2>4
<1>3. ASSUME p \in SetZeros PROVE Silent(p)' /\ Deafened(p)' /\ Stopped(p)'
  <2>1. Silent(p)'
    BY <1>3 DEF Holds, Silent, Closed, Threads, Outcomes, Active
  <2>2. Deafened(p)'
    BY <1>3 DEF Holds, Deafened, Active, Excused, Threads
  <2>3. Stopped(p)'
    <3>0. sig'[p].at = "pause" => sig'[p].next = 1
      BY <1>3 DEF Holds, Stopped, Threads
    <3> SUFFICES ASSUME NEW i \in Interfaces, Runs(p, i)'
                 PROVE  /\ pc'[p] \notin Closed
                        /\ pc'[p] = "finishing" => outcome'[p] \notin {"done", "owned"}
                        /\ pc'[p] = "stopping" => i >= next'[p] \/ Excused(i)'
                        /\ pc'[p] = "exiting" => Excused(i)'
                        /\ pc'[p] = "ended" /\ ~sig'[p].early => Excused(i)'
                        /\ sig'[p].at = "second" /\ ~sig'[p].early
                             => i >= sig'[p].next \/ Excused(i)'
                        /\ sig'[p].at = "exit" /\ ~sig'[p].early => Excused(i)'
      BY <3>0 DEF Stopped
    <3>1. Runs(p, i) /\ pc[p] \notin Closed
      BY <1>3 DEF Holds, Stopped, Runs
    <3>2. next[p] = 1 /\ i >= 1 /\ UNCHANGED <<next, sig, down, busy>>
      BY <3>1 DEF Holds, Claims, Closed, OwnersConstants
    <3>3. pc'[p] \in {"finishing", "stopping", "exiting"}
      BY <3>1 DEF Closed
    <3>4. Command[p] = "set-zero"
      BY <1>3 DEF SetZeros
    <3>5. pc'[p] = "finishing" => outcome'[p] \notin {"done", "owned"}
      BY <3>1, <3>4 DEF Closed
    <3>6. pc'[p] # "exiting"
      BY <1>3, <3>1, <3>4 DEF Closed, Holds, Stopped, ExitStopRequired
    <3> QED
      BY <1>3, <3>1, <3>2, <3>3, <3>5, <3>6 DEF Holds, Stopped, Closed, Excused
  <2> QED
    BY <2>1, <2>2, <2>3
<1> QED
  BY <1>1, <1>2, <1>3 DEF Holds, SetZeros

LEMMA OpenNextKeeps ==
  ASSUME OwnersTypeOK, OwnersConstants, NEW p \in Procs, Holds(p), OpenNext(p)
  PROVE  Holds(p)'
<1> USE DEF OwnersTypeOK, Goes, Ends
<1>0. pc[p] = "opening" /\ next[p] \in Interfaces
      /\ UNCHANGED <<down, heard, foreign, sig, reach, sent, drive, busy, faults>>
  BY DEF OpenNext
<1>1. CASE /\ pc' = [pc EXCEPT ![p] = "finishing"] /\ next' = [next EXCEPT ![p] = 1]
           /\ \E how \in {"owned", "failed"} : outcome' = [outcome EXCEPT ![p] = how]
  <2>1. Claims(p)'
    BY <1>1 DEF Claims, Active
  <2>2. Outcomes(p)'
    BY <1>0, <1>1 DEF Holds, Outcomes, Closed, Active
  <2>3. ASSUME p \in SetZeros PROVE Silent(p)' /\ Deafened(p)' /\ Stopped(p)'
    <3>1. Silent(p)'
      BY <1>0, <1>1, <2>3 DEF Holds, Silent, Closed
    <3>2. Deafened(p)'
      BY <1>1, <2>3 DEF Deafened, Active
    <3>3. Stopped(p)'
      BY <1>0, <2>3 DEF Holds, Stopped, Closed, Runs
    <3> QED
      BY <3>1, <3>2, <3>3
  <2> QED
    BY <2>1, <2>2, <2>3 DEF Holds, SetZeros
<1>2. CASE /\ claim' = [claim EXCEPT ![next[p]] = p] /\ outcome' = outcome
           /\ \/ /\ next[p] = Last /\ pc' = [pc EXCEPT ![p] = "open"]
                 /\ next' = [next EXCEPT ![p] = 1]
              \/ next[p] # Last /\ next' = [next EXCEPT ![p] = next[p] + 1] /\ pc' = pc
  <2>1. Claims(p)'
    <3>1. \A i \in Interfaces : i <= next[p] => claim'[i] = p
      BY <1>0, <1>2 DEF Holds, Claims, OwnersConstants
    <3> QED
      BY <1>0, <1>2, <3>1 DEF Claims, Active, OwnersConstants
  <2>2. Outcomes(p)'
    BY <1>0, <1>2 DEF Holds, Outcomes, Closed, Active
  <2>3. ASSUME p \in SetZeros PROVE Silent(p)' /\ Deafened(p)' /\ Stopped(p)'
    <3>0. sig[p].at \in {"first", "pause", "second", "exit"} => sig[p].early
      BY <1>0, <2>3 DEF Holds, Silent, Closed
    <3>1. Silent(p)'
      BY <1>0, <1>2, <2>3, <3>0 DEF Holds, Silent, Closed
    <3>2. Deafened(p)'
      BY <1>0, <2>3, <3>0 DEF Deafened
    <3>3. Stopped(p)'
      BY <1>0, <2>3 DEF Holds, Stopped, Closed, Runs
    <3> QED
      BY <3>1, <3>2, <3>3
  <2> QED
    BY <2>1, <2>2, <2>3 DEF Holds, SetZeros
<1> QED
  BY <1>1, <1>2 DEF OpenNext, ClaimInterface

LEMMA ReceiveKeeps ==
  ASSUME OwnersTypeOK, OwnersConstants, NEW p \in Procs, Holds(p), Receive(p)
  PROVE  Holds(p)'
<1> USE DEF OwnersTypeOK, Goes
<1>0. pc[p] = "open" /\ UNCHANGED <<claim, down, next, outcome, sig, reach, sent, drive, busy>>
  BY DEF Receive
<1>1. heard'[p] = (heard[p] \/ foreign[p])
  BY DEF Receive
<1>2. pc'[p] \in {"latched", "checked"} /\ (foreign[p] => pc'[p] = "latched")
  BY <1>1 DEF Receive
<1>3. Claims(p)'
  BY <1>0, <1>2 DEF Holds, Claims, Active
<1>4. Outcomes(p)'
  BY <1>0, <1>2 DEF Holds, Outcomes, Closed, Active
<1>5. ASSUME p \in SetZeros PROVE Silent(p)' /\ Deafened(p)' /\ Stopped(p)'
  <2>1. Silent(p)'
    BY <1>0, <1>2, <1>5 DEF Holds, Silent, Closed
  <2>2. Deafened(p)'
    BY <1>0, <1>2, <1>5 DEF Holds, Deafened, Active, Excused
  <2>3. Stopped(p)'
    BY <1>0, <1>2, <1>5 DEF Holds, Stopped, Closed, Runs, Excused
  <2> QED
    BY <2>1, <2>2, <2>3
<1> QED
  BY <1>3, <1>4, <1>5 DEF Holds, SetZeros

\* The Enable that its own signal's second pass could miss is never written.
LEMMA WriteEnableKeeps ==
  ASSUME OwnersTypeOK, OwnersConstants, NEW p \in Procs, Holds(p),
         NEW j \in Interfaces, claim[j] = p, WriteEnable(p, j)
  PROVE  Holds(p)'
<1> USE DEF OwnersTypeOK, Goes
<1>0. pc[p] = "checked" /\ pc'[p] = "open"
      /\ UNCHANGED <<claim, down, next, outcome, sig, reach, busy>>
  BY DEF WriteEnable
<1>1. foreign'[p] = foreign[p]
  <2>1. \A q \in Procs : foreign'[q] = (foreign[q] \/ (q = claim[j] /\ ~TRUE))
    BY DEF WriteEnable, Put
  <2> QED
    BY <2>1
<1>3. Claims(p)'
  BY <1>0 DEF Holds, Claims, Active
<1>4. Outcomes(p)'
  BY <1>0 DEF Holds, Outcomes, Closed, Active
<1>5. ASSUME p \in SetZeros PROVE Silent(p)' /\ Deafened(p)' /\ Stopped(p)'
  <2>1. Silent(p)'
    BY <1>0, <1>5 DEF Holds, Silent, Closed, Outcomes, Active, None
  <2>2. Deafened(p)'
    BY <1>0, <1>1, <1>5 DEF Holds, Deafened, Active
  <2>3. \A i \in Interfaces : sig[p].at \in {"second", "exit"} /\ ~sig[p].early => Excused(i)
    BY <1>0, <1>5 DEF Holds, Deafened
  <2>4. Stopped(p)'
    BY <1>0, <1>5, <2>3 DEF Holds, Stopped, Closed, Excused
  <2> QED
    BY <2>1, <2>2, <2>4
<1> QED
  BY <1>3, <1>4, <1>5 DEF Holds, SetZeros

LEMMA OwnStopKeeps ==
  ASSUME OwnersTypeOK, OwnersConstants, NEW p \in Procs, Holds(p), OwnStop(p)
  PROVE  Holds(p)'
<1> USE DEF OwnersTypeOK, Goes, Ends
<1>0. /\ pc[p] \in {"open", "latched"} /\ pc'[p] \in {pc[p], "finishing"}
      /\ UNCHANGED <<claim, down, next, foreign, sig, reach, busy>>
      /\ pc'[p] = "finishing" \/ (pc'[p] = pc[p] /\ outcome'[p] = outcome[p])
      /\ outcome'[p] # "owned" \/ outcome'[p] = outcome[p]
  BY DEF OwnStop
<1>1. \A i \in Interfaces : ~Runs(p, i)'
  BY <1>0 DEF OwnStop, Holds, Claims, Active, Runs
<1>3. Claims(p)'
  BY <1>0 DEF Holds, Claims, Active
<1>4. Outcomes(p)'
  BY <1>0 DEF Holds, Outcomes, Closed, Active
<1>5. ASSUME p \in SetZeros PROVE Silent(p)' /\ Deafened(p)' /\ Stopped(p)'
  <2>1. Silent(p)'
    BY <1>0, <1>5 DEF Holds, Silent, Closed, Outcomes, Active, None
  <2>2. Deafened(p)'
    BY <1>0, <1>5 DEF Holds, Deafened, Active, Excused
  <2>3. Stopped(p)'
    BY <1>0, <1>1, <1>5 DEF Holds, Stopped
  <2> QED
    BY <2>1, <2>2, <2>3
<1> QED
  BY <1>3, <1>4, <1>5 DEF Holds, SetZeros

\* One stop of a process: its drive no longer runs, and a process that owns
\* the interface is told, unless the write is excused.
LEMMA DisableOneStops ==
  ASSUME OwnersTypeOK, OwnersConstants, NEW p \in Procs, NEW j \in Interfaces,
         DisableOne(p, j), down' = down
  PROVE  /\ \A i \in Interfaces : Excused(i) => Excused(i)'
         /\ \A i \in Interfaces : Runs(p, i)' => Runs(p, i) /\ (i = j => Excused(i)')
         /\ foreign[p] => foreign'[p]
         /\ claim[j] = p => Excused(j)' \/ foreign'[p]
         /\ busy > 0 => busy' > 0
<1> USE DEF OwnersTypeOK
<1>1. CASE j \in down /\ UNCHANGED <<drive, sent, foreign, reach, busy>>
  BY <1>1 DEF Excused, Runs
<1>2. CASE Put(p, j, "off", FALSE) /\ busy' = busy
  <2>1. foreign'[p] = (foreign[p] \/ (p = claim[j] /\ ~FALSE))
    BY <1>2 DEF Put
  <2>2. \A i \in Interfaces : drive'[i] = IF i = j THEN [state |-> "off", by |-> p] ELSE drive[i]
    BY <1>2 DEF Put
  <2>3. \A i \in Interfaces : Runs(p, i)' => Runs(p, i) /\ i # j
    BY <2>2 DEF Runs
  <2> QED
    BY <1>2, <2>1, <2>3 DEF Excused
<1>3. CASE busy' = busy + Attempts /\ UNCHANGED <<drive, sent, foreign, reach>>
  <2>1. busy' > 0
    BY <1>3 DEF OwnersConstants
  <2> QED
    BY <1>3, <2>1 DEF Excused, Runs
<1> QED
  BY <1>1, <1>2, <1>3 DEF DisableOne

LEMMA MainStopKeeps ==
  ASSUME OwnersTypeOK, OwnersConstants, NEW p \in Procs, Holds(p), MainStop(p)
  PROVE  Holds(p)'
<1> USE DEF OwnersTypeOK, Goes
<1>0. /\ pc[p] = "stopping" /\ next[p] \in Interfaces /\ DisableOne(p, next[p])
      /\ UNCHANGED <<claim, down, heard, sig, faults>>
  BY DEF MainStop
<1>1. \/ next[p] = Last /\ pc'[p] = "exiting" /\ next'[p] = 1
      \/ next[p] # Last /\ pc'[p] = "stopping" /\ next'[p] = next[p] + 1
  BY <1>0 DEF MainStop
<1>2. /\ \A i \in Interfaces : Excused(i) => Excused(i)'
      /\ \A i \in Interfaces : Runs(p, i)' => Runs(p, i) /\ (i = next[p] => Excused(i)')
  BY <1>0, DisableOneStops
<1>3. Claims(p)'
  BY <1>1 DEF Claims, Active
<1>4. Outcomes(p)'
  <2>1. CASE Command[p] = "disable" /\ next[p] = Last
    <3>1. outcome'[p] = IF reach'[p] = Interfaces THEN "done" ELSE "failed"
      BY <2>1 DEF MainStop
    <3> QED
      BY <1>1, <2>1, <3>1 DEF Outcomes, Closed, Active
  <2>2. CASE ~(Command[p] = "disable" /\ next[p] = Last)
    <3>1. outcome' = outcome
      BY <2>2 DEF MainStop
    <3> QED
      BY <1>0, <1>1, <2>2, <3>1 DEF Holds, Outcomes, Closed, Active
  <2> QED
    BY <2>1, <2>2
<1>5. ASSUME p \in SetZeros PROVE Silent(p)' /\ Deafened(p)' /\ Stopped(p)'
  <2>0. outcome' = outcome
    BY <1>5 DEF MainStop, SetZeros
  <2>1. Silent(p)'
    BY <1>0, <1>1, <1>5, <2>0 DEF Holds, Silent, Closed, Outcomes
  <2>2. Deafened(p)'
    BY <1>1 DEF Deafened, Active
  <2>3. ASSUME NEW i \in Interfaces, Runs(p, i)'
        PROVE  /\ pc'[p] = "stopping" => i >= next'[p] \/ Excused(i)'
               /\ pc'[p] = "exiting" => Excused(i)'
    <3>1. i >= next[p] \/ Excused(i)
      BY <1>0, <1>2, <1>5, <2>3 DEF Holds, Stopped
    <3> QED
      BY <1>0, <1>1, <1>2, <2>3, <3>1 DEF OwnersConstants
  <2>4. Stopped(p)'
    BY <1>0, <1>1, <1>2, <1>5, <2>3 DEF Holds, Stopped, Closed
  <2> QED
    BY <2>1, <2>2, <2>4
<1> QED
  BY <1>3, <1>4, <1>5 DEF Holds, SetZeros

LEMMA SignalKeeps ==
  ASSUME OwnersTypeOK, OwnersConstants, NEW p \in Procs, Holds(p), p \in SetZeros,
         Signal(p) \/ SecondPass(p)
  PROVE  Holds(p)'
<1> USE DEF OwnersTypeOK
<1>0. UNCHANGED <<claim, down, pc, next, outcome, heard, foreign, reach, sent, drive, busy>>
  BY DEF Signal, SecondPass
<1>1. Claims(p)' /\ Outcomes(p)'
  BY <1>0 DEF Holds, Claims, Outcomes
<1>2. CASE Signal(p)
  <2>1. sig[p].at = "armed"
    BY <1>2 DEF Signal
  <2>2. sig'[p].at = "first" /\ sig'[p].next = 1
    BY <1>2 DEF Signal
  <2>3. sig'[p].early <=> pc[p] \in {"loading", "opening"}
    BY <1>2 DEF Signal
  <2>4. Silent(p)'
    BY <1>0, <2>1, <2>2, <2>3 DEF Holds, Silent, Closed
  <2>5. Deafened(p)'
    BY <1>0, <2>2 DEF Deafened, OwnersConstants
  <2>6. Stopped(p)'
    BY <1>0, <1>2, <2>2 DEF Holds, Stopped, Signal, Runs, Excused
  <2> QED
    BY <1>1, <2>4, <2>5, <2>6 DEF Holds, SetZeros
<1>3. CASE SecondPass(p)
  <2>1. sig[p].at = "pause" /\ pc[p] # "checked" /\ sig[p] \in Threads
    BY <1>3 DEF SecondPass
  <2>2. sig'[p] = [sig[p] EXCEPT !.at = "second"]
    BY <1>3 DEF SecondPass
  <2>3. sig'[p].at = "second" /\ sig'[p].early = sig[p].early
    BY <2>1, <2>2 DEF Threads
  <2>4. Silent(p)'
    BY <1>0, <2>1, <2>3 DEF Holds, Silent
  <2>5. Deafened(p)'
    BY <1>0, <2>1, <2>3 DEF Holds, Deafened
  <2>6. Stopped(p)'
    BY <1>0, <2>1, <2>2, <2>3 DEF Holds, Stopped, Runs, Excused, OwnersConstants, Threads
  <2> QED
    BY <1>1, <2>4, <2>5, <2>6 DEF Holds, SetZeros
<1> QED
  BY <1>2, <1>3

\* The first pass leaves a process that is still at work something to read,
\* the second leaves no drive running on its Enable.
LEMMA SignalStopKeeps ==
  ASSUME OwnersTypeOK, OwnersConstants, NEW p \in Procs, Holds(p), p \in SetZeros,
         SignalStop(p)
  PROVE  Holds(p)'
<1> USE DEF OwnersTypeOK
<1> PICK k \in Interfaces : k = sig[p].next
  BY DEF Threads
<1>0. /\ sig[p].at \in {"first", "second"} /\ k \in Interfaces /\ DisableOne(p, k)
      /\ UNCHANGED <<claim, down, pc, next, outcome, heard, faults>>
  BY DEF SignalStop, Threads
<1>1. PICK t \in Threads :
        /\ sig'[p] = t /\ t.early = sig[p].early
        /\ \/ k < Last /\ t.at = sig[p].at /\ t.next = k + 1
           \/ k = Last /\ sig[p].at = "second" /\ t.at = "exit" /\ t.next = 1
           \/ k = Last /\ sig[p].at = "first" /\ t.at = "pause" /\ t.next = 1
  BY SignalMoves
<1>2. /\ \A i \in Interfaces : Excused(i) => Excused(i)'
      /\ \A i \in Interfaces : Runs(p, i)' => Runs(p, i) /\ (i = k => Excused(i)')
      /\ foreign[p] => foreign'[p]
      /\ claim[k] = p => Excused(k)' \/ foreign'[p]
      /\ busy > 0 => busy' > 0
  BY <1>0, DisableOneStops
<1>3. Claims(p)'
  BY <1>0 DEF Holds, Claims
<1>4. Outcomes(p)'
  <2>1. Command[p] # "disable"
    BY DEF SetZeros
  <2> QED
    BY <1>0, <2>1 DEF Holds, Outcomes
<1>5. Silent(p)'
  BY <1>0, <1>1 DEF Holds, Silent, Closed
<1>6. Deafened(p)'
  <2>1. ASSUME ~t.early, pc[p] \in Active, NEW i \in Interfaces \ down,
               \/ t.at \in {"pause", "second", "exit"}
               \/ t.at = "first" /\ i < t.next
        PROVE  foreign'[p] \/ busy' > 0
    <3>1. CASE sig[p].at = "first"
      <4>1. i < k \/ i = k
        BY <1>0, <1>1, <2>1, <3>1 DEF OwnersConstants
      <4>2. CASE i < k
        BY <1>1, <1>2, <2>1, <3>1, <4>2 DEF Holds, Deafened
      <4>3. CASE i = k
        <5>1. claim[k] = p
          BY <1>0, <2>1 DEF Holds, Claims
        <5> QED
          BY <1>0, <1>2, <2>1, <4>3, <5>1 DEF Excused
      <4> QED
        BY <4>1, <4>2, <4>3
    <3>2. CASE sig[p].at = "second"
      BY <1>1, <1>2, <2>1, <3>2 DEF Holds, Deafened
    <3> QED
      BY <1>0, <3>1, <3>2
  <2>2. ASSUME ~t.early, pc[p] = "checked", t.at \in {"second", "exit"}
        PROVE  \A i \in Interfaces : Excused(i)'
    <3>1. sig[p].at = "second"
      BY <1>0, <1>1, <2>2
    <3> QED
      BY <1>1, <1>2, <2>2, <3>1 DEF Holds, Deafened
  <2> QED
    BY <1>0, <1>1, <2>1, <2>2 DEF Deafened
<1>7. Stopped(p)'
  <2>1. t.at = "pause" => t.next = 1
    BY <1>0, <1>1
  <2>2. ASSUME NEW i \in Interfaces, Runs(p, i)', ~t.early, t.at \in {"second", "exit"}
        PROVE  (t.at = "second" => i >= t.next \/ Excused(i)') /\ (t.at = "exit" => Excused(i)')
    <3>1. sig[p].at = "second"
      BY <1>0, <1>1, <2>2
    <3>2. i >= k \/ Excused(i)
      BY <1>1, <1>2, <2>2, <3>1 DEF Holds, Stopped
    <3> QED
      BY <1>0, <1>1, <1>2, <2>2, <3>1, <3>2 DEF OwnersConstants
  <2> QED
    BY <1>0, <1>1, <1>2, <2>1, <2>2 DEF Holds, Stopped
<1> QED
  BY <1>3, <1>4, <1>5, <1>6, <1>7 DEF Holds, SetZeros

LEMMA ExitKeeps ==
  ASSUME OwnersTypeOK, OwnersConstants, NEW p \in Procs, Holds(p), Exit(p)
  PROVE  Holds(p)'
<1> USE DEF OwnersTypeOK, Goes
<1>0. /\ UNCHANGED <<down, next, outcome, heard, foreign, reach, sent, drive, busy>>
      /\ pc'[p] \in {"ended", "killed"} /\ pc[p] # "absent"
  BY DEF Exit
<1>1. pc'[p] = "ended" =>
        pc[p] = "exiting" \/ (p \in SetZeros /\ sig[p].at = "exit")
  BY DEF Exit
<1>2. Claims(p)'
  BY <1>0 DEF Claims, Active
<1>3. Outcomes(p)'
  BY <1>0 DEF Holds, Outcomes, Closed, Active
<1>4. ASSUME p \in SetZeros PROVE Silent(p)' /\ Deafened(p)' /\ Stopped(p)'
  <2>1. sig'[p].at = "none" /\ sig'[p].early = sig[p].early
    <3>1. sig[p] \in Threads
      BY <1>4
    <3>2. sig'[p] = [sig[p] EXCEPT !.at = "none", !.next = 1]
      BY <1>4 DEF Exit
    <3> QED
      BY <3>1, <3>2 DEF Threads
  <2>2. Silent(p)'
    BY <1>0, <2>1 DEF Silent
  <2>3. Deafened(p)'
    BY <1>0, <2>1 DEF Deafened, Active
  <2>4. Stopped(p)'
    BY <1>0, <1>1, <1>4, <2>1 DEF Holds, Stopped, Closed, Runs, Excused
  <2> QED
    BY <2>2, <2>3, <2>4
<1> QED
  BY <1>2, <1>3, <1>4 DEF Holds, SetZeros
-----------------------------------------------------------------------------
(* The theorems.                                                           *)

LEMMA OwnersInitially ==
  ASSUME OwnersConstants, OwnersInit
  PROVE  OwnersInv
<1> USE DEF OwnersInit
<1>1. OwnersTypeOK
  BY OneIsAnInterface DEF OwnersTypeOK, Phases, Threads
<1>2. ASSUME NEW p \in Procs PROVE Holds(p)
  <2>1. Claims(p) /\ Outcomes(p)
    BY DEF Claims, Outcomes, Closed, Active, None
  <2>2. ASSUME p \in SetZeros PROVE Silent(p) /\ Deafened(p) /\ Stopped(p)
    BY <2>2 DEF Silent, Deafened, Stopped, Active, Closed, Runs
  <2> QED
    BY <2>1, <2>2 DEF Holds
<1> QED
  BY <1>1, <1>2 DEF OwnersInv

LEMMA OwnersStep ==
  ASSUME OwnersConstants, OwnersInv, OwnersNext
  PROVE  OwnersInv'
<1> DEFINE Step(q) ==
      \/ Start(q) \/ Load(q) \/ OpenNext(q) \/ Receive(q)
      \/ \E i \in Interfaces : claim[i] = q /\ WriteEnable(q, i)
      \/ OwnStop(q) \/ Fails(q) \/ Finish(q) \/ MainStop(q) \/ Exit(q)
      \/ q \in SetZeros /\ (Signal(q) \/ SignalStop(q) \/ SecondPass(q))
<1>1. PICK q \in Procs : Step(q)
  BY DEF OwnersNext
<1>2. OwnersTypeOK /\ \A p \in Procs : Holds(p)
  BY DEF OwnersInv
<1>3. OwnersTypeOK'
  BY <1>1, <1>2, TypeStep
<1>4. ASSUME NEW p \in Procs, p # q PROVE Holds(p)'
  <2>1. Frame(p)
    BY <1>1, <1>2, <1>4, OthersFrame
  <2> QED
    BY <1>2, <2>1, FrameKeeps
<1>5. Holds(q)'
  BY <1>1, <1>2, QuietKeeps, OpenNextKeeps, ReceiveKeeps, WriteEnableKeeps, OwnStopKeeps,
     MainStopKeeps, SignalKeeps, SignalStopKeeps, ExitKeeps
<1>6. \A p \in Procs : Holds(p)'
  BY <1>4, <1>5
<1> QED
  BY <1>3, <1>6 DEF OwnersInv

LEMMA OwnersStutter ==
  ASSUME OwnersInv, UNCHANGED wvars
  PROVE  OwnersInv'
BY DEF OwnersInv, OwnersTypeOK, Holds, Claims, Outcomes, Silent, Deafened, Stopped, Runs,
       Excused, wvars

LEMMA InvGivesOwners ==
  ASSUME OwnersConstants, OwnersInv
  PROVE  OwnersHold
<1>1. ASSUME NEW p \in SetZeros PROVE Silent(p) /\ Stopped(p) /\ p \in Procs
  BY DEF OwnersInv, Holds, SetZeros
<1>2. RefusedIsSilent
  BY <1>1 DEF RefusedIsSilent, Silent
<1>3. EndedMeansStopped
  BY <1>1 DEF EndedMeansStopped, Stopped, Runs, Excused
<1>4. DisableSaysTrue
  BY DEF DisableSaysTrue, OwnersInv, Holds, Outcomes
<1> QED
  BY <1>2, <1>3, <1>4 DEF OwnersHold

\* The model of the claims and the stops is well typed.
THEOREM OwnersTypeCorrect ==
  ASSUME OwnersConstants PROVE OwnersSpec => []OwnersTypeOK
<1>1. OwnersInit => OwnersInv
  BY OwnersInitially
<1>2. OwnersInv /\ [OwnersNext]_wvars => OwnersInv'
  BY OwnersStep, OwnersStutter
<1>3. OwnersInv => OwnersTypeOK
  BY DEF OwnersInv
<1> QED
  BY <1>1, <1>2, <1>3, PTL DEF OwnersSpec

\* A refused set-zero has put nothing on the bus, an ended one left no drive
\* running on its Enable where writes are taken, and a disable that reports
\* done has told every drive (claim_interface, exit_stop_required, ExitStop,
\* signal_stop, disable_drives), however many interfaces there are and
\* whatever other processes claim, write, end or are killed meanwhile.
THEOREM OwnersAreTrue ==
  ASSUME OwnersConstants PROVE OwnersSpec => []OwnersHold
<1>1. OwnersInit => OwnersInv
  BY OwnersInitially
<1>2. OwnersInv /\ [OwnersNext]_wvars => OwnersInv'
  BY OwnersStep, OwnersStutter
<1>3. OwnersInv => OwnersHold
  BY InvGivesOwners
<1> QED
  BY <1>1, <1>2, <1>3, PTL DEF OwnersSpec
==============================================================================
