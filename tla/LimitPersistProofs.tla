------------------------- MODULE LimitPersistProofs -------------------------
(***************************************************************************)
(* Coalescing and closing lose no completion, for every number of joints,  *)
(* commands and bounds, whatever write fails.                              *)
(***************************************************************************)
EXTENDS LimitPersist, TLAPS

\* Sessions are numbered as they are issued, so that none comes back.
Numbered ==
    /\ issued \in 0 .. MaxCommands
    /\ {request.session, hand.session} \subseteq 0 .. issued
    /\ Pending => request.session # 0
    /\ \A c \in carried \cup handCarried : c.session \in 1 .. issued

\* The worker's hands are empty between two writes.
HandsEmpty ==
    worker \in {"check", "recv", "empty", "take", "leave"} =>
        hand = NoRequest /\ handCarried = {}

\* After the events are out, nothing in hand is owed an answer.
Answered ==
    worker = "finish" =>
        \A s \in Session : told[s] = "Pending" =>
            s # hand.session /\ \A c \in handCarried : c.session # s

\* A worker that has left found the queue closed.
LeftClosed == Left => workerError \/ ~accepting

IInv ==
    /\ NothingForgotten
    /\ Numbered
    /\ HandsEmpty
    /\ Answered
    /\ LeftClosed
    /\ request = NoRequest => carried = {}
    /\ DOMAIN told = Session

\* What NothingForgotten and its strengthening speak of.
ledger == <<request, carried, accepting, workerError, worker, hand, handCarried, issued, told>>

\* A step that leaves the ledger alone.
LEMMA QuietStep == ASSUME IInv, UNCHANGED ledger PROVE IInv'
BY DEF IInv, ledger, NothingForgotten, Numbered, HandsEmpty, Answered, LeftClosed, Owed, Left,
       Pending

\* A step of the worker that touches neither the slot nor what it holds.
LEMMA MoveStep ==
    ASSUME IInv,
           UNCHANGED <<request, carried, accepting, workerError, hand, handCarried, issued, told>>,
           worker \in {"check", "recv", "empty", "take"} =>
               worker' \in {"check", "recv", "empty", "take"},
           worker \notin {"check", "recv", "empty", "take"} =>
               worker \in {"write", "publish"} /\ worker' \in {"publish", "unwind"}
    PROVE  IInv'
BY DEF IInv, NothingForgotten, Numbered, HandsEmpty, Answered, LeftClosed, Owed, Left, Pending

\* A request replaces the one in the slot, which is carried if it is owed.
LEMMA EnqueueStep ==
    ASSUME IInv, NEW latest, latest.session = issued + 1, issued < MaxCommands,
           MaxCommands \in Nat, Enqueue(latest)
    PROVE  IInv'
<1>1. /\ accepting /\ ~workerError
      /\ UNCHANGED <<accepting, workerError, worker, hand, handCarried>>
      /\ issued' = issued + 1 /\ carried' = Carry
  BY DEF Enqueue, workerVars
<1>2. request'.session = issued + 1
  <2>1. request' = Coalesced(latest)
    BY DEF Enqueue
  <2>2. Coalesced(latest).session = latest.session
    BY DEF Coalesced
  <2> QED BY <2>1, <2>2
<1>3. \A c \in carried : c \in carried'
  BY <1>1 DEF Carry
<1>4. PendingPatch => \E c \in carried' : c.session = request.session
  <2> DEFINE own == [session |-> request.session, joint |-> request.joint,
                     hard |-> request.motors[request.joint],
                     soft |-> request.control.soft[request.joint]]
  <2>1. own.session = request.session
    OBVIOUS
  <2>2. PendingPatch => own \in carried'
    BY <1>1 DEF Carry
  <2> QED BY <2>1, <2>2
<1>5. \A c \in carried' : c \in carried \/ (Pending /\ c.session = request.session)
  BY <1>1 DEF Carry, PendingPatch
<1>6. \A s \in Session : told'[s] = "Pending" =>
         s = issued + 1 \/ (told[s] = "Pending" /\ ~(Pending /\ ~PendingPatch /\ s = request.session))
  BY DEF Enqueue
<1>7. ~Left
  BY <1>1 DEF IInv, LeftClosed, Left
<1>8. NothingForgotten'
  <2> SUFFICES ASSUME ~(workerError \/ worker = "unwind"), NEW s \in Session,
                      told'[s] = "Pending"
               PROVE  Owed(s)'
    BY <1>1 DEF NothingForgotten
  <2>1. CASE s = issued + 1
    BY <2>1, <1>1, <1>2, <1>7 DEF Owed, Left
  <2>2. CASE s # issued + 1
    <3>1. Owed(s) /\ ~(Pending /\ ~PendingPatch /\ s = request.session)
      BY <2>2, <1>6 DEF IInv, NothingForgotten
    <3>2. CASE s = request.session
      <4>1. Pending
        BY <3>2 DEF Pending, NoRequest, Session
      <4>2. PendingPatch
        BY <3>1, <3>2, <4>1
      <4> QED BY <3>2, <4>2, <1>1, <1>4, <1>7 DEF Owed, Left
    <3>3. CASE s # request.session
      BY <3>1, <3>3, <1>1, <1>3, <1>7 DEF Owed, Left
    <3> QED BY <3>2, <3>3
  <2> QED BY <2>1, <2>2
<1>9. Numbered'
  <2>1. Pending => request.session \in 1 .. issued
    BY DEF IInv, Numbered
  <2>2. \A c \in carried' \cup handCarried' : c.session \in 1 .. issued'
    <3> SUFFICES ASSUME NEW c \in carried' \cup handCarried' PROVE c.session \in 1 .. issued'
      OBVIOUS
    <3>1. CASE c \in carried \cup handCarried
      BY <3>1, <1>1 DEF IInv, Numbered
    <3>2. CASE c \notin carried \cup handCarried
      BY <3>2, <1>1, <1>5, <2>1 DEF IInv, Numbered
    <3> QED BY <3>1, <3>2
  <2> QED BY <1>1, <1>2, <2>2 DEF IInv, Numbered, Pending
<1>10. Answered'
  BY <1>1, <1>6 DEF IInv, Answered, Numbered
<1>11. request' # NoRequest
  BY <1>2 DEF IInv, Numbered, NoRequest
<1>12. DOMAIN told' = Session
  BY DEF Enqueue
<1> QED BY <1>1, <1>7, <1>8, <1>9, <1>10, <1>11, <1>12 DEF IInv, HandsEmpty, LeftClosed, Left

\* The worker takes the request with the completions that ride on it.
LEMMA TakeStep == ASSUME IInv, WorkerTakes PROVE IInv'
<1>1. /\ worker = "take" /\ worker' = "write" /\ Pending
      /\ hand' = request /\ handCarried' = carried
      /\ request' = NoRequest /\ carried' = {}
      /\ UNCHANGED <<accepting, workerError, issued, told>>
  BY DEF WorkerTakes, CarriedLeft, fileVars
<1>2. hand = NoRequest /\ handCarried = {}
  BY <1>1 DEF IInv, HandsEmpty
<1>3. NothingForgotten'
  <2> SUFFICES ASSUME ~workerError, NEW s \in Session, told[s] = "Pending"
               PROVE  Owed(s)'
    BY <1>1 DEF NothingForgotten
  <2>1. Owed(s)
    BY <1>1 DEF IInv, NothingForgotten
  <2>2. hand.session # s
    BY <1>2 DEF NoRequest, Session
  <2> QED BY <1>1, <1>2, <2>1, <2>2 DEF Owed, Left
<1>4. Numbered'
  BY <1>1, <1>2 DEF IInv, Numbered, NoRequest, Pending
<1> QED BY <1>1, <1>3, <1>4 DEF IInv, HandsEmpty, Answered, LeftClosed, Left

\* Each command in hand is answered, Durable or Failed.
LEMMA PublishStep == ASSUME IInv, WorkerPublishes PROVE IInv'
<1>1. /\ worker = "publish" /\ worker' = "finish"
      /\ UNCHANGED <<request, carried, accepting, workerError, hand, handCarried, issued>>
  BY DEF WorkerPublishes, slotVars
<1>2. \A s \in Session : told'[s] = "Pending" =>
         /\ told[s] = "Pending" /\ s # hand.session
         /\ \A c \in handCarried : c.session # s
  BY DEF WorkerPublishes
<1>3. DOMAIN told' = Session
  BY DEF WorkerPublishes
<1>4. NothingForgotten'
  BY <1>1, <1>2 DEF IInv, NothingForgotten, Owed, Left
<1>5. Answered'
  BY <1>1, <1>2 DEF Answered
<1> QED BY <1>1, <1>3, <1>4, <1>5 DEF IInv, Numbered, HandsEmpty, LeftClosed, Left, Pending

\* What is dropped from the hands at the end of a write is answered.
LEMMA FinishStep == ASSUME IInv, WorkerFinishes PROVE IInv'
<1>1. /\ worker = "finish" /\ worker' = "take"
      /\ hand' = NoRequest /\ handCarried' = {}
      /\ UNCHANGED <<request, carried, accepting, workerError, issued, told>>
  BY DEF WorkerFinishes, fileVars
<1>2. NothingForgotten'
  BY <1>1 DEF IInv, NothingForgotten, Answered, Owed, Left
<1>3. Numbered'
  BY <1>1 DEF IInv, Numbered, NoRequest, Pending
<1> QED BY <1>1, <1>2, <1>3 DEF IInv, HandsEmpty, Answered, LeftClosed, Left

\* The loop is left only with the queue closed and the slot empty.
LEMMA CheckStep == ASSUME IInv, WorkerChecks PROVE IInv'
<1>1. /\ worker = "check"
      /\ UNCHANGED <<request, carried, accepting, workerError, hand, handCarried, issued, told>>
      /\ worker' = IF MayLeave THEN "leave" ELSE "recv"
  BY DEF WorkerChecks, slotVars, fileVars
<1>2. CASE ~MayLeave
  BY <1>1, <1>2, MoveStep
<1>3. CASE MayLeave
  <2>1. ~accepting /\ request = NoRequest /\ carried = {} /\ hand = NoRequest /\ handCarried = {}
    BY <1>1, <1>3 DEF MayLeave, Pending, IInv, HandsEmpty
  <2>2. ~workerError => \A s \in Session : told[s] # "Pending"
    BY <1>1, <2>1 DEF IInv, NothingForgotten, Owed, NoRequest, Session
  <2>3. worker' = "leave"
    BY <1>1, <1>3
  <2> QED BY <1>1, <2>1, <2>2, <2>3
          DEF IInv, NothingForgotten, Numbered, HandsEmpty, Answered, LeftClosed, Left, Pending
<1> QED BY <1>2, <1>3

\* The completion guard closes the queue; after a panic it records the error.
LEMMA CompleteStep == ASSUME IInv, WorkerCompletes PROVE IInv'
<1>1. /\ worker \in {"leave", "unwind"} /\ worker' = "ending" /\ ~accepting'
      /\ workerError' = (workerError \/ worker = "unwind")
      /\ UNCHANGED <<request, carried, hand, handCarried, issued, told>>
  BY DEF WorkerCompletes, fileVars
<1>2. NothingForgotten'
  BY <1>1 DEF IInv, NothingForgotten, Owed, Left
<1> QED BY <1>1, <1>2 DEF IInv, Numbered, HandsEmpty, Answered, LeftClosed, Left, Pending

\* One step per action.
LEMMA NextStep == ASSUME IInv, [Next]_vars PROVE IInv'
<1>1. CASE UNCHANGED vars
  BY <1>1, QuietStep DEF vars, ledger, slotVars, workerVars, fileVars
<1>2. CASE OwnerStep
  <2>1. ASSUME NEW j \in Joint, NEW b \in Bound, LimitPatch(j, b) PROVE IInv'
    <3>1. PICK latest : latest.session = issued + 1 /\ Enqueue(latest)
      BY <2>1 DEF LimitPatch
    <3> QED BY <2>1, <3>1, EnqueueStep, LimitPersistAssumption
            DEF LimitPatch, LimitPersistAssumption
  <2>2. ASSUME NEW g \in Gain, SaveTuning(g) PROVE IInv'
    <3>1. PICK latest : latest.session = issued + 1 /\ Enqueue(latest)
      BY <2>2 DEF SaveTuning
    <3> QED BY <2>2, <3>1, EnqueueStep, LimitPersistAssumption
            DEF SaveTuning, LimitPersistAssumption
  <2>3. ASSUME NEW g \in Gain, Tune(g) PROVE IInv'
    <3>1. /\ issued' = issued + 1 /\ issued < MaxCommands /\ MaxCommands \in Nat
          /\ UNCHANGED <<request, carried, accepting, workerError, worker, hand, handCarried, told>>
      BY <2>3, LimitPersistAssumption DEF LimitPersistAssumption, Tune, slotVars, workerVars
    <3>2. Numbered'
      BY <3>1 DEF IInv, Numbered, Pending
    <3> QED BY <3>1, <3>2 DEF IInv, NothingForgotten, HandsEmpty, Answered, LeftClosed, Owed, Left
  <2>4. CASE CloseAdmission
    <3>1. ~accepting' /\ UNCHANGED <<request, carried, workerError, worker, hand, handCarried,
                                     issued, told>>
      BY <2>4 DEF CloseAdmission, AcceptingAfterClose, workerVars, fileVars
    <3> QED BY <3>1 DEF IInv, NothingForgotten, Numbered, HandsEmpty, Answered, LeftClosed,
                        Owed, Left, Pending
  <2>5. ASSUME NEW terminated \in BOOLEAN, DrainReturns(terminated) PROVE IInv'
    BY <2>5, QuietStep DEF DrainReturns, ledger, slotVars, workerVars, fileVars
  <2> QED BY <1>2, <2>1, <2>2, <2>3, <2>4, <2>5 DEF OwnerStep
<1>3. CASE WorkerStep
  <2>1. CASE WorkerWoken \/ WorkerTimesOut \/ WorkerEmptiesWakes \/ WorkerFindsNothing
    BY <2>1, MoveStep DEF WorkerWoken, WorkerTimesOut, WorkerEmptiesWakes, WorkerFindsNothing,
                          slotVars, fileVars
  <2>2. CASE WorkerWrites \/ WorkerWriteFails \/ WorkerSyncFails \/ WorkerUnwinds
    BY <2>2, MoveStep DEF WorkerWrites, WorkerWriteFails, WorkerSyncFails, WorkerUnwinds,
                          slotVars, fileVars
  <2>3. CASE WorkerExits
    <3>1. /\ worker = "ending" /\ worker' = "exited"
          /\ UNCHANGED <<request, carried, accepting, workerError, hand, handCarried, issued, told>>
      BY <2>3 DEF WorkerExits, slotVars, fileVars
    <3> QED BY <3>1 DEF IInv, NothingForgotten, Numbered, HandsEmpty, Answered, LeftClosed,
                        Owed, Left, Pending
  <2> QED BY <1>3, <2>1, <2>2, <2>3, CheckStep, TakeStep, PublishStep, FinishStep, CompleteStep
          DEF WorkerStep
<1>4. CASE Exited
  BY <1>4, <1>1 DEF Exited
<1> QED BY <1>1, <1>2, <1>3, <1>4 DEF Next

(***************************************************************************)
(* Whatever commands coalesce in the slot, fail to be written or race the  *)
(* closing of the queue, an accepted command without an answer is still in *)
(* the slot of a worker in its loop, or in its hands, unless it panicked.  *)
(***************************************************************************)
THEOREM CompletionsKept == Spec => []NothingForgotten
<1>1. Init => IInv
  BY LimitPersistAssumption
     DEF LimitPersistAssumption, Init, IInv, NothingForgotten, Numbered, HandsEmpty, Answered,
         LeftClosed, Left, Pending, NoRequest, Session
<1>2. IInv /\ [Next]_vars => IInv'
  BY NextStep
<1>3. IInv => NothingForgotten
  BY DEF IInv
<1> QED BY <1>1, <1>2, <1>3, PTL DEF Spec

-----------------------------------------------------------------------------
(***************************************************************************)
(* The files and the live configuration.                                   *)
(***************************************************************************)
\* The worker holds a request while it writes and reports, and a worker that
\* ended without an error left nothing in its hands.
HandsFull ==
    /\ worker \in {"write", "publish", "finish", "unwind"} => hand # NoRequest
    /\ worker \in {"ending", "exited"} /\ ~workerError => hand = NoRequest

\* A completion is carried by a later session than its own.
Distinct ==
    /\ \A c \in carried : c.session < request.session
    /\ \A c \in handCarried : c.session < hand.session

\* A write that succeeded put what is in hand on disk, and checked the pair.
InHandOnDisk ==
    worker = "publish" /\ wrote =>
        /\ Valid(disk.motors, disk.control) /\ disk.control = hand.control
        /\ hand.motors # NoMotors => disk.motors = hand.motors

\* A write failed, or a panic left one undone.
Broken ==
    \/ failed
    \/ worker \in {"publish", "finish"} /\ ~wrote
    \/ worker \in {"unwind", "ending", "exited"} /\ hand # NoRequest

\* What the files will be once the worker has written what is in its hands,
\* and once it has written what is in the slot as well.
MotorsAfter(r, m) == IF r.motors = NoMotors THEN m ELSE r.motors
HandMotors == IF worker = "write" THEN MotorsAfter(hand, disk.motors) ELSE disk.motors
HandControl == IF worker = "write" THEN hand.control ELSE disk.control
LastMotors == IF Pending THEN MotorsAfter(request, HandMotors) ELSE HandMotors
LastControl == IF Pending THEN request.control ELSE HandControl

\* That is the live configuration, but for a gain nobody asked to save.
InStep ==
    ~Broken =>
        /\ LastMotors = live.motors /\ LastControl.soft = live.control.soft
        /\ ~unsaved => LastControl.gain = live.control.gain

ReportIsLast == report = "none" \/ owner = "reported"

FInv == IInv /\ TypeOK /\ HandsFull /\ Distinct /\ InHandOnDisk /\ InStep /\ ReportIsLast

\* The fields of a request.
LEMMA RequestFields ==
    ASSUME NEW r \in Request
    PROVE  /\ r.session \in Session /\ r.control \in Control
           /\ r.motors \in Motors \cup {NoMotors}
           /\ r.kind = "limit" => r.joint \in Joint /\ r.motors \in Motors /\ r.motors # NoMotors
           /\ r # NoRequest
<1>1. CASE r \in [session : Session, kind : {"limit"}, joint : Joint, motors : Motors,
                  control : Control]
  <2>1. r.session \in Session /\ r.control \in Control /\ r.joint \in Joint /\ r.motors \in Motors
    BY <1>1
  <2>2. r.motors # NoMotors
    BY <2>1 DEF Motors, NoMotors
  <2> QED BY <2>1, <2>2 DEF NoRequest, Session
<1>2. CASE r \in [session : Session, kind : {"control"}, motors : Motors \cup {NoMotors},
                  control : Control]
  BY <1>2 DEF NoRequest, Session
<1> QED BY <1>1, <1>2 DEF Request

\* Coalescing yields a request that ends with the motors and the control of
\* the latest, or with the motors of the one it replaces.
LEMMA CoalescedSave ==
    ASSUME TypeOK, NEW s \in Session, NEW c \in Control, Pending,
           NEW latest, latest = [session |-> s, kind |-> "control", motors |-> NoMotors, control |-> c]
    PROVE  /\ Coalesced(latest) \in Request
           /\ Coalesced(latest).motors = request.motors
           /\ Coalesced(latest).control.gain = c.gain
           /\ c.soft = request.control.soft => Coalesced(latest).control.soft = c.soft
           /\ ~PendingPatch => Coalesced(latest).control = c
<1>1. /\ request \in Request /\ request.control \in Control
      /\ request.motors \in Motors \cup {NoMotors}
      /\ PendingPatch => request.joint \in Joint
  BY RequestFields DEF TypeOK, Pending, PendingPatch
<1>2. CASE PendingPatch
  <2> DEFINE soft == [c.soft EXCEPT ![request.joint] = request.control.soft[request.joint]]
             r == [session |-> s, kind |-> "control", motors |-> request.motors,
                   control |-> [soft |-> soft, gain |-> c.gain]]
  <2>1. Coalesced(latest) = r
    BY <1>2 DEF Coalesced, Control
  <2>2. soft \in Motors /\ (c.soft = request.control.soft => soft = c.soft)
    BY <1>1, <1>2 DEF Control, Motors
  <2>3. r \in Request
    BY <1>1, <2>2 DEF Request, Control
  <2> QED BY <1>2, <2>1, <2>2, <2>3
<1>3. CASE ~PendingPatch
  <2>1. Coalesced(latest) = [session |-> s, kind |-> "control", motors |-> request.motors,
                             control |-> c]
    BY <1>3 DEF Coalesced
  <2> QED BY <1>1, <1>3, <2>1 DEF Request
<1> QED BY <1>2, <1>3

\* The owner queues a request: what it will leave on disk is the new live
\* configuration.
LEMMA EnqueueFiles ==
    ASSUME FInv, NEW latest, Enqueue(latest), latest.session = issued + 1, issued < MaxCommands,
           live' \in Files, Coalesced(latest) \in Request,
           UNCHANGED <<owner, report>>, unsaved' = FALSE,
           ~Broken => /\ MotorsAfter(Coalesced(latest), HandMotors) = live'.motors
                      /\ Coalesced(latest).control.soft = live'.control.soft
                      /\ Coalesced(latest).control.gain = live'.control.gain
    PROVE  TypeOK' /\ HandsFull' /\ Distinct' /\ InHandOnDisk' /\ InStep' /\ ReportIsLast'
<1>1. /\ request' = Coalesced(latest) /\ carried' = Carry /\ issued' = issued + 1 /\ wake' = TRUE
      /\ UNCHANGED <<writing, accepting, workerDone, workerError, failed, worker, hand, handCarried,
                     wrote, disk>>
  BY DEF Enqueue, WakeSent, workerVars
<1>2. request' # NoRequest /\ request'.session = issued + 1
  <2>1. Coalesced(latest).session = latest.session
    BY DEF Coalesced
  <2> QED BY <1>1, <2>1, RequestFields
<1>3. issued \in Nat /\ issued + 1 \in Session
  BY LimitPersistAssumption DEF LimitPersistAssumption, FInv, TypeOK, Session
<1>4. carried' \subseteq Carried /\ \A c \in carried' : c.session < request'.session
  <2>1. \A c \in carried : c \in Carried /\ c.session < request'.session
    BY <1>2, <1>3 DEF FInv, TypeOK, IInv, Numbered
  <2>2. CASE ~PendingPatch
    BY <1>1, <2>1, <2>2 DEF Carry
  <2>3. CASE PendingPatch
    <3> DEFINE own == [session |-> request.session, joint |-> request.joint,
                       hard |-> request.motors[request.joint],
                       soft |-> request.control.soft[request.joint]]
    <3>1. /\ request.session \in Session /\ request.joint \in Joint
          /\ request.motors \in Motors /\ request.control.soft \in Motors
      BY <2>3, RequestFields DEF PendingPatch, Pending, FInv, TypeOK, Control
    <3>2. own \in Carried
      BY <3>1 DEF Carried, Motors
    <3>3. own.session < request'.session
      BY <1>2, <1>3, <3>1 DEF FInv, IInv, Numbered, Session
    <3> HIDE DEF own
    <3>4. carried' = carried \cup {own}
      BY <1>1, <2>3 DEF Carry, own
    <3> QED BY <2>1, <3>2, <3>3, <3>4
  <2> QED BY <2>2, <2>3
<1>5. told' \in [Session -> {"none", "Pending", "Replaced", "Durable", "Failed"}]
  BY DEF Enqueue, FInv, TypeOK
<1>6. TypeOK'
  <2>1. issued' \in 0 .. MaxCommands
    BY <1>1, <1>3, LimitPersistAssumption DEF LimitPersistAssumption, Session
  <2>2. wake' \in BOOLEAN /\ unsaved' \in BOOLEAN
    BY <1>1, Zenon
  <2> QED BY <1>1, <1>2, <1>4, <1>5, <2>1, <2>2 DEF FInv, TypeOK
<1>7. InStep'
  <2> SUFFICES ASSUME ~Broken'
               PROVE  /\ LastMotors' = live'.motors /\ LastControl'.soft = live'.control.soft
                      /\ LastControl'.gain = live'.control.gain
    BY DEF InStep
  <2>1. ~Broken /\ HandMotors' = HandMotors
    BY <1>1 DEF Broken, HandMotors, MotorsAfter
  <2>2. LastMotors' = MotorsAfter(request', HandMotors') /\ LastControl' = request'.control
    BY <1>2 DEF LastMotors, LastControl, Pending
  <2>3. MotorsAfter(request', HandMotors') = MotorsAfter(Coalesced(latest), HandMotors)
    BY <1>1, <2>1
  <2> QED BY <1>1, <2>1, <2>2, <2>3
<1>8. HandsFull' /\ InHandOnDisk' /\ ReportIsLast'
  BY <1>1 DEF FInv, HandsFull, InHandOnDisk, ReportIsLast, Valid
<1>9. Distinct'
  BY <1>1, <1>4 DEF FInv, Distinct
<1> QED BY <1>6, <1>7, <1>8, <1>9

LEMMA PatchFiles ==
    ASSUME FInv, NEW j \in Joint, NEW b \in Bound, LimitPatch(j, b)
    PROVE  TypeOK' /\ HandsFull' /\ Distinct' /\ InHandOnDisk' /\ InStep' /\ ReportIsLast'
<1> DEFINE latest == [session |-> issued + 1, kind |-> "limit", joint |-> j,
                      motors |-> live'.motors, control |-> live'.control]
<1>1. live \in Files /\ issued + 1 \in Session
  BY LimitPersistAssumption DEF LimitPersistAssumption, LimitPatch, FInv, TypeOK, Session
<1>2. live' \in Files
  BY <1>1 DEF LimitPatch, Files, Control, Motors
<1>3. live'.motors \in Motors /\ live'.control \in Control /\ live'.motors # NoMotors
  BY <1>2 DEF Files, Motors, NoMotors
<1>4. latest \in Request
  BY <1>1, <1>3 DEF Request
<1>5. /\ latest.session = issued + 1 /\ latest.motors = live'.motors
      /\ latest.control = live'.control
  OBVIOUS
<1>6. Enqueue(latest) /\ issued < MaxCommands /\ UNCHANGED <<owner, report>> /\ unsaved' = FALSE
  BY DEF LimitPatch
<1> HIDE DEF latest
<1>7. Coalesced(latest) = latest
  BY <1>3, <1>5 DEF Coalesced
<1>8. MotorsAfter(Coalesced(latest), HandMotors) = live'.motors
  BY <1>3, <1>5, <1>7 DEF MotorsAfter
<1> QED BY <1>2, <1>4, <1>5, <1>6, <1>7, <1>8, EnqueueFiles

LEMMA SaveFiles ==
    ASSUME FInv, NEW g \in Gain, SaveTuning(g)
    PROVE  TypeOK' /\ HandsFull' /\ Distinct' /\ InHandOnDisk' /\ InStep' /\ ReportIsLast'
<1> DEFINE c == live'.control
           latest == [session |-> issued + 1, kind |-> "control", motors |-> NoMotors, control |-> c]
<1>1. live \in Files /\ issued + 1 \in Session
  BY LimitPersistAssumption DEF LimitPersistAssumption, SaveTuning, FInv, TypeOK, Session
<1>2. /\ live' \in Files /\ c \in Control /\ c.soft = live.control.soft
      /\ live'.motors = live.motors
  BY <1>1 DEF SaveTuning, Files, Control
<1>3. /\ latest.session = issued + 1 /\ latest.motors = NoMotors /\ latest.control = c
      /\ latest \in Request
  BY <1>1, <1>2 DEF Request
<1>4. Enqueue(latest) /\ issued < MaxCommands /\ UNCHANGED <<owner, report>> /\ unsaved' = FALSE
  BY DEF SaveTuning
<1>5. CASE Pending
  <2>1. /\ Coalesced(latest) \in Request /\ Coalesced(latest).motors = request.motors
        /\ Coalesced(latest).control.gain = c.gain
        /\ c.soft = request.control.soft => Coalesced(latest).control.soft = c.soft
    BY <1>1, <1>2, <1>5, CoalescedSave DEF FInv
  <2>2. ~Broken => /\ MotorsAfter(Coalesced(latest), HandMotors) = live.motors
                   /\ c.soft = request.control.soft
    BY <1>2, <1>5, <2>1 DEF FInv, InStep, LastMotors, LastControl, MotorsAfter
  <2> HIDE DEF latest
  <2> QED BY <1>2, <1>3, <1>4, <2>1, <2>2, EnqueueFiles
<1>6. CASE ~Pending
  <2> HIDE DEF latest
  <2>1. Coalesced(latest) = latest
    BY <1>6 DEF Coalesced, PendingPatch
  <2>2. ~Broken => MotorsAfter(Coalesced(latest), HandMotors) = live.motors
    BY <1>3, <1>6, <2>1 DEF FInv, InStep, LastMotors, MotorsAfter
  <2> QED BY <1>2, <1>3, <1>4, <2>1, <2>2, EnqueueFiles
<1> QED BY <1>5, <1>6

\* The remaining steps of the owner.
LEMMA OwnerFiles ==
    ASSUME FInv,
           \/ \E g \in Gain : Tune(g)
           \/ CloseAdmission
           \/ \E terminated \in BOOLEAN : DrainReturns(terminated)
    PROVE  TypeOK' /\ HandsFull' /\ Distinct' /\ InHandOnDisk' /\ InStep' /\ ReportIsLast'
<1>1. /\ UNCHANGED <<request, carried, writing, workerDone, workerError, failed, worker, hand,
                     handCarried, wrote, disk, told>>
      /\ report = "none"
  BY DEF FInv, ReportIsLast, Tune, CloseAdmission, DrainReturns, slotVars, workerVars, fileVars
<1>2. CASE \E g \in Gain : Tune(g)
  <2>1. PICK g \in Gain : Tune(g)
    BY <1>2
  <2>2. /\ live' = [live EXCEPT !.control.gain = g] /\ unsaved' = TRUE /\ issued' \in 0 .. MaxCommands
        /\ UNCHANGED <<owner, report, accepting, wake>>
    BY <2>1, LimitPersistAssumption DEF LimitPersistAssumption, FInv, TypeOK, Tune, slotVars
  <2>3. /\ live' \in Files /\ live'.motors = live.motors
        /\ live'.control.soft = live.control.soft
    BY <2>2 DEF FInv, TypeOK, Files, Control
  <2>4. TypeOK'
    BY <1>1, <2>2, <2>3 DEF FInv, TypeOK
  <2> QED BY <1>1, <2>2, <2>3, <2>4
          DEF FInv, HandsFull, Distinct, InHandOnDisk, InStep, ReportIsLast, Broken, LastMotors,
              LastControl, HandMotors, HandControl, MotorsAfter, Pending, Valid
<1>3. CASE CloseAdmission
  <2>1. /\ owner' = "closed" /\ accepting' = FALSE /\ wake' = TRUE
        /\ UNCHANGED <<live, unsaved, report, issued>>
    BY <1>3 DEF CloseAdmission, AcceptingAfterClose, fileVars
  <2>2. accepting' \in BOOLEAN /\ wake' \in BOOLEAN
    BY <2>1, Zenon
  <2>3. TypeOK'
    BY <1>1, <2>1, <2>2 DEF FInv, TypeOK
  <2> QED BY <1>1, <2>1, <2>3
          DEF FInv, HandsFull, Distinct, InHandOnDisk, InStep, ReportIsLast, Broken, LastMotors,
              LastControl, HandMotors, HandControl, MotorsAfter, Pending, Valid
<1>4. CASE \E terminated \in BOOLEAN : DrainReturns(terminated)
  <2>1. PICK terminated \in BOOLEAN : DrainReturns(terminated)
    BY <1>4
  <2>2. /\ owner' = "reported" /\ report' = Status(terminated)
        /\ UNCHANGED <<live, unsaved, accepting, wake, issued>>
    BY <2>1 DEF DrainReturns, slotVars, fileVars
  <2>3. Status(terminated) \in {"Complete", "CompletedWithFailures", "TimedOut", "WorkerFailed"}
    BY DEF Status
  <2>4. TypeOK'
    BY <1>1, <2>2, <2>3 DEF FInv, TypeOK
  <2> QED BY <1>1, <2>2, <2>4
          DEF FInv, HandsFull, Distinct, InHandOnDisk, InStep, ReportIsLast, Broken, LastMotors,
              LastControl, HandMotors, HandControl, MotorsAfter, Pending, Valid
<1> QED BY <1>2, <1>3, <1>4

\* Steps of the worker that touch neither the slot, its hands nor the files.
LEMMA WaitingFiles ==
    ASSUME FInv, WorkerChecks \/ WorkerWoken \/ WorkerTimesOut \/ WorkerEmptiesWakes
                 \/ WorkerFindsNothing
    PROVE  TypeOK' /\ HandsFull' /\ Distinct' /\ InHandOnDisk' /\ InStep' /\ ReportIsLast'
<1>1. /\ UNCHANGED <<owner, live, unsaved, report, request, carried, writing, accepting, workerDone,
                     workerError, failed, hand, handCarried, wrote, disk, issued, told>>
      /\ worker \in {"check", "recv", "empty", "take"}
      /\ worker' \in {"check", "recv", "empty", "take", "leave"}
  BY DEF WorkerChecks, WorkerWoken, WorkerTimesOut, WorkerEmptiesWakes, WorkerFindsNothing,
         ownerVars, slotVars, fileVars
<1>2. wake' \in BOOLEAN
  BY Zenon DEF FInv, TypeOK, WorkerChecks, WorkerWoken, WorkerTimesOut, WorkerEmptiesWakes,
         WorkerFindsNothing
<1>3. TypeOK'
  BY <1>1, <1>2 DEF FInv, TypeOK
<1>4. HandsFull' /\ Distinct' /\ InHandOnDisk' /\ ReportIsLast'
  BY <1>1 DEF FInv, HandsFull, Distinct, InHandOnDisk, ReportIsLast
<1>5. InStep'
  BY <1>1 DEF FInv, InStep, Broken, LastMotors, LastControl, HandMotors, HandControl, MotorsAfter,
         Pending
<1> QED BY <1>3, <1>4, <1>5

LEMMA TakeFiles ==
    ASSUME FInv, WorkerTakes
    PROVE  TypeOK' /\ HandsFull' /\ Distinct' /\ InHandOnDisk' /\ InStep' /\ ReportIsLast'
<1>1. /\ worker = "take" /\ worker' = "write" /\ Pending /\ hand' = request
      /\ handCarried' = carried /\ request' = NoRequest /\ carried' = {} /\ writing' = TRUE
      /\ UNCHANGED <<owner, live, unsaved, report, accepting, workerDone, workerError, failed, wake,
                     wrote, disk, issued, told>>
  BY DEF WorkerTakes, CarriedLeft, ownerVars, fileVars
<1>2. TypeOK'
  BY <1>1 DEF FInv, TypeOK
<1>3. HandsFull' /\ Distinct' /\ InHandOnDisk' /\ ReportIsLast'
  BY <1>1 DEF FInv, HandsFull, Distinct, InHandOnDisk, ReportIsLast, Pending
<1>4. InStep'
  BY <1>1 DEF FInv, InStep, Broken, LastMotors, LastControl, HandMotors, HandControl, MotorsAfter,
         Pending
<1> QED BY <1>2, <1>3, <1>4

LEMMA WriteFiles ==
    ASSUME FInv, WorkerWrites \/ WorkerWriteFails \/ WorkerSyncFails
    PROVE  TypeOK' /\ HandsFull' /\ Distinct' /\ InHandOnDisk' /\ InStep' /\ ReportIsLast'
<1>1. /\ worker = "write" /\ worker' = "publish"
      /\ UNCHANGED <<owner, live, unsaved, report, request, carried, writing, accepting, workerDone,
                     workerError, failed, wake, hand, handCarried, issued, told>>
  BY DEF WorkerWrites, WorkerWriteFails, WorkerSyncFails, ownerVars, slotVars, fileVars
<1>2. hand \in Request /\ hand.control \in Control /\ hand.motors \in Motors \cup {NoMotors}
  BY <1>1, RequestFields DEF FInv, TypeOK, HandsFull
<1>3. /\ Merged(hand).motors = MotorsAfter(hand, disk.motors) /\ Merged(hand).control = hand.control
      /\ Merged(hand) \in Files /\ Merged(hand).motors \in Motors
      /\ disk.motors \in Motors /\ disk.control \in Control
  BY <1>2 DEF Merged, MotorsAfter, FInv, TypeOK, Files
<1>4. \/ wrote' = FALSE /\ disk' \in Files
      \/ wrote' = TRUE /\ Accepted(hand) /\ disk' = Merged(hand)
  <2>1. CASE WorkerWrites
    <3>1. Accepted(hand) \in BOOLEAN
      BY DEF Accepted, Valid
    <3> QED BY <1>3, <2>1, <3>1 DEF WorkerWrites, FInv, TypeOK
  <2>2. CASE WorkerWriteFails
    BY <2>2 DEF WorkerWriteFails, fileVars, FInv, TypeOK
  <2>3. CASE WorkerSyncFails
    <3>1. PICK mm \in {disk.motors, Merged(hand).motors}, cc \in {disk.control, hand.control} :
             disk' = [motors |-> mm, control |-> cc]
      BY <2>3 DEF WorkerSyncFails
    <3>2. mm \in Motors /\ cc \in Control
      BY <1>2, <1>3, <3>1
    <3> QED BY <2>3, <3>1, <3>2 DEF WorkerSyncFails, Files
  <2> QED BY <2>1, <2>2, <2>3
<1>5. TypeOK'
  <2>1. disk' \in Files /\ wrote' \in BOOLEAN
    BY <1>3, <1>4
  <2> QED BY <1>1, <2>1 DEF FInv, TypeOK
<1>6. HandsFull' /\ Distinct' /\ ReportIsLast'
  BY <1>1 DEF FInv, HandsFull, Distinct, ReportIsLast
<1>7. CASE wrote' = FALSE
  <2>1. InHandOnDisk' /\ InStep'
    BY <1>1, <1>7 DEF InHandOnDisk, InStep, Broken
  <2> QED BY <1>5, <1>6, <2>1
<1>8. CASE wrote' = TRUE /\ Accepted(hand) /\ disk' = Merged(hand)
  <2>1. disk'.motors = MotorsAfter(hand, disk.motors) /\ disk'.control = hand.control
    BY <1>3, <1>8
  <2>2. Valid(Merged(hand).motors, Merged(hand).control)
    BY <1>8 DEF Accepted
  <2>3. InHandOnDisk'
    BY <1>1, <1>8, <2>1, <2>2 DEF InHandOnDisk, MotorsAfter, Valid
  <2>4. ~Broken' => ~Broken
    BY <1>1 DEF Broken
  <2>5. LastMotors' = LastMotors /\ LastControl' = LastControl
    BY <1>1, <2>1 DEF LastMotors, LastControl, HandMotors, HandControl, MotorsAfter, Pending
  <2>6. InStep'
    BY <1>1, <2>4, <2>5 DEF FInv, InStep
  <2> QED BY <1>5, <1>6, <2>3, <2>6
<1> QED BY <1>4, <1>7, <1>8

LEMMA PublishFiles ==
    ASSUME FInv, WorkerPublishes
    PROVE  TypeOK' /\ HandsFull' /\ Distinct' /\ InHandOnDisk' /\ InStep' /\ ReportIsLast'
<1>1. /\ worker = "publish" /\ worker' = "finish"
      /\ UNCHANGED <<owner, live, unsaved, report, request, carried, writing, accepting, workerDone,
                     workerError, failed, wake, hand, handCarried, wrote, disk, issued>>
  BY DEF WorkerPublishes, ownerVars, slotVars
<1>2. told' \in [Session -> {"none", "Pending", "Replaced", "Durable", "Failed"}]
  BY DEF WorkerPublishes, FInv, TypeOK
<1>3. TypeOK'
  BY <1>1, <1>2 DEF FInv, TypeOK
<1>4. HandsFull' /\ Distinct' /\ InHandOnDisk' /\ ReportIsLast'
  BY <1>1 DEF FInv, HandsFull, Distinct, InHandOnDisk, ReportIsLast
<1>5. InStep'
  BY <1>1 DEF FInv, InStep, Broken, LastMotors, LastControl, HandMotors, HandControl, MotorsAfter,
         Pending
<1> QED BY <1>3, <1>4, <1>5

LEMMA FinishFiles ==
    ASSUME FInv, WorkerFinishes
    PROVE  TypeOK' /\ HandsFull' /\ Distinct' /\ InHandOnDisk' /\ InStep' /\ ReportIsLast'
<1>1. /\ worker = "finish" /\ worker' = "take" /\ writing' = FALSE
      /\ hand' = NoRequest /\ handCarried' = {}
      /\ UNCHANGED <<owner, live, unsaved, report, request, carried, accepting, workerDone,
                     workerError, wake, wrote, disk, issued, told>>
  BY DEF WorkerFinishes, ownerVars, fileVars
<1>2. failed' \in BOOLEAN
  BY Zenon DEF WorkerFinishes
<1>3. ~failed' => ~failed /\ wrote
  BY Zenon DEF WorkerFinishes
<1>4. TypeOK'
  BY <1>1, <1>2 DEF FInv, TypeOK
<1>5. HandsFull' /\ Distinct' /\ InHandOnDisk' /\ ReportIsLast'
  BY <1>1 DEF FInv, HandsFull, Distinct, InHandOnDisk, ReportIsLast
<1>6. InStep'
  BY <1>1, <1>3 DEF FInv, InStep, Broken, LastMotors, LastControl, HandMotors, HandControl,
         MotorsAfter, Pending
<1> QED BY <1>4, <1>5, <1>6

\* The ways out of the worker's loop.
LEMMA LeaveFiles ==
    ASSUME FInv, WorkerUnwinds \/ WorkerCompletes \/ WorkerExits
    PROVE  TypeOK' /\ HandsFull' /\ Distinct' /\ InHandOnDisk' /\ InStep' /\ ReportIsLast'
<1>1. /\ UNCHANGED <<owner, live, unsaved, report, request, carried, writing, failed, wake, hand,
                     handCarried, wrote, disk, issued, told>>
      /\ \/ worker \in {"write", "publish"} /\ worker' = "unwind"
         \/ worker = "leave" /\ worker' = "ending"
         \/ worker = "unwind" /\ worker' = "ending" /\ workerError'
         \/ worker = "ending" /\ worker' = "exited" /\ workerError' = workerError
  BY DEF WorkerUnwinds, WorkerCompletes, WorkerExits, ownerVars, slotVars, fileVars
<1>2. accepting' \in BOOLEAN /\ workerDone' \in BOOLEAN /\ workerError' \in BOOLEAN
  BY Zenon DEF FInv, TypeOK, WorkerUnwinds, WorkerCompletes, WorkerExits, slotVars
<1>3. TypeOK'
  BY <1>1, <1>2 DEF FInv, TypeOK
<1>4. worker = "leave" => hand = NoRequest
  BY DEF FInv, IInv, HandsEmpty
<1>5. HandsFull' /\ Distinct' /\ InHandOnDisk' /\ ReportIsLast'
  BY <1>1, <1>4 DEF FInv, HandsFull, Distinct, InHandOnDisk, ReportIsLast
<1>6. ~Broken' => worker' # "unwind" /\ ~Broken
  BY <1>1, <1>4 DEF FInv, HandsFull, Broken
<1>7. InStep'
  BY <1>1, <1>6 DEF FInv, InStep, Broken, LastMotors, LastControl, HandMotors, HandControl,
         MotorsAfter, Pending
<1> QED BY <1>3, <1>5, <1>7

LEMMA FilesInit == Init => FInv
<1> SUFFICES ASSUME Init PROVE FInv
  OBVIOUS
<1>1. IInv
  BY LimitPersistAssumption
     DEF LimitPersistAssumption, Init, IInv, NothingForgotten, Numbered, HandsEmpty, Answered,
         LeftClosed, Left, Pending, NoRequest, Session
<1>2. live \in Files
  <2>1. PICK b \in Bound :
          live = [motors |-> [j \in Joint |-> b],
                  control |-> [soft |-> [j \in Joint |-> b], gain |-> CHOOSE g \in Gain : TRUE]]
    BY DEF Init
  <2>2. (CHOOSE g \in Gain : TRUE) \in Gain
    BY LimitPersistAssumption DEF LimitPersistAssumption
  <2> QED BY <2>1, <2>2 DEF Files, Control, Motors
<1>3. TypeOK
  <2>1. /\ unsaved \in BOOLEAN /\ writing \in BOOLEAN /\ accepting \in BOOLEAN /\ wake \in BOOLEAN
        /\ workerDone \in BOOLEAN /\ workerError \in BOOLEAN /\ failed \in BOOLEAN
        /\ wrote \in BOOLEAN
    BY Zenon DEF Init
  <2>2. issued \in 0 .. MaxCommands
    BY LimitPersistAssumption DEF LimitPersistAssumption, Init
  <2>3. told \in [Session -> {"none", "Pending", "Replaced", "Durable", "Failed"}]
    BY DEF Init
  <2> QED BY <1>2, <2>1, <2>2, <2>3 DEF Init, TypeOK
<1>4. HandsFull /\ Distinct /\ InHandOnDisk /\ ReportIsLast
  BY DEF Init, HandsFull, Distinct, InHandOnDisk, ReportIsLast
<1>5. InStep
  BY DEF Init, InStep, LastMotors, LastControl, HandMotors, HandControl, Pending
<1> QED BY <1>1, <1>3, <1>4, <1>5 DEF FInv

LEMMA FilesStep == FInv /\ [Next]_vars => FInv'
<1> SUFFICES ASSUME FInv, [Next]_vars PROVE FInv'
  OBVIOUS
<1>1. IInv'
  BY NextStep DEF FInv
<1>2. CASE UNCHANGED vars
  BY <1>1, <1>2
     DEF FInv, TypeOK, HandsFull, Distinct, InHandOnDisk, InStep, ReportIsLast, Broken, LastMotors,
         LastControl, HandMotors, HandControl, MotorsAfter, Pending, Valid, vars, ownerVars,
         slotVars, workerVars, fileVars
<1>3. CASE Next
  BY <1>1, <1>2, <1>3, PatchFiles, SaveFiles, OwnerFiles, WaitingFiles, TakeFiles, WriteFiles,
     PublishFiles, FinishFiles, LeaveFiles
     DEF FInv, Next, OwnerStep, WorkerStep, Exited
<1> QED BY <1>2, <1>3

(***************************************************************************)
(* Whatever is patched, tuned, coalesced or refused, and however the       *)
(* worker fails: with nothing queued, in hand, failed or unsaved the files *)
(* are the live configuration, and so they are after a drain that says     *)
(* Complete, which left no command unanswered (limit_persist.rs).          *)
(***************************************************************************)
THEOREM FilesFollow == Spec => []DiskIsLive
<1>1. FInv => DiskFollowsLive
  <2> SUFFICES ASSUME FInv, ~Pending, hand = NoRequest, ~failed, ~unsaved PROVE disk = live
    BY DEF DiskFollowsLive
  <2>1. worker \notin {"write", "publish", "finish", "unwind"} /\ ~Broken
    BY DEF FInv, HandsFull, Broken
  <2>2. /\ disk.motors = live.motors /\ disk.control.soft = live.control.soft
        /\ disk.control.gain = live.control.gain
    BY <2>1 DEF FInv, InStep, LastMotors, LastControl, HandMotors, HandControl
  <2>3. disk \in Files /\ live \in Files /\ disk.control \in Control /\ live.control \in Control
    BY DEF FInv, TypeOK, Files
  <2>4. disk.control = live.control
    BY <2>2, <2>3 DEF Control
  <2> QED BY <2>2, <2>3, <2>4 DEF Files
<1>2. Init => CompleteIsComplete
  BY DEF Init, CompleteIsComplete
<1>3. FInv /\ CompleteIsComplete /\ [Next]_vars => CompleteIsComplete'
  <2> SUFFICES ASSUME FInv, CompleteIsComplete, [Next]_vars, report' = "Complete"
               PROVE  (\A s \in Session : told'[s] # "Pending") /\ (~unsaved' => disk' = live')
    BY DEF CompleteIsComplete
  <2>1. CASE report = "Complete"
    <3>1. UNCHANGED vars
      BY <2>1 DEF FInv, ReportIsLast, Next, OwnerStep, WorkerStep, LimitPatch, SaveTuning, Tune,
             CloseAdmission, DrainReturns, Exited
    <3> QED BY <2>1, <3>1 DEF CompleteIsComplete, vars, ownerVars, fileVars
  <2>2. CASE report # "Complete"
    <3>1. PICK terminated \in BOOLEAN : DrainReturns(terminated)
      BY <2>2 DEF Next, OwnerStep, WorkerStep, LimitPatch, SaveTuning, Tune, CloseAdmission, Exited,
             WorkerChecks, WorkerWoken, WorkerTimesOut, WorkerEmptiesWakes, WorkerTakes,
             WorkerFindsNothing, WorkerWrites, WorkerWriteFails, WorkerSyncFails, WorkerPublishes,
             WorkerFinishes, WorkerUnwinds, WorkerCompletes, WorkerExits, vars, ownerVars
    <3>2. /\ Status(terminated) = "Complete"
          /\ terminated => worker = "exited"
          /\ UNCHANGED <<live, unsaved, disk, told>>
      BY <3>1 DEF DrainReturns, fileVars
    <3>3. ~workerError /\ terminated /\ ~Pending /\ ~failed
      BY <3>2 DEF Status
    <3>4. worker = "exited" /\ hand = NoRequest
      BY <3>2, <3>3 DEF FInv, HandsFull
    <3>5. \A s \in Session : told[s] # "Pending"
      BY <3>3, <3>4 DEF FInv, IInv, NothingForgotten, Owed, Left
    <3>6. ~unsaved => disk = live
      BY <1>1, <3>3, <3>4 DEF DiskFollowsLive
    <3> QED BY <3>2, <3>5, <3>6
  <2> QED BY <2>1, <2>2
<1>4. FInv /\ CompleteIsComplete => DiskIsLive
  BY <1>1 DEF FInv, DiskIsLive
<1> QED BY <1>2, <1>3, <1>4, FilesInit, FilesStep, PTL DEF Spec

(***************************************************************************)
(* Durable is true: at the moment a patch or a save is reported Durable,   *)
(* the files hold its bounds or its gain and pass the validation of a      *)
(* boot, whatever write failed before (persist_worker, written_by).        *)
(***************************************************************************)
THEOREM DurableIsTrue == Spec => DurableIsOnDisk
<1> DEFINE Told(s) ==
             /\ Valid(disk.motors, disk.control)
             /\ \A c \in handCarried : c.session = s =>
                    disk.motors[c.joint] = c.hard /\ disk.control.soft[c.joint] = c.soft
             /\ s = hand.session =>
                    /\ disk.control = hand.control
                    /\ hand.kind = "limit" => disk.motors[hand.joint] = hand.motors[hand.joint]
<1>1. ASSUME FInv, Next, NEW s \in Session, told[s] # "Durable", told'[s] = "Durable"
      PROVE  Told(s)
  <2>1. WorkerPublishes
    BY <1>1 DEF Next, OwnerStep, WorkerStep, LimitPatch, SaveTuning, Tune, CloseAdmission,
           DrainReturns, Exited, Enqueue, WorkerChecks, WorkerWoken, WorkerTimesOut,
           WorkerEmptiesWakes, WorkerTakes, WorkerFindsNothing, WorkerWrites, WorkerWriteFails,
           WorkerSyncFails, WorkerFinishes, WorkerUnwinds, WorkerCompletes, WorkerExits, vars,
           fileVars
  <2>2. /\ wrote
        /\ s # hand.session => \A c \in handCarried : c.session = s => WrittenBy(c, hand)
    BY <1>1, <2>1 DEF WorkerPublishes
  <2>3. /\ Valid(disk.motors, disk.control) /\ disk.control = hand.control
        /\ hand.motors # NoMotors => disk.motors = hand.motors
    BY <1>1, <2>1, <2>2 DEF FInv, InHandOnDisk, WorkerPublishes
  <2>4. hand \in Request
    BY <1>1, <2>1 DEF FInv, HandsFull, TypeOK, WorkerPublishes
  <2>5. \A c \in handCarried : c.session = s =>
           disk.motors[c.joint] = c.hard /\ disk.control.soft[c.joint] = c.soft
    <3> SUFFICES ASSUME NEW c \in handCarried, c.session = s
                 PROVE  disk.motors[c.joint] = c.hard /\ disk.control.soft[c.joint] = c.soft
      OBVIOUS
    <3>1. c.session < hand.session /\ hand.session \in Int /\ c.session \in Int
      BY <1>1, <2>4, RequestFields DEF FInv, Distinct, TypeOK, Carried, Session
    <3>2. WrittenBy(c, hand)
      BY <2>2, <3>1
    <3> QED BY <2>3, <3>2 DEF WrittenBy
  <2>6. hand.kind = "limit" => disk.motors[hand.joint] = hand.motors[hand.joint]
    BY <2>3, <2>4, RequestFields
  <2> QED BY <2>3, <2>5, <2>6
<1>2. FInv /\ [Next]_vars =>
        [\A s \in Session : told[s] # "Durable" /\ told'[s] = "Durable" => Told(s)]_vars
  BY <1>1
<1> QED BY <1>2, FilesInit, FilesStep, PTL DEF Spec, DurableIsOnDisk
=============================================================================
