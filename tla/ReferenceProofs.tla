-------------------------- MODULE ReferenceProofs --------------------------
(***************************************************************************)
(* The reference transaction: no acquisition grants what was overtaken, a  *)
(* grant rests on durable evidence read back as zero, and no ending leaves *)
(* a drive armed; for any joints, acquisitions, orders and mishaps, and    *)
(* any delay of the wire.                                                  *)
(*                                                                         *)
(* The reference journal (second part) implements the job ledger, and its  *)
(* accounts add up, for every number of jobs, processes, credits and rows: *)
(* whatever transaction fails, wherever the worker panics and the process  *)
(* dies.                                                                   *)
(***************************************************************************)
EXTENDS Reference, ReferenceJournal, FiniteSetTheorems, SequenceTheorems, WellFoundedInduction, TLAPS

\* A batch that failed left nothing in the queue and nothing deferred.
FailedIsEmpty == rQ.failed => rQ.pending = <<>> /\ rQ.flight = 0 /\ rDefer = 0

\* The acquisition under way is the newest and has no outcome; later ones have nothing.
NewestRuns ==
  /\ Busy => /\ rSeq = rRes.txn + 1 /\ rRes.policy <= rPolicy
             /\ LET tx == rTxn[rRes.txn] IN
                tx.joint = rRes.joint /\ tx.cause = "none" /\ tx.stage = "none" /\ tx.commit = "none"
  /\ \A t \in Txns : t >= rSeq => rTxn[t] = NoOutcome

\* Staged evidence: a read back of zero in a coordinate that either ended or still reads zero, asked
\* by the acquisition itself if its identity reply was.
Evidence(t) ==
  LET tx == rTxn[t]
      d == rDev[tx.joint]
  IN /\ tx.joint \in RefJoints /\ tx.read.coord = "zero"
     /\ tx.epoch <= d.epoch /\ (tx.epoch = d.epoch => d.seen = "zero")
     /\ tx.by = t => tx.read.asked = t

\* Evidence overtaken after it was staged can be seen to be: by a stop, a policy or a deadline.
Overtaken(t) == rTxn[t].stop < rStop \/ rTxn[t].policy < rPolicy \/ rDue
EvidenceStands ==
  \A t \in Txns :
    /\ rTxn[t].stage = "current" \/ rTxn[t].commit # "none" \/ t \in rSpoilt => rTxn[t].cause = "staged"
    /\ rTxn[t].cause = "staged" => Evidence(t)
    /\ rTxn[t].stage = "current" => /\ rTxn[t].stop <= rStop /\ rTxn[t].policy <= rPolicy
                                    /\ t \in rSpoilt => Overtaken(t)

\* A granted acquisition is used up; a live grant is its joint's, complete and durable.
GrantsStand ==
  \A j \in RefJoints :
    LET g == rAuth.grant[j] IN
    /\ g.txn # 0 => rTxn[g.txn].cause = "staged" /\ rTxn[g.txn].stage # "current"
    /\ g.live => /\ g.txn # 0 /\ rTxn[g.txn].joint = j /\ g.epoch = rTxn[g.txn].epoch
                 /\ rTxn[g.txn].result = "durable" /\ rTxn[g.txn].commit = "Complete"

GrantInv == FailedIsEmpty /\ NewestRuns /\ EvidenceStands /\ GrantsStand /\ rBad = {}

\* Which requests are on their way, and in which order: the reads other acquisitions asked for, the
\* identity requests of acquisition t.
OlderRead(f, t) == f.kind = "read" /\ f.txn # t
OwnId(f, t) == f.kind = "id" /\ f.txn = t
NoOlder(q, t) == \A k \in 1 .. Len(q) : ~OlderRead(q[k], t)
OlderFirst(q, t) == \A i, k \in 1 .. Len(q) : OwnId(q[i], t) /\ OlderRead(q[k], t) => k < i
HasOwnId(q, t) == \E k \in 1 .. Len(q) : OwnId(q[k], t)
Before(q, n) == \A k \in 1 .. Len(q) : q[k].kind # "echo" => q[k].txn < n
OnWire == /\ Before(rOut, rSeq) /\ Before(rAt, rSeq) /\ Before(rRx, rSeq)
          /\ \A k \in 1 .. Len(rAt) : rAt[k].kind = "enable"

\* Frames keep their order: before the identity reply, older reads are ahead of the own request;
\* once the own reply is in, no older read is left.
Asking == {"BaselineStop", "DrainOld", "RequestIdentity", "AwaitIdentity"}
Ordered(out, rx, res) ==
  /\ res.phase \in Asking => /\ OlderFirst(out, res.txn) /\ res.by = 0
                             /\ HasOwnId(rx, res.txn) => NoOlder(out, res.txn)
  /\ res.phase = "AwaitIdentity" => res.in.uid = 0
  /\ res.phase = "AwaitReportingOff" => res.in.uid # 0 /\ res.in.by = res.by
  /\ res.by = res.txn => NoOlder(out, res.txn) /\ NoOlder(rx, res.txn)
  /\ res.phase = "AwaitReadback" => res.in.read = NoRead
OwnReplies == Busy => Ordered(rOut, rRx, rRes)
ReadInv == OnWire /\ OwnReplies

\* A set of naturals has a least element; a set of positions has a first and a last.
LEMMA LeastNat == ASSUME NEW S \in SUBSET Nat, S # {} PROVE \E m \in S : \A n \in S : m <= n
<1>1. IsWellFoundedOn(OpToRel(<, Nat), Nat)
  BY NatLessThanWellFounded
<1>2. PICK m \in S : \A n \in S : ~(<<n, m>> \in OpToRel(<, Nat))
  BY <1>1, WFMin
<1>3. \A n \in S : ~(n < m)
  BY <1>2 DEF OpToRel
<1> QED BY <1>3

\* The operators Min and Max of positions.
LEMMA FirstAndLast ==
  ASSUME NEW n \in Nat, NEW S \in SUBSET (1 .. n), S # {}
  PROVE  Min(S) \in S /\ Max(S) \in S
<1>0. S \in SUBSET Nat
  OBVIOUS
<1>1. Min(S) \in S
  <2>1. \E m \in S : \A k \in S : m =< k
    BY <1>0, LeastNat
  <2> QED BY <2>1 DEF Min
<1>2. \E m \in S : \A k \in S : m >= k
  <2> DEFINE T == {n - k : k \in S}
  <2>1. T \in SUBSET Nat /\ T # {}
    <3>1. \A k \in S : n - k \in Nat
      OBVIOUS
    <3> QED BY <3>1
  <2> HIDE DEF T
  <2>2. PICK l \in T : \A k \in T : l <= k
    BY <2>1, LeastNat
  <2>3. PICK m \in S : l = n - m
    BY DEF T
  <2>4. \A k \in S : n - m <= n - k
    BY <2>2, <2>3 DEF T
  <2> QED BY <2>4
<1> QED BY <1>1, <1>2 DEF Max

\* Every stop of a stop pass: one frame for each joint.
LEMMA StopsReachAll ==
  /\ StopFrames \in Seq(RefFrames)
  /\ \A k \in 1 .. Len(StopFrames) : StopFrames[k].kind = "stop" /\ StopFrames[k].txn = 0
  /\ \A j \in RefJoints : \E k \in 1 .. Len(StopFrames) : StopFrames[k].to = j
<1> DEFINE stop(j) == [to |-> j, kind |-> "stop", txn |-> 0]
           S == {stop(j) : j \in RefJoints}
           b == [j \in RefJoints |-> stop(j)]
<1>1. IsFiniteSet(S)
  <2>1. b \in Surjection(RefJoints, S)
    BY DEF Surjection
  <2> QED BY <2>1, FS_Surjection, ReferenceAssumption DEF ReferenceAssumption
<1>2. Cardinality(S) \in Nat /\ ExistsBijection(1 .. Cardinality(S), S)
  BY <1>1, FS_CardinalityType
<1>3. \E f \in [1 .. Cardinality(S) -> S] : IsInjective(f)
  BY <1>2 DEF ExistsBijection, Bijection, Injection
<1>4. StopFrames \in [1 .. Cardinality(S) -> S] /\ IsInjective(StopFrames)
  BY <1>3 DEF StopFrames, SetToSeq
<1>5. StopFrames \in Surjection(1 .. Cardinality(S), S)
  <2>1. Cardinality(1 .. Cardinality(S)) = Cardinality(S)
    BY <1>2, FS_Interval
  <2> QED BY <1>1, <1>4, <2>1, FS_Injection DEF Injection
<1>6. S \subseteq RefFrames
  BY DEF RefFrames
<1>7. StopFrames \in Seq(RefFrames) /\ Len(StopFrames) = Cardinality(S)
  <2> HIDE DEF S
  <2> QED BY <1>2, <1>4, <1>6
<1>8. \A k \in 1 .. Len(StopFrames) : StopFrames[k] \in S
  BY <1>4, <1>7
<1>9. \A s \in S : \E k \in 1 .. Len(StopFrames) : StopFrames[k] = s
  BY <1>5, <1>7 DEF Surjection
<1>10. ASSUME NEW j \in RefJoints PROVE \E k \in 1 .. Len(StopFrames) : StopFrames[k].to = j
  <2>1. stop(j) \in S /\ stop(j).to = j
    OBVIOUS
  <2> QED BY <1>9, <2>1
<1>11. \A s \in S : s.kind = "stop" /\ s.txn = 0
  OBVIOUS
<1> QED BY <1>7, <1>8, <1>10, <1>11

-----------------------------------------------------------------------------
\* An entry that is observed, retired or ended keeps what it is about.
Aged(p, q) ==
  /\ q \in RefOutcomes
  /\ q.joint = p.joint /\ q.cause = p.cause /\ q.loose = p.loose /\ q.stop = p.stop /\ q.gen = p.gen
  /\ q.epoch = p.epoch /\ q.uid = p.uid /\ q.by = p.by /\ q.policy = p.policy /\ q.read = p.read
  /\ q.result = p.result
  /\ q.stage = p.stage \/ (p.stage = "current" /\ q.stage = "invalid")
  /\ q.commit = p.commit \/ (p.commit = "Pending" /\ q.commit # "none" /\ q.commit # "Complete")

\* Observation, retirement and the end of commits age every entry.
LEMMA ObserveAges ==
  ASSUME NEW txns \in [Txns -> RefOutcomes], NEW s
  PROVE  /\ RefObserve(txns, s) \in [Txns -> RefOutcomes]
         /\ \A t \in Txns :
              /\ Aged(txns[t], RefObserve(txns, s)[t])
              /\ RefObserve(txns, s)[t].stage = "current" => ~StageInvalid(txns[t], t, s)
<1> SUFFICES ASSUME NEW t \in Txns
             PROVE  /\ Aged(txns[t], RefObserve(txns, s)[t])
                    /\ RefObserve(txns, s)[t].stage = "current" => ~StageInvalid(txns[t], t, s)
  BY DEF RefObserve, Aged
<1> DEFINE tx == txns[t]
           stage == IF tx.stage = "current" /\ StageInvalid(tx, t, s) THEN "invalid" ELSE tx.stage
           commit == IF tx.commit = "Pending" /\ stage = "invalid" THEN "Invalidated" ELSE tx.commit
<1>1. RefObserve(txns, s)[t] = [tx EXCEPT !.stage = stage, !.commit = commit]
  BY DEF RefObserve
<1>2. tx \in RefOutcomes
  OBVIOUS
<1>3. stage \in {tx.stage, "invalid"} /\ (stage # tx.stage => tx.stage = "current" /\ stage = "invalid")
      /\ (stage = "current" => ~StageInvalid(tx, t, s))
  OBVIOUS
<1>4. commit = tx.commit \/ (tx.commit = "Pending" /\ commit = "Invalidated")
  OBVIOUS
<1> HIDE DEF tx, stage, commit
<1> QED BY <1>1, <1>2, <1>3, <1>4 DEF Aged, RefOutcomes, tx

\* A new acquisition retires what was staged.
LEMMA RetireAges ==
  ASSUME NEW txns \in [Txns -> RefOutcomes]
  PROVE  /\ RetireStages(txns) \in [Txns -> RefOutcomes]
         /\ \A t \in Txns : Aged(txns[t], RetireStages(txns)[t]) /\ RetireStages(txns)[t].stage # "current"
<1> SUFFICES ASSUME NEW t \in Txns
             PROVE  Aged(txns[t], RetireStages(txns)[t]) /\ RetireStages(txns)[t].stage # "current"
  BY DEF RetireStages, Aged
<1>1. txns[t] \in RefOutcomes
  OBVIOUS
<1> QED BY <1>1 DEF Aged, RefOutcomes, RetireStages

\* A disable, a hazard or a shutdown ends the commits under way.
LEMMA EndAges ==
  ASSUME NEW txns \in [Txns -> RefOutcomes], NEW phase \in {"Cancelled", "Invalidated"}
  PROVE  /\ EndCommits(txns, phase) \in [Txns -> RefOutcomes]
         /\ \A t \in Txns : Aged(txns[t], EndCommits(txns, phase)[t])
<1> SUFFICES ASSUME NEW t \in Txns PROVE Aged(txns[t], EndCommits(txns, phase)[t])
  BY DEF EndCommits, Aged
<1> DEFINE tx == txns[t]
<1>1. tx \in RefOutcomes
  OBVIOUS
<1>2. EndCommits(txns, phase)[t] =
        IF tx.commit = "none" THEN tx
        ELSE [tx EXCEPT !.stage = IF @ = "current" THEN "invalid" ELSE @,
                        !.commit = IF @ = "Pending" THEN phase ELSE @]
  BY DEF EndCommits
<1> HIDE DEF tx
<1>3. CASE tx.commit = "none"
  BY <1>1, <1>2, <1>3 DEF Aged, tx
<1>4. CASE tx.commit # "none"
  <2>1. EndCommits(txns, phase)[t] =
          [tx EXCEPT !.stage = IF tx.stage = "current" THEN "invalid" ELSE tx.stage,
                     !.commit = IF tx.commit = "Pending" THEN phase ELSE tx.commit]
    BY <1>1, <1>2, <1>4 DEF RefOutcomes
  <2> QED BY <1>1, <2>1 DEF Aged, RefOutcomes, tx
<1> QED BY <1>3, <1>4

\* Ageing twice is ageing.
LEMMA AgedAgain ==
  ASSUME NEW p, NEW q, NEW r, Aged(p, q), Aged(q, r) PROVE Aged(p, r)
BY DEF Aged

\* An authority that lost grants and gained none.
Weaker(a, b) ==
  /\ b \in RefAuthorities
  /\ \A j \in RefJoints :
       /\ b.grant[j].txn = a.grant[j].txn /\ b.grant[j].epoch = a.grant[j].epoch
       /\ b.grant[j].live => a.grant[j].live

\* The fields of an authority, and an authority with some of them replaced.
LEMMA AuthorityParts ==
  ASSUME NEW a \in RefAuthorities
  PROVE  /\ a.gen \in Nat /\ a.policy \in Nat /\ a.revoked \in BOOLEAN /\ a.accumulates \in BOOLEAN
         /\ a.grant \in [RefJoints -> RefGrants]
BY DEF RefAuthorities

\* A revoked authority is still one.
LEMMA AuthorityRevoked ==
  ASSUME NEW a \in RefAuthorities, NEW n \in Nat, NEW g \in [RefJoints -> RefGrants]
  PROVE  /\ [a EXCEPT !.revoked = TRUE, !.gen = n, !.grant = g] \in RefAuthorities
         /\ [a EXCEPT !.revoked = TRUE, !.gen = n, !.grant = g].grant = g
BY DEF RefAuthorities

\* An authority put together from its parts.
LEMMA AuthorityMade ==
  ASSUME NEW a \in RefAuthorities, NEW n \in Nat, NEW g \in [RefJoints -> RefGrants]
  PROVE  /\ [a EXCEPT !.gen = n, !.grant = g] \in RefAuthorities
         /\ [a EXCEPT !.gen = n, !.grant = g].grant = g
BY DEF RefAuthorities

\* An authority that does not change gives nothing.
LEMMA WeakerSame == ASSUME NEW a \in RefAuthorities PROVE Weaker(a, a)
BY DEF Weaker

\* Revoking gives nothing.
LEMMA RevokeWeakens == ASSUME NEW a \in RefAuthorities PROVE Weaker(a, RefRevoke(a))
<1> DEFINE b == [a EXCEPT !.revoked = TRUE, !.gen = a.gen + 1]
<1>1. b \in RefAuthorities /\ b.grant = a.grant
  <2>1. a.gen + 1 \in Nat
    BY AuthorityParts
  <2> QED BY <2>1 DEF RefAuthorities
<1>2. RefRevoke(a) \in {a, b}
  BY DEF RefRevoke, RefAuthorities
<1> HIDE DEF b
<1> QED BY <1>1, <1>2 DEF Weaker

\* Two steps that give nothing are one.
LEMMA WeakerAgain ==
  ASSUME NEW a, NEW b, NEW c, Weaker(a, b), Weaker(b, c) PROVE Weaker(a, c)
BY DEF Weaker

\* Invalidating a joint for its new acquisition gives nothing.
LEMMA InvalidateWeakens ==
  ASSUME NEW a \in RefAuthorities, NEW j \in RefJoints PROVE Weaker(a, InvalidateJoint(a, j))
<1> DEFINE b == InvalidateJoint(a, j)
           dead == [a.grant EXCEPT ![j] = [@ EXCEPT !.live = FALSE]]
<1>1. a.grant \in [RefJoints -> RefGrants] /\ a.gen \in Nat
  BY DEF RefAuthorities
<1>2. dead \in [RefJoints -> RefGrants]
  BY <1>1 DEF RefGrants
<1>3. b = [a EXCEPT !.grant = dead, !.revoked = a.revoked \/ ~a.accumulates, !.gen = a.gen + 1]
  BY <1>1 DEF InvalidateJoint, RefAuthorities
<1>4. \A i \in RefJoints : /\ dead[i].txn = a.grant[i].txn /\ dead[i].epoch = a.grant[i].epoch
                           /\ dead[i].live => a.grant[i].live
  BY <1>1 DEF RefGrants
<1> HIDE DEF dead
<1>5. b \in RefAuthorities /\ b.grant = dead
  <2>1. a.gen + 1 \in Nat
    BY AuthorityParts
  <2>2. CASE a.revoked \/ ~a.accumulates
    <3>1. b = [a EXCEPT !.revoked = TRUE, !.gen = a.gen + 1, !.grant = dead]
      BY <1>3, <2>2 DEF RefAuthorities
    <3> HIDE DEF b
    <3> QED BY <1>2, <2>1, <3>1, AuthorityRevoked
  <2>3. CASE ~(a.revoked \/ ~a.accumulates)
    <3>1. b = [a EXCEPT !.gen = a.gen + 1, !.grant = dead]
      BY <1>3, <2>3 DEF RefAuthorities
    <3> HIDE DEF b
    <3> QED BY <1>2, <2>1, <3>1, AuthorityMade
  <2> QED BY <2>2, <2>3
<1> QED BY <1>4, <1>5 DEF Weaker

\* Judging the binding takes grants away and gives none.
LEMMA BindingWeakens ==
  ASSUME NEW a \in RefAuthorities, NEW s, NEW silent PROVE Weaker(a, BindingValid(a, s, silent))
<1> DEFINE lost == {j \in RefJoints : /\ a.grant[j].live
                                      /\ \/ s.dev[j].epoch # a.grant[j].epoch
                                         \/ s.dev[j].uid # a.grant[j].uid
                                         \/ j \in silent}
           left == [j \in RefJoints |-> [a.grant[j] EXCEPT !.live = @ /\ j \notin lost]]
           kept == [a EXCEPT !.gen = @ + Cardinality(lost), !.grant = left]
           made == [a EXCEPT !.gen = a.gen + Cardinality(lost), !.grant = left]
<1>1. Cardinality(lost) \in Nat
  BY FS_Subset, FS_CardinalityType, ReferenceAssumption DEF ReferenceAssumption
<1>2. BindingValid(a, s, silent) \in {a, RefRevoke(a), kept, RefRevoke(kept)}
  <2> HIDE DEF lost
  <2> QED BY DEF BindingValid, lost
<1>3. \A j \in RefJoints : left[j] \in RefGrants /\ left[j].txn = a.grant[j].txn
                           /\ left[j].epoch = a.grant[j].epoch /\ (left[j].live => a.grant[j].live)
  <2> SUFFICES ASSUME NEW j \in RefJoints
               PROVE  left[j] \in RefGrants /\ left[j].txn = a.grant[j].txn
                      /\ left[j].epoch = a.grant[j].epoch /\ (left[j].live => a.grant[j].live)
    OBVIOUS
  <2>1. a.grant[j] \in RefGrants
    BY DEF RefAuthorities
  <2>2. left[j] = [a.grant[j] EXCEPT !.live = a.grant[j].live /\ j \notin lost]
    BY <2>1 DEF RefGrants
  <2> HIDE DEF left, lost
  <2> QED BY <2>1, <2>2 DEF RefGrants
<1>4. left \in [RefJoints -> RefGrants]
  BY <1>3
<1> HIDE DEF left, lost
<1>5. Weaker(a, kept)
  <2>1. kept \in RefAuthorities /\ kept.grant = left
    <3>1. a.gen + Cardinality(lost) \in Nat
      BY <1>1, AuthorityParts
    <3>2. kept = made
      BY DEF RefAuthorities
    <3> QED BY <1>4, <3>1, <3>2, AuthorityMade
  <2> HIDE DEF kept
  <2> QED BY <1>3, <2>1 DEF Weaker
<1> HIDE DEF kept
<1>6. kept \in RefAuthorities
  BY <1>5 DEF Weaker
<1> QED BY <1>2, <1>5, <1>6, WeakerSame, RevokeWeakens, WeakerAgain

\* A device's record goes on: its epoch never goes back, and within one a position seen at zero
\* stays there.
DeviceGoes(d, e) ==
  /\ e \in RefDevices
  /\ d.epoch <= e.epoch /\ (d.epoch = e.epoch /\ d.seen = "zero" => e.seen = "zero")

\* A device that was not heard.
LEMMA DeviceSame == ASSUME NEW d \in RefDevices PROVE DeviceGoes(d, d)
BY DEF DeviceGoes, RefDevices

\* A position that is not the last one seen ends the coordinate.
LEMMA ObserveGoes ==
  ASSUME NEW d \in RefDevices, NEW coord \in Coords
  PROVE  DeviceGoes(d, ObservePosition(d, coord))
<1> DEFINE n == IF d.seen \notin {"none", coord} THEN d.epoch + 1 ELSE d.epoch
<1>1. ObservePosition(d, coord) = [d EXCEPT !.seen = coord, !.epoch = n]
  BY DEF ObservePosition, RefDevices
<1>2. n \in Nat /\ d.epoch <= n /\ (d.epoch = n => d.seen \in {"none", coord})
  BY DEF RefDevices
<1> HIDE DEF n
<1>3. [d EXCEPT !.seen = coord, !.epoch = n] \in RefDevices
  BY <1>2 DEF RefDevices
<1>4. /\ [d EXCEPT !.seen = coord, !.epoch = n].epoch = n
      /\ [d EXCEPT !.seen = coord, !.epoch = n].seen = coord
  BY DEF RefDevices
<1> QED BY <1>1, <1>2, <1>3, <1>4 DEF DeviceGoes

\* What may be among the received frames.
LEMMA ReplyTypes ==
  ASSUME RefTypeOK, NEW k \in DOMAIN rRx, rRx[k].kind # "echo"
  PROVE  rRx[k] \in RefReplies /\ k \in 1 .. Len(rRx) /\ Len(rRx) \in Nat
<1>1. k \in 1 .. Len(rRx) /\ Len(rRx) \in Nat /\ rRx[k] \in RefEchoes \union RefReplies
  BY DEF RefTypeOK, RefWireTypeOK
<1> QED BY <1>1 DEF RefEchoes

\* The first and the last of some received frames.
LEMMA PickReceived ==
  ASSUME RefTypeOK, NEW S \in SUBSET DOMAIN rRx, S # {}
  PROVE  Min(S) \in S /\ Max(S) \in S
<1>1. Len(rRx) \in Nat /\ S \in SUBSET (1 .. Len(rRx))
  BY DEF RefTypeOK, RefWireTypeOK
<1> QED BY <1>1, FirstAndLast

\* The device id known before a reply.
LEMMA UidKnown ==
  ASSUME RefTypeOK, NEW j \in RefJoints, NEW k PROVE UidBefore(j, k) \in Nat
<1> DEFINE earlier == {i \in IdReplies(j) : i < k}
<1>1. CASE earlier = {}
  BY <1>1 DEF UidBefore, RefTypeOK, RefOwnerTypeOK, RefDevices
<1>2. CASE earlier # {}
  <2>1. Max(earlier) \in earlier
    <3>1. earlier \in SUBSET DOMAIN rRx
      BY DEF IdReplies
    <3> HIDE DEF earlier
    <3> QED BY <1>2, <3>1, PickReceived
  <2>2. Max(earlier) \in DOMAIN rRx /\ rRx[Max(earlier)].kind # "echo"
    BY <2>1 DEF IdReplies
  <2>3. rRx[Max(earlier)] \in RefReplies
    BY <2>2, ReplyTypes
  <2>4. UidBefore(j, k) = rRx[Max(earlier)].uid
    BY <1>2 DEF UidBefore
  <2> QED BY <2>3, <2>4 DEF RefReplies
<1> QED BY <1>1, <1>2

\* Identity replies end a coordinate or leave it alone.
LEMMA IdentifiedGoes ==
  ASSUME RefTypeOK, NEW j \in RefJoints PROVE DeviceGoes(rDev[j], Identified(j))
<1> DEFINE swaps == {k \in IdReplies(j) : UidBefore(j, k) \notin {0, rRx[k].uid}}
           d == rDev[j]
           uid == UidBefore(j, Len(rRx) + 1)
           n == d.epoch + Cardinality(swaps)
<1>1. Cardinality(swaps) \in Nat
  <2>1. swaps \in SUBSET (1 .. Len(rRx)) /\ Len(rRx) \in Nat
    BY DEF IdReplies, RefTypeOK, RefWireTypeOK
  <2> HIDE DEF swaps
  <2>2. IsFiniteSet(1 .. Len(rRx))
    BY <2>1, FS_Interval
  <2> QED BY <2>1, <2>2, FS_Subset, FS_CardinalityType
<1>2. uid \in Nat
  BY UidKnown
<1>3. d \in RefDevices
  BY DEF RefTypeOK, RefOwnerTypeOK
<1>4. Identified(j) = [d EXCEPT !.uid = uid, !.epoch = n]
  BY <1>3 DEF Identified, RefDevices
<1>5. n \in Nat /\ d.epoch <= n
  BY <1>1, <1>3 DEF RefDevices
<1> HIDE DEF n, uid, d
<1>6. [d EXCEPT !.uid = uid, !.epoch = n] \in RefDevices
  BY <1>2, <1>3, <1>5 DEF RefDevices
<1>7. /\ [d EXCEPT !.uid = uid, !.epoch = n].epoch = n
      /\ [d EXCEPT !.uid = uid, !.epoch = n].seen = d.seen
  BY <1>3 DEF RefDevices
<1> QED BY <1>4, <1>5, <1>6, <1>7 DEF DeviceGoes, d

\* One receive, for every device.
LEMMA ReceivedGoes ==
  ASSUME RefTypeOK, NEW lim
  PROVE  /\ RefReceived(lim).dev \in [RefJoints -> RefDevices]
         /\ \A j \in RefJoints : DeviceGoes(rDev[j], RefReceived(lim).dev[j])
<1>1. ASSUME NEW j \in RefJoints PROVE DeviceGoes(rDev[j], Observed(j, lim))
  <2> DEFINE poses == {k \in GoodPoses(lim) : rRx[k].from = j}
  <2>1. DeviceGoes(rDev[j], Identified(j)) /\ rDev[j] \in RefDevices
    BY IdentifiedGoes DEF RefTypeOK, RefOwnerTypeOK
  <2>2. CASE poses = {}
    BY <2>1, <2>2 DEF Observed
  <2>3. CASE poses # {}
    <3>1. Max(poses) \in poses
      <4>1. poses \in SUBSET DOMAIN rRx
        BY DEF GoodPoses
      <4> HIDE DEF poses
      <4> QED BY <2>3, <4>1, PickReceived
    <3>2. Max(poses) \in DOMAIN rRx /\ rRx[Max(poses)].kind # "echo"
      BY <3>1 DEF GoodPoses, IsPose
    <3>3. rRx[Max(poses)].coord \in Coords
      BY <3>2, ReplyTypes DEF RefReplies
    <3>4. Observed(j, lim) = ObservePosition(Identified(j), rRx[Max(poses)].coord)
      BY <2>3 DEF Observed
    <3>5. Identified(j) \in RefDevices
      BY <2>1 DEF DeviceGoes
    <3>6. DeviceGoes(Identified(j), Observed(j, lim))
      BY <3>3, <3>4, <3>5, ObserveGoes
    <3> QED BY <2>1, <3>5, <3>6 DEF DeviceGoes, RefDevices
  <2> QED BY <2>2, <2>3
<1>2. RefReceived(lim).dev = [j \in RefJoints |-> Observed(j, lim)]
  BY DEF RefReceived
<1> QED BY <1>1, <1>2 DEF DeviceGoes

\* What a receive answers was in the received frames: who asked for the identity, who for the read back.
LEMMA AnswersTyped ==
  ASSUME RefTypeOK, Busy
  PROVE  /\ RepliesIn \in RefAnswers
         /\ RepliesIn.by # rRes.in.by => \E k \in 1 .. Len(rRx) : rRx[k].kind = "id" /\ rRx[k].txn = RepliesIn.by
         /\ RepliesIn.read # rRes.in.read =>
              \E k \in 1 .. Len(rRx) : rRx[k].kind = "read" /\ rRx[k].txn = RepliesIn.read.asked
         /\ rRes.in.uid # 0 => RepliesIn.by = rRes.in.by /\ RepliesIn.uid = rRes.in.uid
         /\ rRes.in.uid = 0 /\ RepliesIn.uid # 0 =>
              \E k \in 1 .. Len(rRx) : rRx[k].kind = "id" /\ rRx[k].txn = RepliesIn.by
<1> DEFINE ids == IdReplies(rRes.joint)
           reads == {k \in DOMAIN rRx : rRx[k].kind = "read" /\ rRx[k].from = rRes.joint}
           old == rRes.in
           known == old.uid # 0 \/ ids = {}
           got == old.read # NoRead \/ reads = {}
<1>1. old \in RefAnswers
  BY DEF Busy, NoRes, RefTypeOK, RefOwnerTypeOK, RefReservations
<1>2. ASSUME ids # {}
      PROVE  /\ rRx[Min(ids)] \in RefReplies /\ Min(ids) \in 1 .. Len(rRx)
             /\ rRx[Min(ids)].kind = "id"
  <2>1. ids \in SUBSET DOMAIN rRx
    BY DEF IdReplies
  <2>2. Min(ids) \in ids
    <3> HIDE DEF ids
    <3> QED BY <1>2, <2>1, PickReceived
  <2>3. Min(ids) \in DOMAIN rRx /\ rRx[Min(ids)].kind = "id"
    BY <2>2 DEF IdReplies
  <2> QED BY <2>3, ReplyTypes
<1>3. ASSUME reads # {}
      PROVE  /\ rRx[Min(reads)] \in RefReplies /\ Min(reads) \in 1 .. Len(rRx)
             /\ rRx[Min(reads)].kind = "read"
  <2>1. reads \in SUBSET DOMAIN rRx
    OBVIOUS
  <2>2. Min(reads) \in reads
    <3> HIDE DEF reads
    <3> QED BY <1>3, <2>1, PickReceived
  <2>3. Min(reads) \in DOMAIN rRx /\ rRx[Min(reads)].kind = "read"
    BY <2>2
  <2> QED BY <2>3, ReplyTypes
<1>4. /\ RepliesIn.uid = IF known THEN old.uid ELSE rRx[Min(ids)].uid
      /\ RepliesIn.by = IF known THEN old.by ELSE rRx[Min(ids)].txn
      /\ RepliesIn.read = IF got THEN old.read
                          ELSE [asked |-> rRx[Min(reads)].txn, coord |-> rRx[Min(reads)].coord]
      /\ RepliesIn = [uid |-> RepliesIn.uid, by |-> RepliesIn.by, read |-> RepliesIn.read]
  BY DEF RepliesIn
<1> HIDE DEF ids, reads, old
<1>5. RepliesIn.uid \in Nat /\ RepliesIn.by \in Nat
  BY <1>1, <1>2, <1>4 DEF RefAnswers, RefReplies
<1>6. RepliesIn.read \in RefReads
  BY <1>1, <1>3, <1>4 DEF RefAnswers, RefReplies, RefReads
<1>7. RepliesIn \in RefAnswers
  BY <1>4, <1>5, <1>6 DEF RefAnswers
<1>8. RepliesIn.read # old.read =>
        \E k \in 1 .. Len(rRx) : rRx[k].kind = "read" /\ rRx[k].txn = RepliesIn.read.asked
  BY <1>3, <1>4
<1>9. /\ ~known => \E k \in 1 .. Len(rRx) : rRx[k].kind = "id" /\ rRx[k].txn = RepliesIn.by
      /\ RepliesIn.by # old.by => ~known
      /\ old.uid # 0 => RepliesIn.by = old.by /\ RepliesIn.uid = old.uid
      /\ old.uid = 0 /\ RepliesIn.uid # 0 => ~known
  BY <1>2, <1>4
<1> QED BY <1>7, <1>8, <1>9 DEF old

-----------------------------------------------------------------------------
\* The state an acquisition writes, and the rest.
CoreTypes ==
  /\ rRes \in {NoRes} \union RefReservations /\ rSeq \in 1 .. MaxTxn + 1
  /\ rTxn \in [Txns -> RefOutcomes] /\ rAuth \in RefAuthorities
  /\ rEcho \subseteq RefJoints /\ rStop \in Nat /\ rPolicy \in Nat
  /\ rFault \in BOOLEAN /\ rEstop \in BOOLEAN /\ rDue \in BOOLEAN
  /\ rOut \in Seq(RefFrames) /\ rLoose \in BOOLEAN
RestTypes ==
  /\ rPend \in 0 .. MaxTxn /\ rJobs \in Seq(Txns) /\ rDev \in [RefJoints -> RefDevices]
  /\ rQ \in [pending : Seq(RefJoints), flight : 0 .. MaxTxn, failed : BOOLEAN, closed : BOOLEAN]
  /\ rDefer \in Nat /\ rSpoilt \subseteq Txns
  /\ rAt \in Seq(RefFrames) /\ Len(rAt) <= 1 /\ rRx \in Seq(RefEchoes \union RefReplies)
  /\ rDrive \in [RefJoints -> [run : BOOLEAN, coord : Coords, uid : Nat \ {0}]]

\* The type invariant in two parts: what an ending changes, and the rest.
LEMMA TypesSplit == RefTypeOK <=> CoreTypes /\ RestTypes
BY DEF RefTypeOK, RefOwnerTypeOK, RefWireTypeOK, CoreTypes, RestTypes

\* Both parts after a step.
LEMMA TypesJoin == ASSUME CoreTypes', RestTypes' PROVE RefTypeOK'
BY DEF RefTypeOK, RefOwnerTypeOK, RefWireTypeOK, CoreTypes, RestTypes

\* The acquisition under way.
LEMMA ReservationTyped ==
  ASSUME RefTypeOK, Busy
  PROVE  /\ rRes \in RefReservations /\ rRes.txn \in Txns /\ rRes.joint \in RefJoints
         /\ Txns \subseteq Nat
BY ReferenceAssumption
   DEF RefTypeOK, RefOwnerTypeOK, Busy, NoRes, RefReservations, Txns, ReferenceAssumption

\* A frame of the acquisition under way.
LEMMA FrameTyped ==
  ASSUME RefTypeOK, Busy, NEW kind \in {"stop", "id", "enable", "zero", "read"}
  PROVE  <<Frame(rRes.joint, kind)>> \in Seq(RefFrames)
<1>1. rRes.joint \in RefJoints /\ rRes.txn \in Nat
  BY ReservationTyped
<1>2. Frame(rRes.joint, kind) \in RefFrames
  BY <1>1 DEF Frame, RefFrames
<1> QED BY <1>2

\* A stop pass.
LEMMA StopTypes ==
  ASSUME RefTypeOK, NEW sent \in Seq(RefFrames), NEW ok \in BOOLEAN, NEW fault \in BOOLEAN,
         RefPerformStop(sent, ok, fault)
  PROVE  /\ rStop' = rStop + 1 /\ rStop' \in Nat /\ rEcho' = {}
         /\ rOut' \in Seq(RefFrames) /\ rFault' \in BOOLEAN /\ rLoose' \in BOOLEAN
         /\ rOut' = rOut \o sent \o (IF ok THEN StopFrames ELSE <<>>)
<1>1. rStop' = rStop + 1 /\ rStop' \in Nat /\ rEcho' = {}
  BY DEF RefPerformStop, RefTypeOK, RefOwnerTypeOK
<1>2. rFault' \in BOOLEAN /\ rLoose' \in BOOLEAN
  BY DEF RefPerformStop
<1>3. rOut' \in Seq(RefFrames)
  <2>1. (IF ok THEN StopFrames ELSE <<>>) \in Seq(RefFrames)
    BY StopsReachAll
  <2>2. rOut \in Seq(RefFrames)
    BY DEF RefTypeOK, RefWireTypeOK
  <2> QED BY <2>1, <2>2 DEF RefPerformStop
<1> QED BY <1>1, <1>2, <1>3 DEF RefPerformStop

\* The authority after the judgement of a step.
LEMMA AuthTyped == ASSUME RefTypeOK PROVE Weaker(rAuth, Auth) /\ Auth \in RefAuthorities
BY BindingWeakens DEF Auth, Weaker, RefTypeOK, RefOwnerTypeOK

\* The end of an acquisition: the outcome it leaves, and every other entry aged.
EndOf(cause, evidence, ok, p, q) ==
  /\ q \in RefOutcomes
  /\ q.joint = p.joint /\ q.cause = cause /\ q.result = p.result /\ q.commit = p.commit
  /\ cause # "staged" => q.stage = p.stage
  /\ cause = "staged" => /\ q.stage = "current" /\ q.loose = ~ok /\ q.stop = rStop'
                         /\ q.policy = rRes.policy /\ q.epoch = rRes.epoch /\ q.by = rRes.by
                         /\ q.read = evidence

\* The end of an acquisition: types, authority, and the entry it leaves.
LEMMA FinishTypes ==
  ASSUME RefTypeOK, Busy, NEW auth \in RefAuthorities, NEW sent \in Seq(RefFrames),
         NEW ok \in BOOLEAN, NEW cause \in {"failed", "staged"}, NEW evidence \in RefReads,
         NEW fault \in BOOLEAN, FinishReference(auth, sent, ok, cause, evidence, fault)
  PROVE  /\ CoreTypes'
         /\ rRes' = NoRes /\ Weaker(auth, rAuth') /\ UNCHANGED <<rSeq, rDue, rEstop, rPolicy>>
         /\ \A t \in Txns \ {rRes.txn} : Aged(rTxn[t], rTxn'[t])
         /\ \E q : EndOf(cause, evidence, ok, rTxn[rRes.txn], q) /\ Aged(q, rTxn'[rRes.txn])
<1>1. /\ rStop' = rStop + 1 /\ rStop' \in Nat /\ rEcho' = {}
      /\ rOut' \in Seq(RefFrames) /\ rFault' \in BOOLEAN /\ rLoose' \in BOOLEAN
  BY StopTypes DEF FinishReference
<1>2. Weaker(auth, rAuth') /\ rAuth' \in RefAuthorities
  BY WeakerSame, RevokeWeakens DEF FinishReference, Weaker
<1>3. rRes' = NoRes /\ UNCHANGED <<rSeq, rDue, rEstop, rPolicy>>
  BY DEF FinishReference
<1> DEFINE u == rRes.txn
           p == rTxn[u]
           q == IF cause # "staged" THEN [p EXCEPT !.cause = cause]
                ELSE [p EXCEPT !.cause = cause, !.stage = "current", !.loose = ~ok,
                               !.stop = rStop', !.gen = rAuth'.gen, !.policy = rRes.policy,
                               !.epoch = rRes.epoch, !.uid = rRes.uid, !.by = rRes.by,
                               !.read = evidence]
           ended == [rTxn EXCEPT ![u] = q]
<1>4. rTxn' = RefObserve(ended, After)
  BY DEF FinishReference
<1>5. rRes \in RefReservations /\ u \in Txns /\ p \in RefOutcomes /\ rTxn \in [Txns -> RefOutcomes]
  BY ReservationTyped DEF RefTypeOK, RefOwnerTypeOK
<1>6. rAuth'.gen \in Nat /\ (~ok) \in BOOLEAN
  BY <1>2, AuthorityParts
<1>7. EndOf(cause, evidence, ok, p, q)
  <2> HIDE DEF p, u
  <2>1. CASE cause = "staged"
    <3>1. q = [p EXCEPT !.cause = cause, !.stage = "current", !.loose = ~ok,
                        !.stop = rStop', !.gen = rAuth'.gen, !.policy = rRes.policy,
                        !.epoch = rRes.epoch, !.uid = rRes.uid, !.by = rRes.by, !.read = evidence]
      BY <2>1
    <3>2. /\ rRes.policy \in Nat /\ rRes.epoch \in Nat /\ rRes.uid \in Nat /\ rRes.by \in Nat
      BY <1>5 DEF RefReservations
    <3>3. q \in RefOutcomes
      BY <1>1, <1>5, <1>6, <3>1, <3>2 DEF RefOutcomes
    <3>4. /\ q.joint = p.joint /\ q.cause = cause /\ q.result = p.result /\ q.commit = p.commit
          /\ q.stage = "current" /\ q.loose = ~ok /\ q.stop = rStop'
          /\ q.policy = rRes.policy /\ q.epoch = rRes.epoch /\ q.by = rRes.by /\ q.read = evidence
      BY <1>5, <3>1 DEF RefOutcomes
    <3> HIDE DEF q
    <3> QED BY <2>1, <3>3, <3>4 DEF EndOf
  <2>2. CASE cause # "staged"
    <3>1. q = [p EXCEPT !.cause = cause]
      BY <2>2
    <3> HIDE DEF q
    <3> QED BY <1>5, <2>2, <3>1 DEF EndOf, RefOutcomes
  <2> QED BY <2>1, <2>2
<1> HIDE DEF q, p
<1>8. ended \in [Txns -> RefOutcomes] /\ ended[u] = q /\ \A t \in Txns \ {u} : ended[t] = rTxn[t]
  BY <1>5, <1>7 DEF EndOf
<1> HIDE DEF ended, u
<1>9. rTxn' \in [Txns -> RefOutcomes] /\ \A t \in Txns : Aged(ended[t], rTxn'[t])
  BY <1>4, <1>8, ObserveAges
<1>10. CoreTypes'
  BY <1>1, <1>2, <1>3, <1>9 DEF CoreTypes, RefTypeOK, RefOwnerTypeOK
<1> QED BY <1>2, <1>3, <1>5, <1>7, <1>8, <1>9, <1>10 DEF u, p

\* How an acquisition's step ends: it goes on, it failed, or its evidence is staged.
Went ==
  /\ rRes' \in RefReservations /\ rRes'.txn = rRes.txn /\ rRes'.joint = rRes.joint
  /\ rRes'.policy = rRes.policy
  /\ \A t \in Txns : Aged(rTxn[t], rTxn'[t])
EndedBadly ==
  /\ rRes' = NoRes
  /\ \A t \in Txns \ {rRes.txn} : Aged(rTxn[t], rTxn'[t])
  /\ \E q : EndOf("failed", NoRead, TRUE, rTxn[rRes.txn], q) /\ Aged(q, rTxn'[rRes.txn])
EndedStaged ==
  /\ rRes' = NoRes
  /\ \A t \in Txns \ {rRes.txn} : Aged(rTxn[t], rTxn'[t])
  /\ \E q, ok : EndOf("staged", RepliesIn.read, ok, rTxn[rRes.txn], q) /\ Aged(q, rTxn'[rRes.txn])
  /\ rRes.phase = "AwaitReadback" /\ RepliesIn.read # NoRead /\ RepliesIn.read.coord = "zero"
  /\ rDev'[rRes.joint].epoch = rRes.epoch /\ rDev'[rRes.joint].seen = "zero"
Advanced ==
  /\ RefTypeOK'
  /\ Weaker(rAuth, rAuth') /\ rStop <= rStop'
  /\ UNCHANGED <<rPend, rJobs, queueVars, rSpoilt, rBad, rSeq, rPolicy, rDue>>
  /\ \A j \in RefJoints : DeviceGoes(rDev[j], rDev'[j])
  /\ Went \/ EndedBadly \/ EndedStaged

\* The same with the authority judged first.
LEMMA EndedTypes ==
  ASSUME RefTypeOK, Busy, NEW sent \in Seq(RefFrames), NEW cause \in {"failed", "staged"},
         NEW evidence \in RefReads, NEW fault \in BOOLEAN, Ended(sent, cause, evidence, fault)
  PROVE  /\ CoreTypes'
         /\ rRes' = NoRes /\ Weaker(rAuth, rAuth') /\ rStop <= rStop'
         /\ UNCHANGED <<rSeq, rDue, rPolicy>>
         /\ \A t \in Txns \ {rRes.txn} : Aged(rTxn[t], rTxn'[t])
         /\ \E q, ok : EndOf(cause, evidence, ok, rTxn[rRes.txn], q) /\ Aged(q, rTxn'[rRes.txn])
<1>1. PICK ok \in BOOLEAN : FinishReference(Auth, sent, ok, cause, evidence, fault)
  BY DEF Ended
<1>2. Auth \in RefAuthorities /\ Weaker(rAuth, Auth)
  BY AuthTyped
<1>3. /\ CoreTypes'
      /\ rRes' = NoRes /\ Weaker(Auth, rAuth') /\ UNCHANGED <<rSeq, rDue, rPolicy>>
      /\ \A t \in Txns \ {rRes.txn} : Aged(rTxn[t], rTxn'[t])
      /\ \E q : EndOf(cause, evidence, ok, rTxn[rRes.txn], q) /\ Aged(q, rTxn'[rRes.txn])
  BY <1>1, <1>2, FinishTypes
<1>4. rStop <= rStop'
  <2>1. rStop' = rStop + 1 /\ rStop \in Nat
    BY <1>1 DEF FinishReference, RefPerformStop, RefTypeOK, RefOwnerTypeOK
  <2> QED BY <2>1
<1>5. Weaker(rAuth, rAuth')
  BY <1>2, <1>3, WeakerAgain
<1> QED BY <1>3, <1>4, <1>5

\* A failed ending.
LEMMA EndedFails ==
  ASSUME RefTypeOK, Busy, NEW sent \in Seq(RefFrames), NEW fault \in BOOLEAN,
         Ended(sent, "failed", NoRead, fault), RestTypes',
         UNCHANGED <<rPend, rJobs, queueVars, rSpoilt, rBad>>,
         \A j \in RefJoints : DeviceGoes(rDev[j], rDev'[j])
  PROVE  Advanced /\ EndedBadly
<1>1. NoRead \in RefReads
  BY DEF NoRead, RefReads
<1>2. /\ CoreTypes'
      /\ rRes' = NoRes /\ Weaker(rAuth, rAuth') /\ rStop <= rStop'
      /\ UNCHANGED <<rSeq, rDue, rPolicy>>
      /\ \A t \in Txns \ {rRes.txn} : Aged(rTxn[t], rTxn'[t])
      /\ \E q, ok : EndOf("failed", NoRead, ok, rTxn[rRes.txn], q) /\ Aged(q, rTxn'[rRes.txn])
  BY <1>1, EndedTypes
<1>3. EndedBadly
  BY <1>2 DEF EndedBadly, EndOf
<1> QED BY <1>2, <1>3, TypesJoin DEF Advanced

\* A write that fails ends the acquisition.
LEMMA WriteFailsEnds ==
  ASSUME RefTypeOK, Busy, NEW frame \in RefFrames, RefWriteFails(frame), RestTypes',
         UNCHANGED <<rPend, rJobs, queueVars, rSpoilt, rBad>>,
         \A j \in RefJoints : DeviceGoes(rDev[j], rDev'[j])
  PROVE  Advanced /\ EndedBadly
<1>1. PICK sent \in {<<>>, <<frame>>} : Ended(sent, "failed", NoRead, TRUE)
  BY DEF RefWriteFails
<1>2. <<>> \in Seq(RefFrames) /\ <<frame>> \in Seq(RefFrames)
  OBVIOUS
<1> QED BY <1>1, <1>2, EndedFails

\* A step that goes on.
LEMMA GoesOn ==
  ASSUME RefTypeOK, Busy, NEW sent \in Seq(RefFrames), NEW res \in RefReservations, Goes(sent, res),
         rTxn' = RefObserve(rTxn, After), rStop' \in Nat, rStop <= rStop', rEcho' \subseteq RefJoints,
         rFault' \in BOOLEAN, RestTypes',
         UNCHANGED <<rPend, rJobs, queueVars, rSpoilt, rBad>>,
         \A j \in RefJoints : DeviceGoes(rDev[j], rDev'[j]),
         res.txn = rRes.txn, res.joint = rRes.joint, res.policy = rRes.policy
  PROVE  Advanced /\ Went
<1>1. rTxn \in [Txns -> RefOutcomes] /\ rOut \in Seq(RefFrames)
  BY DEF RefTypeOK, RefOwnerTypeOK, RefWireTypeOK
<1>2. rTxn' \in [Txns -> RefOutcomes] /\ \A t \in Txns : Aged(rTxn[t], rTxn'[t])
  BY <1>1, ObserveAges
<1>3. rAuth' = Auth /\ rRes' = res /\ rOut' = rOut \o sent
      /\ UNCHANGED <<rSeq, rPolicy, rDue, rEstop, rLoose>>
  BY DEF Goes
<1>4. rOut' \in Seq(RefFrames)
  BY <1>1, <1>3
<1>5. Weaker(rAuth, rAuth') /\ rAuth' \in RefAuthorities
  BY <1>3, AuthTyped
<1>6. CoreTypes'
  BY <1>2, <1>3, <1>4, <1>5 DEF CoreTypes, RefTypeOK, RefOwnerTypeOK, RefWireTypeOK
<1>7. Went
  BY <1>2, <1>3 DEF Went
<1> QED BY <1>3, <1>5, <1>6, <1>7, TypesJoin DEF Advanced

\* The reservation in another phase.
LEMMA ToTyped ==
  ASSUME RefTypeOK, Busy, NEW phase \in RefPhases
  PROVE  /\ To(phase) \in RefReservations
         /\ To(phase).txn = rRes.txn /\ To(phase).joint = rRes.joint /\ To(phase).policy = rRes.policy
         /\ To(phase).phase = phase /\ To(phase).in = rRes.in /\ To(phase).by = rRes.by
         /\ To(phase).uid = rRes.uid /\ To(phase).ack = rRes.ack /\ To(phase).armed = rRes.armed
<1>1. rRes \in RefReservations
  BY ReservationTyped
<1> QED BY <1>1 DEF To, RefReservations

\* Nothing is received and nothing else changes.
LEMMA RestKept ==
  ASSUME RefTypeOK, RefRest, rDev' \in [RefJoints -> RefDevices] PROVE RestTypes'
BY TypesSplit DEF RefRest, RestTypes, queueVars

\* No device was heard.
LEMMA DevicesSame ==
  ASSUME RefTypeOK, rDev' = rDev
  PROVE  rDev' \in [RefJoints -> RefDevices] /\ \A j \in RefJoints : DeviceGoes(rDev[j], rDev'[j])
BY DeviceSame DEF RefTypeOK, RefOwnerTypeOK

\* A deadline, a hazard or a discontinuity ends the acquisition.
LEMMA QuietEnds ==
  ASSUME RefTypeOK, Busy, EndQuietly PROVE Advanced /\ EndedBadly
<1>1. UNCHANGED <<rPend, rJobs, queueVars, rSpoilt, rBad>> /\ rDev' = rDev
  BY DEF EndQuietly
<1>2. RestTypes'
  BY TypesSplit DEF EndQuietly, RestTypes, queueVars
<1>3. \A j \in RefJoints : DeviceGoes(rDev[j], rDev'[j])
  BY <1>1, DevicesSame
<1>4. Ended(<<>>, "failed", NoRead, FALSE)
  BY DEF EndQuietly
<1>5. <<>> \in Seq(RefFrames)
  OBVIOUS
<1> QED BY <1>1, <1>2, <1>3, <1>4, <1>5, EndedFails

\* BaselineStop.
LEMMA BaselineStopAdvances == ASSUME RefTypeOK, BaselineStop PROVE Busy /\ Advanced
<1>1. Busy /\ RefRest
  BY DEF BaselineStop, In
<1>2. rRes.joint \in RefJoints /\ rRes \in RefReservations /\ rStop \in Nat
  BY <1>1, ReservationTyped DEF RefTypeOK, RefOwnerTypeOK
<1>3. rDev' = rDev /\ UNCHANGED <<rPend, rJobs, queueVars, rSpoilt, rBad>>
  BY <1>1 DEF BaselineStop, RefRest
<1>4. RestTypes' /\ \A j \in RefJoints : DeviceGoes(rDev[j], rDev'[j])
  BY <1>1, <1>3, DevicesSame, RestKept
<1> DEFINE res == [To("DrainOld") EXCEPT !.stop = rStop + 1]
<1>5. CASE Goes(StopFrames, res) /\ rStop' = rStop + 1 /\ rEcho' = {} /\ rFault' = rFault
           /\ rTxn' = RefObserve(rTxn, After)
  <2>1. "DrainOld" \in RefPhases /\ rStop + 1 \in Nat
    BY <1>2 DEF RefPhases
  <2>2. To("DrainOld") \in RefReservations
    BY <1>1, <2>1, ToTyped
  <2>3. res \in RefReservations /\ res.txn = rRes.txn /\ res.joint = rRes.joint
        /\ res.policy = rRes.policy
    BY <1>1, <2>1, <2>2, ToTyped DEF RefReservations
  <2>4. rStop' \in Nat /\ rStop <= rStop' /\ rEcho' \subseteq RefJoints /\ rFault' \in BOOLEAN
    BY <1>2, <1>5 DEF RefTypeOK, RefOwnerTypeOK
  <2> HIDE DEF res
  <2> QED BY <1>1, <1>3, <1>4, <1>5, <2>3, <2>4, StopsReachAll, GoesOn
<1>6. CASE RefWriteFails([to |-> rRes.joint, kind |-> "stop", txn |-> 0])
  <2>1. [to |-> rRes.joint, kind |-> "stop", txn |-> 0] \in RefFrames
    BY <1>2 DEF RefFrames
  <2> QED BY <1>1, <1>3, <1>4, <1>6, <2>1, WriteFailsEnds
<1> QED BY <1>1, <1>5, <1>6 DEF BaselineStop

\* RequestIdentity and RequestReadback.
LEMMA RequestAdvances ==
  ASSUME RefTypeOK, NEW phase, NEW kind \in {"id", "read"}, NEW next \in RefPhases,
         RefRequest(phase, kind, next)
  PROVE  Busy /\ Advanced
<1>1. Busy /\ RefRest
  BY DEF RefRequest, In
<1>2. <<Frame(rRes.joint, kind)>> \in Seq(RefFrames) /\ Frame(rRes.joint, kind) \in RefFrames
  <2>1. <<Frame(rRes.joint, kind)>> \in Seq(RefFrames)
    BY <1>1, FrameTyped
  <2> QED BY <1>1, <2>1, ReservationTyped DEF Frame, RefFrames
<1>3. rDev' = rDev /\ UNCHANGED <<rPend, rJobs, queueVars, rSpoilt, rBad>>
  BY <1>1 DEF RefRequest, RefRest
<1>4. RestTypes' /\ \A j \in RefJoints : DeviceGoes(rDev[j], rDev'[j])
  BY <1>1, <1>3, DevicesSame, RestKept
<1> DEFINE res == [To(next) EXCEPT !.in = NoReplies]
<1>5. CASE Goes(<<Frame(rRes.joint, kind)>>, res) /\ UNCHANGED <<rStop, rEcho, rFault>>
           /\ rTxn' = RefObserve(rTxn, After)
  <2>1. NoReplies \in RefAnswers
    BY DEF NoReplies, RefAnswers, RefReads, NoRead
  <2>2. To(next) \in RefReservations
    BY <1>1, ToTyped
  <2>3. res \in RefReservations /\ res.txn = rRes.txn /\ res.joint = rRes.joint
        /\ res.policy = rRes.policy
    BY <1>1, <2>1, <2>2, ToTyped DEF RefReservations
  <2>4. rStop' \in Nat /\ rStop <= rStop' /\ rEcho' \subseteq RefJoints /\ rFault' \in BOOLEAN
    BY <1>5 DEF RefTypeOK, RefOwnerTypeOK
  <2> HIDE DEF res
  <2> QED BY <1>1, <1>2, <1>3, <1>4, <1>5, <2>3, <2>4, GoesOn
<1>6. CASE RefWriteFails(Frame(rRes.joint, kind))
  BY <1>1, <1>2, <1>3, <1>4, <1>6, WriteFailsEnds
<1> QED BY <1>1, <1>5, <1>6 DEF RefRequest

\* ArmTarget.
LEMMA ArmAdvances == ASSUME RefTypeOK, ArmTarget PROVE Busy /\ Advanced
<1>1. Busy /\ RefRest
  BY DEF ArmTarget, In
<1>2. <<Frame(rRes.joint, "enable")>> \in Seq(RefFrames) /\ Frame(rRes.joint, "enable") \in RefFrames
      /\ rRes.joint \in RefJoints
  <2>1. <<Frame(rRes.joint, "enable")>> \in Seq(RefFrames)
    BY <1>1, FrameTyped
  <2> QED BY <1>1, <2>1, ReservationTyped DEF Frame, RefFrames
<1>3. rDev' = rDev /\ UNCHANGED <<rPend, rJobs, queueVars, rSpoilt, rBad>>
  BY <1>1 DEF ArmTarget, RefRest
<1>4. RestTypes' /\ \A j \in RefJoints : DeviceGoes(rDev[j], rDev'[j])
  BY <1>1, <1>3, DevicesSame, RestKept
<1> DEFINE res == [To("DrainPostArm") EXCEPT !.armed = TRUE]
<1>5. CASE Goes(<<Frame(rRes.joint, "enable")>>, res) /\ UNCHANGED <<rStop, rFault>>
           /\ rEcho' = rEcho \union {rRes.joint} /\ rTxn' = RefObserve(rTxn, After)
  <2>1. "DrainPostArm" \in RefPhases
    BY DEF RefPhases
  <2>2. To("DrainPostArm") \in RefReservations
    BY <1>1, <2>1, ToTyped
  <2>3. res \in RefReservations /\ res.txn = rRes.txn /\ res.joint = rRes.joint
        /\ res.policy = rRes.policy
    BY <1>1, <2>1, <2>2, ToTyped DEF RefReservations
  <2>4. rStop' \in Nat /\ rStop <= rStop' /\ rEcho' \subseteq RefJoints /\ rFault' \in BOOLEAN
    BY <1>2, <1>5 DEF RefTypeOK, RefOwnerTypeOK
  <2> HIDE DEF res
  <2> QED BY <1>1, <1>2, <1>3, <1>4, <1>5, <2>3, <2>4, GoesOn
<1>6. CASE RefWriteFails(Frame(rRes.joint, "enable"))
  BY <1>1, <1>2, <1>3, <1>4, <1>6, WriteFailsEnds
<1> QED BY <1>1, <1>5, <1>6 DEF ArmTarget

\* SetZero begins a new coordinate.
LEMMA SetZeroAdvances == ASSUME RefTypeOK, RefSetZero PROVE Busy /\ Advanced
<1>1. Busy /\ RefRest
  BY DEF RefSetZero, In
<1>2. <<Frame(rRes.joint, "zero")>> \in Seq(RefFrames) /\ Frame(rRes.joint, "zero") \in RefFrames
      /\ rRes.joint \in RefJoints
  <2>1. <<Frame(rRes.joint, "zero")>> \in Seq(RefFrames)
    BY <1>1, FrameTyped
  <2> QED BY <1>1, <2>1, ReservationTyped DEF Frame, RefFrames
<1> DEFINE d == rDev[rRes.joint]
           e == NewCoordinate(d)
<1>3. rDev \in [RefJoints -> RefDevices] /\ d \in RefDevices
  BY <1>2 DEF RefTypeOK, RefOwnerTypeOK
<1>4. e \in RefDevices /\ e.epoch = d.epoch + 1
  <2>1. d.epoch + 1 \in Nat
    BY <1>3 DEF RefDevices
  <2> HIDE DEF d
  <2> QED BY <1>3, <2>1 DEF RefDevices, NewCoordinate
<1>5. rDev' = [rDev EXCEPT ![rRes.joint] = e]
  BY <1>2, <1>3 DEF RefSetZero
<1>6. DeviceGoes(d, e)
  BY <1>3, <1>4 DEF DeviceGoes, RefDevices
<1> HIDE DEF e
<1>7. rDev' \in [RefJoints -> RefDevices] /\ rDev'[rRes.joint] = e
      /\ \A j \in RefJoints : DeviceGoes(rDev[j], rDev'[j])
  BY <1>2, <1>3, <1>4, <1>5, <1>6, DeviceSame
<1>8. UNCHANGED <<rPend, rJobs, queueVars, rSpoilt, rBad>> /\ RestTypes'
  BY <1>1, <1>7, RestKept DEF RefRest
<1> DEFINE res == [To("AwaitAck") EXCEPT !.epoch = e.epoch]
<1>9. CASE Goes(<<Frame(rRes.joint, "zero")>>, [To("AwaitAck") EXCEPT !.epoch = rDev'[rRes.joint].epoch])
           /\ UNCHANGED <<rStop, rEcho, rFault>> /\ rTxn' = RefObserve(rTxn, After)
  <2>1. "AwaitAck" \in RefPhases /\ e.epoch \in Nat
    BY <1>4 DEF RefPhases, RefDevices
  <2>2. To("AwaitAck") \in RefReservations
    BY <1>1, <2>1, ToTyped
  <2>3. res \in RefReservations /\ res.txn = rRes.txn /\ res.joint = rRes.joint
        /\ res.policy = rRes.policy
    BY <1>1, <2>1, <2>2, ToTyped DEF RefReservations
  <2>4. rStop' \in Nat /\ rStop <= rStop' /\ rEcho' \subseteq RefJoints /\ rFault' \in BOOLEAN
    BY <1>9 DEF RefTypeOK, RefOwnerTypeOK
  <2>5. Goes(<<Frame(rRes.joint, "zero")>>, res)
    BY <1>7, <1>9
  <2> HIDE DEF res
  <2> QED BY <1>1, <1>2, <1>7, <1>8, <1>9, <2>3, <2>4, <2>5, GoesOn
<1>10. CASE RefWriteFails(Frame(rRes.joint, "zero"))
  BY <1>1, <1>2, <1>7, <1>8, <1>10, WriteFailsEnds
<1> QED BY <1>1, <1>9, <1>10 DEF RefSetZero

\* A receive, whatever the phase makes of it.
LEMMA DrainRest ==
  ASSUME RefTypeOK, rRx' = <<>>, rDev' \in [RefJoints -> RefDevices],
         UNCHANGED <<rPend, rJobs, rAt, rDrive, queueVars, rOrders, rMishaps, rSpoilt, rBad>>
  PROVE  RestTypes'
<1>1. <<>> \in Seq(RefEchoes \union RefReplies)
  OBVIOUS
<1> QED BY <1>1, TypesSplit DEF RestTypes, queueVars

\* A receive that fails.
LEMMA DrainFailsAdvances == ASSUME RefTypeOK, DrainFails PROVE Busy /\ Advanced
<1>1. Busy
  BY DEF DrainFails, In
<1>2. /\ rDev' = RefReceived(FALSE).dev /\ rRx' = <<>> /\ Ended(<<>>, "failed", NoRead, TRUE)
      /\ UNCHANGED <<rPend, rJobs, rAt, rDrive, queueVars, rOrders, rMishaps, rSpoilt, rBad>>
  BY DEF DrainFails
<1>3. rDev' \in [RefJoints -> RefDevices] /\ \A j \in RefJoints : DeviceGoes(rDev[j], rDev'[j])
  BY <1>2, ReceivedGoes
<1>4. RestTypes'
  BY <1>2, <1>3, DrainRest
<1>5. <<>> \in Seq(RefFrames)
  OBVIOUS
<1> QED BY <1>1, <1>2, <1>3, <1>4, <1>5, EndedFails

\* The phase after a clean receive.
LEMMA PhaseTyped ==
  ASSUME RefTypeOK, Busy, NEW r, NEW settled PROVE PhaseAfter(r, settled) \in RefPhases
<1>1. rRes.phase \in RefPhases
  BY ReservationTyped DEF RefReservations
<1> QED BY <1>1 DEF PhaseAfter, RefPhases

\* The reservation after a clean receive.
LEMMA ReceivedTyped ==
  ASSUME RefTypeOK, Busy, NEW r, r.in \in RefAnswers, NEW next \in RefPhases
  PROVE  /\ ReservationAfter(r, next) \in RefReservations
         /\ ReservationAfter(r, next).txn = rRes.txn /\ ReservationAfter(r, next).joint = rRes.joint
         /\ ReservationAfter(r, next).policy = rRes.policy /\ ReservationAfter(r, next).phase = next
         /\ ReservationAfter(r, next).in = r.in /\ ReservationAfter(r, next).armed = rRes.armed
         /\ ReservationAfter(r, next).by = IF next = "AwaitReportingOff" THEN r.in.by ELSE rRes.by
<1> DEFINE base == IF next = rRes.phase THEN rRes ELSE To(next)
           uid == IF next = "AwaitReportingOff" THEN r.in.uid ELSE base.uid
           by == IF next = "AwaitReportingOff" THEN r.in.by ELSE base.by
           ack == base.ack \/ next = "RequestReadback"
           res == [base EXCEPT !.in = r.in, !.uid = uid, !.by = by, !.ack = ack]
<1>1. /\ base \in RefReservations /\ base.txn = rRes.txn /\ base.joint = rRes.joint
      /\ base.policy = rRes.policy /\ base.phase = next /\ base.by = rRes.by /\ base.armed = rRes.armed
  <2>1. CASE next = rRes.phase
    BY <2>1, ReservationTyped
  <2>2. CASE next # rRes.phase
    BY <2>2, ToTyped
  <2> QED BY <2>1, <2>2
<1> HIDE DEF base
<1>2. uid \in Nat /\ by \in Nat /\ ack \in BOOLEAN
  BY <1>1 DEF RefAnswers, RefReservations
<1>3. ReservationAfter(r, next) = res
  BY <1>1 DEF ReservationAfter, base, RefReservations
<1>4. by = IF next = "AwaitReportingOff" THEN r.in.by ELSE rRes.by
  BY <1>1
<1> HIDE DEF uid, by, ack
<1>5. res \in RefReservations
  BY <1>1, <1>2 DEF RefReservations
<1>6. /\ res.txn = base.txn /\ res.joint = base.joint /\ res.policy = base.policy
      /\ res.phase = base.phase /\ res.in = r.in /\ res.by = by /\ res.armed = base.armed
  BY <1>1 DEF RefReservations
<1> HIDE DEF res
<1> QED BY <1>1, <1>3, <1>4, <1>5, <1>6

\* A receive that is judged by the phase.
LEMMA DrainAdvances == ASSUME RefTypeOK, RefDrain PROVE Busy /\ Advanced
<1>1. Busy /\ rRx' = <<>>
      /\ UNCHANGED <<rPend, rJobs, rAt, rDrive, queueVars, rOrders, rMishaps, rSpoilt, rBad>>
  BY DEF RefDrain, In
<1>2. PICK lim, settled, again \in BOOLEAN :
        DrainOutcome(RefReceived(lim), PhaseAfter(RefReceived(lim), settled), again)
  BY DEF RefDrain
<1> DEFINE r == RefReceived(lim)
           next == PhaseAfter(r, settled)
<1>3. r.dev \in [RefJoints -> RefDevices] /\ \A j \in RefJoints : DeviceGoes(rDev[j], r.dev[j])
  BY ReceivedGoes
<1>4. r.in = RepliesIn /\ RepliesIn \in RefAnswers /\ r.echo \subseteq RefJoints
  <2>1. r.in = RepliesIn /\ RepliesIn \in RefAnswers
    BY <1>1, AnswersTyped DEF RefReceived
  <2>2. r.echo \subseteq rEcho
    BY DEF RefReceived
  <2> QED BY <2>1, <2>2 DEF RefTypeOK, RefOwnerTypeOK
<1>5. rRes.joint \in RefJoints /\ next \in RefPhases
  BY <1>1, ReservationTyped, PhaseTyped
<1>6. <<>> \in Seq(RefFrames) /\ <<Frame(rRes.joint, "id")>> \in Seq(RefFrames)
  BY <1>1, FrameTyped
<1> HIDE DEF r, next
<1>7. CASE rDev' = r.dev /\ (Ended(<<>>, "failed", NoRead, TRUE) \/ Ended(<<>>, "failed", NoRead, FALSE))
  <2>1. RestTypes' /\ \A j \in RefJoints : DeviceGoes(rDev[j], rDev'[j])
    BY <1>1, <1>3, <1>7, DrainRest
  <2> QED BY <1>1, <1>6, <1>7, <2>1, EndedFails
<1>8. CASE /\ ReadBack(r)
           /\ rDev' = [r.dev EXCEPT ![rRes.joint] = ObservePosition(@, r.in.read.coord)]
           /\ IF ReadBackHolds(r) THEN Ended(<<>>, "staged", r.in.read, FALSE)
                                  ELSE Ended(<<>>, "failed", NoRead, FALSE)
  <2> DEFINE d == r.dev[rRes.joint]
             coord == RepliesIn.read.coord
             e == ObservePosition(d, coord)
  <2>0. d \in RefDevices /\ RepliesIn.read \in RefReads
    BY <1>3, <1>4, <1>5 DEF RefAnswers
  <2>1. RepliesIn.read # NoRead /\ coord \in Coords
    BY <1>4, <1>8, <2>0 DEF ReadBack, RefReads
  <2>2. DeviceGoes(d, e) /\ e \in RefDevices
    BY <2>0, <2>1, ObserveGoes DEF DeviceGoes
  <2>3. rDev' = [r.dev EXCEPT ![rRes.joint] = e]
    BY <1>4, <1>8
  <2>4. DeviceGoes(rDev[rRes.joint], d)
    BY <1>3, <1>5
  <2>5. DeviceGoes(rDev[rRes.joint], e)
    BY <2>0, <2>2, <2>4, <1>5 DEF DeviceGoes, RefDevices, RefTypeOK, RefOwnerTypeOK
  <2>6. /\ rDev' \in [RefJoints -> RefDevices] /\ rDev'[rRes.joint] = e
        /\ \A j \in RefJoints : DeviceGoes(rDev[j], rDev'[j])
    <3> HIDE DEF e
    <3> QED BY <1>3, <1>5, <2>2, <2>3, <2>5
  <2>7. RestTypes'
    BY <1>1, <2>6, DrainRest
  <2>8. CASE ~ReadBackHolds(r)
    BY <1>1, <1>6, <1>8, <2>6, <2>7, <2>8, EndedFails
  <2>9. CASE ReadBackHolds(r)
    <3>1. Ended(<<>>, "staged", RepliesIn.read, FALSE)
      BY <1>4, <1>8, <2>9
    <3>2. /\ CoreTypes'
          /\ rRes' = NoRes /\ Weaker(rAuth, rAuth') /\ rStop <= rStop'
          /\ UNCHANGED <<rSeq, rDue, rPolicy>>
          /\ \A t \in Txns \ {rRes.txn} : Aged(rTxn[t], rTxn'[t])
          /\ \E q, ok : /\ EndOf("staged", RepliesIn.read, ok, rTxn[rRes.txn], q)
                        /\ Aged(q, rTxn'[rRes.txn])
      BY <1>1, <1>6, <2>0, <3>1, EndedTypes
    <3>3. coord = "zero" /\ d.seen \in {"none", "zero"} /\ d.epoch = rRes.epoch
      BY <1>4, <2>9 DEF ReadBackHolds
    <3>4. e.epoch = rRes.epoch /\ e.seen = "zero"
      BY <2>0, <3>3 DEF ObservePosition, RefDevices
    <3>5. EndedStaged
      BY <1>8, <2>1, <2>6, <3>2, <3>3, <3>4 DEF EndedStaged, ReadBack
    <3> QED BY <1>1, <2>6, <2>7, <3>2, <3>5, TypesJoin DEF Advanced
  <2> QED BY <2>8, <2>9
<1>9. CASE /\ rDev' = r.dev
           /\ Goes(IF again THEN <<Frame(rRes.joint, "id")>> ELSE <<>>, ReservationAfter(r, next))
           /\ rEcho' = r.echo
           /\ UNCHANGED <<rStop, rFault>>
           /\ rTxn' = RefObserve(rTxn, After)
  <2>1. RestTypes' /\ \A j \in RefJoints : DeviceGoes(rDev[j], rDev'[j])
    BY <1>1, <1>3, <1>9, DrainRest
  <2>2. /\ ReservationAfter(r, next) \in RefReservations
        /\ ReservationAfter(r, next).txn = rRes.txn /\ ReservationAfter(r, next).joint = rRes.joint
        /\ ReservationAfter(r, next).policy = rRes.policy
    BY <1>1, <1>4, <1>5, ReceivedTyped
  <2>3. rStop' \in Nat /\ rStop <= rStop' /\ rEcho' \subseteq RefJoints /\ rFault' \in BOOLEAN
    BY <1>4, <1>9 DEF RefTypeOK, RefOwnerTypeOK
  <2>4. (IF again THEN <<Frame(rRes.joint, "id")>> ELSE <<>>) \in Seq(RefFrames)
    BY <1>6
  <2> QED BY <1>1, <1>9, <2>1, <2>2, <2>3, <2>4, GoesOn
<1>10. DrainOutcome(r, next, again)
  BY <1>2 DEF r, next
<1> QED
  <2>1. CASE r.hazard
    BY <1>1, <1>10, <1>7, <2>1 DEF DrainOutcome
  <2>2. CASE ~r.hazard /\ ClaimedElsewhere(r)
    BY <1>1, <1>10, <1>7, <2>2 DEF DrainOutcome, ClaimedElsewhere, ReadBack
  <2>3. CASE ~r.hazard /\ ~ClaimedElsewhere(r) /\ ReadBack(r)
    BY <1>1, <1>10, <1>8, <2>3 DEF DrainOutcome
  <2>4. CASE ~r.hazard /\ ~ClaimedElsewhere(r) /\ ~ReadBack(r)
    BY <1>1, <1>10, <1>9, <2>4 DEF DrainOutcome
  <2> QED BY <2>1, <2>2, <2>3, <2>4

\* Every step of an acquisition goes on, fails or stages its evidence.
LEMMA AdvanceCases == ASSUME RefTypeOK, Advance PROVE Busy /\ Advanced
<1>1. CASE AdvanceExpired \/ AdvanceHazard \/ AdvanceDiscontinuous
  BY <1>1, QuietEnds DEF AdvanceExpired, AdvanceHazard, AdvanceDiscontinuous
<1>2. CASE RequestIdentity \/ RequestReadback
  <2>1. {"AwaitIdentity", "AwaitReadback"} \subseteq RefPhases
    BY DEF RefPhases
  <2> QED BY <1>2, <2>1, RequestAdvances DEF RequestIdentity, RequestReadback
<1> QED BY <1>1, <1>2, BaselineStopAdvances, ArmAdvances, SetZeroAdvances, DrainAdvances,
           DrainFailsAdvances DEF Advance

\* What a step may do to an entry without endangering what rests on it.
Ages(p, q) ==
  /\ q.cause = "staged" <=> p.cause = "staged"
  /\ p.cause = "staged" => /\ q.joint = p.joint /\ q.read = p.read /\ q.by = p.by /\ q.epoch = p.epoch
                           /\ q.stop = p.stop /\ q.policy = p.policy
  /\ q.stage = "current" => p.stage = "current"
  /\ p.stage # "current" => /\ p.result = "durable" => q.result = "durable"
                            /\ p.commit = "Complete" => q.commit = "Complete"
  /\ q.commit # "none" => p.commit # "none" \/ p.stage = "current"
NoneCurrent == \A t \in Txns : rTxn[t].stage # "current"
Ageing ==
  /\ RefTypeOK'
  /\ \A t \in Txns : Ages(rTxn[t], rTxn'[t])
  /\ Weaker(rAuth, rAuth')
  /\ \A j \in RefJoints : DeviceGoes(rDev[j], rDev'[j])
  /\ rStop <= rStop' /\ rPolicy <= rPolicy'
  /\ (rDue => rDue') \/ NoneCurrent'
  /\ \/ rSpoilt' = rSpoilt
     \/ /\ rSpoilt' = rSpoilt \union Staged
        /\ rStop < rStop' \/ rPolicy < rPolicy' \/ rDue' \/ NoneCurrent'
NewestKept ==
  /\ rSeq' = rSeq
  /\ Busy' => /\ Busy /\ rRes'.txn = rRes.txn /\ rRes'.joint = rRes.joint
              /\ rRes'.policy = rRes.policy
              /\ LET p == rTxn[rRes.txn]
                     q == rTxn'[rRes.txn]
                 IN q.joint = p.joint /\ q.cause = p.cause /\ q.stage = p.stage /\ q.commit = p.commit
  /\ \A t \in Txns : t >= rSeq /\ rTxn[t] = NoOutcome => rTxn'[t] = NoOutcome

\* Ageing leaves what rests on an entry alone.
LEMMA AgedAges == ASSUME NEW p, NEW q, Aged(p, q) PROVE Ages(p, q)
BY DEF Aged, Ages

\* So does no change.
LEMMA AgesSame == \A p : Ages(p, p)
BY DEF Ages

\* An entry without outcome has nothing to age.
LEMMA NothingAges == ASSUME NEW q, Aged(NoOutcome, q) PROVE q = NoOutcome
<1>1. /\ q.joint = "none" /\ q.cause = "none" /\ q.loose = FALSE /\ q.stop = 0 /\ q.gen = 0
      /\ q.epoch = 0 /\ q.uid = 0 /\ q.by = 0 /\ q.policy = 0 /\ q.read = NoRead
      /\ q.result = "none" /\ q.stage = "none" /\ q.commit = "none"
  BY DEF Aged, NoOutcome
<1>2. q \in RefOutcomes
  BY DEF Aged
<1>3. q = [joint |-> q.joint, cause |-> q.cause, stage |-> q.stage, loose |-> q.loose,
           stop |-> q.stop, gen |-> q.gen, epoch |-> q.epoch, uid |-> q.uid, by |-> q.by,
           policy |-> q.policy, read |-> q.read, commit |-> q.commit, result |-> q.result]
  BY <1>2 DEF RefOutcomes
<1> QED BY <1>1, <1>3 DEF NoOutcome

\* The evidence of one entry, and the grants, through a step that ages what they rest on.
LEMMA EntryKept ==
  ASSUME RefTypeOK, RefTypeOK', EvidenceStands, NEW t \in Txns, Ages(rTxn[t], rTxn'[t]),
         \A j \in RefJoints : DeviceGoes(rDev[j], rDev'[j]),
         rStop <= rStop', rPolicy <= rPolicy', (rDue => rDue') \/ NoneCurrent',
         \/ rSpoilt' = rSpoilt
         \/ /\ rSpoilt' = rSpoilt \union Staged
            /\ rStop < rStop' \/ rPolicy < rPolicy' \/ rDue' \/ NoneCurrent'
  PROVE  /\ rTxn'[t].stage = "current" \/ rTxn'[t].commit # "none" \/ t \in rSpoilt'
              => rTxn'[t].cause = "staged"
         /\ rTxn'[t].cause = "staged" => Evidence(t)'
         /\ rTxn'[t].stage = "current" => /\ rTxn'[t].stop <= rStop' /\ rTxn'[t].policy <= rPolicy'
                                          /\ t \in rSpoilt' => Overtaken(t)'
<1> DEFINE p == rTxn[t]
           q == rTxn'[t]
<1>1. Ages(p, q) /\ p \in RefOutcomes /\ q \in RefOutcomes
  BY DEF RefTypeOK, RefOwnerTypeOK
<1>2. /\ p.stage = "current" \/ p.commit # "none" \/ t \in rSpoilt => p.cause = "staged"
      /\ p.cause = "staged" => Evidence(t)
      /\ p.stage = "current" => /\ p.stop <= rStop /\ p.policy <= rPolicy
                                /\ t \in rSpoilt => Overtaken(t)
  BY DEF EvidenceStands
<1>3. q.stage = "current" \/ q.commit # "none" \/ t \in rSpoilt' => q.cause = "staged"
  BY <1>1, <1>2 DEF Ages, Staged
<1>4. q.cause = "staged" => Evidence(t)'
  <2> SUFFICES ASSUME q.cause = "staged" PROVE Evidence(t)'
    OBVIOUS
  <2>1. p.cause = "staged" /\ q.joint = p.joint /\ q.read = p.read /\ q.epoch = p.epoch
        /\ q.by = p.by
    BY <1>1 DEF Ages
  <2>2. /\ p.joint \in RefJoints /\ p.read.coord = "zero"
        /\ p.epoch <= rDev[p.joint].epoch
        /\ (p.epoch = rDev[p.joint].epoch => rDev[p.joint].seen = "zero")
        /\ p.by = t => p.read.asked = t
    BY <1>2, <2>1 DEF Evidence
  <2>3. /\ DeviceGoes(rDev[p.joint], rDev'[p.joint])
        /\ rDev[p.joint] \in RefDevices /\ rDev'[p.joint] \in RefDevices
    BY <2>2 DEF DeviceGoes, RefTypeOK, RefOwnerTypeOK
  <2>4. /\ p.epoch <= rDev'[p.joint].epoch
        /\ (p.epoch = rDev'[p.joint].epoch => rDev'[p.joint].seen = "zero")
    BY <1>1, <2>2, <2>3 DEF DeviceGoes, RefDevices, RefOutcomes
  <2> QED BY <2>1, <2>2, <2>4 DEF Evidence
<1>5. /\ rStop \in Nat /\ rStop' \in Nat /\ rPolicy \in Nat /\ rPolicy' \in Nat
      /\ p.stop \in Nat /\ p.policy \in Nat
  BY <1>1 DEF RefTypeOK, RefOwnerTypeOK, RefOutcomes
<1>6. ASSUME q.stage = "current"
      PROVE  q.stop <= rStop' /\ q.policy <= rPolicy' /\ (t \in rSpoilt' => Overtaken(t)')
  <2>1. p.stage = "current" /\ p.cause = "staged" /\ q.stop = p.stop /\ q.policy = p.policy
    BY <1>1, <1>2, <1>6 DEF Ages
  <2>2. (rDue => rDue') /\ ~NoneCurrent'
    BY <1>6 DEF NoneCurrent
  <2>3. p.stop <= rStop /\ p.policy <= rPolicy
    BY <1>2, <2>1
  <2>4. CASE t \in rSpoilt
    BY <1>2, <1>5, <2>1, <2>2, <2>3, <2>4 DEF Overtaken
  <2>5. CASE t \notin rSpoilt /\ t \in rSpoilt'
    BY <1>5, <2>1, <2>2, <2>3, <2>5 DEF Overtaken
  <2>6. CASE t \notin rSpoilt'
    BY <1>5, <2>1, <2>3, <2>6
  <2> QED BY <1>5, <2>1, <2>3, <2>4, <2>5, <2>6
<1> QED BY <1>3, <1>4, <1>6

\* The grants, when the entries they rest on only age.
LEMMA GrantsKept ==
  ASSUME RefTypeOK, GrantsStand, Weaker(rAuth, rAuth'),
         \A t \in Txns : rTxn[t].cause = "staged" => Ages(rTxn[t], rTxn'[t])
  PROVE  GrantsStand'
<1> SUFFICES ASSUME NEW j \in RefJoints
             PROVE  LET g == rAuth'.grant[j] IN
                    /\ g.txn # 0 => rTxn'[g.txn].cause = "staged" /\ rTxn'[g.txn].stage # "current"
                    /\ g.live => /\ g.txn # 0 /\ rTxn'[g.txn].joint = j
                                 /\ g.epoch = rTxn'[g.txn].epoch
                                 /\ rTxn'[g.txn].result = "durable"
                                 /\ rTxn'[g.txn].commit = "Complete"
  BY DEF GrantsStand
<1> DEFINE f == rAuth.grant[j]
           g == rAuth'.grant[j]
<1>1. g.txn = f.txn /\ g.epoch = f.epoch /\ (g.live => f.live) /\ f \in RefGrants
  <2>1. rAuth \in RefAuthorities
    BY DEF RefTypeOK, RefOwnerTypeOK
  <2> QED BY <2>1, AuthorityParts DEF Weaker
<1>2. /\ f.txn # 0 => rTxn[f.txn].cause = "staged" /\ rTxn[f.txn].stage # "current"
      /\ f.live => /\ f.txn # 0 /\ rTxn[f.txn].joint = j /\ f.epoch = rTxn[f.txn].epoch
                   /\ rTxn[f.txn].result = "durable" /\ rTxn[f.txn].commit = "Complete"
  BY DEF GrantsStand
<1>3. ASSUME f.txn # 0 PROVE Ages(rTxn[f.txn], rTxn'[f.txn])
  <2>1. f.txn \in Txns
    BY <1>1, <1>3, ReferenceAssumption DEF RefGrants, Txns, ReferenceAssumption
  <2> QED BY <1>2, <1>3, <2>1
<1> HIDE DEF f, g
<1>4. g.txn # 0 => rTxn'[g.txn].cause = "staged" /\ rTxn'[g.txn].stage # "current"
  BY <1>1, <1>2, <1>3 DEF Ages
<1>5. g.live => /\ g.txn # 0 /\ rTxn'[g.txn].joint = j /\ g.epoch = rTxn'[g.txn].epoch
                /\ rTxn'[g.txn].result = "durable" /\ rTxn'[g.txn].commit = "Complete"
  BY <1>1, <1>2, <1>3 DEF Ages
<1> QED BY <1>4, <1>5 DEF g

\* Ageing keeps the evidence and the grants.
LEMMA AgeingKeeps ==
  ASSUME RefTypeOK, EvidenceStands, GrantsStand, Ageing PROVE EvidenceStands' /\ GrantsStand'
<1>1. EvidenceStands'
  BY EntryKept DEF EvidenceStands, Ageing
<1>2. GrantsStand'
  BY GrantsKept DEF Ageing
<1> QED BY <1>1, <1>2

\* The newest acquisition stays the newest.
LEMMA NewestStays ==
  ASSUME RefTypeOK, NewestRuns, NewestKept, rPolicy <= rPolicy', rPolicy' \in Nat PROVE NewestRuns'
<1>1. \A t \in Txns : t >= rSeq' => rTxn'[t] = NoOutcome
  BY DEF NewestRuns, NewestKept
<1>2. ASSUME Busy'
      PROVE  /\ rSeq' = rRes'.txn + 1 /\ rRes'.policy <= rPolicy'
             /\ LET tx == rTxn'[rRes'.txn] IN
                tx.joint = rRes'.joint /\ tx.cause = "none" /\ tx.stage = "none" /\ tx.commit = "none"
  <2>1. Busy /\ rRes.policy \in Nat /\ rPolicy \in Nat
    BY <1>2, ReservationTyped DEF NewestKept, RefReservations, RefTypeOK, RefOwnerTypeOK
  <2>2. rRes'.policy <= rPolicy'
    BY <1>2, <2>1 DEF NewestKept, NewestRuns
  <2> QED BY <1>2, <2>1, <2>2 DEF NewestKept, NewestRuns
<1> QED BY <1>1, <1>2 DEF NewestRuns

\* An entry that did not change.
LEMMA AgedSame == ASSUME NEW p \in RefOutcomes PROVE Aged(p, p)
BY DEF Aged

\* A step that ages entries and leaves the acquisition under way alone.
LEMMA StepKeeps ==
  ASSUME RefTypeOK, NewestRuns, rSeq' = rSeq, \A t \in Txns : Aged(rTxn[t], rTxn'[t]),
         Busy' => /\ Busy /\ rRes'.txn = rRes.txn /\ rRes'.joint = rRes.joint
                  /\ rRes'.policy = rRes.policy
  PROVE  NewestKept
<1>1. \A t \in Txns : rTxn[t] = NoOutcome => rTxn'[t] = NoOutcome
  BY NothingAges
<1>2. ASSUME Busy'
      PROVE  LET p == rTxn[rRes.txn]
                 q == rTxn'[rRes.txn]
             IN q.joint = p.joint /\ q.cause = p.cause /\ q.stage = p.stage /\ q.commit = p.commit
  <2>1. Busy /\ rRes.txn \in Txns
    BY <1>2, ReservationTyped
  <2>2. rTxn[rRes.txn].stage = "none" /\ rTxn[rRes.txn].commit = "none"
    BY <2>1 DEF NewestRuns
  <2> QED BY <2>1, <2>2 DEF Aged
<1> QED BY <1>1, <1>2 DEF NewestKept

\* The same, with no new evidence and nothing spoilt.
LEMMA StepAges ==
  ASSUME RefTypeOK, RefTypeOK', NewestRuns, rSeq' = rSeq, \A t \in Txns : Aged(rTxn[t], rTxn'[t]),
         Busy' => /\ Busy /\ rRes'.txn = rRes.txn /\ rRes'.joint = rRes.joint
                  /\ rRes'.policy = rRes.policy,
         Weaker(rAuth, rAuth'), \A j \in RefJoints : DeviceGoes(rDev[j], rDev'[j]),
         rStop <= rStop', rPolicy <= rPolicy', rDue => rDue', rSpoilt' = rSpoilt
  PROVE  Ageing /\ NewestKept
<1>1. NewestKept
  BY StepKeeps
<1>2. \A t \in Txns : Ages(rTxn[t], rTxn'[t])
  BY AgedAges
<1> QED BY <1>1, <1>2 DEF Ageing

\* What an ageing step keeps.
LEMMA AgeingSteps ==
  ASSUME RefTypeOK, GrantInv, Ageing, NewestKept, FailedIsEmpty', rBad' = rBad
  PROVE  RefTypeOK' /\ GrantInv'
<1>1. RefTypeOK' /\ rPolicy <= rPolicy' /\ rPolicy' \in Nat
  BY DEF Ageing, RefTypeOK, RefOwnerTypeOK
<1>2. EvidenceStands' /\ GrantsStand'
  BY AgeingKeeps DEF GrantInv
<1>3. NewestRuns'
  BY <1>1, NewestStays DEF GrantInv
<1> QED BY <1>1, <1>2, <1>3 DEF GrantInv

\* Nothing but the wire, the queue, the orders and the mishaps changes.
LEMMA OwnerSame ==
  ASSUME RefTypeOK, RefTypeOK', GrantInv,
         UNCHANGED <<rSeq, rTxn, rAuth, rDev, rStop, rPolicy, rDue, rSpoilt>>,
         Busy' => /\ Busy /\ rRes'.txn = rRes.txn /\ rRes'.joint = rRes.joint
                  /\ rRes'.policy = rRes.policy
  PROVE  Ageing /\ NewestKept
<1>1. \A t \in Txns : Aged(rTxn[t], rTxn'[t])
  BY AgedSame DEF RefTypeOK, RefOwnerTypeOK
<1>2. Weaker(rAuth, rAuth')
  BY WeakerSame DEF RefTypeOK, RefOwnerTypeOK
<1>3. \A j \in RefJoints : DeviceGoes(rDev[j], rDev'[j])
  BY DevicesSame
<1>4. rStop <= rStop' /\ rPolicy <= rPolicy' /\ (rDue => rDue')
  BY DEF RefTypeOK, RefOwnerTypeOK
<1> QED BY <1>1, <1>2, <1>3, <1>4, StepAges DEF GrantInv

-----------------------------------------------------------------------------
\* The wire and the drives leave the owner alone.
LEMMA WireKeeps ==
  ASSUME RefTypeOK, GrantInv, OwnerRest, RefWireTypeOK' PROVE RefTypeOK' /\ GrantInv'
<1>1. UNCHANGED <<rRes, rSeq, rTxn, rPend, rJobs, rAuth, rDev, rEcho, rStop, rFault, rEstop, rPolicy,
                  rDue, rQ, rDefer, rSpoilt, rBad>>
  BY DEF OwnerRest, queueVars
<1>2. RefTypeOK'
  BY <1>1 DEF RefTypeOK, RefOwnerTypeOK
<1>3. FailedIsEmpty'
  BY <1>1 DEF FailedIsEmpty, GrantInv
<1>4. Ageing /\ NewestKept
  BY <1>1, <1>2, OwnerSame DEF Busy
<1> QED BY <1>1, <1>3, <1>4, AgeingSteps

\* The frames of a queue.
LEMMA FramesTyped ==
  ASSUME RefTypeOK
  PROVE  /\ rOut # <<>> => Head(rOut) \in RefFrames /\ Tail(rOut) \in Seq(RefFrames)
         /\ AtDrive # <<>> => Len(AtDrive) = 1 /\ AtDrive[1] \in RefFrames
<1>1. rOut \in Seq(RefFrames) /\ rAt \in Seq(RefFrames) /\ Len(rAt) <= 1
  BY DEF RefTypeOK, RefWireTypeOK
<1>2. rOut # <<>> => Head(rOut) \in RefFrames /\ Tail(rOut) \in Seq(RefFrames)
  BY <1>1
<1>3. ASSUME rAt # <<>> PROVE Len(rAt) = 1 /\ rAt[1] \in RefFrames
  <2>1. Len(rAt) \in Nat \ {0}
    BY <1>1, <1>3, EmptySeq
  <2> DEFINE n == Len(rAt)
  <2>2. n <= 1
    BY <1>1
  <2>3. n \in Nat \ {0}
    BY <2>1
  <2> HIDE DEF n
  <2>4. n = 1
    BY <2>2, <2>3
  <2> QED BY <1>1, <2>4 DEF n
<1>4. rOut # <<>> => Len(<<Head(rOut)>>) = 1 /\ <<Head(rOut)>>[1] = Head(rOut)
  OBVIOUS
<1> QED BY <1>2, <1>3, <1>4 DEF AtDrive

\* The frame a drive handles.
LEMMA HandledTyped ==
  ASSUME RefTypeOK, Handled PROVE rOut' \in Seq(RefFrames) /\ rAt' = <<>> /\ AtDrive[1] \in RefFrames
<1>1. rOut \in Seq(RefFrames)
  BY DEF RefTypeOK, RefWireTypeOK
<1>2. rAt = <<>> => rOut # <<>>
  BY DEF Handled, AtDrive
<1> QED BY <1>1, <1>2, FramesTyped DEF Handled

\* A reply carries the transaction and, if it was one, the request of its frame.
LEMMA ReplyTyped ==
  ASSUME NEW f \in [to : RefJoints, kind : {"stop", "id", "enable", "zero", "read", "report"}, txn : Nat],
         NEW d \in [run : BOOLEAN, coord : Coords, uid : Nat \ {0}]
  PROVE  /\ Reply(f, d) \in RefReplies
         /\ Reply(f, d).txn = f.txn /\ Reply(f, d).from = f.to
         /\ Reply(f, d).kind = IF f.kind \in {"id", "read"} THEN f.kind ELSE "status"
         /\ [Reply(f, d) EXCEPT !.kind = "report"] \in RefReplies
         /\ [Reply(f, d) EXCEPT !.kind = "report"].txn = f.txn
         /\ [Reply(f, d) EXCEPT !.kind = "report"].kind = "report"
BY DEF Reply, RefReplies

\* An Enable leaves the host.
LEMMA EnableLeavesKeeps == ASSUME RefTypeOK, GrantInv, EnableLeaves PROVE RefTypeOK' /\ GrantInv'
<1> DEFINE e == [from |-> Head(rOut).to, kind |-> "echo"]
<1>1. /\ rOut' = Tail(rOut) /\ rAt' = <<Head(rOut)>> /\ rRx' = Append(rRx, e)
      /\ rDrive' = rDrive /\ rLoose' = rLoose /\ OwnerRest /\ rOut # <<>>
  BY DEF EnableLeaves
<1>2. Head(rOut) \in RefFrames /\ Tail(rOut) \in Seq(RefFrames)
  BY <1>1, FramesTyped
<1>3. e \in RefEchoes
  BY <1>2 DEF RefEchoes, RefFrames
<1> HIDE DEF e
<1>4. rRx' \in Seq(RefEchoes \union RefReplies)
  BY <1>1, <1>3 DEF RefTypeOK, RefWireTypeOK
<1>5. rAt' \in Seq(RefFrames) /\ Len(rAt') <= 1
  BY <1>1, <1>2
<1>6. RefWireTypeOK'
  BY <1>1, <1>2, <1>4, <1>5 DEF RefTypeOK, RefWireTypeOK
<1> QED BY <1>1, <1>6, WireKeeps

\* What a drive makes of a frame.
LEMMA DriveAnswersTyped ==
  ASSUME RefTypeOK, DriveAnswers
  PROVE  /\ RefWireTypeOK'
         /\ \E d \in [run : BOOLEAN, coord : Coords, uid : Nat \ {0}] :
              rRx' = Append(rRx, Reply(AtDrive[1], d))
<1> DEFINE f == AtDrive[1]
           b == rDrive[f.to]
           run == CASE f.kind = "enable" -> TRUE [] f.kind = "stop" -> FALSE [] OTHER -> b.run
           coord == IF f.kind = "zero" THEN "zero" ELSE b.coord
           d == [b EXCEPT !.run = run, !.coord = coord]
           D == [run : BOOLEAN, coord : Coords, uid : Nat \ {0}]
<1>1. rOut' \in Seq(RefFrames) /\ rAt' = <<>> /\ f \in RefFrames
  BY HandledTyped DEF DriveAnswers
<1>2. b \in D /\ rDrive \in [RefJoints -> D]
  BY <1>1 DEF RefTypeOK, RefWireTypeOK, RefFrames
<1>3. run \in BOOLEAN /\ coord \in Coords
  BY <1>2 DEF Coords
<1>4. rDrive' = [rDrive EXCEPT ![f.to] = d] /\ rRx' = Append(rRx, Reply(f, d)) /\ rLoose' = rLoose
  BY <1>2 DEF DriveAnswers
<1> HIDE DEF b, f, run, coord
<1>5. d \in D
  BY <1>2, <1>3
<1> HIDE DEF d, D
<1>6. rDrive' \in [RefJoints -> D]
  BY <1>2, <1>4, <1>5
<1>7. Reply(f, d) \in RefReplies
  <2>1. f \in [to : RefJoints, kind : {"stop", "id", "enable", "zero", "read", "report"}, txn : Nat]
    BY <1>1 DEF RefFrames
  <2> QED BY <1>5, <2>1, ReplyTyped DEF D
<1>8. rRx' \in Seq(RefEchoes \union RefReplies)
  <2>1. rRx \in Seq(RefEchoes \union RefReplies)
    BY DEF RefTypeOK, RefWireTypeOK
  <2> QED BY <1>4, <1>7, <2>1
<1>9. rAt' \in Seq(RefFrames) /\ Len(rAt') <= 1
  BY <1>1
<1>10. RefWireTypeOK'
  BY <1>1, <1>4, <1>6, <1>8, <1>9 DEF RefTypeOK, RefWireTypeOK, D
<1> QED BY <1>4, <1>5, <1>10 DEF f, D

\* A drive answers.
LEMMA DriveAnswersKeeps == ASSUME RefTypeOK, GrantInv, DriveAnswers PROVE RefTypeOK' /\ GrantInv'
<1>1. OwnerRest
  BY DEF DriveAnswers
<1> QED BY <1>1, DriveAnswersTyped, WireKeeps

\* A drive misses a frame.
LEMMA DriveMissesKeeps == ASSUME RefTypeOK, GrantInv, DriveMisses PROVE RefTypeOK' /\ GrantInv'
<1>1. rOut' \in Seq(RefFrames) /\ rAt' = <<>>
  BY HandledTyped DEF DriveMisses
<1>2. rAt' \in Seq(RefFrames) /\ Len(rAt') <= 1
  BY <1>1
<1>3. UNCHANGED <<rRx, rDrive>> /\ rLoose' \in BOOLEAN /\ OwnerRest
  BY DEF DriveMisses
<1>4. RefWireTypeOK'
  BY <1>1, <1>2, <1>3 DEF RefTypeOK, RefWireTypeOK
<1> QED BY <1>3, <1>4, WireKeeps

\* A report of a drive at rest.
LEMMA ReportsTyped ==
  ASSUME RefTypeOK, RefDriveReports
  PROVE  RefWireTypeOK' /\ \E r \in RefReplies : rRx' = <<r>> /\ r.kind = "report" /\ r.txn = 0
<1>1. PICK j \in RefJoints :
        rRx' = <<[Reply([to |-> j, kind |-> "report", txn |-> 0], rDrive[j]) EXCEPT !.kind = "report"]>>
  BY DEF RefDriveReports
<1> DEFINE f == [to |-> j, kind |-> "report", txn |-> 0]
           r == [Reply(f, rDrive[j]) EXCEPT !.kind = "report"]
<1>2. f \in [to : RefJoints, kind : {"stop", "id", "enable", "zero", "read", "report"}, txn : Nat]
      /\ f.txn = 0
  OBVIOUS
<1>3. rDrive[j] \in [run : BOOLEAN, coord : Coords, uid : Nat \ {0}]
  BY DEF RefTypeOK, RefWireTypeOK
<1> HIDE DEF f
<1>4. r \in RefReplies /\ r.kind = "report" /\ r.txn = 0
  BY <1>2, <1>3, ReplyTyped
<1>5. rRx' = <<r>>
  BY <1>1 DEF f
<1> HIDE DEF r
<1>6. rRx' \in Seq(RefEchoes \union RefReplies)
  BY <1>4, <1>5
<1>7. UNCHANGED <<rOut, rAt, rDrive, rLoose>>
  BY DEF RefDriveReports
<1>8. RefWireTypeOK'
  BY <1>6, <1>7 DEF RefTypeOK, RefWireTypeOK
<1> QED BY <1>4, <1>5, <1>8

\* A drive reports by itself.
LEMMA ReportsKeeps == ASSUME RefTypeOK, GrantInv, RefDriveReports PROVE RefTypeOK' /\ GrantInv'
<1>1. OwnerRest
  BY DEF RefDriveReports
<1> QED BY <1>1, ReportsTyped, WireKeeps

\* A drive reboots or is swapped.
LEMMA RebootKeeps == ASSUME RefTypeOK, GrantInv, Reboot PROVE RefTypeOK' /\ GrantInv'
<1> DEFINE D == [run : BOOLEAN, coord : Coords, uid : Nat \ {0}]
<1>1. PICK j \in RefJoints, coord \in {"zero", "off"}, uid \in Uids :
        rDrive' = [rDrive EXCEPT ![j] = [run |-> FALSE, coord |-> coord, uid |-> uid]]
  BY DEF Reboot
<1>2. uid \in Nat \ {0}
  BY FS_CardinalityType, ReferenceAssumption DEF Uids, ReferenceAssumption
<1>3. [run |-> FALSE, coord |-> coord, uid |-> uid] \in D
  BY <1>2 DEF Coords
<1>4. rDrive \in [RefJoints -> D]
  BY DEF RefTypeOK, RefWireTypeOK
<1> HIDE DEF D
<1>5. rDrive' \in [RefJoints -> D]
  BY <1>1, <1>3, <1>4
<1>6. UNCHANGED <<rOut, rAt, rRx, rLoose>> /\ OwnerRest
  BY DEF Reboot
<1>7. RefWireTypeOK'
  BY <1>5, <1>6 DEF RefTypeOK, RefWireTypeOK, D
<1> QED BY <1>6, <1>7, WireKeeps

\* The queue and its deferred commands.
LEMMA OrderKeeps ==
  ASSUME RefTypeOK, GrantInv, OrderRest, rBad' = rBad, rDefer' \in Nat, FailedIsEmpty',
         rQ' \in [pending : Seq(RefJoints), flight : 0 .. MaxTxn, failed : BOOLEAN, closed : BOOLEAN]
  PROVE  RefTypeOK' /\ GrantInv'
<1>1. UNCHANGED <<rRes, rSeq, rTxn, rPend, rJobs, rAuth, rDev, rEcho, rStop, rFault, rEstop, rPolicy,
                  rDue, rOut, rAt, rRx, rDrive, rLoose, rSpoilt>>
  BY DEF OrderRest, wireVars
<1>2. RefTypeOK'
  BY <1>1 DEF RefTypeOK, RefOwnerTypeOK, RefWireTypeOK
<1>3. Ageing /\ NewestKept
  BY <1>1, <1>2, OwnerSame DEF Busy
<1> QED BY <1>3, AgeingSteps

\* A batch is admitted.
LEMMA AdmitKeeps == ASSUME RefTypeOK, GrantInv, RefAdmit PROVE RefTypeOK' /\ GrantInv'
<1>1. PICK js \in Batches : rQ' = [rQ EXCEPT !.pending = js, !.failed = FALSE]
  BY DEF RefAdmit
<1>2. js \in Seq(RefJoints)
  <2>1. CASE js \in {<<j>> : j \in RefJoints}
    <3>1. PICK j \in RefJoints : js = <<j>>
      BY <2>1
    <3> QED BY <3>1
  <2>2. CASE js \in {<<j, k>> : j, k \in RefJoints}
    <3>1. PICK j \in RefJoints, k \in RefJoints : js = <<j, k>>
      BY <2>2
    <3> QED BY <3>1
  <2> QED BY <2>1, <2>2 DEF Batches
<1>3. /\ rQ' \in [pending : Seq(RefJoints), flight : 0 .. MaxTxn, failed : BOOLEAN, closed : BOOLEAN]
      /\ rQ'.failed = FALSE
  <2>1. rQ \in [pending : Seq(RefJoints), flight : 0 .. MaxTxn, failed : BOOLEAN, closed : BOOLEAN]
    BY DEF RefTypeOK, RefOwnerTypeOK
  <2>2. rQ' = [rQ EXCEPT !.pending = js, !.failed = FALSE]
    BY <1>1
  <2> QED BY <1>2, <2>1, <2>2
<1>4. FailedIsEmpty' /\ rDefer' = rDefer /\ rBad' = rBad /\ OrderRest
  BY <1>3 DEF FailedIsEmpty, RefAdmit
<1> QED BY <1>3, <1>4, OrderKeeps DEF RefTypeOK, RefOwnerTypeOK

\* A command waits for the batch.
LEMMA DeferKeeps == ASSUME RefTypeOK, GrantInv, Defer PROVE RefTypeOK' /\ GrantInv'
<1>1. UNCHANGED <<rQ, rBad>> /\ OrderRest /\ QueueBusy /\ rDefer' = rDefer + 1
  BY DEF Defer
<1>2. FailedIsEmpty'
  BY <1>1 DEF FailedIsEmpty, GrantInv, QueueBusy
<1>3. /\ rQ' \in [pending : Seq(RefJoints), flight : 0 .. MaxTxn, failed : BOOLEAN, closed : BOOLEAN]
      /\ rDefer' \in Nat
  BY <1>1 DEF RefTypeOK, RefOwnerTypeOK
<1> QED BY <1>1, <1>2, <1>3, OrderKeeps

\* A command that waited runs: its batch did not fail.
LEMMA TakeKeeps == ASSUME RefTypeOK, GrantInv, TakeReadyDeferred PROVE RefTypeOK' /\ GrantInv'
<1>1. UNCHANGED rQ /\ OrderRest /\ rDefer > 0 /\ rDefer' = rDefer - 1 /\ rDefer \in Nat
  BY DEF TakeReadyDeferred, RefTypeOK, RefOwnerTypeOK
<1>2. ~rQ.failed
  BY <1>1 DEF GrantInv, FailedIsEmpty
<1>3. rBad' = rBad /\ FailedIsEmpty'
  BY <1>1, <1>2 DEF TakeReadyDeferred, FailedIsEmpty
<1>4. /\ rQ' \in [pending : Seq(RefJoints), flight : 0 .. MaxTxn, failed : BOOLEAN, closed : BOOLEAN]
      /\ rDefer' \in Nat
  BY <1>1 DEF RefTypeOK, RefOwnerTypeOK
<1> QED BY <1>1, <1>3, <1>4, OrderKeeps

\* A failed batch.
LEMMA FailedTyped ==
  ASSUME RefTypeOK, Failed
  PROVE  /\ rQ' \in [pending : Seq(RefJoints), flight : 0 .. MaxTxn, failed : BOOLEAN, closed : BOOLEAN]
         /\ rDefer' \in Nat /\ FailedIsEmpty'
<1>1. rQ' = [rQ EXCEPT !.pending = <<>>, !.flight = 0, !.failed = TRUE] /\ rDefer' = 0
  BY DEF Failed
<1>2. <<>> \in Seq(RefJoints) /\ 0 \in 0 .. MaxTxn
  BY ReferenceAssumption DEF ReferenceAssumption
<1>3. rQ'.pending = <<>> /\ rQ'.flight = 0
  BY <1>1 DEF RefTypeOK, RefOwnerTypeOK
<1> QED BY <1>1, <1>2, <1>3 DEF RefTypeOK, RefOwnerTypeOK, FailedIsEmpty

\* The queue under the E-stop.
LEMMA PumpEstopKeeps == ASSUME RefTypeOK, GrantInv, PumpEstop PROVE RefTypeOK' /\ GrantInv'
<1>1. /\ UNCHANGED <<rRes, rSeq, rTxn, rPend, rJobs, rAuth, rDev, rEcho, rStop, rFault, rEstop, rPolicy,
                     rDue, rOut, rAt, rRx, rDrive, rLoose, rSpoilt, rBad>>
      /\ Failed
  BY DEF PumpEstop, QueueRest, wireVars
<1>2. RefTypeOK' /\ FailedIsEmpty'
  BY <1>1, FailedTyped DEF RefTypeOK, RefOwnerTypeOK, RefWireTypeOK
<1>3. Ageing /\ NewestKept
  BY <1>1, <1>2, OwnerSame DEF Busy
<1> QED BY <1>1, <1>2, <1>3, AgeingSteps

\* Deadlines.
LEMMA PhaseExpiresKeeps == ASSUME RefTypeOK, GrantInv, PhaseExpires PROVE RefTypeOK' /\ GrantInv'
<1>1. /\ UNCHANGED <<rSeq, rTxn, rPend, rJobs, rAuth, rDev, rEcho, rStop, rFault, rEstop, rPolicy,
                     rDue, rOut, rAt, rRx, rDrive, rQ, rDefer, rLoose, rSpoilt, rBad>>
      /\ rRes' = [rRes EXCEPT !.due = TRUE] /\ Busy
  BY DEF PhaseExpires, wireVars, queueVars
<1>2. rRes \in RefReservations
  BY <1>1, ReservationTyped
<1>3. rRes' \in RefReservations /\ rRes'.txn = rRes.txn /\ rRes'.joint = rRes.joint
      /\ rRes'.policy = rRes.policy
  BY <1>1, <1>2 DEF RefReservations
<1>4. RefTypeOK' /\ FailedIsEmpty'
  BY <1>1, <1>3 DEF RefTypeOK, RefOwnerTypeOK, RefWireTypeOK, GrantInv, FailedIsEmpty
<1>5. Ageing /\ NewestKept
  BY <1>1, <1>3, <1>4, OwnerSame
<1> QED BY <1>1, <1>4, <1>5, AgeingSteps

\* The overall deadline passes.
LEMMA OverallExpiresKeeps == ASSUME RefTypeOK, GrantInv, OverallExpires PROVE RefTypeOK' /\ GrantInv'
<1>1. /\ UNCHANGED <<rRes, rSeq, rTxn, rPend, rJobs, rAuth, rDev, rEcho, rStop, rFault, rEstop, rPolicy,
                     rOut, rAt, rRx, rDrive, rQ, rDefer, rLoose, rBad>>
      /\ rDue' = TRUE /\ rSpoilt' = rSpoilt \union Staged
  BY DEF OverallExpires, wireVars, queueVars
<1>2. RefTypeOK' /\ FailedIsEmpty'
  BY <1>1 DEF RefTypeOK, RefOwnerTypeOK, RefWireTypeOK, GrantInv, FailedIsEmpty, Staged
<1>3. \A t \in Txns : Aged(rTxn[t], rTxn'[t])
  BY <1>1, AgedSame DEF RefTypeOK, RefOwnerTypeOK
<1>4. NewestKept
  BY <1>1, <1>3, StepKeeps DEF GrantInv, Busy
<1>5. Ageing
  <2>1. \A t \in Txns : Ages(rTxn[t], rTxn'[t])
    BY <1>3, AgedAges
  <2>2. Weaker(rAuth, rAuth') /\ \A j \in RefJoints : DeviceGoes(rDev[j], rDev'[j])
    BY <1>1, WeakerSame, DevicesSame DEF RefTypeOK, RefOwnerTypeOK
  <2> QED BY <1>1, <1>2, <2>1, <2>2 DEF Ageing, RefTypeOK, RefOwnerTypeOK
<1> QED BY <1>1, <1>2, <1>4, <1>5, AgeingSteps

\* A read of a facet, and feedback read outside reference work.
LEMMA ReadFacetKeeps == ASSUME RefTypeOK, GrantInv, RefReadFacet PROVE RefTypeOK' /\ GrantInv'
<1>1. UNCHANGED <<rRes, rSeq, rPend, rJobs, rDev, rEcho, rStop, rFault, rEstop, rPolicy, rDue,
                  rOut, rAt, rRx, rDrive, rQ, rDefer, rLoose, rSpoilt, rBad>>
  BY DEF RefReadFacet, wireVars, queueVars
<1>2. rAuth \in RefAuthorities /\ rTxn \in [Txns -> RefOutcomes]
  BY DEF RefTypeOK, RefOwnerTypeOK
<1>3. Weaker(rAuth, rAuth') /\ rAuth' \in RefAuthorities
  BY <1>2, BindingWeakens DEF RefReadFacet, Weaker
<1>4. rTxn' \in [Txns -> RefOutcomes] /\ \A t \in Txns : Aged(rTxn[t], rTxn'[t])
  BY <1>2, ObserveAges DEF RefReadFacet
<1>5. RefTypeOK' /\ FailedIsEmpty'
  BY <1>1, <1>3, <1>4 DEF RefTypeOK, RefOwnerTypeOK, RefWireTypeOK, GrantInv, FailedIsEmpty
<1>6. \A j \in RefJoints : DeviceGoes(rDev[j], rDev'[j])
  BY <1>1, DevicesSame
<1>7. rStop <= rStop' /\ rPolicy <= rPolicy'
  BY <1>1 DEF RefTypeOK, RefOwnerTypeOK
<1>8. Ageing /\ NewestKept
  BY <1>1, <1>3, <1>4, <1>5, <1>6, <1>7, StepAges DEF GrantInv, Busy
<1> QED BY <1>1, <1>5, <1>8, AgeingSteps

\* Feedback read between acquisitions.
LEMMA IdleDrainKeeps == ASSUME RefTypeOK, GrantInv, IdleDrain PROVE RefTypeOK' /\ GrantInv'
<1>1. /\ UNCHANGED <<rRes, rSeq, rTxn, rPend, rJobs, rAuth, rEcho, rStop, rFault, rEstop, rPolicy, rDue,
                     rOut, rAt, rDrive, rQ, rDefer, rLoose, rSpoilt, rBad>>
      /\ rRx' = <<>> /\ rDev' = RefReceived(FALSE).dev
  BY DEF IdleDrain, queueVars
<1>2. rDev' \in [RefJoints -> RefDevices] /\ \A j \in RefJoints : DeviceGoes(rDev[j], rDev'[j])
  BY <1>1, ReceivedGoes
<1>3. rRx' \in Seq(RefEchoes \union RefReplies)
  BY <1>1
<1>4. RefTypeOK' /\ FailedIsEmpty'
  BY <1>1, <1>2, <1>3 DEF RefTypeOK, RefOwnerTypeOK, RefWireTypeOK, GrantInv, FailedIsEmpty
<1>5. Weaker(rAuth, rAuth') /\ \A t \in Txns : Aged(rTxn[t], rTxn'[t])
  BY <1>1, AgedSame, WeakerSame DEF RefTypeOK, RefOwnerTypeOK
<1>6. rStop <= rStop' /\ rPolicy <= rPolicy'
  BY <1>1 DEF RefTypeOK, RefOwnerTypeOK
<1>7. Ageing /\ NewestKept
  BY <1>1, <1>2, <1>4, <1>5, <1>6, StepAges DEF GrantInv, Busy
<1> QED BY <1>1, <1>4, <1>7, AgeingSteps

\* A limit patch installs a new policy.
LEMMA PatchKeeps == ASSUME RefTypeOK, GrantInv, ApplyLimitPatch PROVE RefTypeOK' /\ GrantInv'
<1>1. /\ UNCHANGED <<rRes, rSeq, rPend, rJobs, rDev, rEcho, rStop, rFault, rEstop, rDue,
                     rOut, rAt, rRx, rDrive, rQ, rDefer, rLoose, rBad>>
      /\ rSpoilt' = rSpoilt \union Staged /\ rPolicy' = rPolicy + 1
  BY DEF ApplyLimitPatch, wireVars, queueVars
<1>2. rAuth \in RefAuthorities /\ rTxn \in [Txns -> RefOutcomes] /\ rPolicy \in Nat /\ rStop \in Nat
  BY DEF RefTypeOK, RefOwnerTypeOK
<1>3. Weaker(rAuth, rAuth') /\ rAuth' \in RefAuthorities
  <2> DEFINE b == BindingValid(rAuth, Now, {})
  <2>1. Weaker(rAuth, b) /\ b \in RefAuthorities
    BY <1>2, BindingWeakens DEF Weaker
  <2>2. rAuth' = RefRevoke(b)
    BY DEF ApplyLimitPatch
  <2> HIDE DEF b
  <2> QED BY <2>1, <2>2, RevokeWeakens, WeakerAgain DEF Weaker
<1>4. rTxn' \in [Txns -> RefOutcomes] /\ \A t \in Txns : Aged(rTxn[t], rTxn'[t])
  BY <1>2, ObserveAges DEF ApplyLimitPatch
<1>5. RefTypeOK' /\ FailedIsEmpty'
  BY <1>1, <1>2, <1>3, <1>4
     DEF RefTypeOK, RefOwnerTypeOK, RefWireTypeOK, GrantInv, FailedIsEmpty, Staged
<1>6. \A j \in RefJoints : DeviceGoes(rDev[j], rDev'[j])
  BY <1>1, DevicesSame
<1>7. NewestKept
  BY <1>1, <1>4, StepKeeps DEF GrantInv, Busy
<1>8. Ageing
  <2>1. \A t \in Txns : Ages(rTxn[t], rTxn'[t])
    BY <1>4, AgedAges
  <2>2. rStop <= rStop' /\ rPolicy < rPolicy' /\ rPolicy <= rPolicy'
    BY <1>1, <1>2
  <2> QED BY <1>1, <1>3, <1>5, <1>6, <2>1, <2>2 DEF Ageing
<1> QED BY <1>1, <1>5, <1>7, <1>8, AgeingSteps

\* The journal's verdict on a job.
LEMMA VerdictKeeps == ASSUME RefTypeOK, GrantInv, JournalAnswers PROVE RefTypeOK' /\ GrantInv'
<1>1. /\ UNCHANGED <<rRes, rSeq, rPend, rJobs, rAuth, rDev, rEcho, rStop, rFault, rEstop, rPolicy, rDue,
                     rOut, rAt, rRx, rDrive, rQ, rDefer, rLoose, rSpoilt, rBad>>
  BY DEF JournalAnswers, wireVars, queueVars
<1>2. PICK i \in DOMAIN rJobs, verdict \in {"durable", "failed"} :
        /\ rTxn[rJobs[i]].result = "pending" /\ rTxn' = [rTxn EXCEPT ![rJobs[i]].result = verdict]
  BY DEF JournalAnswers
<1> DEFINE u == rJobs[i]
           p == rTxn[u]
           q == [p EXCEPT !.result = verdict]
<1>3. u \in Txns /\ rTxn \in [Txns -> RefOutcomes] /\ p \in RefOutcomes
  BY DEF RefTypeOK, RefOwnerTypeOK
<1>4. rTxn' = [rTxn EXCEPT ![u] = q]
  BY <1>2, <1>3
<1>5. /\ q \in RefOutcomes /\ q.joint = p.joint /\ q.cause = p.cause /\ q.stage = p.stage
      /\ q.commit = p.commit /\ Ages(p, q) /\ p # NoOutcome
  <2> HIDE DEF p
  <2>1. q \in RefOutcomes /\ q.result = verdict
    BY <1>3 DEF RefOutcomes
  <2>2. /\ q.joint = p.joint /\ q.cause = p.cause /\ q.stage = p.stage
        /\ q.commit = p.commit /\ q.read = p.read /\ q.by = p.by /\ q.epoch = p.epoch
        /\ q.stop = p.stop /\ q.policy = p.policy
    BY <1>3 DEF RefOutcomes
  <2>3. p.result = "pending" /\ p # NoOutcome
    BY <1>2 DEF p, NoOutcome
  <2> HIDE DEF q
  <2> QED BY <2>1, <2>2, <2>3 DEF Ages
<1> HIDE DEF q, p, u
<1>6. /\ rTxn' \in [Txns -> RefOutcomes] /\ rTxn'[u] = q
      /\ \A t \in Txns \ {u} : rTxn'[t] = rTxn[t]
  BY <1>3, <1>4, <1>5
<1>7. RefTypeOK' /\ FailedIsEmpty'
  BY <1>1, <1>6 DEF RefTypeOK, RefOwnerTypeOK, RefWireTypeOK, GrantInv, FailedIsEmpty
<1>8. \A t \in Txns : Ages(rTxn[t], rTxn'[t])
  BY <1>5, <1>6, AgesSame DEF p
<1>9. Ageing
  <2>1. Weaker(rAuth, rAuth') /\ \A j \in RefJoints : DeviceGoes(rDev[j], rDev'[j])
    BY <1>1, WeakerSame, DevicesSame DEF RefTypeOK, RefOwnerTypeOK
  <2> QED BY <1>1, <1>7, <1>8, <2>1 DEF Ageing, RefTypeOK, RefOwnerTypeOK
<1>10. NewestKept
  <2>1. \A t \in Txns : rTxn[t] = NoOutcome => rTxn'[t] = NoOutcome
    BY <1>5, <1>6 DEF p
  <2>2. Busy => rRes.txn \in Txns
    BY ReservationTyped
  <2> QED BY <1>1, <1>5, <1>6, <2>1, <2>2 DEF NewestKept, Busy, p
<1> QED BY <1>1, <1>7, <1>9, <1>10, AgeingSteps

\* An entry after its verdict was collected.
LEMMA CollectedAges ==
  ASSUME NEW p \in RefOutcomes
  PROVE  LET q == Collected(p) IN
         /\ q \in RefOutcomes /\ Ages(p, q)
         /\ q.joint = p.joint /\ q.cause = p.cause /\ q.result = p.result
         /\ q.read = p.read /\ q.by = p.by /\ q.epoch = p.epoch
         /\ q.stop = p.stop /\ q.policy = p.policy
         /\ q.stage = p.stage \/ (p.stage = "current" /\ q.stage = "invalid")
         /\ q.commit = p.commit \/ p.commit = "Pending"
         /\ p = NoOutcome => q = NoOutcome
<1> DEFINE c == IF p.commit = "Pending" THEN "Complete" ELSE p.commit
           s == IF p.result # "durable" /\ p.stage = "current" THEN "invalid" ELSE p.stage
           q == [p EXCEPT !.commit = c, !.stage = s]
<1>1. Collected(p) = q
  BY DEF Collected, RefOutcomes
<1>2. /\ c \in {"none", "Pending", "Complete", "Invalidated", "Cancelled"}
      /\ s \in {"none", "current", "invalid"} /\ (p.commit = "Complete" => c = "Complete")
      /\ (s = "current" => p.stage = "current") /\ (c # "none" => p.commit # "none")
      /\ (s = p.stage \/ (p.stage = "current" /\ s = "invalid")) /\ (c = p.commit \/ p.commit = "Pending")
  BY DEF RefOutcomes
<1>3. p = NoOutcome => c = p.commit /\ s = p.stage
  BY DEF NoOutcome
<1> HIDE DEF c, s
<1>4. /\ q \in RefOutcomes /\ q.commit = c /\ q.stage = s /\ q.joint = p.joint /\ q.cause = p.cause
      /\ q.result = p.result /\ q.read = p.read /\ q.by = p.by /\ q.epoch = p.epoch
      /\ q.stop = p.stop /\ q.policy = p.policy
  BY <1>2 DEF RefOutcomes
<1>5. c = p.commit /\ s = p.stage => q = p
  BY DEF RefOutcomes
<1> HIDE DEF q
<1>6. Ages(p, q)
  BY <1>2, <1>4 DEF Ages
<1> QED BY <1>1, <1>2, <1>3, <1>4, <1>5, <1>6

\* Late verdicts at shutdown.
LEMMA ShutdownDrainKeeps == ASSUME RefTypeOK, GrantInv, DrainAtShutdown PROVE RefTypeOK' /\ GrantInv'
<1>1. /\ UNCHANGED <<rRes, rSeq, rPend, rAuth, rDev, rEcho, rStop, rFault, rEstop, rPolicy, rDue,
                     rOut, rAt, rRx, rDrive, rQ, rDefer, rLoose, rSpoilt, rBad>>
      /\ rJobs # <<>> /\ rTxn' = [rTxn EXCEPT ![Head(rJobs)] = Collected(@)] /\ rJobs' = Tail(rJobs)
  BY DEF DrainAtShutdown, wireVars, queueVars
<1> DEFINE u == Head(rJobs)
           p == rTxn[u]
           q == Collected(p)
<1>2. u \in Txns /\ rTxn \in [Txns -> RefOutcomes] /\ p \in RefOutcomes /\ rJobs' \in Seq(Txns)
  BY <1>1 DEF RefTypeOK, RefOwnerTypeOK
<1>3. /\ q \in RefOutcomes /\ Ages(p, q) /\ q.joint = p.joint /\ q.cause = p.cause
      /\ q.stage = p.stage \/ p.stage = "current"
      /\ q.commit = p.commit \/ p.commit = "Pending"
      /\ p = NoOutcome => q = NoOutcome
  BY <1>2, CollectedAges
<1>4. rTxn' = [rTxn EXCEPT ![u] = q]
  BY <1>1, <1>2
<1> HIDE DEF q, p, u
<1>5. /\ rTxn' \in [Txns -> RefOutcomes] /\ rTxn'[u] = q
      /\ \A t \in Txns \ {u} : rTxn'[t] = rTxn[t]
  BY <1>2, <1>3, <1>4
<1>6. RefTypeOK' /\ FailedIsEmpty'
  BY <1>1, <1>2, <1>5 DEF RefTypeOK, RefOwnerTypeOK, RefWireTypeOK, GrantInv, FailedIsEmpty
<1>7. \A t \in Txns : Ages(rTxn[t], rTxn'[t])
  BY <1>3, <1>5, AgesSame DEF p
<1>8. Ageing
  <2>1. Weaker(rAuth, rAuth') /\ \A j \in RefJoints : DeviceGoes(rDev[j], rDev'[j])
    BY <1>1, WeakerSame, DevicesSame DEF RefTypeOK, RefOwnerTypeOK
  <2> QED BY <1>1, <1>6, <1>7, <2>1 DEF Ageing, RefTypeOK, RefOwnerTypeOK
<1>9. NewestKept
  <2>1. \A t \in Txns : rTxn[t] = NoOutcome => rTxn'[t] = NoOutcome
    BY <1>3, <1>5 DEF p
  <2>2. ASSUME Busy'
        PROVE  LET a == rTxn[rRes.txn]
                   b == rTxn'[rRes.txn]
               IN b.joint = a.joint /\ b.cause = a.cause /\ b.stage = a.stage /\ b.commit = a.commit
    <3>1. Busy /\ rRes.txn \in Txns
      BY <1>1, <2>2, ReservationTyped DEF Busy
    <3>2. rTxn[rRes.txn].stage = "none" /\ rTxn[rRes.txn].commit = "none"
      BY <3>1 DEF GrantInv, NewestRuns
    <3> QED BY <1>3, <1>5, <3>1, <3>2 DEF p
  <2> QED BY <1>1, <2>1, <2>2 DEF NewestKept, Busy
<1> QED BY <1>1, <1>6, <1>8, <1>9, AgeingSteps

\* Staged evidence goes to the journal.
LEMMA BeginCommitKeeps == ASSUME RefTypeOK, GrantInv, BeginCommit PROVE RefTypeOK' /\ GrantInv'
<1>1. /\ UNCHANGED <<rRes, rSeq, rDev, rEcho, rStop, rFault, rEstop, rPolicy, rDue,
                     rOut, rAt, rRx, rDrive, rQ, rDefer, rLoose, rSpoilt, rBad>>
      /\ ~Busy /\ rPend # 0 /\ rPend' = 0
  BY DEF BeginCommit, wireVars, queueVars
<1>2. PICK credit \in BOOLEAN, silent \in IF CommitBusy THEN {{}} ELSE SUBSET RefJoints :
       LET t == rPend
           auth == BindingValid(rAuth, Now, silent)
           seen == RefObserve(rTxn, [Now EXCEPT !.gen = auth.gen])
           begins == credit /\ seen[t].stage = "current" /\ ~CommitBusy
       IN /\ rAuth' = auth
          /\ rJobs' = IF begins THEN Append(rJobs, t) ELSE rJobs
          /\ rTxn' = IF begins
                     THEN [seen EXCEPT ![t] = [@ EXCEPT !.commit = "Pending", !.result = "pending"]]
                     ELSE seen
  BY DEF BeginCommit
<1> DEFINE u == rPend
           auth == BindingValid(rAuth, Now, silent)
           seen == RefObserve(rTxn, [Now EXCEPT !.gen = auth.gen])
           begins == credit /\ seen[u].stage = "current" /\ ~CommitBusy
           p == seen[u]
           q == [p EXCEPT !.commit = "Pending", !.result = "pending"]
<1>3. u \in Txns /\ rTxn \in [Txns -> RefOutcomes] /\ rAuth \in RefAuthorities /\ rJobs \in Seq(Txns)
  BY <1>1, ReferenceAssumption DEF RefTypeOK, RefOwnerTypeOK, Txns, ReferenceAssumption
<1>4. seen \in [Txns -> RefOutcomes] /\ \A t \in Txns : Aged(rTxn[t], seen[t])
  BY <1>3, ObserveAges
<1>5. Weaker(rAuth, rAuth') /\ rAuth' \in RefAuthorities
  BY <1>2, <1>3, BindingWeakens DEF Weaker
<1>6. rJobs' \in Seq(Txns)
  BY <1>2, <1>3
<1>7. rTxn' = IF begins THEN [seen EXCEPT ![u] = q] ELSE seen
  BY <1>2, <1>3, <1>4
<1> HIDE DEF seen, auth
<1>8. p \in RefOutcomes
  BY <1>3, <1>4
<1>9. /\ q \in RefOutcomes /\ q.commit = "Pending" /\ q.result = "pending" /\ q.joint = p.joint
      /\ q.cause = p.cause /\ q.stage = p.stage /\ q.read = p.read /\ q.by = p.by /\ q.epoch = p.epoch
      /\ q.stop = p.stop /\ q.policy = p.policy
  <2> HIDE DEF p
  <2> QED BY <1>8 DEF RefOutcomes
<1> HIDE DEF q
<1>10. rTxn' \in [Txns -> RefOutcomes]
  BY <1>3, <1>4, <1>7, <1>9
<1>11. RefTypeOK' /\ FailedIsEmpty'
  <2>1. rPend' \in 0 .. MaxTxn
    BY <1>1, ReferenceAssumption DEF ReferenceAssumption
  <2> QED BY <1>1, <1>5, <1>6, <1>10, <2>1
          DEF RefTypeOK, RefOwnerTypeOK, RefWireTypeOK, GrantInv, FailedIsEmpty
<1>12. ASSUME NEW t \in Txns
       PROVE  /\ Ages(rTxn[t], rTxn'[t])
              /\ rTxn[t] = NoOutcome => rTxn'[t] = NoOutcome
  <2>1. CASE ~(begins /\ t = u)
    <3>1. rTxn'[t] = seen[t]
      BY <1>3, <1>4, <1>7, <2>1
    <3> QED BY <1>4, <3>1, AgedAges, NothingAges
  <2>2. CASE begins /\ t = u
    <3>1. rTxn'[t] = q /\ p.stage = "current" /\ Aged(rTxn[t], p)
      BY <1>3, <1>4, <1>7, <2>2
    <3>2. rTxn[t].stage = "current" /\ rTxn[t] # NoOutcome
      BY <3>1 DEF Aged, NoOutcome
    <3> QED BY <1>9, <3>1, <3>2 DEF Ages, Aged
  <2> QED BY <2>1, <2>2
<1>13. Ageing
  <2>1. \A j \in RefJoints : DeviceGoes(rDev[j], rDev'[j])
    BY <1>1, DevicesSame
  <2> QED BY <1>1, <1>5, <1>11, <1>12, <2>1 DEF Ageing, RefTypeOK, RefOwnerTypeOK
<1>14. NewestKept
  BY <1>1, <1>12 DEF NewestKept, Busy
<1> QED BY <1>1, <1>11, <1>13, <1>14, AgeingSteps

\* An order or a mishap that overtakes the reference work.
LEMMA OvertakeAges ==
  ASSUME RefTypeOK, GrantInv, NEW txns \in [Txns -> RefOutcomes], \A t \in Txns : Aged(rTxn[t], txns[t]),
         NEW auth \in RefAuthorities, Weaker(rAuth, auth), NEW ok \in BOOLEAN, NEW fault \in BOOLEAN,
         Overtake(txns, auth, ok, fault), rEstop' \in BOOLEAN, rPend' \in 0 .. MaxTxn, rDefer' \in Nat,
         rQ' \in [pending : Seq(RefJoints), flight : 0 .. MaxTxn, failed : BOOLEAN, closed : BOOLEAN]
  PROVE  RefTypeOK' /\ Ageing /\ NewestKept
<1>1. /\ UNCHANGED <<rSeq, rDue, rPolicy, rJobs, rDev, rAt, rRx, rDrive, rBad>>
      /\ rSpoilt' = rSpoilt \union Staged
  BY DEF Overtake
<1>2. <<>> \in Seq(RefFrames) /\ RefPerformStop(<<>>, ok, fault)
  BY DEF Overtake
<1>3. /\ rStop' = rStop + 1 /\ rStop' \in Nat /\ rEcho' = {}
      /\ rOut' \in Seq(RefFrames) /\ rFault' \in BOOLEAN /\ rLoose' \in BOOLEAN
  BY <1>2, StopTypes
<1>4. Weaker(rAuth, rAuth') /\ rAuth' \in RefAuthorities
  <2>1. rAuth' \in {auth, RefRevoke(auth)}
    BY DEF Overtake
  <2>2. Weaker(auth, rAuth')
    BY <2>1, WeakerSame, RevokeWeakens
  <2> QED BY <2>2, WeakerAgain DEF Weaker
<1>5. (rRes' = NoRes \/ rRes' = rRes) /\ ~Busy'
  <2>1. CASE Busy
    BY <2>1 DEF Overtake, Busy, NoRes
  <2>2. CASE ~Busy
    BY <2>2 DEF Overtake, Busy
  <2> QED BY <2>1, <2>2
<1>6. /\ rTxn' \in [Txns -> RefOutcomes]
      /\ \A t \in Txns : /\ Ages(rTxn[t], rTxn'[t])
                         /\ t >= rSeq /\ rTxn[t] = NoOutcome => rTxn'[t] = NoOutcome
  <2>1. CASE ~Busy
    <3>1. rTxn' = txns
      BY <2>1 DEF Overtake
    <3> QED BY <3>1, AgedAges, NothingAges
  <2>2. CASE Busy
    <3> DEFINE u == rRes.txn
               p == txns[u]
               q == [p EXCEPT !.cause = "failed"]
    <3>1. u \in Txns /\ u \in Nat /\ rSeq = u + 1 /\ rTxn[u].cause = "none" /\ p \in RefOutcomes
          /\ Aged(rTxn[u], p)
      BY <2>2, ReservationTyped DEF GrantInv, NewestRuns
    <3>2. rTxn' = [txns EXCEPT ![u] = q]
      BY <2>2, <3>1 DEF Overtake
    <3>3. /\ q \in RefOutcomes /\ q.cause = "failed" /\ q.stage = p.stage /\ q.commit = p.commit
          /\ q.result = p.result
      <4> HIDE DEF p
      <4> QED BY <3>1 DEF RefOutcomes
    <3> HIDE DEF p, q, u
    <3>4. /\ rTxn' \in [Txns -> RefOutcomes] /\ rTxn'[u] = q
          /\ \A t \in Txns \ {u} : rTxn'[t] = txns[t]
      BY <3>1, <3>2, <3>3
    <3>5. Ages(rTxn[u], q)
      <4>1. rTxn[u].stage = "none" /\ rTxn[u].commit = "none"
        BY <2>2 DEF GrantInv, NewestRuns, u
      <4> QED BY <3>1, <3>3, <4>1 DEF Ages, Aged
    <3>6. \A t \in Txns \ {u} : Ages(rTxn[t], rTxn'[t]) /\ (rTxn[t] = NoOutcome => rTxn'[t] = NoOutcome)
      BY <3>4, AgedAges, NothingAges
    <3> QED BY <3>1, <3>4, <3>5, <3>6
  <2> QED BY <2>1, <2>2
<1>7. RefTypeOK'
  <2>1. rSpoilt' \subseteq Txns
    BY <1>1 DEF Staged, RefTypeOK, RefOwnerTypeOK
  <2> QED BY <1>1, <1>3, <1>4, <1>5, <1>6, <2>1 DEF RefTypeOK, RefOwnerTypeOK, RefWireTypeOK
<1>8. Ageing
  <2>1. \A j \in RefJoints : DeviceGoes(rDev[j], rDev'[j])
    BY <1>1, DevicesSame
  <2>2. rStop < rStop' /\ rStop <= rStop' /\ rPolicy <= rPolicy'
    BY <1>1, <1>3 DEF RefTypeOK, RefOwnerTypeOK
  <2> QED BY <1>1, <1>4, <1>6, <1>7, <2>1, <2>2 DEF Ageing
<1>9. NewestKept
  BY <1>1, <1>5, <1>6 DEF NewestKept
<1> QED BY <1>7, <1>8, <1>9

\* Disable all.
LEMMA DisableKeeps == ASSUME RefTypeOK, GrantInv, RefDisableAll PROVE RefTypeOK' /\ GrantInv'
<1>1. PICK ok \in BOOLEAN : Overtake(EndCommits(rTxn, "Cancelled"), rAuth, ok, FALSE)
  BY DEF RefDisableAll
<1>2. Failed /\ UNCHANGED <<rPend, rEstop>>
  BY DEF RefDisableAll
<1>3. rAuth \in RefAuthorities /\ rTxn \in [Txns -> RefOutcomes] /\ rPend' \in 0 .. MaxTxn
      /\ rEstop' \in BOOLEAN
  BY <1>2 DEF RefTypeOK, RefOwnerTypeOK
<1>4. /\ EndCommits(rTxn, "Cancelled") \in [Txns -> RefOutcomes]
      /\ \A t \in Txns : Aged(rTxn[t], EndCommits(rTxn, "Cancelled")[t])
  BY <1>3, EndAges
<1>5. /\ rQ' \in [pending : Seq(RefJoints), flight : 0 .. MaxTxn, failed : BOOLEAN, closed : BOOLEAN]
      /\ rDefer' \in Nat /\ FailedIsEmpty'
  BY <1>2, FailedTyped
<1>6. Ageing /\ NewestKept
  BY <1>1, <1>3, <1>4, <1>5, WeakerSame, OvertakeAges
<1>7. rBad' = rBad
  BY <1>1 DEF Overtake
<1> QED BY <1>5, <1>6, <1>7, AgeingSteps

\* A control fault or the E-stop.
LEMMA HazardKeeps == ASSUME RefTypeOK, GrantInv, Hazard PROVE RefTypeOK' /\ GrantInv'
<1>1. PICK ok \in BOOLEAN, estop \in BOOLEAN :
        Overtake(EndCommits(rTxn, "Invalidated"), rAuth, ok, TRUE) /\ rEstop' = estop
  BY DEF Hazard
<1>2. UNCHANGED <<rPend, rQ, rDefer>>
  BY DEF Hazard, queueVars
<1>3. /\ rAuth \in RefAuthorities /\ rTxn \in [Txns -> RefOutcomes] /\ rPend' \in 0 .. MaxTxn
      /\ rEstop' \in BOOLEAN /\ rDefer' \in Nat
      /\ rQ' \in [pending : Seq(RefJoints), flight : 0 .. MaxTxn, failed : BOOLEAN, closed : BOOLEAN]
  BY <1>1, <1>2 DEF RefTypeOK, RefOwnerTypeOK
<1>4. /\ EndCommits(rTxn, "Invalidated") \in [Txns -> RefOutcomes]
      /\ \A t \in Txns : Aged(rTxn[t], EndCommits(rTxn, "Invalidated")[t])
  BY <1>3, EndAges
<1>5. Ageing /\ NewestKept
  BY <1>1, <1>3, <1>4, WeakerSame, OvertakeAges
<1>6. rBad' = rBad /\ FailedIsEmpty'
  BY <1>1, <1>2 DEF Overtake, GrantInv, FailedIsEmpty
<1> QED BY <1>5, <1>6, AgeingSteps

\* The shutdown.
LEMMA ShutdownKeeps == ASSUME RefTypeOK, GrantInv, CancelForShutdown PROVE RefTypeOK' /\ GrantInv'
<1> DEFINE retired == RetireStages(rTxn)
           txns == EndCommits(retired, "Cancelled")
           auth == RefRevoke(rAuth)
<1>1. PICK ok \in BOOLEAN : Overtake(txns, auth, ok, FALSE)
  BY DEF CancelForShutdown
<1>2. /\ rPend' = 0 /\ rDefer' = 0 /\ rEstop' = rEstop
      /\ rQ' = [rQ EXCEPT !.pending = <<>>, !.flight = 0, !.failed = TRUE, !.closed = TRUE]
  BY DEF CancelForShutdown
<1>3. /\ rAuth \in RefAuthorities /\ rTxn \in [Txns -> RefOutcomes] /\ rPend' \in 0 .. MaxTxn
      /\ rEstop' \in BOOLEAN /\ rDefer' \in Nat
  BY <1>2, ReferenceAssumption DEF RefTypeOK, RefOwnerTypeOK, ReferenceAssumption
<1>4. /\ rQ' \in [pending : Seq(RefJoints), flight : 0 .. MaxTxn, failed : BOOLEAN, closed : BOOLEAN]
      /\ rQ'.pending = <<>> /\ rQ'.flight = 0
  <2>1. <<>> \in Seq(RefJoints) /\ 0 \in 0 .. MaxTxn
    BY ReferenceAssumption DEF ReferenceAssumption
  <2>2. rQ \in [pending : Seq(RefJoints), flight : 0 .. MaxTxn, failed : BOOLEAN, closed : BOOLEAN]
    BY DEF RefTypeOK, RefOwnerTypeOK
  <2> QED BY <1>2, <2>1, <2>2
<1>5. FailedIsEmpty'
  BY <1>2, <1>4 DEF FailedIsEmpty
<1>6. retired \in [Txns -> RefOutcomes] /\ \A t \in Txns : Aged(rTxn[t], retired[t])
  BY <1>3, RetireAges
<1> HIDE DEF retired
<1>7. txns \in [Txns -> RefOutcomes] /\ \A t \in Txns : Aged(retired[t], txns[t])
  BY <1>6, EndAges
<1>8. Weaker(rAuth, auth) /\ auth \in RefAuthorities
  BY <1>3, RevokeWeakens DEF Weaker
<1> HIDE DEF txns, auth
<1>9. \A t \in Txns : Aged(rTxn[t], txns[t])
  BY <1>6, <1>7, AgedAgain
<1>10. Ageing /\ NewestKept
  BY <1>1, <1>3, <1>4, <1>7, <1>8, <1>9, OvertakeAges
<1>11. rBad' = rBad
  BY <1>1 DEF Overtake
<1> QED BY <1>5, <1>10, <1>11, AgeingSteps

\* A step of the acquisition that goes on or fails.
LEMMA AdvanceAges ==
  ASSUME RefTypeOK, GrantInv, Busy, Advanced, Went \/ EndedBadly PROVE Ageing /\ NewestKept
<1>1. /\ RefTypeOK' /\ Weaker(rAuth, rAuth') /\ rStop <= rStop'
      /\ rSpoilt' = rSpoilt /\ rSeq' = rSeq /\ rPolicy' = rPolicy /\ rDue' = rDue
      /\ \A j \in RefJoints : DeviceGoes(rDev[j], rDev'[j])
      /\ rPolicy <= rPolicy'
  BY DEF Advanced, RefTypeOK, RefOwnerTypeOK
<1>2. CASE Went
  BY <1>1, <1>2, StepAges DEF Went, GrantInv
<1>3. CASE EndedBadly
  <2> DEFINE u == rRes.txn
             p == rTxn[u]
             z == rTxn'[u]
  <2>1. PICK q : EndOf("failed", NoRead, TRUE, p, q) /\ Aged(q, z)
    BY <1>3 DEF EndedBadly
  <2>2. /\ u \in Txns /\ u \in Nat /\ rSeq = u + 1
        /\ p.cause = "none" /\ p.stage = "none" /\ p.commit = "none"
    BY ReservationTyped DEF GrantInv, NewestRuns
  <2>3. Ages(p, z)
    <3> HIDE DEF p, z
    <3> QED BY <2>1, <2>2 DEF Ages, Aged, EndOf
  <2>4. \A t \in Txns \ {u} : Ages(rTxn[t], rTxn'[t]) /\ (rTxn[t] = NoOutcome => rTxn'[t] = NoOutcome)
    BY <1>3, AgedAges, NothingAges DEF EndedBadly
  <2>5. ~Busy'
    BY <1>3 DEF EndedBadly, Busy, NoRes
  <2>6. \A t \in Txns : Ages(rTxn[t], rTxn'[t])
    BY <2>3, <2>4
  <2>7. \A t \in Txns : t >= rSeq /\ rTxn[t] = NoOutcome => rTxn'[t] = NoOutcome
    BY <2>2, <2>4
  <2>8. Ageing
    BY <1>1, <2>6 DEF Ageing
  <2>9. NewestKept
    BY <1>1, <2>5, <2>7 DEF NewestKept
  <2> QED BY <2>8, <2>9
<1> QED BY <1>2, <1>3

\* A step that stages its evidence.
LEMMA StagingKeeps ==
  ASSUME RefTypeOK, GrantInv, Busy, Advanced, EndedStaged,
         rRes.by = rRes.txn => RepliesIn.read.asked = rRes.txn
  PROVE  EvidenceStands' /\ GrantsStand' /\ NewestRuns'
<1>1. /\ RefTypeOK' /\ Weaker(rAuth, rAuth') /\ rStop <= rStop'
      /\ rSpoilt' = rSpoilt /\ rSeq' = rSeq /\ rPolicy' = rPolicy /\ rDue' = rDue
      /\ \A j \in RefJoints : DeviceGoes(rDev[j], rDev'[j])
      /\ rPolicy <= rPolicy'
  BY DEF Advanced, RefTypeOK, RefOwnerTypeOK
<1> DEFINE u == rRes.txn
           p == rTxn[u]
           z == rTxn'[u]
<1>2. PICK q, ok : EndOf("staged", RepliesIn.read, ok, p, q) /\ Aged(q, z)
  BY DEF EndedStaged
<1>3. /\ u \in Txns /\ u \in Nat /\ rSeq = u + 1 /\ rRes.joint \in RefJoints /\ rRes.policy <= rPolicy
      /\ p.joint = rRes.joint /\ p.cause = "none" /\ p.stage = "none" /\ p.commit = "none"
  BY ReservationTyped DEF GrantInv, NewestRuns
<1>4. /\ z.cause = "staged" /\ z.joint = rRes.joint /\ z.read = RepliesIn.read /\ z.epoch = rRes.epoch
      /\ z.stop = rStop' /\ z.policy = rRes.policy /\ z.by = rRes.by
  <2> HIDE DEF p, z
  <2> QED BY <1>2, <1>3 DEF EndOf, Aged
<1>5. u \notin rSpoilt
  BY <1>3 DEF GrantInv, EvidenceStands
<1>6. \A t \in Txns \ {u} : Aged(rTxn[t], rTxn'[t]) /\ Ages(rTxn[t], rTxn'[t])
  BY AgedAges DEF EndedStaged
<1>7. EvidenceStands'
  <2> SUFFICES ASSUME NEW t \in Txns
               PROVE  /\ rTxn'[t].stage = "current" \/ rTxn'[t].commit # "none" \/ t \in rSpoilt'
                           => rTxn'[t].cause = "staged"
                      /\ rTxn'[t].cause = "staged" => Evidence(t)'
                      /\ rTxn'[t].stage = "current" =>
                           /\ rTxn'[t].stop <= rStop' /\ rTxn'[t].policy <= rPolicy'
                           /\ t \in rSpoilt' => Overtaken(t)'
    BY DEF EvidenceStands
  <2>1. CASE t = u
    <3>1. /\ rTxn'[t].cause = "staged" /\ rTxn'[t].joint = rRes.joint /\ rTxn'[t].stop = rStop'
          /\ rTxn'[t].read = RepliesIn.read /\ rTxn'[t].epoch = rRes.epoch
          /\ rTxn'[t].policy = rRes.policy /\ rTxn'[t].by = rRes.by /\ t \notin rSpoilt'
      BY <1>1, <1>4, <1>5, <2>1
    <3>2. Evidence(t)'
      <4>1. /\ RepliesIn.read.coord = "zero"
            /\ rDev'[rRes.joint].epoch = rRes.epoch /\ rDev'[rRes.joint].seen = "zero"
        BY DEF EndedStaged
      <4>2. rDev'[rRes.joint].epoch \in Nat
        BY <1>1, <1>3 DEF RefTypeOK, RefOwnerTypeOK, RefDevices
      <4> QED BY <1>3, <2>1, <3>1, <4>1, <4>2 DEF Evidence
    <3>3. rStop' \in Nat
      BY <1>1 DEF RefTypeOK, RefOwnerTypeOK
    <3> QED BY <1>1, <1>3, <3>1, <3>2, <3>3
  <2>2. CASE t # u
    <3>1. Ages(rTxn[t], rTxn'[t])
      BY <1>6, <2>2
    <3> QED BY <1>1, <3>1, EntryKept DEF GrantInv
  <2> QED BY <2>1, <2>2
<1>8. GrantsStand'
  <2>1. \A t \in Txns : rTxn[t].cause = "staged" => Ages(rTxn[t], rTxn'[t])
    BY <1>3, <1>6
  <2> QED BY <1>1, <2>1, GrantsKept DEF GrantInv
<1>9. NewestRuns'
  <2>1. ~Busy'
    BY DEF EndedStaged, Busy, NoRes
  <2>2. ASSUME NEW t \in Txns, t >= rSeq' PROVE rTxn'[t] = NoOutcome
    <3>1. t >= rSeq /\ t # u
      BY <1>1, <1>3, <2>2
    <3>2. rTxn[t] = NoOutcome
      BY <3>1 DEF GrantInv, NewestRuns
    <3> QED BY <1>6, <3>1, <3>2, NothingAges
  <2> QED BY <2>1, <2>2 DEF NewestRuns
<1> QED BY <1>7, <1>8, <1>9

\* What is staged was asked by the acquisition itself, if its identity reply was.
LEMMA StagedIsOwn ==
  ASSUME RefTypeOK, OwnReplies, Busy, EndedStaged
  PROVE  rRes.by = rRes.txn => RepliesIn.read.asked = rRes.txn
<1>1. rRes.in.read = NoRead /\ RepliesIn.read # NoRead
  BY DEF EndedStaged, OwnReplies, Ordered
<1>2. PICK k \in 1 .. Len(rRx) : rRx[k].kind = "read" /\ rRx[k].txn = RepliesIn.read.asked
  BY <1>1, AnswersTyped
<1>3. rRes.by = rRes.txn => NoOlder(rRx, rRes.txn)
  BY DEF OwnReplies, Ordered
<1> QED BY <1>2, <1>3 DEF NoOlder, OlderRead

\* Every step of an acquisition.
LEMMA AdvanceKeeps == ASSUME RefTypeOK, GrantInv, OwnReplies, Advance PROVE RefTypeOK' /\ GrantInv'
<1>1. Busy /\ Advanced
  BY AdvanceCases
<1>2. RefTypeOK' /\ rBad' = rBad /\ FailedIsEmpty'
  BY <1>1 DEF Advanced, queueVars, GrantInv, FailedIsEmpty
<1>3. CASE Went \/ EndedBadly
  BY <1>1, <1>2, <1>3, AdvanceAges, AgeingSteps
<1>4. CASE EndedStaged
  BY <1>1, <1>2, <1>4, StagedIsOwn, StagingKeeps DEF GrantInv
<1> QED BY <1>1, <1>3, <1>4 DEF Advanced

\* A new acquisition.
LEMMA BeginKeeps ==
  ASSUME RefTypeOK, GrantInv, NEW j \in RefJoints, NEW auth \in RefAuthorities, Weaker(rAuth, auth),
         BeginReference(j, auth), Admissible, rSpoilt' = rSpoilt \union Staged, QueueRest,
         rQ' \in [pending : Seq(RefJoints), flight : 0 .. MaxTxn, failed : BOOLEAN, closed : BOOLEAN],
         rDefer' \in Nat
  PROVE  /\ RefTypeOK' /\ EvidenceStands' /\ GrantsStand' /\ NewestRuns'
         /\ \A t \in Txns : Ages(rTxn[t], rTxn'[t])
<1>1. /\ UNCHANGED <<rJobs, rDev, rEcho, rStop, rFault, rEstop, rPolicy, rOut, rAt, rRx, rDrive,
                     rLoose, rBad>>
      /\ rSeq' = rSeq + 1 /\ rPend' = rSeq /\ rDue' = FALSE /\ rAuth' = InvalidateJoint(auth, j)
  BY DEF QueueRest, BeginReference, wireVars
<1>2. rSeq \in Txns /\ rSeq \in Nat /\ rSeq + 1 \in 1 .. MaxTxn + 1
  BY ReferenceAssumption DEF Admissible, Txns, RefTypeOK, RefOwnerTypeOK, ReferenceAssumption
<1> DEFINE s == [Now EXCEPT !.gen = auth.gen]
           seen == RefObserve(rTxn, s)
           old == RetireStages(seen)
           q == [NoOutcome EXCEPT !.joint = j]
<1>3. seen \in [Txns -> RefOutcomes] /\ \A t \in Txns : Aged(rTxn[t], seen[t])
  BY ObserveAges DEF RefTypeOK, RefOwnerTypeOK
<1>4. old \in [Txns -> RefOutcomes] /\ \A t \in Txns : Aged(seen[t], old[t]) /\ old[t].stage # "current"
  <2> HIDE DEF seen
  <2> QED BY <1>3, RetireAges
<1>5. rTxn' = [old EXCEPT ![rSeq].joint = j]
  BY DEF BeginReference
<1> HIDE DEF seen, old, s
<1>6. \A t \in Txns : Aged(rTxn[t], old[t])
  BY <1>3, <1>4, AgedAgain
<1>7. rTxn[rSeq] = NoOutcome /\ old[rSeq] = NoOutcome
  <2>1. rTxn[rSeq] = NoOutcome
    BY <1>2 DEF GrantInv, NewestRuns
  <2> QED BY <1>2, <1>6, <2>1, NothingAges
<1>8. rTxn' = [old EXCEPT ![rSeq] = q]
  BY <1>2, <1>4, <1>5, <1>7
<1>9. /\ q \in RefOutcomes /\ q.joint = j /\ q.cause = "none" /\ q.stage = "none"
      /\ q.commit = "none" /\ q.result = "none"
  BY DEF NoOutcome, RefOutcomes, RefReads, NoRead
<1> HIDE DEF q
<1>10. /\ rTxn' \in [Txns -> RefOutcomes] /\ rTxn'[rSeq] = q
       /\ \A t \in Txns \ {rSeq} : rTxn'[t] = old[t]
  BY <1>2, <1>4, <1>8, <1>9
<1>11. ASSUME NEW t \in Txns PROVE Ages(rTxn[t], rTxn'[t]) /\ rTxn'[t].stage # "current"
  <2>1. CASE t = rSeq
    <3>1. rTxn[t].cause = "none" /\ rTxn[t].result = "none" /\ rTxn[t].commit = "none"
      BY <1>7, <2>1 DEF NoOutcome
    <3> QED BY <1>9, <1>10, <2>1, <3>1 DEF Ages
  <2>2. CASE t # rSeq
    BY <1>4, <1>6, <1>10, <2>2, AgedAges
  <2> QED BY <2>1, <2>2
<1>12. rRes' \in RefReservations /\ rRes'.txn = rSeq /\ rRes'.joint = j /\ rRes'.policy = rPolicy
  <2>1. rAuth'.gen \in Nat
    BY <1>1, InvalidateWeakens, AuthorityParts DEF Weaker
  <2>2. NoReplies \in RefAnswers /\ "BaselineStop" \in RefPhases /\ 0 \in Nat
    BY DEF NoReplies, RefAnswers, RefReads, NoRead, RefPhases
  <2>3. rRes' = [txn |-> rSeq, joint |-> j, phase |-> "BaselineStop", armed |-> FALSE, epoch |-> 0,
                 uid |-> 0, by |-> 0, ack |-> FALSE, gen |-> rAuth'.gen, stop |-> rStop,
                 policy |-> rPolicy, in |-> NoReplies, due |-> FALSE]
    BY DEF BeginReference
  <2>4. rStop \in Nat /\ rPolicy \in Nat
    BY DEF RefTypeOK, RefOwnerTypeOK
  <2> QED BY <1>2, <2>1, <2>2, <2>3, <2>4 DEF RefReservations
<1>13. Weaker(rAuth, rAuth') /\ rAuth' \in RefAuthorities
  BY <1>1, InvalidateWeakens, WeakerAgain DEF Weaker
<1>14. RefTypeOK'
  <2>1. rPend' \in 0 .. MaxTxn
    BY <1>1, <1>2, ReferenceAssumption DEF Txns, ReferenceAssumption
  <2>2. rSpoilt' \subseteq Txns
    BY DEF Staged, RefTypeOK, RefOwnerTypeOK
  <2> QED BY <1>1, <1>2, <1>10, <1>12, <1>13, <2>1, <2>2 DEF RefTypeOK, RefOwnerTypeOK, RefWireTypeOK
<1>15. Ageing
  <2>1. \A i \in RefJoints : DeviceGoes(rDev[i], rDev'[i])
    BY <1>1, DevicesSame
  <2>2. rStop <= rStop' /\ rPolicy <= rPolicy'
    BY <1>1 DEF RefTypeOK, RefOwnerTypeOK
  <2>3. NoneCurrent'
    BY <1>11 DEF NoneCurrent
  <2> QED BY <1>11, <1>13, <1>14, <2>1, <2>2, <2>3 DEF Ageing
<1>16. NewestRuns'
  <2>1. ASSUME NEW t \in Txns, t >= rSeq' PROVE rTxn'[t] = NoOutcome
    <3>1. t >= rSeq /\ t # rSeq
      BY <1>1, <1>2, <2>1 DEF Txns
    <3>2. rTxn[t] = NoOutcome
      BY <3>1 DEF GrantInv, NewestRuns
    <3> QED BY <1>6, <1>10, <3>1, <3>2, NothingAges
  <2>2. rRes'.policy <= rPolicy'
    BY <1>1, <1>12 DEF RefTypeOK, RefOwnerTypeOK
  <2> QED BY <1>1, <1>9, <1>10, <1>12, <2>1, <2>2 DEF NewestRuns
<1> QED BY <1>11, <1>14, <1>15, <1>16, AgeingKeeps DEF GrantInv

\* The queue asks for the next joint, ends, or fails.
LEMMA PumpKeeps == ASSUME RefTypeOK, GrantInv, Pump PROVE RefTypeOK' /\ GrantInv'
<1>1. PICK silent \in IF WorkPending THEN {{}} ELSE SUBSET RefJoints :
       LET auth == BindingValid(rAuth, Now, silent)
           ok == rQ.flight = 0 \/ Usable(auth, rQ.flight)
       IN IF ok /\ rQ.pending # <<>> /\ Admissible
          THEN /\ BeginReference(Head(rQ.pending), auth)
               /\ rSpoilt' = rSpoilt \union Staged
               /\ rQ' = [rQ EXCEPT !.pending = Tail(@), !.flight = rSeq]
               /\ UNCHANGED rDefer
          ELSE /\ rAuth' = auth
               /\ rTxn' = RefObserve(rTxn, [Now EXCEPT !.gen = auth.gen])
               /\ IF ok /\ rQ.pending = <<>>
                  THEN rQ' = [rQ EXCEPT !.flight = 0] /\ UNCHANGED rDefer
                  ELSE Failed
               /\ UNCHANGED <<rRes, rSeq, rPend, rDue, rSpoilt>>
  BY DEF Pump
<1> DEFINE auth == BindingValid(rAuth, Now, silent)
           ok == rQ.flight = 0 \/ Usable(auth, rQ.flight)
<1>2. Weaker(rAuth, auth) /\ auth \in RefAuthorities
  BY BindingWeakens DEF Weaker, RefTypeOK, RefOwnerTypeOK
<1>3. /\ rQ \in [pending : Seq(RefJoints), flight : 0 .. MaxTxn, failed : BOOLEAN, closed : BOOLEAN]
      /\ rDefer \in Nat /\ rTxn \in [Txns -> RefOutcomes]
  BY DEF RefTypeOK, RefOwnerTypeOK
<1>4. QueueRest
  BY DEF Pump
<1>5. rBad' = rBad
  BY <1>4 DEF QueueRest
<1>6. CASE ok /\ rQ.pending # <<>> /\ Admissible
  <2>1. /\ BeginReference(Head(rQ.pending), auth)
        /\ rSpoilt' = rSpoilt \union Staged
        /\ rQ' = [rQ EXCEPT !.pending = Tail(rQ.pending), !.flight = rSeq]
        /\ rDefer' = rDefer
    BY <1>1, <1>3, <1>6
  <2>2. Head(rQ.pending) \in RefJoints /\ Tail(rQ.pending) \in Seq(RefJoints) /\ rSeq \in 0 .. MaxTxn
    BY <1>3, <1>6, ReferenceAssumption DEF Admissible, RefTypeOK, RefOwnerTypeOK, ReferenceAssumption
  <2>3. /\ rQ' \in [pending : Seq(RefJoints), flight : 0 .. MaxTxn, failed : BOOLEAN, closed : BOOLEAN]
        /\ rQ'.failed = rQ.failed
    BY <1>3, <2>1, <2>2
  <2>4. FailedIsEmpty'
    BY <1>6, <2>3 DEF GrantInv, FailedIsEmpty
  <2> HIDE DEF auth
  <2>5. RefTypeOK' /\ EvidenceStands' /\ GrantsStand' /\ NewestRuns'
    BY <1>2, <1>3, <1>4, <1>6, <2>1, <2>2, <2>3, BeginKeeps
  <2> QED BY <1>5, <2>4, <2>5 DEF GrantInv
<1>7. CASE ~(ok /\ rQ.pending # <<>> /\ Admissible)
  <2>1. /\ rAuth' = auth
        /\ rTxn' = RefObserve(rTxn, [Now EXCEPT !.gen = auth.gen])
        /\ UNCHANGED <<rRes, rSeq, rPend, rDue, rSpoilt>>
        /\ (ok /\ rQ.pending = <<>> /\ rQ' = [rQ EXCEPT !.flight = 0] /\ UNCHANGED rDefer) \/ Failed
    BY <1>1, <1>7
  <2>2. UNCHANGED <<rJobs, rDev, rEcho, rStop, rFault, rEstop, rPolicy, rOut, rAt, rRx, rDrive, rLoose>>
    BY <1>4 DEF QueueRest, wireVars
  <2>3. rTxn' \in [Txns -> RefOutcomes] /\ \A t \in Txns : Aged(rTxn[t], rTxn'[t])
    BY <1>3, <2>1, ObserveAges
  <2>4. /\ rQ' \in [pending : Seq(RefJoints), flight : 0 .. MaxTxn, failed : BOOLEAN, closed : BOOLEAN]
        /\ rDefer' \in Nat /\ FailedIsEmpty'
    <3>1. CASE Failed
      BY <3>1, FailedTyped
    <3>2. CASE rQ.pending = <<>> /\ rQ' = [rQ EXCEPT !.flight = 0] /\ UNCHANGED rDefer
      <4>1. /\ rQ' \in [pending : Seq(RefJoints), flight : 0 .. MaxTxn, failed : BOOLEAN, closed : BOOLEAN]
            /\ rQ'.pending = <<>> /\ rQ'.flight = 0 /\ rQ'.failed = rQ.failed
        <5>1. 0 \in 0 .. MaxTxn
          BY ReferenceAssumption DEF ReferenceAssumption
        <5> QED BY <1>3, <3>2, <5>1
      <4> QED BY <1>3, <3>2, <4>1 DEF GrantInv, FailedIsEmpty
    <3> QED BY <2>1, <3>1, <3>2
  <2>5. RefTypeOK'
    BY <1>2, <2>1, <2>2, <2>3, <2>4 DEF RefTypeOK, RefOwnerTypeOK, RefWireTypeOK
  <2>6. \A j \in RefJoints : DeviceGoes(rDev[j], rDev'[j])
    BY <2>2, DevicesSame
  <2>7. rStop <= rStop' /\ rPolicy <= rPolicy'
    BY <2>2 DEF RefTypeOK, RefOwnerTypeOK
  <2>8. Ageing /\ NewestKept
    BY <1>2, <2>1, <2>3, <2>5, <2>6, <2>7, StepAges DEF GrantInv, Busy
  <2> QED BY <1>5, <2>4, <2>8, AgeingSteps
<1> QED BY <1>6, <1>7

\* The grant of one acquisition.
LEMMA SelectTyped ==
  ASSUME RefTypeOK, NEW a \in RefAuthorities, NEW t \in Txns
  PROVE  LET b == SelectConsumed(a, t) IN
         /\ b \in RefAuthorities
         /\ \A j \in RefJoints :
              \/ /\ j = rTxn[t].joint
                 /\ b.grant[j].txn = t /\ b.grant[j].epoch = rTxn[t].epoch
              \/ j # rTxn[t].joint /\ b.grant[j] \in {a.grant[j], NoGrant}
<1> DEFINE tx == rTxn[t]
           g == [txn |-> t, epoch |-> tx.epoch, uid |-> tx.uid, live |-> TRUE]
           merge == a.accumulates /\ ~a.revoked /\ a.policy = tx.policy
           grant == [j \in RefJoints |-> IF j = tx.joint THEN g
                                         ELSE IF merge THEN a.grant[j] ELSE NoGrant]
<1>1. tx \in RefOutcomes /\ tx.epoch \in Nat /\ tx.uid \in Nat /\ tx.policy \in Nat
  BY DEF RefTypeOK, RefOwnerTypeOK, RefOutcomes
<1>2. g \in RefGrants /\ NoGrant \in RefGrants /\ g.txn = t /\ g.epoch = tx.epoch
  BY <1>1, ReferenceAssumption DEF RefGrants, NoGrant, Txns, ReferenceAssumption
<1>3. a.grant \in [RefJoints -> RefGrants] /\ a.gen + 1 \in Nat
  BY AuthorityParts
<1>4. SelectConsumed(a, t) = [revoked |-> FALSE, accumulates |-> TRUE, gen |-> a.gen + 1,
                              policy |-> tx.policy, grant |-> grant]
  BY DEF SelectConsumed
<1> HIDE DEF g, tx, merge
<1>5. grant \in [RefJoints -> RefGrants]
  BY <1>2, <1>3
<1>6. \A j \in RefJoints : \/ j = tx.joint /\ grant[j].txn = t /\ grant[j].epoch = tx.epoch
                           \/ j # tx.joint /\ grant[j] \in {a.grant[j], NoGrant}
  BY <1>2
<1> HIDE DEF grant
<1>7. SelectConsumed(a, t) \in RefAuthorities
  BY <1>1, <1>3, <1>4, <1>5 DEF RefAuthorities
<1> QED BY <1>4, <1>6, <1>7 DEF tx

\* The commit: only here is anything granted.
LEMMA AdvanceCommitKeeps == ASSUME RefTypeOK, GrantInv, AdvanceCommit PROVE RefTypeOK' /\ GrantInv'
<1>1. /\ UNCHANGED <<rRes, rSeq, rPend, rEstop, rPolicy, rDue, rAt, rDrive, rQ, rDefer>>
      /\ ~Busy /\ rJobs # <<>> /\ rRx' = <<>> /\ rDev' = RefReceived(FALSE).dev
  BY DEF AdvanceCommit, queueVars
<1> DEFINE t == Head(rJobs)
           auth == IF rFault' THEN RefRevoke(Auth) ELSE Auth
           after == [Now EXCEPT !.dev = rDev', !.fault = rFault' \/ rEstop, !.stop = rStop',
                                !.gen = auth.gen]
           base == IF rFault' \/ rEstop THEN EndCommits(rTxn, "Invalidated") ELSE rTxn
           seen == RefObserve(base, after)
           done == [seen EXCEPT ![t] = Collected(@)]
           take == seen[t].result # "pending"
           grants == take /\ Selects(done[t])
<1>2. PICK bad \in BOOLEAN :
        /\ IF bad /\ ~rFault
           THEN RefPerformStop(<<>>, TRUE, TRUE) /\ rSpoilt' = rSpoilt \union Staged
           ELSE rFault' = (rFault \/ bad) /\ UNCHANGED <<rStop, rOut, rLoose, rSpoilt>>
                /\ rEcho' = RefReceived(FALSE).echo
        /\ rJobs' = IF take THEN Tail(rJobs) ELSE rJobs
        /\ rTxn' = IF grants THEN [done EXCEPT ![t].stage = "invalid"]
                   ELSE IF take THEN done ELSE seen
        /\ rAuth' = IF grants THEN SelectConsumed(auth, t) ELSE auth
        /\ rBad' = IF grants /\ (t \in rSpoilt' \/ rDue \/ rFault' \/ rAuth.grant[rTxn[t].joint].txn = t)
                   THEN rBad \union {t} ELSE rBad
  BY DEF AdvanceCommit
<1>3. /\ t \in Txns /\ rJobs' \in Seq(Txns) /\ rTxn \in [Txns -> RefOutcomes]
      /\ rAuth \in RefAuthorities /\ rStop \in Nat /\ rPolicy \in Nat /\ rDue \in BOOLEAN
  BY <1>1, <1>2 DEF RefTypeOK, RefOwnerTypeOK
<1>4. /\ rStop' \in Nat /\ rStop <= rStop' /\ rEcho' \subseteq RefJoints /\ rOut' \in Seq(RefFrames)
      /\ rFault' \in BOOLEAN /\ rLoose' \in BOOLEAN /\ rSpoilt' \subseteq Txns
      /\ rSpoilt' = rSpoilt \/ (rSpoilt' = rSpoilt \union Staged /\ rStop < rStop')
  <2>1. CASE bad /\ ~rFault
    <3>0. <<>> \in Seq(RefFrames)
      OBVIOUS
    <3>1. RefPerformStop(<<>>, TRUE, TRUE) /\ rSpoilt' = rSpoilt \union Staged
      BY <1>2, <2>1
    <3>2. /\ rStop' = rStop + 1 /\ rStop' \in Nat /\ rEcho' = {}
          /\ rOut' \in Seq(RefFrames) /\ rFault' \in BOOLEAN /\ rLoose' \in BOOLEAN
      BY <3>0, <3>1, StopTypes
    <3>3. rSpoilt' \subseteq Txns
      BY <3>1 DEF Staged, RefTypeOK, RefOwnerTypeOK
    <3> QED BY <1>3, <3>1, <3>2, <3>3
  <2>2. CASE ~(bad /\ ~rFault)
    <3>1. /\ rFault' = (rFault \/ bad) /\ UNCHANGED <<rStop, rOut, rLoose, rSpoilt>>
          /\ rEcho' = RefReceived(FALSE).echo
      BY <1>2, <2>2
    <3>2. RefReceived(FALSE).echo \subseteq rEcho
      BY DEF RefReceived
    <3>3. rFault' \in BOOLEAN
      BY <3>1
    <3>4. /\ rStop' \in Nat /\ rStop <= rStop' /\ rEcho' \subseteq RefJoints /\ rOut' \in Seq(RefFrames)
          /\ rLoose' \in BOOLEAN /\ rSpoilt' \subseteq Txns /\ rSpoilt' = rSpoilt
      <4>1. UNCHANGED <<rStop, rOut, rLoose, rSpoilt>> /\ rEcho' \subseteq rEcho
        BY <3>1, <3>2
      <4> QED BY <4>1 DEF RefTypeOK, RefOwnerTypeOK, RefWireTypeOK
    <3> QED BY <3>3, <3>4
  <2> QED BY <2>1, <2>2
<1>5. rDev' \in [RefJoints -> RefDevices] /\ \A j \in RefJoints : DeviceGoes(rDev[j], rDev'[j])
  BY <1>1, ReceivedGoes
<1>6. Weaker(rAuth, auth) /\ auth \in RefAuthorities
  BY AuthTyped, RevokeWeakens, WeakerAgain DEF Weaker
<1>7. base \in [Txns -> RefOutcomes] /\ \A u \in Txns : Aged(rTxn[u], base[u])
  BY <1>3, EndAges, AgedSame
<1>8. /\ after.stop = rStop' /\ after.policy = rPolicy /\ after.due = rDue
      /\ after.fault = (rFault' \/ rEstop)
  BY DEF Now
<1> HIDE DEF base, auth, after
<1>9. /\ seen \in [Txns -> RefOutcomes] /\ \A u \in Txns : Aged(base[u], seen[u])
      /\ seen[t].stage = "current" => ~StageInvalid(base[t], t, after)
  BY <1>3, <1>7, ObserveAges
<1> HIDE DEF seen
<1>10. \A u \in Txns : Aged(rTxn[u], seen[u])
  BY <1>7, <1>9, AgedAgain
<1> DEFINE p == rTxn[t]
           o == seen[t]
           q == Collected(o)
<1>11. o \in RefOutcomes /\ Aged(p, o) /\ p \in RefOutcomes
  BY <1>3, <1>9, <1>10
<1>12. /\ q \in RefOutcomes /\ Ages(o, q)
       /\ q.joint = o.joint /\ q.cause = o.cause /\ q.result = o.result
       /\ q.read = o.read /\ q.by = o.by /\ q.epoch = o.epoch
       /\ q.stop = o.stop /\ q.policy = o.policy
       /\ q.stage = o.stage \/ (o.stage = "current" /\ q.stage = "invalid")
       /\ q.commit = o.commit \/ o.commit = "Pending"
       /\ o = NoOutcome => q = NoOutcome
  BY <1>11, CollectedAges
<1>13. done = [seen EXCEPT ![t] = q]
  BY <1>3, <1>9
<1> HIDE DEF q
<1>14. done \in [Txns -> RefOutcomes] /\ done[t] = q /\ \A u \in Txns \ {t} : done[u] = seen[u]
  BY <1>3, <1>9, <1>12, <1>13
<1>15. Ages(p, q) /\ (p = NoOutcome => q = NoOutcome)
  <2>1. p = NoOutcome => o = NoOutcome
    BY <1>11, NothingAges
  <2> HIDE DEF p, o
  <2> QED BY <1>11, <1>12, <2>1 DEF Ages, Aged
<1> HIDE DEF done
<1>16. FailedIsEmpty' /\ rPolicy <= rPolicy' /\ (rDue => rDue') /\ ~Busy'
  BY <1>1, <1>3 DEF GrantInv, FailedIsEmpty, Busy
<1>17. ASSUME rTxn' \in [Txns -> RefOutcomes], rAuth' \in RefAuthorities PROVE RefTypeOK'
  <2>1. rRx' \in Seq(RefEchoes \union RefReplies)
    BY <1>1
  <2> QED BY <1>1, <1>3, <1>4, <1>5, <1>17, <2>1 DEF RefTypeOK, RefOwnerTypeOK, RefWireTypeOK
<1>18. CASE ~grants
  <2>1. rTxn' \in {done, seen} /\ rAuth' = auth /\ rBad' = rBad
    BY <1>2, <1>18
  <2>2. ASSUME NEW u \in Txns
        PROVE  Ages(rTxn[u], rTxn'[u]) /\ (rTxn[u] = NoOutcome => rTxn'[u] = NoOutcome)
    <3>1. CASE rTxn'[u] = seen[u]
      BY <1>10, <3>1, AgedAges, NothingAges
    <3>2. CASE rTxn'[u] # seen[u]
      BY <1>14, <1>15, <2>1, <3>2
    <3> QED BY <3>1, <3>2
  <2>3. RefTypeOK'
    BY <1>6, <1>9, <1>14, <1>17, <2>1
  <2>4. Ageing
    BY <1>4, <1>5, <1>6, <1>16, <2>1, <2>2, <2>3 DEF Ageing
  <2>5. NewestKept
    BY <1>1, <1>16, <2>2 DEF NewestKept
  <2> QED BY <1>16, <2>1, <2>4, <2>5, AgeingSteps
<1>19. CASE grants
  <2> DEFINE z == [q EXCEPT !.stage = "invalid"]
  <2>1. /\ q.commit = "Complete" /\ q.result = "durable" /\ q.stage = "current"
        /\ o.stage = "current" /\ p.stage = "current"
    <3>1. Selects(q)
      BY <1>14, <1>19
    <3>2. o.stage = "current"
      BY <1>12, <3>1 DEF Selects
    <3> HIDE DEF p, o
    <3> QED BY <1>11, <3>1, <3>2 DEF Selects, Aged
  <2>2. rTxn' = [done EXCEPT ![t] = z] /\ rAuth' = SelectConsumed(auth, t)
    BY <1>2, <1>3, <1>14, <1>19
  <2>3. /\ z \in RefOutcomes /\ z.stage = "invalid" /\ z.commit = "Complete" /\ z.result = "durable"
        /\ z.joint = q.joint /\ z.cause = q.cause /\ z.read = q.read /\ z.by = q.by /\ z.epoch = q.epoch
        /\ z.stop = q.stop /\ z.policy = q.policy
    BY <1>12, <2>1 DEF RefOutcomes
  <2> HIDE DEF z
  <2>4. /\ rTxn' \in [Txns -> RefOutcomes] /\ rTxn'[t] = z
        /\ \A u \in Txns \ {t} : rTxn'[u] = seen[u]
    BY <1>3, <1>14, <2>2, <2>3
  <2>5. Ages(p, z)
    <3> HIDE DEF p, o
    <3> QED BY <1>15, <2>1, <2>3 DEF Ages
  <2>6. /\ \A u \in Txns : Ages(rTxn[u], rTxn'[u])
        /\ \A u \in Txns : rTxn[u] = NoOutcome => rTxn'[u] = NoOutcome
    <3>1. p # NoOutcome
      BY <2>1 DEF NoOutcome
    <3> QED BY <1>10, <2>4, <2>5, <3>1, AgedAges, NothingAges
  <2>7. rAuth' \in RefAuthorities
    BY <1>3, <1>6, <2>2, SelectTyped
  <2>8. RefTypeOK'
    BY <1>17, <2>4, <2>7
  <2>9. EvidenceStands'
    <3>1. (rDue => rDue') \/ NoneCurrent'
      BY <1>16
    <3> QED BY <1>4, <1>5, <1>16, <2>6, <2>8, <3>1, EntryKept DEF EvidenceStands, GrantInv
  <2>10. p.cause = "staged" /\ p.joint \in RefJoints /\ z.cause = "staged" /\ z.joint = p.joint
         /\ z.epoch = p.epoch
    <3>1. p.cause = "staged" /\ p.joint \in RefJoints
      BY <1>3, <2>1 DEF GrantInv, EvidenceStands, Evidence
    <3> QED BY <2>5, <3>1 DEF Ages
  <2>11. GrantsStand'
    <3> SUFFICES ASSUME NEW j \in RefJoints
                 PROVE  LET g == rAuth'.grant[j] IN
                        /\ g.txn # 0 => rTxn'[g.txn].cause = "staged" /\ rTxn'[g.txn].stage # "current"
                        /\ g.live => /\ g.txn # 0 /\ rTxn'[g.txn].joint = j
                                     /\ g.epoch = rTxn'[g.txn].epoch
                                     /\ rTxn'[g.txn].result = "durable"
                                     /\ rTxn'[g.txn].commit = "Complete"
      BY DEF GrantsStand
    <3> DEFINE g == rAuth'.grant[j]
               f == rAuth.grant[j]
               h == auth.grant[j]
    <3>1. \/ j = p.joint /\ g.txn = t /\ g.epoch = p.epoch
          \/ j # p.joint /\ g \in {h, NoGrant}
      BY <1>3, <1>6, <2>2, SelectTyped
    <3>2. CASE j = p.joint /\ g.txn = t /\ g.epoch = p.epoch
      <4>1. t # 0
        BY <1>3, ReferenceAssumption DEF Txns, ReferenceAssumption
      <4> QED BY <2>3, <2>4, <2>10, <3>2, <4>1
    <3>3. CASE g = NoGrant
      BY <3>3 DEF NoGrant
    <3>4. CASE j # p.joint /\ g = h
      <4>1. h.txn = f.txn /\ h.epoch = f.epoch /\ (h.live => f.live) /\ f \in RefGrants
        BY <1>3, <1>6, AuthorityParts DEF Weaker
      <4>2. /\ f.txn # 0 => rTxn[f.txn].cause = "staged" /\ rTxn[f.txn].stage # "current"
            /\ f.live => /\ f.txn # 0 /\ rTxn[f.txn].joint = j /\ f.epoch = rTxn[f.txn].epoch
                         /\ rTxn[f.txn].result = "durable" /\ rTxn[f.txn].commit = "Complete"
        BY DEF GrantInv, GrantsStand
      <4>3. f.txn # 0 => Ages(rTxn[f.txn], rTxn'[f.txn])
        <5>1. f.txn # 0 => f.txn \in Txns
          BY <4>1, ReferenceAssumption DEF RefGrants, Txns, ReferenceAssumption
        <5> QED BY <2>6, <5>1
      <4> HIDE DEF f, h, g
      <4>4. /\ g.txn # 0 => rTxn'[g.txn].cause = "staged" /\ rTxn'[g.txn].stage # "current"
            /\ g.live => /\ g.txn # 0 /\ rTxn'[g.txn].joint = j /\ g.epoch = rTxn'[g.txn].epoch
                         /\ rTxn'[g.txn].result = "durable" /\ rTxn'[g.txn].commit = "Complete"
        BY <3>4, <4>1, <4>2, <4>3 DEF Ages
      <4> QED BY <4>4 DEF g
    <3> QED BY <3>1, <3>2, <3>3, <3>4
  <2>12. NewestRuns'
    BY <1>1, <1>16, <2>6 DEF GrantInv, NewestRuns
  <2>13. ~(t \in rSpoilt' \/ rDue \/ rFault' \/ rAuth.grant[rTxn[t].joint].txn = t)
    <3>1. ~StageInvalid(base[t], t, after) /\ Aged(p, base[t])
      BY <1>3, <1>7, <1>9, <2>1
    <3>2. ~rDue /\ ~rFault' /\ base[t].stop = rStop' /\ base[t].policy = rPolicy
      BY <1>8, <3>1 DEF StageInvalid
    <3>3. p.stop = rStop' /\ p.policy = rPolicy
      BY <3>1, <3>2 DEF Aged
    <3>4. p.stop <= rStop /\ (t \in rSpoilt => p.stop < rStop \/ p.policy < rPolicy \/ rDue)
      BY <1>3, <2>1 DEF GrantInv, EvidenceStands, Overtaken
    <3>5. ~(rStop < rStop') /\ rSpoilt' = rSpoilt
      BY <1>3, <1>4, <3>3, <3>4
    <3>6. t \notin rSpoilt'
      BY <1>3, <1>4, <3>2, <3>3, <3>4, <3>5
    <3>7. t # 0
      BY <1>3, ReferenceAssumption DEF Txns, ReferenceAssumption
    <3>8. rAuth.grant[p.joint].txn # t
      BY <2>1, <2>10, <3>7 DEF GrantInv, GrantsStand
    <3> QED BY <3>2, <3>6, <3>8
  <2>14. rBad' = rBad
    BY <1>2, <2>13
  <2> QED BY <1>16, <2>8, <2>9, <2>11, <2>12, <2>14 DEF GrantInv
<1> QED BY <1>18, <1>19

-----------------------------------------------------------------------------
\* What the steps do to the wire.  Frames of the acquisition under way, or stops.
Sends(sent) ==
  /\ sent \in Seq(RefFrames)
  /\ \A k \in 1 .. Len(sent) : /\ sent[k].txn \in {0, rRes.txn}
                               /\ sent[k].kind = "read" => sent[k].txn = rRes.txn
\* Nothing changes but, perhaps, that the phase's deadline has passed.
Idle == /\ UNCHANGED <<rOut, rAt, rRx, rDrive, rLoose, rSeq>>
        /\ rRes' = rRes \/ (Busy /\ rRes' = [rRes EXCEPT !.due = TRUE])
\* A stop pass that ends the acquisition under way, if there is one.
StopPass == /\ ~Busy' /\ UNCHANGED <<rAt, rDrive, rSeq>> /\ rRx' \in {rRx, <<>>}
            /\ \E sent, ok, fault : Sends(sent) /\ ok \in BOOLEAN /\ fault \in BOOLEAN
                                    /\ RefPerformStop(sent, ok, fault)
Emptied == ~Busy /\ rRx' = <<>> /\ UNCHANGED <<rRes, rOut, rAt, rDrive, rLoose, rSeq>>
Begun == /\ ~Busy /\ UNCHANGED <<rOut, rAt, rRx, rDrive, rLoose>> /\ rSeq' = rSeq + 1
         /\ rRes'.txn = rSeq /\ rRes'.by = 0 /\ rRes'.phase = "BaselineStop"
\* A step of the acquisition that goes on.
Moved(sent) ==
  /\ Busy /\ Sends(sent) /\ rOut' = rOut \o sent /\ UNCHANGED <<rAt, rDrive, rLoose, rSeq>>
  /\ rRx' \in {rRx, <<>>}
  /\ rRes'.txn = rRes.txn /\ rRes'.joint = rRes.joint /\ (rRes.armed => rRes'.armed)
  /\ \A k \in 1 .. Len(sent) : sent[k].kind = "enable" => rRes'.armed /\ sent[k].to = rRes.joint
  /\ rRes'.phase \in Asking => rRes.phase \in Asking
  /\ rRes'.phase = "AwaitIdentity" => rRes'.in.uid = 0
  /\ rRes'.phase = "AwaitReportingOff" =>
       /\ rRes.phase \in {"AwaitIdentity", "AwaitReportingOff"} /\ rRx' = <<>>
       /\ rRes'.in = RepliesIn /\ rRes'.by = RepliesIn.by
       /\ rRes.phase = "AwaitIdentity" => RepliesIn.uid # 0
  /\ rRes'.phase # "AwaitReportingOff" => rRes'.by = rRes.by
  /\ rRes'.phase = "AwaitReadback" => rRes'.in.read = NoRead
Advances == StopPass \/ \E sent : Moved(sent)

\* What may be sent.
LEMMA SendsStops == Sends(StopFrames) /\ Sends(<<>>)
<1>1. Sends(StopFrames)
  BY StopsReachAll DEF Sends
<1> QED BY <1>1 DEF Sends

\* A request of the acquisition under way.
LEMMA SendsFrame ==
  ASSUME RefTypeOK, Busy, NEW kind \in {"stop", "id", "enable", "zero", "read"}
  PROVE  /\ Sends(<<Frame(rRes.joint, kind)>>) /\ Frame(rRes.joint, kind).kind = kind
         /\ Frame(rRes.joint, kind).to = rRes.joint
<1>1. <<Frame(rRes.joint, kind)>> \in Seq(RefFrames)
  BY FrameTyped
<1>2. Frame(rRes.joint, kind).txn = rRes.txn /\ Frame(rRes.joint, kind).kind = kind
      /\ Frame(rRes.joint, kind).to = rRes.joint
  BY DEF Frame
<1> QED BY <1>1, <1>2 DEF Sends

\* Every ending is a stop pass.
LEMMA EndedStops ==
  ASSUME NEW sent, Sends(sent), NEW cause, NEW evidence, NEW fault \in BOOLEAN,
         Ended(sent, cause, evidence, fault), UNCHANGED <<rAt, rDrive>>, rRx' \in {rRx, <<>>}
  PROVE  StopPass
<1>1. PICK ok \in BOOLEAN : FinishReference(Auth, sent, ok, cause, evidence, fault)
  BY DEF Ended
<1>2. RefPerformStop(sent, ok, fault) /\ rRes' = NoRes /\ rSeq' = rSeq
  BY <1>1 DEF FinishReference
<1>3. ~Busy'
  BY <1>2 DEF Busy, NoRes
<1> QED BY <1>2, <1>3 DEF StopPass

\* A write that fails ends in a stop pass.
LEMMA WriteFailsStops ==
  ASSUME NEW frame, Sends(<<frame>>), RefWriteFails(frame), UNCHANGED <<rAt, rDrive>>, rRx' = rRx
  PROVE  StopPass
<1>1. PICK sent \in {<<>>, <<frame>>} : Ended(sent, "failed", NoRead, TRUE)
  BY DEF RefWriteFails
<1>2. Sends(sent)
  BY <1>1, SendsStops
<1> QED BY <1>1, <1>2, EndedStops

\* A step that goes on to `phase` without a receive.
LEMMA GoesMoves ==
  ASSUME RefTypeOK, Busy, NEW sent, NEW res \in RefReservations, Sends(sent), Goes(sent, res),
         UNCHANGED <<rAt, rDrive, rRx>>,
         res.txn = rRes.txn, res.joint = rRes.joint, rRes.armed => res.armed, res.by = rRes.by,
         \A k \in 1 .. Len(sent) : sent[k].kind = "enable" => res.armed /\ sent[k].to = rRes.joint,
         res.phase \in Asking => rRes.phase \in Asking,
         res.phase = "AwaitIdentity" => res.in.uid = 0, res.phase # "AwaitReportingOff",
         res.phase = "AwaitReadback" => res.in.read = NoRead
  PROVE  Moved(sent)
BY DEF Moved, Goes

\* BaselineStop.
LEMMA BaselineStopMoves == ASSUME RefTypeOK, BaselineStop PROVE Advances
<1>1. Busy /\ UNCHANGED <<rAt, rDrive, rRx>> /\ rRes.phase = "BaselineStop"
  BY DEF BaselineStop, In, RefRest
<1>2. rRes \in RefReservations /\ rRes.joint \in RefJoints /\ rStop + 1 \in Nat
  BY <1>1, ReservationTyped DEF RefTypeOK, RefOwnerTypeOK
<1> DEFINE res == [To("DrainOld") EXCEPT !.stop = rStop + 1]
<1>3. CASE Goes(StopFrames, res)
  <2>1. res \in RefReservations /\ res.txn = rRes.txn /\ res.joint = rRes.joint /\ res.armed = rRes.armed
        /\ res.by = rRes.by /\ res.phase = "DrainOld"
    BY <1>2 DEF To, RefReservations, RefPhases
  <2>2. \A k \in 1 .. Len(StopFrames) : StopFrames[k].kind # "enable"
    BY StopsReachAll
  <2> HIDE DEF res
  <2>3. Moved(StopFrames)
    BY <1>1, <1>3, <2>1, <2>2, SendsStops, GoesMoves DEF Asking
  <2> QED BY <2>3 DEF Advances
<1>4. CASE RefWriteFails([to |-> rRes.joint, kind |-> "stop", txn |-> 0])
  <2> DEFINE f == [to |-> rRes.joint, kind |-> "stop", txn |-> 0]
  <2>1. f \in RefFrames /\ f.txn = 0 /\ f.kind = "stop"
    BY <1>2 DEF RefFrames
  <2>2. RefWriteFails(f)
    BY <1>4
  <2> HIDE DEF f
  <2>3. Sends(<<f>>)
    BY <2>1 DEF Sends
  <2> QED BY <1>1, <2>2, <2>3, WriteFailsStops DEF Advances
<1> QED BY <1>3, <1>4 DEF BaselineStop

\* RequestIdentity and RequestReadback.
LEMMA RequestMoves ==
  ASSUME RefTypeOK, NEW phase, NEW kind \in {"id", "read"}, NEW next \in {"AwaitIdentity", "AwaitReadback"},
         RefRequest(phase, kind, next), next = "AwaitIdentity" => phase \in Asking
  PROVE  Advances
<1>1. Busy /\ UNCHANGED <<rAt, rDrive, rRx>> /\ rRes.phase = phase
  BY DEF RefRequest, In, RefRest
<1>2. rRes \in RefReservations
  BY <1>1, ReservationTyped
<1>3. /\ Sends(<<Frame(rRes.joint, kind)>>) /\ Frame(rRes.joint, kind).kind = kind
  BY <1>1, SendsFrame
<1> DEFINE res == [To(next) EXCEPT !.in = NoReplies]
           f == Frame(rRes.joint, kind)
<1> HIDE DEF f
<1>4. CASE Goes(<<f>>, res)
  <2>1. NoReplies \in RefAnswers /\ NoReplies.uid = 0 /\ NoReplies.read = NoRead /\ next \in RefPhases
    BY DEF NoReplies, RefAnswers, RefReads, NoRead, RefPhases
  <2>2. res \in RefReservations /\ res.txn = rRes.txn /\ res.joint = rRes.joint /\ res.armed = rRes.armed
        /\ res.by = rRes.by /\ res.phase = next /\ res.in = NoReplies
    BY <1>2, <2>1 DEF To, RefReservations
  <2>3. \A k \in 1 .. Len(<<f>>) : <<f>>[k].kind # "enable"
    BY <1>3 DEF f
  <2> HIDE DEF res
  <2>4. next \in Asking => rRes.phase \in Asking
    BY <1>1 DEF Asking
  <2>5. Moved(<<f>>)
    BY <1>1, <1>3, <1>4, <2>1, <2>2, <2>3, <2>4, GoesMoves DEF f
  <2> QED BY <2>5 DEF Advances
<1>5. CASE RefWriteFails(f)
  BY <1>1, <1>3, <1>5, WriteFailsStops DEF Advances, f
<1> QED BY <1>4, <1>5 DEF RefRequest, f

\* ArmTarget: the target counts as armed before its Enable is written.
LEMMA ArmMoves == ASSUME RefTypeOK, ArmTarget PROVE Advances
<1>1. Busy /\ UNCHANGED <<rAt, rDrive, rRx>>
  BY DEF ArmTarget, In, RefRest
<1>2. rRes \in RefReservations
  BY <1>1, ReservationTyped
<1> DEFINE res == [To("DrainPostArm") EXCEPT !.armed = TRUE]
           f == Frame(rRes.joint, "enable")
<1>3. Sends(<<f>>) /\ f.to = rRes.joint
  BY <1>1, SendsFrame
<1> HIDE DEF f
<1>4. CASE Goes(<<f>>, res)
  <2>1. res \in RefReservations /\ res.txn = rRes.txn /\ res.joint = rRes.joint /\ res.armed = TRUE
        /\ res.by = rRes.by /\ res.phase = "DrainPostArm"
    BY <1>2 DEF To, RefReservations, RefPhases
  <2>2. \A k \in 1 .. Len(<<f>>) : <<f>>[k].to = rRes.joint
    BY <1>3
  <2> HIDE DEF res
  <2>3. Moved(<<f>>)
    BY <1>1, <1>3, <1>4, <2>1, <2>2, GoesMoves DEF Asking
  <2> QED BY <2>3 DEF Advances
<1>5. CASE RefWriteFails(f)
  BY <1>1, <1>3, <1>5, WriteFailsStops DEF Advances
<1> QED BY <1>4, <1>5 DEF ArmTarget, f

\* SetZero.
LEMMA SetZeroMoves == ASSUME RefTypeOK, RefSetZero PROVE Advances
<1>1. Busy /\ UNCHANGED <<rAt, rDrive, rRx>>
  BY DEF RefSetZero, In, RefRest
<1>2. rRes \in RefReservations /\ Advanced
  BY <1>1, ReservationTyped, SetZeroAdvances
<1> DEFINE res == [To("AwaitAck") EXCEPT !.epoch = rDev'[rRes.joint].epoch]
           f == Frame(rRes.joint, "zero")
<1>3. Sends(<<f>>) /\ f.kind = "zero"
  BY <1>1, SendsFrame
<1> HIDE DEF f
<1>4. CASE Goes(<<f>>, res)
  <2>1. rDev'[rRes.joint].epoch \in Nat
    BY <1>1, <1>2, ReservationTyped DEF Advanced, RefTypeOK, RefOwnerTypeOK, RefDevices
  <2>2. res \in RefReservations /\ res.txn = rRes.txn /\ res.joint = rRes.joint /\ res.armed = rRes.armed
        /\ res.by = rRes.by /\ res.phase = "AwaitAck"
    BY <1>2, <2>1 DEF To, RefReservations, RefPhases
  <2>3. \A k \in 1 .. Len(<<f>>) : <<f>>[k].kind # "enable"
    BY <1>3
  <2> HIDE DEF res
  <2>4. Moved(<<f>>)
    BY <1>1, <1>3, <1>4, <2>2, <2>3, GoesMoves DEF Asking
  <2> QED BY <2>4 DEF Advances
<1>5. CASE RefWriteFails(f)
  BY <1>1, <1>3, <1>5, WriteFailsStops DEF Advances
<1> QED BY <1>4, <1>5 DEF RefSetZero, f

\* A receive: it goes on, or the acquisition ends.
LEMMA DrainMoves == ASSUME RefTypeOK, RefDrain PROVE Advances
<1>1. Busy /\ rRx' = <<>> /\ UNCHANGED <<rAt, rDrive>>
      /\ rRes.phase \in {"DrainOld", "AwaitIdentity", "AwaitReportingOff", "DrainPostArm", "AwaitAck",
                         "AwaitReadback"}
  BY DEF RefDrain, In
<1>2. PICK lim, settled, again \in BOOLEAN :
        DrainOutcome(RefReceived(lim), PhaseAfter(RefReceived(lim), settled), again)
  BY DEF RefDrain
<1> DEFINE r == RefReceived(lim)
           next == PhaseAfter(r, settled)
           res == ReservationAfter(r, next)
           sent == IF again THEN <<Frame(rRes.joint, "id")>> ELSE <<>>
<1>3. r.in = RepliesIn /\ RepliesIn \in RefAnswers
  BY <1>1, AnswersTyped DEF RefReceived
<1>4. next \in RefPhases
  BY <1>1, PhaseTyped
<1> HIDE DEF r
<1>5. /\ next \in Asking => rRes.phase \in Asking
      /\ next = "AwaitIdentity" => r.in.uid = 0
      /\ next = "AwaitReportingOff" => /\ rRes.phase \in {"AwaitIdentity", "AwaitReportingOff"}
                                       /\ rRes.phase = "AwaitIdentity" => r.in.uid # 0
      /\ next = "AwaitReadback" => rRes.phase = "AwaitReadback"
  BY <1>1 DEF PhaseAfter, Asking
<1> HIDE DEF next
<1>6. /\ res.txn = rRes.txn /\ res.joint = rRes.joint /\ res.phase = next
      /\ res.in = r.in /\ res.armed = rRes.armed
      /\ res.by = IF next = "AwaitReportingOff" THEN r.in.by ELSE rRes.by
  BY <1>1, <1>3, <1>4, ReceivedTyped
<1>7. Sends(sent) /\ \A k \in 1 .. Len(sent) : sent[k].kind # "enable"
  <2>1. CASE again
    <3> DEFINE f == Frame(rRes.joint, "id")
    <3>1. Sends(<<f>>) /\ f.kind = "id"
      BY <1>1, SendsFrame
    <3> HIDE DEF f
    <3>2. sent = <<f>>
      BY <2>1 DEF f
    <3> QED BY <3>1, <3>2
  <2>2. CASE ~again
    BY <2>2, SendsStops
  <2> QED BY <2>1, <2>2
<1> HIDE DEF res, sent
<1>8. CASE Goes(sent, res) /\ ~ReadBack(r)
  <2>1. rOut' = rOut \o sent /\ rRes' = res /\ rSeq' = rSeq /\ rLoose' = rLoose
    BY <1>8 DEF Goes
  <2>2. next = "AwaitReadback" => r.in.read = NoRead
    BY <1>5, <1>8 DEF ReadBack
  <2>3. Moved(sent)
    BY <1>1, <1>3, <1>5, <1>6, <1>7, <2>1, <2>2 DEF Moved
  <2> QED BY <2>3 DEF Advances
<1>9. CASE \/ Ended(<<>>, "failed", NoRead, TRUE) \/ Ended(<<>>, "failed", NoRead, FALSE)
           \/ Ended(<<>>, "staged", r.in.read, FALSE)
  BY <1>1, <1>9, SendsStops, EndedStops DEF Advances
<1>10. DrainOutcome(r, next, again)
  BY <1>2 DEF r, next
<1> QED
  <2>1. CASE r.hazard
    BY <1>10, <1>9, <2>1 DEF DrainOutcome
  <2>2. CASE ~r.hazard /\ ClaimedElsewhere(r)
    BY <1>10, <1>9, <2>2 DEF DrainOutcome, ClaimedElsewhere, ReadBack
  <2>3. CASE ~r.hazard /\ ~ClaimedElsewhere(r) /\ ReadBack(r)
    BY <1>10, <1>9, <2>3 DEF DrainOutcome
  <2>4. CASE ~r.hazard /\ ~ClaimedElsewhere(r) /\ ~ReadBack(r)
    BY <1>10, <1>8, <2>4 DEF DrainOutcome, sent, res
  <2> QED BY <2>1, <2>2, <2>3, <2>4

\* Every step of an acquisition.
LEMMA AdvanceMoves == ASSUME RefTypeOK, Advance PROVE Advances
<1>1. CASE AdvanceExpired \/ AdvanceHazard \/ AdvanceDiscontinuous
  <2>1. EndQuietly
    BY <1>1 DEF AdvanceExpired, AdvanceHazard, AdvanceDiscontinuous
  <2>2. UNCHANGED <<rAt, rDrive, rRx>> /\ Ended(<<>>, "failed", NoRead, FALSE)
    BY <2>1 DEF EndQuietly
  <2> QED BY <2>2, SendsStops, EndedStops DEF Advances
<1>2. CASE RequestIdentity
  BY <1>2, RequestMoves DEF RequestIdentity, Asking
<1>3. CASE RequestReadback
  BY <1>3, RequestMoves DEF RequestReadback
<1>4. CASE DrainFails
  <2>1. UNCHANGED <<rAt, rDrive>> /\ rRx' = <<>> /\ Ended(<<>>, "failed", NoRead, TRUE)
    BY <1>4 DEF DrainFails
  <2> QED BY <2>1, SendsStops, EndedStops DEF Advances
<1> QED BY <1>1, <1>2, <1>3, <1>4, BaselineStopMoves, ArmMoves, SetZeroMoves, DrainMoves DEF Advance

\* An order or a mishap that overtakes the reference work ends it with a stop pass.
LEMMA OvertakeStops ==
  ASSUME NEW txns, NEW auth, NEW ok \in BOOLEAN, NEW fault \in BOOLEAN, Overtake(txns, auth, ok, fault)
  PROVE  StopPass
<1>1. UNCHANGED <<rAt, rDrive, rRx, rSeq>> /\ RefPerformStop(<<>>, ok, fault)
  BY DEF Overtake
<1>2. ~Busy'
  <2>1. CASE Busy
    BY <2>1 DEF Overtake, Busy, NoRes
  <2>2. CASE ~Busy
    BY <2>2 DEF Overtake, Busy
  <2> QED BY <2>1, <2>2
<1> QED BY <1>1, <1>2, SendsStops DEF StopPass

\* Every step is of one of these kinds, or the wire's own.
LEMMA StepKinds ==
  ASSUME RefTypeOK, ReferenceNext
  PROVE  \/ Idle \/ StopPass \/ Emptied \/ Begun \/ (\E sent : Moved(sent))
         \/ EnableLeaves \/ DriveAnswers \/ DriveMisses \/ RefDriveReports \/ Reboot
<1>1. CASE Advance
  BY <1>1, AdvanceMoves DEF Advances
<1>2. CASE AdvanceCommit
  <2>1. ~Busy /\ rRx' = <<>> /\ UNCHANGED <<rRes, rSeq, rAt, rDrive>>
    BY <1>2 DEF AdvanceCommit
  <2>2. RefPerformStop(<<>>, TRUE, TRUE) \/ UNCHANGED <<rOut, rLoose>>
    BY <1>2 DEF AdvanceCommit
  <2>3. CASE UNCHANGED <<rOut, rLoose>>
    BY <2>1, <2>3 DEF Emptied
  <2>4. CASE RefPerformStop(<<>>, TRUE, TRUE)
    BY <2>1, <2>4, SendsStops DEF StopPass, Busy
  <2> QED BY <2>2, <2>3, <2>4
<1>3. CASE BeginCommit \/ OverallExpires \/ JournalAnswers \/ PumpEstop \/ RefAdmit \/ Defer
           \/ TakeReadyDeferred \/ DrainAtShutdown \/ ApplyLimitPatch \/ RefReadFacet
  <2>1. UNCHANGED <<rRes, rSeq, rOut, rAt, rRx, rDrive, rLoose>>
    BY <1>3 DEF BeginCommit, OverallExpires, JournalAnswers, PumpEstop, QueueRest, RefAdmit, Defer,
                TakeReadyDeferred, OrderRest, DrainAtShutdown, ApplyLimitPatch, RefReadFacet, wireVars
  <2> QED BY <2>1 DEF Idle
<1>4. CASE PhaseExpires
  BY <1>4 DEF PhaseExpires, Idle, wireVars
<1>5. CASE Pump
  <2>1. UNCHANGED <<rOut, rAt, rRx, rDrive, rLoose>>
    BY <1>5 DEF Pump, QueueRest, wireVars
  <2>2. \/ UNCHANGED <<rRes, rSeq>>
        \/ \E j, auth : BeginReference(j, auth) /\ Admissible
    BY <1>5 DEF Pump
  <2>3. CASE UNCHANGED <<rRes, rSeq>>
    BY <2>1, <2>3 DEF Idle
  <2>4. CASE \E j, auth : BeginReference(j, auth) /\ Admissible
    BY <2>1, <2>4 DEF BeginReference, Admissible, Begun
  <2> QED BY <2>2, <2>3, <2>4
<1>6. CASE RefDisableAll
  BY <1>6, OvertakeStops DEF RefDisableAll
<1>7. CASE Hazard
  BY <1>7, OvertakeStops DEF Hazard
<1>8. CASE CancelForShutdown
  BY <1>8, OvertakeStops DEF CancelForShutdown
<1>9. CASE IdleDrain
  BY <1>9 DEF IdleDrain, Emptied, WorkPending
<1> QED BY <1>1, <1>2, <1>3, <1>4, <1>5, <1>6, <1>7, <1>8, <1>9 DEF ReferenceNext, Work

-----------------------------------------------------------------------------
\* Frames appended to a queue, a frame taken from it.
LEMMA QueueGrows ==
  ASSUME NEW S, NEW q \in Seq(S), NEW s \in Seq(S), NEW t, NEW n
  PROVE  /\ NoOlder(q, t) /\ NoOlder(s, t) => NoOlder(q \o s, t)
         /\ OlderFirst(q, t) /\ NoOlder(s, t) => OlderFirst(q \o s, t)
         /\ Before(q, n) /\ Before(s, n) => Before(q \o s, n)
         /\ HasOwnId(q \o s, t) => HasOwnId(q, t) \/ HasOwnId(s, t)
<1> DEFINE z == q \o s
           a == Len(q)
           b == Len(s)
<1>1. a \in Nat /\ b \in Nat
  OBVIOUS
<1>2. /\ Len(z) = a + b
      /\ \A k \in 1 .. a + b : z[k] = IF k <= a THEN q[k] ELSE s[k - a]
  BY ConcatProperties
<1> HIDE DEF z
<1>3. ASSUME NEW k \in 1 .. Len(z)
      PROVE  \/ k \in 1 .. a /\ z[k] = q[k]
             \/ k > a /\ k - a \in 1 .. b /\ z[k] = s[k - a]
  <2> HIDE DEF a, b
  <2>1. CASE k <= a
    BY <1>1, <1>2, <2>1
  <2>2. CASE ~(k <= a)
    BY <1>1, <1>2, <2>2
  <2> QED BY <2>1, <2>2
<1>4. NoOlder(q, t) /\ NoOlder(s, t) => NoOlder(z, t)
  BY <1>3 DEF NoOlder
<1>5. Before(q, n) /\ Before(s, n) => Before(z, n)
  BY <1>3 DEF Before
<1>6. HasOwnId(z, t) => HasOwnId(q, t) \/ HasOwnId(s, t)
  BY <1>3 DEF HasOwnId
<1>7. ASSUME OlderFirst(q, t), NoOlder(s, t) PROVE OlderFirst(z, t)
  <2> SUFFICES ASSUME NEW i \in 1 .. Len(z), NEW k \in 1 .. Len(z), OwnId(z[i], t), OlderRead(z[k], t)
               PROVE  k < i
    BY DEF OlderFirst
  <2>1. k \in 1 .. a /\ z[k] = q[k]
    BY <1>3, <1>7 DEF NoOlder
  <2>2. CASE i \in 1 .. a /\ z[i] = q[i]
    BY <1>7, <2>1, <2>2 DEF OlderFirst
  <2>3. CASE i > a
    <3> HIDE DEF a
    <3> QED BY <1>1, <2>1, <2>3
  <2> QED BY <1>3, <2>2, <2>3
<1> QED BY <1>4, <1>5, <1>6, <1>7 DEF z

\* The first frame taken from a queue.
LEMMA QueueShrinks ==
  ASSUME NEW S, NEW q \in Seq(S), q # <<>>, NEW t, NEW n
  PROVE  /\ NoOlder(q, t) => NoOlder(Tail(q), t) /\ ~OlderRead(q[1], t)
         /\ OlderFirst(q, t) => OlderFirst(Tail(q), t)
         /\ OlderFirst(q, t) /\ OwnId(q[1], t) => NoOlder(q, t)
         /\ Before(q, n) => Before(Tail(q), n) /\ (q[1].kind # "echo" => q[1].txn < n)
<1> DEFINE z == Tail(q)
           a == Len(q)
<1>1. a \in Nat \ {0}
  BY EmptySeq
<1>2. Len(z) = a - 1 /\ \A k \in 1 .. a - 1 : z[k] = q[k + 1]
  OBVIOUS
<1> HIDE DEF z, a
<1>3. \A k \in 1 .. Len(z) : k + 1 \in 1 .. a /\ z[k] = q[k + 1]
  BY <1>1, <1>2
<1>4. 1 \in 1 .. a
  BY <1>1
<1>5. NoOlder(q, t) => NoOlder(z, t) /\ ~OlderRead(q[1], t)
  BY <1>3, <1>4 DEF NoOlder, a
<1>6. Before(q, n) => Before(z, n) /\ (q[1].kind # "echo" => q[1].txn < n)
  BY <1>3, <1>4 DEF Before, a
<1>7. OlderFirst(q, t) => OlderFirst(z, t)
  <2> SUFFICES ASSUME OlderFirst(q, t), NEW i \in 1 .. Len(z), NEW k \in 1 .. Len(z),
                      OwnId(z[i], t), OlderRead(z[k], t)
               PROVE  k < i
    BY DEF OlderFirst
  <2>1. /\ i + 1 \in 1 .. a /\ OwnId(q[i + 1], t)
        /\ k + 1 \in 1 .. a /\ OlderRead(q[k + 1], t)
    BY <1>3
  <2>2. k + 1 < i + 1
    BY <2>1 DEF OlderFirst, a
  <2> QED BY <1>1, <1>2, <2>2
<1>8. OlderFirst(q, t) /\ OwnId(q[1], t) => NoOlder(q, t)
  <2> SUFFICES ASSUME OlderFirst(q, t), OwnId(q[1], t), NEW k \in 1 .. a, OlderRead(q[k], t) PROVE FALSE
    BY DEF NoOlder, a
  <2>1. k < 1
    BY <1>4 DEF OlderFirst, a
  <2> QED BY <1>1, <2>1
<1> QED BY <1>5, <1>6, <1>7, <1>8 DEF z

\* One frame appended to a queue.
LEMMA OneFrame ==
  ASSUME NEW S, NEW q \in Seq(S), NEW x \in S, NEW t, NEW n
  PROVE  /\ NoOlder(q, t) /\ ~OlderRead(x, t) => NoOlder(Append(q, x), t)
         /\ Before(q, n) /\ (x.kind # "echo" => x.txn < n) => Before(Append(q, x), n)
         /\ HasOwnId(Append(q, x), t) => HasOwnId(q, t) \/ OwnId(x, t)
<1> DEFINE s == <<x>>
<1>1. s \in Seq(S) /\ Append(q, x) = q \o s /\ Len(s) = 1 /\ s[1] = x
  OBVIOUS
<1> HIDE DEF s
<1>2. \A k \in 1 .. Len(s) : s[k] = x
  BY <1>1
<1>3. /\ ~OlderRead(x, t) => NoOlder(s, t)
      /\ (x.kind # "echo" => x.txn < n) => Before(s, n)
      /\ HasOwnId(s, t) => OwnId(x, t)
  BY <1>2 DEF NoOlder, Before, HasOwnId
<1> QED BY <1>1, <1>3, QueueGrows

\* What is to be shown of a step.
LEMMA ReadsAfter ==
  ASSUME Before(rOut', rSeq'), Before(rAt', rSeq'), Before(rRx', rSeq'),
         \A k \in 1 .. Len(rAt') : rAt'[k].kind = "enable",
         Busy' => Ordered(rOut', rRx', rRes')
  PROVE  ReadInv'
<1>1. OnWire'
  BY DEF OnWire, Before
<1>2. OwnReplies'
  BY DEF OwnReplies, Ordered, NoOlder, OlderFirst, HasOwnId, OlderRead, OwnId
<1> QED BY <1>1, <1>2 DEF ReadInv

\* The queues' types.
LEMMA QueuesTyped ==
  ASSUME RefTypeOK
  PROVE  /\ rOut \in Seq(RefFrames) /\ rAt \in Seq(RefFrames) /\ rRx \in Seq(RefEchoes \union RefReplies)
         /\ rSeq \in Nat \ {0}
BY ReferenceAssumption DEF RefTypeOK, RefWireTypeOK, RefOwnerTypeOK, ReferenceAssumption

\* An empty queue.
LEMMA NothingQueued ==
  ASSUME NEW t, NEW n PROVE NoOlder(<<>>, t) /\ Before(<<>>, n) /\ ~HasOwnId(<<>>, t) /\ OlderFirst(<<>>, t)
<1>1. Len(<<>>) = 0
  OBVIOUS
<1> QED BY <1>1 DEF NoOlder, Before, HasOwnId, OlderFirst

\* What an acquisition sends is its own.
LEMMA SentIsOwn ==
  ASSUME RefTypeOK, NewestRuns, NEW sent, Sends(sent)
  PROVE  NoOlder(sent, rRes.txn) /\ Before(sent, rSeq)
<1>1. NoOlder(sent, rRes.txn)
  BY DEF Sends, NoOlder, OlderRead
<1>2. rSeq \in Nat \ {0}
  BY QueuesTyped
<1>3. rRes.txn < rSeq
  <2>1. CASE Busy
    BY <2>1, ReservationTyped DEF NewestRuns
  <2>2. CASE ~Busy
    BY <1>2, <2>2 DEF Busy
  <2> QED BY <2>1, <2>2
<1>4. 0 < rSeq
  BY <1>2
<1>5. Before(sent, rSeq)
  BY <1>3, <1>4 DEF Sends, Before
<1> QED BY <1>1, <1>5

\* A stop pass ends the acquisition; its frames are no requests.
LEMMA StopPassReads == ASSUME RefTypeOK, NewestRuns, ReadInv, StopPass PROVE ReadInv'
<1>1. PICK sent, ok, fault : /\ Sends(sent) /\ ok \in BOOLEAN /\ fault \in BOOLEAN
                             /\ RefPerformStop(sent, ok, fault)
  BY DEF StopPass
<1>2. ~Busy' /\ rAt' = rAt /\ rSeq' = rSeq /\ rRx' \in {rRx, <<>>}
  BY DEF StopPass
<1> DEFINE z == IF ok THEN StopFrames ELSE <<>>
           x == rOut \o sent
<1>3. rOut' = x \o z
  BY <1>1 DEF RefPerformStop
<1>4. z \in Seq(RefFrames) /\ sent \in Seq(RefFrames) /\ x \in Seq(RefFrames)
  BY <1>1, StopsReachAll, QueuesTyped DEF Sends
<1>5. Before(sent, rSeq) /\ Before(z, rSeq)
  <2>1. Sends(z)
    BY SendsStops
  <2> HIDE DEF z
  <2> QED BY <1>1, <2>1, SentIsOwn
<1>6. Before(x, rSeq)
  BY <1>1, <1>4, <1>5, QueuesTyped, QueueGrows DEF ReadInv, OnWire
<1> HIDE DEF x, z
<1>7. Before(rOut', rSeq')
  BY <1>2, <1>3, <1>4, <1>5, <1>6, QueueGrows
<1>8. Before(rAt', rSeq') /\ Before(rRx', rSeq') /\ \A k \in 1 .. Len(rAt') : rAt'[k].kind = "enable"
  BY <1>2, NothingQueued DEF ReadInv, OnWire
<1> QED BY <1>2, <1>7, <1>8, ReadsAfter

\* A new acquisition: every read on its way is an older one's, and nothing was asked.
LEMMA BegunReads == ASSUME RefTypeOK, ReadInv, Begun PROVE ReadInv'
<1>1. /\ rOut' = rOut /\ rAt' = rAt /\ rRx' = rRx /\ rSeq' = rSeq + 1 /\ rRes'.txn = rSeq /\ rRes'.by = 0
      /\ rRes'.phase = "BaselineStop"
  BY DEF Begun
<1>2. rSeq \in Nat \ {0}
  BY QueuesTyped
<1>3. ASSUME NEW S, NEW q \in Seq(S), Before(q, rSeq), \A x \in S : x.kind # "echo" => x.txn \in Nat
      PROVE  Before(q, rSeq + 1) /\ ~HasOwnId(q, rSeq)
  <2>1. ASSUME NEW k \in 1 .. Len(q), q[k].kind # "echo" PROVE q[k].txn < rSeq + 1 /\ q[k].txn # rSeq
    <3>1. q[k].txn \in Nat /\ q[k].txn < rSeq
      BY <1>3, <2>1 DEF Before
    <3> QED BY <1>2, <3>1
  <2> QED BY <2>1 DEF Before, HasOwnId, OwnId
<1>4. /\ Before(rOut, rSeq + 1) /\ ~HasOwnId(rOut, rSeq) /\ Before(rAt, rSeq + 1)
      /\ Before(rRx, rSeq + 1) /\ ~HasOwnId(rRx, rSeq)
  <2>1. \A x \in RefFrames : x.txn \in Nat
    BY DEF RefFrames
  <2>2. \A x \in RefEchoes \union RefReplies : x.kind # "echo" => x.txn \in Nat
    BY DEF RefEchoes, RefReplies
  <2> QED BY <1>3, <2>1, <2>2, QueuesTyped DEF ReadInv, OnWire
<1>5. OlderFirst(rOut, rSeq)
  BY <1>4 DEF OlderFirst, HasOwnId
<1>6. Ordered(rOut, rRx, rRes')
  BY <1>1, <1>2, <1>4, <1>5 DEF Ordered, Asking
<1> QED BY <1>1, <1>4, <1>6, ReadsAfter DEF ReadInv, OnWire

\* Nothing is sent and no phase changes.
LEMMA QuietReads ==
  ASSUME RefTypeOK, ReadInv, UNCHANGED <<rOut, rAt, rSeq>>,
         \/ rRx' = rRx /\ (rRes' = rRes \/ (Busy /\ rRes' = [rRes EXCEPT !.due = TRUE]))
         \/ rRx' = <<>> /\ ~Busy'
  PROVE  ReadInv'
<1>1. Before(rOut', rSeq') /\ Before(rAt', rSeq') /\ Before(rRx', rSeq')
      /\ \A k \in 1 .. Len(rAt') : rAt'[k].kind = "enable"
  BY NothingQueued DEF ReadInv, OnWire
<1>2. ASSUME Busy' PROVE Ordered(rOut', rRx', rRes')
  <2>1. rRx' = rRx /\ rOut' = rOut
    BY <1>2
  <2>2. CASE rRes' = rRes
    BY <1>2, <2>1, <2>2 DEF ReadInv, OwnReplies, Busy
  <2>3. CASE Busy /\ rRes' = [rRes EXCEPT !.due = TRUE]
    <3>1. rRes'.txn = rRes.txn /\ rRes'.phase = rRes.phase /\ rRes'.in = rRes.in /\ rRes'.by = rRes.by
      BY <2>3, ReservationTyped DEF RefReservations
    <3> QED BY <2>1, <2>3, <3>1 DEF ReadInv, OwnReplies, Ordered
  <2> QED BY <1>2, <2>2, <2>3
<1> QED BY <1>1, <1>2, ReadsAfter

\* The acquisition goes on: its own identity reply tells that no older read is on its way.
LEMMA MovedReads ==
  ASSUME RefTypeOK, NewestRuns, ReadInv, NEW sent, Moved(sent) PROVE ReadInv'
<1> DEFINE t == rRes.txn
<1>1. /\ Busy /\ Sends(sent) /\ rOut' = rOut \o sent /\ rAt' = rAt /\ rSeq' = rSeq
      /\ rRx' \in {rRx, <<>>} /\ rRes'.txn = t
  BY DEF Moved
<1>2. Ordered(rOut, rRx, rRes) /\ OnWire /\ t # 0
  BY <1>1 DEF ReadInv, OwnReplies, Busy
<1>3. /\ NoOlder(rOut, t) => NoOlder(rOut', t)
      /\ OlderFirst(rOut, t) => OlderFirst(rOut', t)
      /\ Before(rOut', rSeq)
  <2>1. NoOlder(sent, t) /\ Before(sent, rSeq) /\ sent \in Seq(RefFrames)
    BY <1>1, SentIsOwn DEF Sends
  <2> HIDE DEF t
  <2> QED BY <1>1, <1>2, <2>1, QueuesTyped, QueueGrows DEF OnWire
<1>4. /\ NoOlder(rRx, t) => NoOlder(rRx', t)
      /\ HasOwnId(rRx', t) => HasOwnId(rRx, t)
      /\ Before(rRx', rSeq)
  BY <1>1, <1>2, NothingQueued DEF OnWire
<1>5. ASSUME rRes'.phase \in Asking
      PROVE  OlderFirst(rOut', t) /\ rRes'.by = 0 /\ (HasOwnId(rRx', t) => NoOlder(rOut', t))
  <2>1. rRes.phase \in Asking /\ rRes'.by = rRes.by
    BY <1>5 DEF Moved, Asking
  <2> QED BY <1>2, <1>3, <1>4, <2>1 DEF Ordered
<1>6. ASSUME rRes'.phase = "AwaitReportingOff"
      PROVE  rRes'.in.uid # 0 /\ rRes'.in.by = rRes'.by /\ (rRes'.by = t => NoOlder(rOut, t) /\ rRx' = <<>>)
  <2>1. /\ rRes.phase \in {"AwaitIdentity", "AwaitReportingOff"} /\ rRx' = <<>>
        /\ rRes'.in = RepliesIn /\ rRes'.by = RepliesIn.by
        /\ rRes.phase = "AwaitIdentity" => RepliesIn.uid # 0
    BY <1>6 DEF Moved
  <2>2. CASE rRes.phase = "AwaitReportingOff"
    <3>1. rRes.in.uid # 0 /\ rRes.in.by = rRes.by /\ (rRes.by = t => NoOlder(rOut, t))
      BY <1>2, <2>2 DEF Ordered
    <3> QED BY <1>1, <2>1, <3>1, AnswersTyped
  <2>3. CASE rRes.phase = "AwaitIdentity"
    <3>1. rRes.in.uid = 0 /\ (HasOwnId(rRx, t) => NoOlder(rOut, t))
      BY <1>2, <2>3 DEF Ordered, Asking
    <3>2. RepliesIn.uid # 0
      BY <2>1, <2>3
    <3>3. RepliesIn.by = t => HasOwnId(rRx, t)
      BY <1>1, <3>1, <3>2, AnswersTyped DEF HasOwnId, OwnId
    <3> QED BY <2>1, <3>1, <3>2, <3>3
  <2> QED BY <2>1, <2>2, <2>3
<1>7. rRes'.by = t => NoOlder(rOut', t) /\ NoOlder(rRx', t)
  <2>1. CASE rRes'.phase = "AwaitReportingOff"
    BY <1>3, <1>6, <2>1, NothingQueued
  <2>2. CASE rRes'.phase # "AwaitReportingOff"
    <3>1. rRes'.by = rRes.by
      BY <2>2 DEF Moved
    <3> QED BY <1>2, <1>3, <1>4, <3>1 DEF Ordered
  <2> QED BY <2>1, <2>2
<1>8. /\ rRes'.phase = "AwaitIdentity" => rRes'.in.uid = 0
      /\ rRes'.phase = "AwaitReadback" => rRes'.in.read = NoRead
  BY DEF Moved
<1>9. Ordered(rOut', rRx', rRes')
  BY <1>1, <1>5, <1>6, <1>7, <1>8 DEF Ordered
<1> QED BY <1>1, <1>2, <1>3, <1>4, <1>9, ReadsAfter DEF OnWire

\* A frame leaves the host's queue, answered or not: the order stays.
LEMMA WireReads ==
  ASSUME RefTypeOK, ReadInv, rRes' = rRes, rSeq' = rSeq,
         NEW x \in RefEchoes \union RefReplies, rRx' \in {rRx, Append(rRx, x)},
         \/ rOut' = rOut /\ x.kind \notin {"id", "read"} /\ (x.kind # "echo" => x.txn < rSeq)
         \/ /\ rOut # <<>> /\ rOut' = Tail(rOut)
            /\ \/ x.kind \notin {"id", "read"} /\ (x.kind # "echo" => x.txn < rSeq)
               \/ x.kind = rOut[1].kind /\ x.txn = rOut[1].txn,
         Before(rAt', rSeq'), \A k \in 1 .. Len(rAt') : rAt'[k].kind = "enable"
  PROVE  ReadInv'
<1>1. OnWire
  BY DEF ReadInv
<1>2. Before(rOut', rSeq)
  BY <1>1, QueuesTyped, QueueShrinks DEF OnWire
<1>3. x.kind # "echo" => x.txn < rSeq
  <2>1. CASE rOut # <<>> /\ x.kind = rOut[1].kind /\ x.txn = rOut[1].txn
    BY <1>1, <2>1, QueuesTyped, QueueShrinks DEF OnWire
  <2> QED BY <2>1
<1>4. Before(rRx', rSeq)
  BY <1>1, <1>3, QueuesTyped, OneFrame DEF OnWire
<1>5. ASSUME Busy' PROVE Ordered(rOut', rRx', rRes')
  <2> DEFINE t == rRes.txn
  <2>1. Ordered(rOut, rRx, rRes) /\ rRes' = rRes
    BY <1>5 DEF ReadInv, OwnReplies, Busy
  <2>2. /\ NoOlder(rOut, t) => NoOlder(rOut', t)
        /\ OlderFirst(rOut, t) => OlderFirst(rOut', t)
    <3> HIDE DEF t
    <3> QED BY QueuesTyped, QueueShrinks
  <2>3. /\ NoOlder(rOut, t) => ~OlderRead(x, t)
        /\ OlderFirst(rOut, t) /\ OwnId(x, t) => NoOlder(rOut, t)
    <3> HIDE DEF t
    <3>1. CASE x.kind \notin {"id", "read"}
      BY <3>1 DEF OlderRead, OwnId
    <3>2. CASE rOut # <<>> /\ x.kind = rOut[1].kind /\ x.txn = rOut[1].txn
      <4>1. (OlderRead(x, t) <=> OlderRead(rOut[1], t)) /\ (OwnId(x, t) <=> OwnId(rOut[1], t))
        BY <3>2 DEF OlderRead, OwnId
      <4> QED BY <3>2, <4>1, QueuesTyped, QueueShrinks
    <3> QED BY <3>1, <3>2
  <2>4. /\ NoOlder(rRx, t) /\ ~OlderRead(x, t) => NoOlder(rRx', t)
        /\ HasOwnId(rRx', t) => HasOwnId(rRx, t) \/ OwnId(x, t)
    <3> HIDE DEF t
    <3> QED BY QueuesTyped, OneFrame
  <2> QED BY <2>1, <2>2, <2>3, <2>4 DEF Ordered
<1> QED BY <1>2, <1>4, <1>5, ReadsAfter

\* An Enable leaves the host.
LEMMA EnableLeavesReads == ASSUME RefTypeOK, ReadInv, EnableLeaves PROVE ReadInv'
<1> DEFINE e == [from |-> Head(rOut).to, kind |-> "echo"]
<1>1. /\ rOut # <<>> /\ rOut' = Tail(rOut) /\ rAt' = <<Head(rOut)>> /\ rRx' = Append(rRx, e)
      /\ rRes' = rRes /\ rSeq' = rSeq /\ Head(rOut).kind = "enable"
  BY DEF EnableLeaves, OwnerRest
<1>2. Head(rOut) \in RefFrames /\ Head(rOut) = rOut[1] /\ rOut \in Seq(RefFrames)
  BY <1>1, QueuesTyped
<1>3. e \in RefEchoes \union RefReplies /\ e.kind = "echo"
  BY <1>2 DEF RefEchoes, RefFrames
<1>4. rOut[1].txn < rSeq
  <2>1. rOut[1].kind # "echo"
    BY <1>1, <1>2
  <2> QED BY <1>1, <1>2, <2>1, QueueShrinks DEF ReadInv, OnWire
<1>5. Len(rAt') = 1 /\ rAt'[1] = rOut[1]
  BY <1>1, <1>2
<1>6. Before(rAt', rSeq') /\ \A k \in 1 .. Len(rAt') : rAt'[k].kind = "enable"
  BY <1>1, <1>2, <1>4, <1>5 DEF Before
<1> HIDE DEF e
<1> QED BY <1>1, <1>3, <1>6, WireReads

\* The frame a drive handles: an Enable on the wire, or the first of the host's queue.
LEMMA HandledReads ==
  ASSUME RefTypeOK, OnWire, Handled
  PROVE  /\ AtDrive[1] \in RefFrames /\ AtDrive[1].txn < rSeq
         /\ Before(rAt', rSeq) /\ \A k \in 1 .. Len(rAt') : rAt'[k].kind = "enable"
         /\ \/ rOut' = rOut /\ AtDrive[1].kind = "enable"
            \/ rOut # <<>> /\ rOut' = Tail(rOut) /\ AtDrive[1] = rOut[1]
<1>1. rAt' = <<>> /\ AtDrive # <<>> /\ rOut' = IF rAt # <<>> THEN rOut ELSE Tail(rOut)
  BY DEF Handled
<1>2. AtDrive[1] \in RefFrames /\ AtDrive[1].kind # "echo"
  BY HandledTyped DEF RefFrames
<1>3. Before(rAt', rSeq) /\ \A k \in 1 .. Len(rAt') : rAt'[k].kind = "enable"
  <2>1. Len(rAt') = 0
    BY <1>1
  <2> QED BY <2>1 DEF Before
<1>4. CASE rAt # <<>>
  <2>1. AtDrive = rAt /\ rOut' = rOut
    BY <1>1, <1>4 DEF AtDrive
  <2>2. Len(rAt) \in Nat \ {0}
    BY <1>4, QueuesTyped, EmptySeq
  <2>3. 1 \in 1 .. Len(rAt)
    BY <2>2
  <2>4. rAt[1].kind = "enable" /\ rAt[1].txn < rSeq
    BY <1>2, <2>1, <2>3 DEF OnWire, Before
  <2> QED BY <1>2, <1>3, <2>1, <2>4
<1>5. CASE rAt = <<>>
  <2>1. rOut # <<>> /\ AtDrive = <<Head(rOut)>> /\ rOut' = Tail(rOut)
    BY <1>1, <1>5 DEF AtDrive
  <2>2. AtDrive[1] = rOut[1]
    BY <2>1, QueuesTyped
  <2>3. rOut[1].txn < rSeq
    BY <1>2, <2>1, <2>2, QueuesTyped, QueueShrinks DEF OnWire
  <2> QED BY <1>2, <1>3, <2>1, <2>2, <2>3
<1> QED BY <1>4, <1>5

\* A drive answers or misses a frame.
LEMMA DriveReads == ASSUME RefTypeOK, ReadInv, DriveAnswers \/ DriveMisses PROVE ReadInv'
<1> DEFINE f == AtDrive[1]
<1>1. Handled /\ rRes' = rRes /\ rSeq' = rSeq
  BY DEF DriveAnswers, DriveMisses, OwnerRest
<1>2. /\ f \in RefFrames /\ f.txn < rSeq
      /\ Before(rAt', rSeq') /\ \A k \in 1 .. Len(rAt') : rAt'[k].kind = "enable"
      /\ \/ rOut' = rOut /\ f.kind = "enable"
         \/ rOut # <<>> /\ rOut' = Tail(rOut) /\ f = rOut[1]
  BY <1>1, HandledReads DEF ReadInv
<1> HIDE DEF f
<1>3. CASE DriveAnswers
  <2>1. PICK d \in [run : BOOLEAN, coord : Coords, uid : Nat \ {0}] : rRx' = Append(rRx, Reply(f, d))
    BY <1>3, DriveAnswersTyped DEF f
  <2>2. f \in [to : RefJoints, kind : {"stop", "id", "enable", "zero", "read", "report"}, txn : Nat]
    BY <1>2 DEF RefFrames
  <2> DEFINE x == Reply(f, d)
  <2>3. /\ x \in RefReplies /\ x.txn = f.txn
        /\ x.kind = IF f.kind \in {"id", "read"} THEN f.kind ELSE "status"
    BY <2>2, ReplyTyped
  <2> HIDE DEF x
  <2>4. \/ rOut' = rOut /\ x.kind \notin {"id", "read"} /\ (x.kind # "echo" => x.txn < rSeq)
        \/ /\ rOut # <<>> /\ rOut' = Tail(rOut)
           /\ \/ x.kind \notin {"id", "read"} /\ (x.kind # "echo" => x.txn < rSeq)
              \/ x.kind = rOut[1].kind /\ x.txn = rOut[1].txn
    BY <1>2, <2>3
  <2>5. rRx' \in {rRx, Append(rRx, x)}
    BY <2>1 DEF x
  <2> QED BY <1>1, <1>2, <2>3, <2>4, <2>5, WireReads
<1>4. CASE DriveMisses
  <2> DEFINE x == [from |-> f.to, kind |-> "echo"]
  <2>1. x \in RefEchoes /\ x.kind = "echo"
    BY <1>2 DEF RefEchoes, RefFrames
  <2>2. rRx' = rRx
    BY <1>4 DEF DriveMisses
  <2> HIDE DEF x
  <2>3. \/ rOut' = rOut /\ x.kind \notin {"id", "read"}
        \/ rOut # <<>> /\ rOut' = Tail(rOut) /\ x.kind \notin {"id", "read"}
    BY <1>2, <2>1
  <2> QED BY <1>1, <1>2, <2>1, <2>2, <2>3, WireReads
<1> QED BY <1>3, <1>4

\* A drive reports by itself, between acquisitions.
LEMMA ReportsReads == ASSUME RefTypeOK, ReadInv, RefDriveReports PROVE ReadInv'
<1>1. ~Busy' /\ UNCHANGED <<rOut, rAt, rSeq>>
  BY DEF RefDriveReports, OwnerRest, Busy
<1>2. PICK r \in RefReplies : rRx' = <<r>> /\ r.kind = "report" /\ r.txn = 0
  BY ReportsTyped
<1>3. Len(rRx') = 1 /\ rRx'[1] = r /\ 0 < rSeq
  BY <1>2, QueuesTyped
<1>4. Before(rRx', rSeq')
  BY <1>1, <1>2, <1>3 DEF Before
<1> QED BY <1>1, <1>4, ReadsAfter DEF ReadInv, OnWire

\* Every step keeps the order of the requests.
LEMMA ReadStep == ASSUME RefTypeOK, NewestRuns, ReadInv, [ReferenceNext]_rvars PROVE ReadInv'
<1>1. CASE Idle \/ Emptied \/ Reboot \/ UNCHANGED rvars
  <2>1. /\ UNCHANGED <<rOut, rAt, rSeq>>
        /\ \/ rRx' = rRx /\ (rRes' = rRes \/ (Busy /\ rRes' = [rRes EXCEPT !.due = TRUE]))
           \/ rRx' = <<>> /\ ~Busy'
    BY <1>1 DEF Idle, Emptied, Reboot, OwnerRest, rvars, wireVars, Busy
  <2> QED BY <2>1, QuietReads
<1>2. CASE ReferenceNext
  BY <1>1, <1>2, StepKinds, StopPassReads, BegunReads, MovedReads, EnableLeavesReads, DriveReads,
     ReportsReads
<1> QED BY <1>1, <1>2

-----------------------------------------------------------------------------
\* The initial state.
LEMMA ReferenceStart == ReferenceInit => RefTypeOK /\ GrantInv /\ ReadInv
<1> SUFFICES ASSUME ReferenceInit PROVE RefTypeOK /\ GrantInv /\ ReadInv
  OBVIOUS
<1>1. PICK at \in [RefJoints -> {"zero", "off"}],
           id \in Injection(RefJoints, 1 .. Cardinality(RefJoints)) :
        rDrive = [j \in RefJoints |-> [run |-> FALSE, coord |-> at[j], uid |-> id[j]]]
  BY DEF ReferenceInit
<1>2. /\ rRes = NoRes /\ rSeq = 1 /\ rPend = 0 /\ rJobs = <<>> /\ rTxn = [t \in Txns |-> NoOutcome]
      /\ rAuth = NoAuthority /\ rDev = [j \in RefJoints |-> UnseenDevice] /\ rEcho = {}
      /\ rStop = 0 /\ rFault = FALSE /\ rEstop = FALSE /\ rPolicy = 1 /\ rDue = FALSE
      /\ rOut = <<>> /\ rAt = <<>> /\ rRx = <<>> /\ rQ = EmptyQueue /\ rDefer = 0 /\ rLoose = FALSE
      /\ rSpoilt = {} /\ rBad = {}
  BY DEF ReferenceInit
<1>3. \A j \in RefJoints : id[j] \in Nat \ {0}
  <2>1. Cardinality(RefJoints) \in Nat
    BY FS_CardinalityType, ReferenceAssumption DEF ReferenceAssumption
  <2>2. id \in [RefJoints -> 1 .. Cardinality(RefJoints)]
    BY DEF Injection
  <2> QED BY <2>1, <2>2
<1>4. rDrive \in [RefJoints -> [run : BOOLEAN, coord : Coords, uid : Nat \ {0}]]
  BY <1>1, <1>3 DEF Coords
<1>5. rTxn \in [Txns -> RefOutcomes] /\ NoOutcome \in RefOutcomes
  BY <1>2 DEF NoOutcome, RefOutcomes, RefReads
<1>6. rAuth \in RefAuthorities
  <2>1. NoGrant \in RefGrants
    BY ReferenceAssumption DEF NoGrant, RefGrants, ReferenceAssumption
  <2> QED BY <1>2, <2>1 DEF NoAuthority, RefAuthorities
<1>7. rDev \in [RefJoints -> RefDevices]
  BY <1>2 DEF UnseenDevice, RefDevices
<1>8. rQ \in [pending : Seq(RefJoints), flight : 0 .. MaxTxn, failed : BOOLEAN, closed : BOOLEAN]
      /\ rQ.failed = FALSE
  BY <1>2, ReferenceAssumption DEF EmptyQueue, ReferenceAssumption
<1>9. RefOwnerTypeOK
  <2>1. rSeq \in 1 .. MaxTxn + 1 /\ rPend \in 0 .. MaxTxn /\ rStop \in Nat /\ rPolicy \in Nat /\ rDefer \in Nat
    BY <1>2, ReferenceAssumption DEF ReferenceAssumption
  <2>2. rJobs \in Seq(Txns) /\ rEcho \subseteq RefJoints /\ rSpoilt \subseteq Txns
    BY <1>2
  <2>3. rFault \in BOOLEAN /\ rEstop \in BOOLEAN /\ rDue \in BOOLEAN
    BY <1>2
  <2> QED BY <1>2, <1>5, <1>6, <1>7, <1>8, <2>1, <2>2, <2>3 DEF RefOwnerTypeOK
<1>10. RefWireTypeOK
  <2>1. rOut \in Seq(RefFrames) /\ rAt \in Seq(RefFrames) /\ Len(rAt) <= 1
        /\ rRx \in Seq(RefEchoes \union RefReplies)
    BY <1>2
  <2> QED BY <1>2, <1>4, <2>1 DEF RefWireTypeOK
<1>11. NewestRuns
  BY <1>2 DEF NewestRuns, Busy, NoRes
<1>12. EvidenceStands
  BY <1>2 DEF EvidenceStands, NoOutcome
<1>13. GrantsStand
  BY <1>2 DEF GrantsStand, NoAuthority, NoGrant
<1>14. FailedIsEmpty
  BY <1>8 DEF FailedIsEmpty
<1>15. ReadInv
  <2>1. ~Busy /\ Len(rAt) = 0
    BY <1>2 DEF Busy, NoRes
  <2> QED BY <1>2, <2>1, NothingQueued DEF ReadInv, OnWire, OwnReplies
<1> QED BY <1>2, <1>9, <1>10, <1>11, <1>12, <1>13, <1>14, <1>15 DEF RefTypeOK, GrantInv

\* Every step, one lemma for each action.
LEMMA ReferenceStep ==
  RefTypeOK /\ GrantInv /\ ReadInv /\ [ReferenceNext]_rvars => RefTypeOK' /\ GrantInv' /\ ReadInv'
<1> SUFFICES ASSUME RefTypeOK, GrantInv, ReadInv, [ReferenceNext]_rvars
             PROVE  RefTypeOK' /\ GrantInv' /\ ReadInv'
  OBVIOUS
<1>0. ReadInv'
  BY ReadStep DEF GrantInv
<1> SUFFICES RefTypeOK' /\ GrantInv'
  BY <1>0
<1>1. CASE Work
  BY <1>1, AdvanceKeeps, BeginCommitKeeps, AdvanceCommitKeeps DEF Work, ReadInv
<1>2. CASE PhaseExpires \/ OverallExpires \/ JournalAnswers
  BY <1>2, PhaseExpiresKeeps, OverallExpiresKeeps, VerdictKeeps
<1>3. CASE PumpEstop \/ Pump \/ RefAdmit \/ Defer \/ TakeReadyDeferred
  BY <1>3, PumpEstopKeeps, PumpKeeps, AdmitKeeps, DeferKeeps, TakeKeeps
<1>4. CASE \/ RefDisableAll \/ Hazard \/ CancelForShutdown \/ DrainAtShutdown \/ ApplyLimitPatch
           \/ RefReadFacet
  BY <1>4, DisableKeeps, HazardKeeps, ShutdownKeeps, ShutdownDrainKeeps, PatchKeeps, ReadFacetKeeps
<1>5. CASE EnableLeaves \/ DriveAnswers \/ DriveMisses \/ RefDriveReports \/ Reboot \/ IdleDrain
  BY <1>5, EnableLeavesKeeps, DriveAnswersKeeps, DriveMissesKeeps, ReportsKeeps, RebootKeeps,
     IdleDrainKeeps
<1>6. CASE UNCHANGED rvars
  <2>1. UNCHANGED <<rRes, rSeq, rTxn, rPend, rJobs, rAuth, rDev, rEcho, rStop, rFault, rEstop, rPolicy,
                    rDue, rOut, rAt, rRx, rDrive, rQ, rDefer, rLoose, rSpoilt, rBad>>
    BY <1>6 DEF rvars, wireVars, queueVars
  <2>2. RefTypeOK' /\ FailedIsEmpty'
    BY <2>1 DEF RefTypeOK, RefOwnerTypeOK, RefWireTypeOK, GrantInv, FailedIsEmpty
  <2>3. Ageing /\ NewestKept
    BY <2>1, <2>2, OwnerSame DEF Busy
  <2> QED BY <2>1, <2>2, <2>3, AgeingSteps
<1> QED BY <1>1, <1>2, <1>3, <1>4, <1>5, <1>6 DEF ReferenceNext

\* What the invariant says of every grant.
LEMMA GrantsRest == RefTypeOK /\ GrantInv => GrantFromOwnEvidence
<1> SUFFICES ASSUME RefTypeOK, GrantInv PROVE GrantFromOwnEvidence
  OBVIOUS
<1>1. ASSUME NEW j \in RefJoints, rAuth.grant[j].live
      PROVE  LET g == rAuth.grant[j] IN
             /\ rTxn[g.txn].joint = j /\ rTxn[g.txn].read.coord = "zero"
             /\ rTxn[g.txn].result = "durable" /\ rTxn[g.txn].commit = "Complete"
             /\ rDev[j].epoch = g.epoch => rDev[j].seen = "zero"
             /\ rTxn[g.txn].by = g.txn => rTxn[g.txn].read.asked = g.txn
  <2> DEFINE g == rAuth.grant[j]
             t == g.txn
  <2>1. g \in RefGrants
    BY AuthorityParts DEF RefTypeOK, RefOwnerTypeOK
  <2>2. /\ t # 0 /\ rTxn[t].cause = "staged" /\ rTxn[t].joint = j /\ g.epoch = rTxn[t].epoch
        /\ rTxn[t].result = "durable" /\ rTxn[t].commit = "Complete"
    BY <1>1 DEF GrantInv, GrantsStand
  <2>3. t \in Txns
    BY <2>1, <2>2, ReferenceAssumption DEF RefGrants, Txns, ReferenceAssumption
  <2>4. /\ rTxn[t].read.coord = "zero" /\ (rTxn[t].by = t => rTxn[t].read.asked = t)
        /\ (rTxn[t].epoch = rDev[j].epoch => rDev[j].seen = "zero")
    BY <2>2, <2>3 DEF GrantInv, EvidenceStands, Evidence
  <2> QED BY <2>2, <2>4
<1>2. GrantsAreDurable /\ ReadBackIsOwn
  BY <1>1 DEF GrantsAreDurable, ReadBackIsOwn
<1> QED BY <1>2 DEF GrantInv, NothingOvertaken, GrantFromOwnEvidence

\* The state of the reference work keeps its type: the reservation and its phase, the retained
\* outcomes, the authority, the devices, the queue, and the frames and replies on the wire
\* (advance_reference, ReferenceQueue::pump, consume_report_in_context).
THEOREM ReferenceTypeCorrect == ReferenceSpec => []RefTypeOK
<1>1. RefTypeOK /\ GrantInv /\ ReadInv /\ [ReferenceNext]_rvars => RefTypeOK' /\ GrantInv' /\ ReadInv'
  BY ReferenceStep
<1> QED BY <1>1, ReferenceStart, PTL DEF ReferenceSpec

\* Nothing is granted that a stop, a hazard, a patch, a newer acquisition or the deadline overtook;
\* a grant rests on a complete, durable acquisition of that joint that read back zero, with nothing
\* but zero seen since in its coordinate; and the read back is the acquisition's own if its
\* identity reply was (advance_reference_commit, accept_physical_readback).
THEOREM GrantsRestOnEvidence == ReferenceSpec => []GrantFromOwnEvidence
<1>1. RefTypeOK /\ GrantInv /\ ReadInv /\ [ReferenceNext]_rvars => RefTypeOK' /\ GrantInv' /\ ReadInv'
  BY ReferenceStep
<1> QED BY <1>1, ReferenceStart, GrantsRest, PTL DEF ReferenceSpec

-----------------------------------------------------------------------------
\* No ending leaves a drive armed.
Enables(f, j) == f.kind = "enable" /\ f.to = j
NoEnable(s, j) == \A k \in 1 .. Len(s) : ~Enables(s[k], j)
StopsLast(s, j) == \E i \in 1 .. Len(s) : /\ s[i].kind = "stop" /\ s[i].to = j
                                         /\ \A k \in i + 1 .. Len(s) : ~Enables(s[k], j)
Behind == rAt \o rOut
Owned(j) == \/ Busy /\ rRes.armed /\ rRes.joint = j
            \/ rLoose
            \/ StopsLast(Behind, j)
            \/ ~rDrive[j].run /\ NoEnable(Behind, j)
AllOwned == \A j \in RefJoints : Owned(j)

\* The frames behind a drive.
LEMMA BehindTyped ==
  ASSUME RefTypeOK PROVE Behind \in Seq(RefFrames) /\ Len(Behind) = Len(rAt) + Len(rOut)
BY DEF Behind, RefTypeOK, RefWireTypeOK

\* ArmedIsOwned, drive by drive.
LEMMA OwnedIsArmed == ASSUME RefTypeOK PROVE ArmedIsOwned <=> \A j \in RefJoints : Owned(j)
<1>1. DOMAIN Behind = 1 .. Len(Behind)
  BY BehindTyped
<1> HIDE DEF Behind
<1>2. ArmedIsOwned <=>
       \A j \in RefJoints :
        \/ Busy /\ rRes.armed /\ rRes.joint = j
        \/ rLoose
        \/ \E i \in DOMAIN Behind :
             Behind[i].kind = "stop" /\ Behind[i].to = j
             /\ \A k \in i + 1 .. Len(Behind) : ~(Behind[k].kind = "enable" /\ Behind[k].to = j)
        \/ /\ ~rDrive[j].run
           /\ \A i \in DOMAIN Behind : ~(Behind[i].kind = "enable" /\ Behind[i].to = j)
  BY DEF ArmedIsOwned, Behind
<1> QED BY <1>1, <1>2 DEF Owned, StopsLast, NoEnable, Enables

\* Frames appended: a stop for a drive ends its line, and a line without Enable stays one.
LEMMA StopEnds ==
  ASSUME NEW s \in Seq(RefFrames), NEW j \in RefJoints PROVE StopsLast(s \o StopFrames, j)
<1>1. PICK i \in 1 .. Len(StopFrames) : StopFrames[i].to = j
  BY StopsReachAll
<1> DEFINE z == s \o StopFrames
           n == Len(s)
           m == Len(StopFrames)
<1>2. /\ StopFrames \in Seq(RefFrames) /\ n \in Nat /\ m \in Nat
      /\ \A k \in 1 .. m : StopFrames[k].kind = "stop"
  BY StopsReachAll
<1>3. /\ Len(z) = n + m
      /\ \A k \in 1 .. n + m : z[k] = IF k <= n THEN s[k] ELSE StopFrames[k - n]
  BY <1>2, ConcatProperties
<1> HIDE DEF z, n, m
<1>4. i \in 1 .. m
  BY <1>1 DEF m
<1>5. n + i \in 1 .. Len(z) /\ z[n + i] = StopFrames[i]
  BY <1>2, <1>3, <1>4
<1>6. \A k \in n + i + 1 .. Len(z) : z[k].kind = "stop"
  <2> SUFFICES ASSUME NEW k \in n + i + 1 .. Len(z) PROVE z[k].kind = "stop"
    OBVIOUS
  <2>1. k \in 1 .. n + m /\ ~(k <= n) /\ k - n \in 1 .. m
    BY <1>2, <1>3, <1>4
  <2> QED BY <1>2, <1>3, <2>1
<1>7. StopsLast(z, j)
  BY <1>1, <1>2, <1>4, <1>5, <1>6 DEF StopsLast, Enables
<1> QED BY <1>7 DEF z

\* Frames appended that enable nothing.
LEMMA LineGrows ==
  ASSUME NEW s \in Seq(RefFrames), NEW sent \in Seq(RefFrames), NEW j, NoEnable(sent, j)
  PROVE  /\ StopsLast(s, j) => StopsLast(s \o sent, j)
         /\ NoEnable(s, j) => NoEnable(s \o sent, j)
<1> DEFINE z == s \o sent
           n == Len(s)
           m == Len(sent)
<1>1. n \in Nat /\ m \in Nat
  OBVIOUS
<1>2. /\ Len(z) = n + m
      /\ \A k \in 1 .. n + m : z[k] = IF k <= n THEN s[k] ELSE sent[k - n]
  BY ConcatProperties
<1>3. \A k \in 1 .. m : ~Enables(sent[k], j)
  BY DEF NoEnable
<1> HIDE DEF z, n, m
<1>4. \A k \in 1 .. n + m : k <= n \/ ~Enables(z[k], j)
  <2> SUFFICES ASSUME NEW k \in 1 .. n + m, ~(k <= n) PROVE ~Enables(z[k], j)
    OBVIOUS
  <2>1. k - n \in 1 .. m /\ z[k] = sent[k - n]
    BY <1>1, <1>2
  <2> QED BY <1>3, <2>1
<1>5. ASSUME StopsLast(s, j) PROVE StopsLast(z, j)
  <2>1. PICK i \in 1 .. n : /\ s[i].kind = "stop" /\ s[i].to = j
                            /\ \A k \in i + 1 .. n : ~Enables(s[k], j)
    BY <1>5 DEF StopsLast, n
  <2>2. i \in 1 .. Len(z) /\ z[i] = s[i]
    BY <1>1, <1>2
  <2>3. \A k \in i + 1 .. Len(z) : ~Enables(z[k], j)
    <3> SUFFICES ASSUME NEW k \in i + 1 .. Len(z) PROVE ~Enables(z[k], j)
      OBVIOUS
    <3>1. k \in 1 .. n + m /\ (k <= n => k \in i + 1 .. n)
      BY <1>1, <1>2
    <3>2. CASE k <= n
      BY <1>2, <2>1, <3>1, <3>2
    <3>3. CASE ~(k <= n)
      BY <1>4, <3>1, <3>3
    <3> QED BY <3>2, <3>3
  <2> QED BY <2>1, <2>2, <2>3 DEF StopsLast
<1>6. ASSUME NoEnable(s, j) PROVE NoEnable(z, j)
  <2>1. \A k \in 1 .. n : ~Enables(s[k], j)
    BY <1>6 DEF NoEnable, n
  <2> SUFFICES ASSUME NEW k \in 1 .. n + m PROVE ~Enables(z[k], j)
    BY <1>2 DEF NoEnable
  <2>2. CASE k <= n
    <3>1. k \in 1 .. n /\ z[k] = s[k]
      BY <1>1, <1>2, <2>2
    <3> QED BY <2>1, <3>1
  <2>3. CASE ~(k <= n)
    BY <1>4, <2>3
  <2> QED BY <2>2, <2>3
<1> QED BY <1>5, <1>6 DEF z

\* The first frame leaves the line.
LEMMA LineShrinks ==
  ASSUME NEW s \in Seq(RefFrames), s # <<>>, NEW j
  PROVE  /\ StopsLast(s, j) => \/ StopsLast(Tail(s), j)
                               \/ s[1].kind = "stop" /\ s[1].to = j /\ NoEnable(Tail(s), j)
         /\ NoEnable(s, j) => ~Enables(s[1], j) /\ NoEnable(Tail(s), j)
<1> DEFINE z == Tail(s)
           n == Len(s)
<1>1. n \in Nat \ {0}
  BY EmptySeq
<1>2. Len(z) = n - 1 /\ \A k \in 1 .. n - 1 : z[k] = s[k + 1]
  OBVIOUS
<1> HIDE DEF z, n
<1>3. ASSUME StopsLast(s, j)
      PROVE  StopsLast(z, j) \/ (s[1].kind = "stop" /\ s[1].to = j /\ NoEnable(z, j))
  <2>1. PICK i \in 1 .. n : /\ s[i].kind = "stop" /\ s[i].to = j
                            /\ \A k \in i + 1 .. n : ~Enables(s[k], j)
    BY <1>3 DEF StopsLast, n
  <2>2. CASE i = 1
    <3>1. \A k \in 1 .. n - 1 : ~Enables(z[k], j)
      <4> SUFFICES ASSUME NEW k \in 1 .. n - 1 PROVE ~Enables(z[k], j)
        OBVIOUS
      <4>1. k + 1 \in i + 1 .. n /\ z[k] = s[k + 1]
        BY <1>1, <1>2, <2>2
      <4> QED BY <2>1, <4>1
    <3> QED BY <1>2, <2>1, <2>2, <3>1 DEF NoEnable
  <2>3. CASE i # 1
    <3>1. i - 1 \in 1 .. Len(z) /\ z[i - 1] = s[i]
      BY <1>1, <1>2, <2>3
    <3>2. \A k \in (i - 1) + 1 .. Len(z) : ~Enables(z[k], j)
      <4> SUFFICES ASSUME NEW k \in (i - 1) + 1 .. Len(z) PROVE ~Enables(z[k], j)
        OBVIOUS
      <4>1. k + 1 \in i + 1 .. n /\ k \in 1 .. n - 1 /\ z[k] = s[k + 1]
        BY <1>1, <1>2, <2>3
      <4> QED BY <2>1, <4>1
    <3> QED BY <2>1, <3>1, <3>2 DEF StopsLast
  <2> QED BY <2>2, <2>3
<1>4. ASSUME NoEnable(s, j) PROVE ~Enables(s[1], j) /\ NoEnable(z, j)
  <2>1. \A k \in 1 .. n : ~Enables(s[k], j)
    BY <1>4 DEF NoEnable, n
  <2>2. 1 \in 1 .. n /\ \A k \in 1 .. n - 1 : k + 1 \in 1 .. n
    BY <1>1
  <2> QED BY <1>2, <2>1, <2>2 DEF NoEnable
<1> QED BY <1>3, <1>4 DEF z

\* Frames behind frames: the line is one sequence however it is grouped.
LEMMA Regrouped ==
  ASSUME NEW a \in Seq(RefFrames), NEW b \in Seq(RefFrames), NEW c \in Seq(RefFrames)
  PROVE  a \o (b \o c) = (a \o b) \o c
BY ConcatAssociative

\* A stop pass keeps every drive owned: its stops are the last frames, or a write failed.
LEMMA StopPassOwns ==
  ASSUME RefTypeOK, StopPass, NEW j \in RefJoints PROVE Owned(j)'
<1>1. PICK sent, ok, fault : /\ Sends(sent) /\ ok \in BOOLEAN /\ fault \in BOOLEAN
                             /\ RefPerformStop(sent, ok, fault)
  BY DEF StopPass
<1>2. CASE ~ok
  <2>1. rLoose'
    BY <1>1, <1>2 DEF RefPerformStop
  <2> QED BY <2>1 DEF Owned
<1>3. CASE ok
  <2> DEFINE s == rAt \o (rOut \o sent)
  <2>1. rOut \in Seq(RefFrames) /\ rAt \in Seq(RefFrames) /\ sent \in Seq(RefFrames)
        /\ StopFrames \in Seq(RefFrames)
    BY <1>1, StopsReachAll DEF RefTypeOK, RefWireTypeOK, Sends
  <2>2. s \in Seq(RefFrames)
    BY <2>1
  <2>3. rOut' = (rOut \o sent) \o StopFrames /\ rAt' = rAt
    BY <1>1, <1>3 DEF RefPerformStop, StopPass
  <2>4. Behind' = s \o StopFrames
    <3> DEFINE x == rOut \o sent
               z == StopFrames
    <3>1. x \in Seq(RefFrames) /\ z \in Seq(RefFrames)
      BY <2>1
    <3>2. Behind' = rAt \o (x \o z)
      BY <2>3 DEF Behind
    <3> HIDE DEF x, z
    <3> DEFINE y == rAt
    <3>3. y \in Seq(RefFrames)
      BY <2>1
    <3> HIDE DEF y
    <3>4. y \o (x \o z) = (y \o x) \o z
      BY <3>1, <3>3, Regrouped
    <3> QED BY <3>2, <3>4 DEF x, y, z
  <2> HIDE DEF s
  <2>5. StopsLast(Behind', j)
    BY <2>2, <2>4, StopEnds
  <2>6. StopsLast(Behind, j)'
    BY <2>5 DEF StopsLast, Enables
  <2> QED BY <2>6 DEF Owned
<1> QED BY <1>1, <1>2, <1>3

\* The acquisition goes on: an Enable it sends is its target's, which it owns.
LEMMA MovedOwns ==
  ASSUME RefTypeOK, NEW sent, Moved(sent), NEW j \in RefJoints, Owned(j) PROVE Owned(j)'
<1>1. /\ rOut \in Seq(RefFrames) /\ rAt \in Seq(RefFrames) /\ sent \in Seq(RefFrames)
      /\ Behind \in Seq(RefFrames)
  BY DEF RefTypeOK, RefWireTypeOK, Moved, Sends, Behind
<1>2. /\ rOut' = rOut \o sent /\ rAt' = rAt /\ rDrive' = rDrive /\ rLoose' = rLoose
      /\ Busy /\ rRes'.txn = rRes.txn /\ rRes'.joint = rRes.joint /\ (rRes.armed => rRes'.armed)
      /\ \A k \in 1 .. Len(sent) : sent[k].kind = "enable" => rRes'.armed /\ sent[k].to = rRes.joint
  BY DEF Moved
<1>3. Busy' /\ Behind' = Behind \o sent
  <2>1. Busy'
    BY <1>2 DEF Busy
  <2> QED BY <1>1, <1>2, <2>1, ConcatAssociative DEF Behind
<1>4. CASE rRes'.armed /\ rRes.joint = j
  BY <1>2, <1>3, <1>4 DEF Owned
<1>5. CASE ~(rRes'.armed /\ rRes.joint = j)
  <2>1. NoEnable(sent, j)
    BY <1>2, <1>5 DEF NoEnable, Enables
  <2> HIDE DEF Behind
  <2>2. /\ StopsLast(Behind, j) => StopsLast(Behind', j)
        /\ NoEnable(Behind, j) => NoEnable(Behind', j)
    BY <1>1, <1>3, <2>1, LineGrows
  <2>3. rLoose \/ StopsLast(Behind, j) \/ (~rDrive[j].run /\ NoEnable(Behind, j))
    BY <1>2, <1>5 DEF Owned
  <2>4. rLoose' \/ StopsLast(Behind', j) \/ (~rDrive'[j].run /\ NoEnable(Behind', j))
    BY <1>2, <2>2, <2>3
  <2> QED BY <2>4 DEF Owned, StopsLast, NoEnable, Enables
<1> QED BY <1>4, <1>5

\* Nothing on the wire or at the drives changes, and an armed reservation lives on.
LEMMA QuietOwns ==
  ASSUME RefTypeOK, NEW j \in RefJoints, Owned(j), Behind' = Behind, rLoose' = rLoose,
         rDrive'[j].run => rDrive[j].run,
         Busy /\ rRes.armed => Busy' /\ rRes'.armed /\ rRes'.joint = rRes.joint
  PROVE  Owned(j)'
<1>1. /\ StopsLast(Behind, j) => StopsLast(Behind', j)
      /\ NoEnable(Behind, j) => NoEnable(Behind', j)
  OBVIOUS
<1> HIDE DEF Behind
<1>2. \/ Busy' /\ rRes'.armed /\ rRes'.joint = j
      \/ rLoose' \/ StopsLast(Behind', j) \/ (~rDrive'[j].run /\ NoEnable(Behind', j))
  BY <1>1 DEF Owned
<1> QED BY <1>2 DEF Owned, StopsLast, NoEnable, Enables

\* A frame reaches its drive.
LEMMA HandledPops ==
  ASSUME RefTypeOK, Handled
  PROVE  Behind # <<>> /\ Behind \in Seq(RefFrames) /\ AtDrive[1] = Behind[1] /\ Behind' = Tail(Behind)
<1>1. rOut \in Seq(RefFrames) /\ rAt \in Seq(RefFrames) /\ Len(rAt) <= 1
  BY DEF RefTypeOK, RefWireTypeOK
<1>2. rAt' = <<>> /\ rOut' = IF rAt # <<>> THEN rOut ELSE Tail(rOut)
  BY DEF Handled
<1>3. CASE rAt = <<>>
  <2>1. rOut # <<>> /\ AtDrive = <<Head(rOut)>>
    BY <1>3 DEF Handled, AtDrive
  <2>2. Behind = rOut /\ Behind' = Tail(rOut)
    <3>1. Tail(rOut) \in Seq(RefFrames)
      BY <1>1, <2>1
    <3> QED BY <1>1, <1>2, <1>3, <3>1, ConcatEmptySeq DEF Behind
  <2>3. Head(rOut) = rOut[1] /\ <<Head(rOut)>>[1] = Head(rOut)
    BY <1>1, <2>1
  <2> QED BY <1>1, <2>1, <2>2, <2>3
<1>4. CASE rAt # <<>>
  <2>1. Len(rAt) = 1
    <3> DEFINE n == Len(rAt)
    <3>1. n \in Nat \ {0} /\ n <= 1
      BY <1>1, <1>4, EmptySeq
    <3> HIDE DEF n
    <3>2. n = 1
      BY <3>1
    <3> QED BY <3>2 DEF n
  <2>2. AtDrive = rAt
    BY <1>4 DEF AtDrive
  <2>3. /\ Behind \in Seq(RefFrames) /\ Len(Behind) = 1 + Len(rOut)
        /\ \A i \in 1 .. 1 + Len(rOut) : Behind[i] = IF i <= 1 THEN rAt[i] ELSE rOut[i - 1]
    <3>1. rAt \o rOut \in Seq(RefFrames)
          /\ Len(rAt \o rOut) = Len(rAt) + Len(rOut)
          /\ \A i \in 1 .. Len(rAt) + Len(rOut) :
               (rAt \o rOut)[i] = IF i <= Len(rAt) THEN rAt[i] ELSE rOut[i - Len(rAt)]
      BY <1>1, ConcatProperties
    <3> QED BY <2>1, <3>1 DEF Behind
  <2>4. Behind' = rOut
    BY <1>1, <1>2, <1>4, ConcatEmptySeq DEF Behind
  <2> DEFINE s == Behind
  <2>5. s \in Seq(RefFrames) /\ Len(s) = 1 + Len(rOut)
        /\ \A i \in 1 .. Len(rOut) : s[i + 1] = rOut[i]
    BY <1>1, <2>3
  <2>6. s # <<>> /\ s[1] = rAt[1]
    BY <1>1, <2>3
  <2> HIDE DEF s
  <2>7. Tail(s) \in Seq(RefFrames) /\ Len(Tail(s)) = Len(rOut)
        /\ \A i \in 1 .. Len(rOut) : Tail(s)[i] = rOut[i]
    BY <1>1, <2>5, <2>6
  <2>8. Tail(s) = rOut
    BY <1>1, <2>7, SeqEqual
  <2> QED BY <2>2, <2>4, <2>5, <2>6, <2>8 DEF s
<1> QED BY <1>3, <1>4

\* A frame is executed.
LEMMA AnswersOwns ==
  ASSUME RefTypeOK, DriveAnswers, NEW j \in RefJoints, Owned(j) PROVE Owned(j)'
<1> DEFINE f == AtDrive[1]
           b == rDrive[f.to]
           run == CASE f.kind = "enable" -> TRUE [] f.kind = "stop" -> FALSE [] OTHER -> b.run
           coord == IF f.kind = "zero" THEN "zero" ELSE b.coord
           s == Behind
<1>1. /\ s # <<>> /\ s \in Seq(RefFrames) /\ f = s[1] /\ Behind' = Tail(s) /\ f \in RefFrames
  BY HandledPops, HandledTyped DEF DriveAnswers
<1>2. b \in [run : BOOLEAN, coord : Coords, uid : Nat \ {0}] /\ f.to \in RefJoints
  BY <1>1 DEF RefTypeOK, RefWireTypeOK, RefFrames
<1>3. rDrive' = [rDrive EXCEPT ![f.to] = [b EXCEPT !.run = run, !.coord = coord]]
      /\ rLoose' = rLoose /\ rRes' = rRes
  BY <1>2 DEF DriveAnswers, OwnerRest
<1>4. rDrive'[j].run = IF j = f.to THEN run ELSE rDrive[j].run
  <2> HIDE DEF f, run, coord
  <2> QED BY <1>2, <1>3 DEF RefTypeOK, RefWireTypeOK
<1>5. /\ StopsLast(s, j) => StopsLast(Tail(s), j) \/ (f.kind = "stop" /\ f.to = j /\ NoEnable(Tail(s), j))
      /\ NoEnable(s, j) => ~Enables(f, j) /\ NoEnable(Tail(s), j)
  <2> HIDE DEF s, f
  <2> QED BY <1>1, LineShrinks
<1>6. /\ f.kind = "stop" /\ f.to = j => ~rDrive'[j].run
      /\ ~Enables(f, j) /\ ~rDrive[j].run => ~rDrive'[j].run
  BY <1>4 DEF Enables
<1> HIDE DEF f, s
<1>7. \/ Busy' /\ rRes'.armed /\ rRes'.joint = j
      \/ rLoose' \/ StopsLast(Behind', j) \/ (~rDrive'[j].run /\ NoEnable(Behind', j))
  BY <1>1, <1>3, <1>5, <1>6 DEF Owned, Busy, s
<1> QED BY <1>7 DEF Owned, StopsLast, NoEnable, Enables

\* A frame is lost: a lost stop is told.
LEMMA MissesOwns ==
  ASSUME RefTypeOK, DriveMisses, NEW j \in RefJoints, Owned(j) PROVE Owned(j)'
<1> DEFINE f == AtDrive[1]
           s == Behind
<1>1. s # <<>> /\ s \in Seq(RefFrames) /\ f = s[1] /\ Behind' = Tail(s)
  BY HandledPops DEF DriveMisses
<1>2. rLoose' = (rLoose \/ f.kind = "stop") /\ rDrive' = rDrive /\ rRes' = rRes
  BY DEF DriveMisses, OwnerRest
<1>3. /\ StopsLast(s, j) => StopsLast(Tail(s), j) \/ f.kind = "stop"
      /\ NoEnable(s, j) => NoEnable(Tail(s), j)
  <2> HIDE DEF s, f
  <2> QED BY <1>1, LineShrinks
<1> HIDE DEF f, s
<1>4. \/ Busy' /\ rRes'.armed /\ rRes'.joint = j
      \/ rLoose' \/ StopsLast(Behind', j) \/ (~rDrive'[j].run /\ NoEnable(Behind', j))
  BY <1>1, <1>2, <1>3 DEF Owned, Busy, s
<1> QED BY <1>4 DEF Owned, StopsLast, NoEnable, Enables

\* Every step keeps every drive owned.
LEMMA OwnedStep ==
  ASSUME RefTypeOK, RefTypeOK', [ReferenceNext]_rvars, NEW j \in RefJoints, Owned(j) PROVE Owned(j)'
<1>1. CASE Idle \/ Emptied \/ Begun
  <2>1. Behind' = Behind /\ rLoose' = rLoose /\ rDrive' = rDrive
    BY <1>1 DEF Idle, Emptied, Begun, Behind
  <2>2. Busy /\ rRes.armed => Busy' /\ rRes'.armed /\ rRes'.joint = rRes.joint
    <3> SUFFICES ASSUME Busy, rRes.armed PROVE Busy' /\ rRes'.armed /\ rRes'.joint = rRes.joint
      OBVIOUS
    <3>1. rRes' = rRes \/ rRes' = [rRes EXCEPT !.due = TRUE]
      BY <1>1 DEF Idle, Emptied, Begun
    <3>2. rRes \in RefReservations
      BY ReservationTyped
    <3> QED BY <3>1, <3>2 DEF Busy, RefReservations
  <2> QED BY <2>1, <2>2, QuietOwns
<1>2. CASE EnableLeaves
  <2>1. rAt = <<>> /\ rOut # <<>> /\ rOut' = Tail(rOut) /\ rAt' = <<Head(rOut)>> /\ rLoose' = rLoose
        /\ rDrive' = rDrive /\ rRes' = rRes
    BY <1>2 DEF EnableLeaves, OwnerRest
  <2>2. rOut \in Seq(RefFrames)
    BY DEF RefTypeOK, RefWireTypeOK
  <2>3. <<Head(rOut)>> \o Tail(rOut) = rOut
    BY <2>1, <2>2
  <2>4. Behind' = Behind
    BY <2>1, <2>2, <2>3, ConcatEmptySeq DEF Behind
  <2> QED BY <2>1, <2>4, QuietOwns DEF Busy
<1>3. CASE RefDriveReports \/ Reboot
  <2>1. Behind' = Behind /\ rLoose' = rLoose /\ rRes' = rRes
    BY <1>3 DEF RefDriveReports, Reboot, OwnerRest, Behind
  <2>2. rDrive'[j].run => rDrive[j].run
    <3>1. CASE RefDriveReports
      BY <3>1 DEF RefDriveReports
    <3>2. CASE Reboot
      <4>1. PICK i \in RefJoints, coord \in {"zero", "off"}, uid \in Uids :
              rDrive' = [rDrive EXCEPT ![i] = [run |-> FALSE, coord |-> coord, uid |-> uid]]
        BY <3>2 DEF Reboot
      <4> QED BY <4>1 DEF RefTypeOK, RefWireTypeOK
    <3> QED BY <1>3, <3>1, <3>2
  <2> QED BY <2>1, <2>2, QuietOwns DEF Busy
<1>4. CASE UNCHANGED rvars
  <2>1. UNCHANGED <<rRes, rOut, rAt, rDrive, rLoose>>
    BY <1>4 DEF rvars, wireVars
  <2> QED BY <2>1, QuietOwns DEF Busy, Behind
<1>5. CASE ReferenceNext
  BY <1>1, <1>2, <1>3, <1>5, StepKinds, StopPassOwns, MovedOwns, AnswersOwns, MissesOwns
<1> QED BY <1>4, <1>5

\* No drive runs at the start.
LEMMA OwnedStart == ReferenceInit => ArmedIsOwned
<1> SUFFICES ASSUME ReferenceInit PROVE ArmedIsOwned
  OBVIOUS
<1>1. RefTypeOK /\ rOut = <<>> /\ rAt = <<>> /\ \A j \in RefJoints : rDrive[j].run = FALSE
  <2>1. PICK at \in [RefJoints -> {"zero", "off"}],
             id \in Injection(RefJoints, 1 .. Cardinality(RefJoints)) :
          rDrive = [j \in RefJoints |-> [run |-> FALSE, coord |-> at[j], uid |-> id[j]]]
    BY DEF ReferenceInit
  <2>2. \A j \in RefJoints : rDrive[j].run = FALSE
    BY <2>1
  <2>3. rOut = <<>> /\ rAt = <<>>
    BY DEF ReferenceInit
  <2> QED BY <2>2, <2>3, ReferenceStart
<1>2. Len(Behind) = 0
  BY <1>1 DEF Behind
<1>3. \A j \in RefJoints : Owned(j)
  BY <1>1, <1>2 DEF Owned, NoEnable
<1> QED BY <1>1, <1>3, OwnedIsArmed

\* No ending leaves a drive armed: a drive that runs, or is about to, belongs to the live armed
\* reservation or has a stop behind it - unless a stop was lost (finish_reference and
\* perform_stop_paced, disable_all, abort_reference_for_hazard, shutdown).
THEOREM NoDriveLeftArmed == ReferenceSpec => []ArmedIsOwned
<1>1. RefTypeOK /\ GrantInv /\ ReadInv /\ [ReferenceNext]_rvars => RefTypeOK' /\ GrantInv' /\ ReadInv'
  BY ReferenceStep
<1>2. RefTypeOK => (ArmedIsOwned <=> AllOwned)
  BY OwnedIsArmed DEF AllOwned
<1>3. RefTypeOK' => (ArmedIsOwned' <=> AllOwned')
  BY <1>2, PTL
<1>4. RefTypeOK /\ RefTypeOK' /\ ArmedIsOwned /\ [ReferenceNext]_rvars => ArmedIsOwned'
  BY <1>3, OwnedIsArmed, OwnedStep DEF AllOwned
<1> QED BY <1>1, <1>4, ReferenceStart, OwnedStart, PTL DEF ReferenceSpec
-----------------------------------------------------------------------------
\* The journal.

OnDisk == {r.body : r \in Written}
Results == {"durable", "failed", "uncertain"}
Completions == [job : JobIds, result : Results]
JournalRows == {Row(j, s) : j \in JobIds, s \in Nat \ {0}}

JTypeOK ==
  /\ jCredits \in Nat /\ jCredits <= CreditCapacity
  /\ jQueued \in Seq(JobIds)
  /\ jHand \in [job : JobIds \union {Nobody}, result : Results \union {"none"},
                progress : 0 .. 4]
  /\ jLife \in 1 .. Lives /\ jSeq \in 1 .. MaxJobs + 1
  /\ jVerdict \in [JobIds -> Results \union {"none", "lost"}]
  /\ jNext \in Nat /\ jSession \in {0, jNext}
  /\ jCompleted \subseteq Completions /\ IsFiniteSet(jCompleted)
  /\ jTaken \subseteq Completions
  /\ jRows \subseteq JournalRows /\ jPruned \subseteq JournalRows

\* The jobs this process accepted and has not judged.
OpenJobs == {j \in JobIds : j[1] = jLife /\ j[2] < jSeq /\ jVerdict[j] = "none"}

\* The flight is the job in the worker's hands, until the panic handler has taken it out.
Opens == {"open", "schema", "session", "prune"}
Seats ==
  /\ jpc \in Opens \union {"idle", "encode", "insert", "commit", "readback", "publish",
                            "unwind", "unwindPublish", "finish", "gone"}
  /\ jFlight = IF jpc = "unwindPublish" THEN Nobody ELSE Job
  /\ jpc \in Opens \union {"encode", "insert", "commit", "readback", "publish", "unwindPublish"}
       => Job # Nobody
  /\ jpc \in {"publish", "unwindPublish"} => jHand.result # "none"
  /\ jpc \in Opens \union {"encode", "insert", "commit", "readback"} => jHand.result = "none"
  /\ jpc \in Opens \union {"encode"} => jHand.progress = Opening
  /\ jpc = "insert" => jHand.progress = Writing
  /\ jpc = "commit" => jHand.progress = CommitAttempted
  /\ jpc \in {"prune", "encode", "insert", "commit", "readback"} => jSession # 0

\* What waits or is held is unjudged, once, and what waits is not on disk.
Line ==
  /\ Job # Nobody => Job \in OpenJobs
  /\ \A i \in 1 .. Len(jQueued) :
       /\ jQueued[i] \in OpenJobs /\ jQueued[i] # Job /\ jQueued[i] \notin OnDisk
       /\ \A k \in 1 .. Len(jQueued) : i # k => jQueued[i] # jQueued[k]

\* Until its commit is attempted the job in hand is not on disk; a failed one never is.
Fate ==
  /\ jpc # "unwindPublish" /\ jHand.progress < CommitAttempted => Job \notin OnDisk
  /\ jHand.result = "failed" => Job \notin OnDisk
  /\ jHand.result = "durable" => Job \in OnDisk

\* A job not yet accepted has no verdict; a verdict of this process has its completion.
Book ==
  /\ \A j \in JobIds : (j[1] > jLife \/ (j[1] = jLife /\ j[2] >= jSeq)) => jVerdict[j] = "none"
  /\ \A c \in jCompleted : jVerdict[c.job] # "none"
  /\ \A j \in JobIds : j[1] = jLife /\ j[2] < jSeq /\ jVerdict[j] # "none" =>
       \E c \in jCompleted \union jTaken : c.job = j
  /\ IsFiniteSet(OpenJobs)
  /\ jCredits = Cardinality(jCompleted) + Cardinality(OpenJobs)
  /\ jDrain = "complete" => \A s \in 1 .. jSeq - 1 : \E c \in jTaken : c.job = <<jLife, s>>

\* A session's rows are of the process that opened it; retention drops the oldest.
Disk ==
  /\ \A r \in Written :
       /\ r.session <= jNext
       /\ r.session = jSession => r.body[1] = jLife
       /\ jVerdict[r.body] # "none" \/ (r.body[1] = jLife /\ r.body[2] < jSeq)
  /\ \A r, q \in Written : (r.session = q.session /\ r.key = q.key) => r = q
  /\ \A r \in jPruned :
       /\ jSession # 0 => r.session < jSession
       /\ \A q \in jRows : r.session < q.session

JInv == JTypeOK /\ Seats /\ Line /\ Fate /\ Book /\ Disk

LEMMA JobPairs ==
  /\ Nobody \notin JobIds
  /\ \A j \in JobIds : j[1] \in 1 .. Lives /\ j[2] \in 1 .. MaxJobs /\ j = <<j[1], j[2]>>
BY JournalAssumption DEF JournalAssumption, JobIds, Nobody

LEMMA RowFields ==
  /\ \A r \in JournalRows :
       r.body \in JobIds /\ r.session \in Nat \ {0} /\ r.key = r.body[2] /\ r = Row(r.body, r.session)
  /\ \A j \in JobIds, s \in Nat \ {0} :
       /\ Row(j, s) \in JournalRows
       /\ Row(j, s).session = s /\ Row(j, s).body = j /\ Row(j, s).key = j[2]
BY DEF JournalRows, Row

LEMMA Numbers ==
  JTypeOK => jLife \in Nat /\ jSeq \in Nat /\ jNext \in Nat /\ jSession \in Nat /\ jCredits \in Nat
BY JournalAssumption DEF JournalAssumption, JTypeOK

\* The jobs of this process, and those of them without a verdict.
LEMMA OfThisLife ==
  ASSUME JTypeOK
  PROVE  /\ \A s \in 1 .. jSeq - 1 :
              <<jLife, s>> \in JobIds /\ <<jLife, s>>[1] = jLife /\ <<jLife, s>>[2] = s
         /\ jSeq <= MaxJobs =>
              <<jLife, jSeq>> \in JobIds /\ <<jLife, jSeq>>[1] = jLife /\ <<jLife, jSeq>>[2] = jSeq
BY JournalAssumption DEF JournalAssumption, JTypeOK, JobIds

LEMMA UnfinishedOpen == ASSUME JTypeOK PROVE Unfinished = OpenJobs
<1>1. ASSUME NEW j \in Unfinished PROVE j \in OpenJobs
  <2>1. PICK s \in 1 .. jSeq - 1 : jVerdict[<<jLife, s>>] = "none" /\ j = <<jLife, s>>
    BY DEF Unfinished
  <2>2. j \in JobIds /\ j[1] = jLife /\ j[2] = s
    BY <2>1, OfThisLife
  <2>3. s < jSeq
    BY Numbers
  <2> QED BY <2>1, <2>2, <2>3 DEF OpenJobs
<1>2. ASSUME NEW j \in OpenJobs PROVE j \in Unfinished
  <2>1. j = <<jLife, j[2]>> /\ j[2] \in Nat /\ j[2] # 0
    BY JobPairs DEF OpenJobs
  <2>2. j[2] \in 1 .. jSeq - 1
    BY <2>1, Numbers DEF OpenJobs
  <2>3. jVerdict[<<jLife, j[2]>>] = "none"
    BY <2>1 DEF OpenJobs
  <2> QED BY <2>1, <2>2, <2>3 DEF Unfinished
<1> QED BY <1>1, <1>2

\* Steps that touch neither the queue, nor the verdicts, nor the rows.
LEMMA LineKept ==
  ASSUME Line, UNCHANGED <<jQueued, jLife, jSeq, jVerdict, jRows, jPruned>>, Job' = Job
  PROVE  Line'
BY DEF Line, OpenJobs, OnDisk, Written, Job

LEMMA BookKept ==
  ASSUME Book, UNCHANGED <<jLife, jSeq, jVerdict, jCompleted, jTaken, jCredits>>,
         jDrain' = "complete" => jDrain = "complete"
  PROVE  Book'
BY DEF Book, OpenJobs

LEMMA DiskKept ==
  ASSUME JTypeOK, Disk, UNCHANGED <<jRows, jPruned, jNext, jVerdict, jLife, jSeq>>,
         jSession' \in {0, jSession}
  PROVE  Disk'
BY RowFields DEF JTypeOK, Disk, Written

LEMMA FateKept ==
  ASSUME Fate, jpc # "unwindPublish", UNCHANGED <<jHand, jRows, jPruned>>
  PROVE  Fate'
BY DEF Fate, OnDisk, Written, Job

-----------------------------------------------------------------------------
\* The owner.

LEMMA SubmitStep == ASSUME JInv, Submit PROVE JInv'
<1> DEFINE new == <<jLife, jSeq>>
<1>1. /\ jCredits' = jCredits + 1 /\ jCredits < CreditCapacity
      /\ jQueued' = Append(jQueued, new) /\ jSeq' = jSeq + 1 /\ jSeq <= MaxJobs
      /\ jDrain = "none"
      /\ UNCHANGED <<jFlight, jCompleted, jpc, jHand, jSession, jFile, jNext, jRows, jPruned,
                     jLife, jTaken, jDrain, jVerdict>>
  BY DEF Submit, HasCredit, diskVars
<1>2. new \in JobIds /\ new[1] = jLife /\ new[2] = jSeq
  BY <1>1, OfThisLife DEF JInv
<1>0. \A j \in JobIds : j[1] = jLife /\ j[2] = jSeq => j = new
  BY JobPairs
<1> HIDE DEF new
<1>3. jVerdict[new] = "none"
  BY <1>2, Numbers DEF JInv, Book
<1>4. JTypeOK'
  BY <1>1, <1>2, JournalAssumption DEF JournalAssumption, JInv, JTypeOK
<1>5. new \notin OnDisk
  <2> SUFFICES ASSUME NEW r \in Written, r.body = new PROVE FALSE
    BY DEF OnDisk
  <2> QED BY <1>2, <1>3, Numbers DEF JInv, Disk
<1>6. OpenJobs' = OpenJobs \union {new} /\ new \notin OpenJobs
  <2>1. \A j \in JobIds : /\ j[2] < jSeq => j[2] < jSeq + 1 /\ j[2] # jSeq
                          /\ j[2] < jSeq + 1 => j[2] < jSeq \/ j[2] = jSeq
    BY Numbers, JobPairs DEF JInv
  <2>2. new[2] < jSeq + 1
    BY <1>2, Numbers DEF JInv
  <2>3. ASSUME NEW j \in OpenJobs' PROVE j \in OpenJobs \union {new}
    BY <1>0, <1>1, <2>1 DEF OpenJobs
  <2>4. ASSUME NEW j \in OpenJobs \union {new} PROVE j \in OpenJobs'
    BY <1>1, <1>2, <1>3, <2>1, <2>2 DEF OpenJobs
  <2>5. new \notin OpenJobs
    BY <1>2, <2>1 DEF OpenJobs
  <2> QED BY <2>3, <2>4, <2>5
<1>7. Line'
  <2>1. /\ Len(jQueued') = Len(jQueued) + 1 /\ jQueued'[Len(jQueued) + 1] = new
        /\ \A i \in 1 .. Len(jQueued) : jQueued'[i] = jQueued[i]
        /\ Len(jQueued) \in Nat
    BY <1>1, <1>2 DEF JInv, JTypeOK
  <2>2. OnDisk' = OnDisk /\ Job' = Job
    BY <1>1 DEF OnDisk, Written, Job
  <2>3. Job # new /\ (Job # Nobody => Job \in OpenJobs')
    BY <1>2, <1>6, JobPairs DEF JInv, Line
  <2>4. ASSUME NEW i \in 1 .. Len(jQueued')
        PROVE  /\ jQueued'[i] \in OpenJobs' /\ jQueued'[i] # Job /\ jQueued'[i] \notin OnDisk
               /\ \A k \in 1 .. Len(jQueued') : i # k => jQueued'[i] # jQueued'[k]
    <3>1. CASE i = Len(jQueued) + 1
      BY <3>1, <2>1, <2>3, <1>5, <1>6 DEF JInv, Line
    <3>2. CASE i \in 1 .. Len(jQueued)
      BY <3>2, <2>1, <1>6 DEF JInv, Line
    <3> QED BY <2>1, <3>1, <3>2
  <2> QED BY <2>2, <2>3, <2>4 DEF Line
<1>8. Book'
  <2>3. /\ IsFiniteSet(OpenJobs')
        /\ Cardinality(OpenJobs') = Cardinality(OpenJobs) + 1
        /\ Cardinality(OpenJobs) \in Nat /\ Cardinality(jCompleted) \in Nat
    BY <1>6, FS_AddElement, FS_CardinalityType DEF JInv, Book, JTypeOK
  <2>4. jCredits' = Cardinality(jCompleted') + Cardinality(OpenJobs')
    BY <2>3, <1>1 DEF JInv, Book
  <2>5. ASSUME NEW j \in JobIds PROVE (j[2] < jSeq' => j[2] < jSeq \/ j = new \/ j[1] # jLife)
                                      /\ (j[2] >= jSeq' => j[2] >= jSeq)
    BY <1>0, <1>1, Numbers, JobPairs DEF JInv
  <2>6. \A j \in JobIds : j[1] = jLife /\ j[2] < jSeq' /\ jVerdict[j] # "none" =>
          \E c \in jCompleted \union jTaken : c.job = j
    BY <2>5, <1>3 DEF JInv, Book
  <2>7. \A j \in JobIds : (j[1] > jLife \/ (j[1] = jLife /\ j[2] >= jSeq')) => jVerdict[j] = "none"
    BY <2>5 DEF JInv, Book
  <2>8. jDrain' # "complete" /\ \A c \in jCompleted' : jVerdict'[c.job] # "none"
    BY <1>1 DEF JInv, Book
  <2> QED BY <1>1, <2>3, <2>4, <2>6, <2>7, <2>8 DEF Book
<1>9. Disk'
  <2>1. \A r \in Written : r.body[2] < jSeq => r.body[2] < jSeq + 1
    BY Numbers, JobPairs, RowFields DEF JInv, JTypeOK, Written
  <2> QED BY <1>1, <2>1 DEF JInv, Disk, Written
<1> QED BY <1>1, <1>4, <1>7, <1>8, <1>9 DEF JInv, Seats, Fate, OnDisk, Written, Job

\* Consuming completions gives their credits back.
LEMMA TakeStep ==
  ASSUME JInv, NEW done \in SUBSET jCompleted, TakeMatching(done),
         UNCHANGED <<jQueued, jFlight, jpc, jHand, jSession, jNext, jRows, jPruned, jLife, jSeq,
                     jVerdict>>,
         jDrain' # "complete"
  PROVE  JInv'
<1>1. jCompleted' = jCompleted \ done /\ jTaken' = jTaken \union done
      /\ jCredits' = jCredits - Cardinality(done)
  BY DEF TakeMatching
<1>2. /\ IsFiniteSet(done) /\ Cardinality(done) \in Nat
      /\ IsFiniteSet(jCompleted') /\ Cardinality(jCompleted) \in Nat
      /\ Cardinality(jCompleted') = Cardinality(jCompleted) - Cardinality(done)
      /\ Cardinality(done) <= Cardinality(jCompleted)
      /\ Cardinality(OpenJobs) \in Nat
  <2>1. IsFiniteSet(jCompleted) /\ IsFiniteSet(OpenJobs)
    BY DEF JInv, JTypeOK, Book
  <2>2. IsFiniteSet(done) /\ Cardinality(done) <= Cardinality(jCompleted)
    BY <2>1, FS_Subset
  <2>3. IsFiniteSet(jCompleted \ done) /\ jCompleted \ done \subseteq jCompleted
    BY <2>1, FS_Subset
  <2>4. Cardinality(jCompleted) = Cardinality(jCompleted \ done) + Cardinality(done)
    <3>1. jCompleted = (jCompleted \ done) \union done /\ (jCompleted \ done) \cap done = {}
      OBVIOUS
    <3>2. Cardinality((jCompleted \ done) \union done)
            = Cardinality(jCompleted \ done) + Cardinality(done)
              - Cardinality((jCompleted \ done) \cap done)
      BY <2>2, <2>3, FS_Union
    <3>3. Cardinality((jCompleted \ done) \cap done) = 0
      BY <3>1, FS_EmptySet
    <3>4. Cardinality(jCompleted \ done) \in Nat /\ Cardinality(done) \in Nat
      BY <2>2, <2>3, FS_CardinalityType
    <3>5. Cardinality(jCompleted) = Cardinality((jCompleted \ done) \union done)
      BY <3>1
    <3> QED BY <3>2, <3>3, <3>4, <3>5
  <2>5. /\ Cardinality(jCompleted) \in Nat /\ Cardinality(jCompleted \ done) \in Nat
        /\ Cardinality(done) \in Nat /\ Cardinality(OpenJobs) \in Nat
    BY <2>1, <2>2, <2>3, FS_CardinalityType
  <2> QED BY <1>1, <2>2, <2>3, <2>4, <2>5
<1>3. OpenJobs' = OpenJobs
  BY DEF OpenJobs
<1>4. jCredits' = Cardinality(jCompleted') + Cardinality(OpenJobs')
  BY <1>1, <1>2, <1>3 DEF JInv, Book, JTypeOK
<1>5. JTypeOK'
  <2>1. jCredits' \in Nat /\ jCredits' <= CreditCapacity
    BY <1>1, <1>2, JournalAssumption DEF JournalAssumption, JInv, Book, JTypeOK
  <2> QED BY <1>1, <1>2, <2>1 DEF JInv, JTypeOK
<1>6. Book'
  BY <1>1, <1>2, <1>3, <1>4 DEF JInv, Book
<1> QED BY <1>5, <1>6, LineKept, DiskKept DEF JInv, Seats, Fate, OnDisk, Written, Job

LEMMA OwnerSteps ==
  ASSUME JInv, Collect \/ CloseJournal \/ CollectPending \/ Report
  PROVE  JInv'
<1>1. CASE Collect
  BY <1>1, TakeStep DEF Collect, diskVars
<1>2. CASE CollectPending
  BY <1>2, TakeStep DEF CollectPending, diskVars
<1>3. CASE CloseJournal \/ Report
  <2>1. UNCHANGED <<jQueued, jFlight, jCompleted, jCredits, jpc, jHand, jSession, jNext, jRows,
                    jPruned, jLife, jSeq, jTaken, jVerdict>>
    BY <1>3 DEF CloseJournal, Report, qvars, diskVars
  <2>2. jDrain' = "complete" =>
          jCompleted = {} /\ jCredits = 0
    BY <1>3 DEF CloseJournal, Report, IsComplete
  <2>3. jDrain' = "complete" => \A s \in 1 .. jSeq - 1 : \E c \in jTaken : c.job = <<jLife, s>>
    <3> SUFFICES ASSUME jDrain' = "complete", NEW s \in 1 .. jSeq - 1
                 PROVE  \E c \in jTaken : c.job = <<jLife, s>>
      OBVIOUS
    <3>1. Cardinality(jCompleted) = 0 /\ Cardinality(OpenJobs) \in Nat
      BY <2>2, FS_EmptySet, FS_CardinalityType DEF JInv, Book
    <3>2. OpenJobs = {}
      BY <2>2, <3>1, FS_EmptySet DEF JInv, Book
    <3>3. <<jLife, s>> \in JobIds /\ jVerdict[<<jLife, s>>] # "none"
      BY <3>2, OfThisLife, Numbers DEF OpenJobs, JInv
    <3>4. <<jLife, s>>[1] = jLife /\ <<jLife, s>>[2] < jSeq
      BY OfThisLife, Numbers DEF JInv
    <3> QED BY <2>2, <3>3, <3>4 DEF JInv, Book
  <2>4. Book'
    BY <2>1, <2>3 DEF JInv, Book, OpenJobs
  <2> QED BY <2>1, <2>4, LineKept, DiskKept DEF JInv, JTypeOK, Seats, Fate, OnDisk, Written, Job
<1> QED BY <1>1, <1>2, <1>3

-----------------------------------------------------------------------------
\* The worker.  Most of its steps move it along with the same job in hand.

HandType == [job : JobIds \union {Nobody}, result : Results \union {"none"}, progress : 0 .. 4]

LEMMA MoveStep ==
  ASSUME JInv, jHand' \in HandType, Job' = Job, jSession' \in {0, jSession}, jNext' = jNext,
         UNCHANGED <<jQueued, jCompleted, jCredits, jRows, jPruned, jLife, jSeq, jTaken, jDrain,
                     jVerdict>>,
         Seats', Fate'
  PROVE  JInv'
<1>1. JTypeOK'
  BY DEF JInv, JTypeOK, HandType
<1> QED BY <1>1, LineKept, BookKept, DiskKept DEF JInv

LEMMA HandFields ==
  JTypeOK => /\ jHand \in HandType /\ jHand.progress \in 0 .. 4
             /\ jHand.result \in Results \union {"none"}
BY DEF JTypeOK, HandType

LEMMA HandMoves ==
  ASSUME JTypeOK, NEW p \in 0 .. 4, Progress(p)
  PROVE  jHand' \in HandType /\ Job' = Job /\ jHand'.progress = p /\ jHand'.result = jHand.result
BY DEF JTypeOK, HandType, Progress, Job

LEMMA HandHolds ==
  ASSUME JTypeOK, NEW p \in 0 .. 4, NEW v \in Results, Holds(p, v)
  PROVE  jHand' \in HandType /\ Job' = Job /\ jHand'.progress = p /\ jHand'.result = v
BY DEF JTypeOK, HandType, Holds, Job

LEMMA OpenSteps ==
  ASSUME JInv, WorkerReturns \/ Finish \/ OpenCreates \/ SchemaCommits \/ OpenExisting \/ Unwind
  PROVE  JInv'
<1>1. /\ UNCHANGED <<jHand, jFlight, jQueued, jCompleted, jCredits, jNext, jRows, jPruned, jLife,
                     jSeq, jTaken, jDrain, jVerdict>>
      /\ jSession' \in {0, jSession}
      /\ jpc # "unwindPublish" /\ jpc' # "unwindPublish"
  BY DEF WorkerReturns, Finish, OpenCreates, SchemaCommits, OpenExisting, Unwind, Working, qvars,
         diskVars, jobOwnerVars
<1>2. Seats'
  BY <1>1 DEF JInv, Seats, Opens, Job, WorkerReturns, Finish, OpenCreates, SchemaCommits,
              OpenExisting, Unwind
<1>3. Fate'
  BY <1>1, FateKept DEF JInv
<1>4. jHand' \in HandType /\ Job' = Job
  BY <1>1, HandFields DEF JInv, Job
<1> QED BY <1>1, <1>2, <1>3, <1>4, MoveStep

LEMMA AllocateStep == ASSUME JInv, AllocateSession PROVE JInv'
<1>1. /\ jpc = "session" /\ jpc' = "prune" /\ jNext' = jNext + 1 /\ jSession' = jNext + 1
      /\ UNCHANGED <<jHand, jFlight, jQueued, jCompleted, jCredits, jRows, jPruned, jLife, jSeq,
                     jTaken, jDrain, jVerdict>>
  BY DEF AllocateSession, qvars, jobOwnerVars
<1>2. JTypeOK'
  BY <1>1 DEF JInv, JTypeOK
<1>3. Disk'
  <2>1. \A r \in Written : r.session <= jNext + 1 /\ r.session # jNext + 1 /\ r.session < jNext + 1
    BY RowFields, Numbers DEF JInv, JTypeOK, Disk, Written
  <2> QED BY <1>1, <2>1 DEF JInv, Disk, Written
<1>4. Seats'
  BY <1>1, Numbers DEF JInv, Seats, Opens, Job
<1>5. Line'
  BY <1>1, LineKept DEF JInv, Job
<1> QED BY <1>1, <1>2, <1>3, <1>4, <1>5, FateKept, BookKept DEF JInv

LEMMA PruneStep == ASSUME JInv, PruneOldestSessions PROVE JInv'
<1>1. /\ jpc = "prune" /\ jpc' = "encode"
      /\ UNCHANGED <<jHand, jFlight, jQueued, jCompleted, jCredits, jNext, jSession, jLife, jSeq,
                     jTaken, jDrain, jVerdict>>
  BY DEF PruneOldestSessions, qvars, jobOwnerVars
<1>2. PICK c \in 0 .. jSession - 1 :
         jRows' = JournalAfter(c) /\ jPruned' = jPruned \union (jRows \ JournalAfter(c))
  BY DEF PruneOldestSessions
<1>3. Written' = Written /\ OnDisk' = OnDisk
  BY <1>2 DEF Written, OnDisk, JournalAfter
<1>4. JTypeOK'
  BY <1>1, <1>2 DEF JInv, JTypeOK, JournalAfter
<1>5. \A r \in jPruned' : r.session < jSession /\ \A q \in jRows' : r.session < q.session
  <2> SUFFICES ASSUME NEW r \in jPruned' PROVE r.session < jSession /\ \A q \in jRows' : r.session < q.session
    OBVIOUS
  <2>1. CASE r \in jPruned
    BY <2>1, <1>1, <1>2 DEF JInv, Disk, Seats, JournalAfter
  <2>2. CASE r \notin jPruned
    <3>1. r \in jRows /\ ~(r.session > c)
      BY <2>2, <1>2 DEF JournalAfter
    <3>2. r.session \in Nat /\ jSession \in Nat
      BY <3>1, RowFields, Numbers DEF JInv, JTypeOK
    <3>3. r.session <= c /\ r.session < jSession
      BY <3>1, <3>2
    <3>4. \A q \in jRows' : q.session > c /\ q.session \in Nat
      BY <1>2, RowFields DEF JournalAfter, JInv, JTypeOK
    <3> QED BY <3>2, <3>3, <3>4
  <2> QED BY <2>1, <2>2
<1>6. Disk'
  BY <1>1, <1>3, <1>5 DEF JInv, Disk
<1>7. Seats'
  BY <1>1 DEF JInv, Seats, Opens, Job
<1>8. Line'
  BY <1>1, <1>3 DEF JInv, Line, OpenJobs, Job
<1>9. Fate'
  BY <1>1, <1>3 DEF JInv, Fate, Job
<1> QED BY <1>1, <1>4, <1>6, <1>7, <1>8, <1>9, BookKept DEF JInv

LEMMA WriteSteps ==
  ASSUME JInv, OpenFails \/ Encode \/ Insert \/ Readback
  PROVE  JInv'
<1>1. /\ UNCHANGED <<jFlight, jQueued, jCompleted, jCredits, jNext, jRows, jPruned, jLife, jSeq,
                     jTaken, jDrain, jVerdict>>
      /\ OnDisk' = OnDisk
  BY DEF OpenFails, Encode, Insert, Readback, qvars, diskVars, jobOwnerVars, OnDisk, Written
<1>2. jHand.progress \in 0 .. 4
  BY HandFields DEF JInv
<1> USE DEF Opening, Encoding, Writing, CommitAttempted, Committed
<1>3. ASSUME NEW v \in {"failed", "uncertain"}, Fails(v), jpc \in Opens \union {"insert", "readback"},
             v = "failed" => jHand.progress < CommitAttempted
      PROVE  JInv'
  <2>1. /\ jHand' \in HandType /\ Job' = Job /\ jHand'.progress = jHand.progress
        /\ jHand'.result = v /\ jSession' = 0 /\ jpc' = "publish"
    BY <1>2, <1>3, HandHolds DEF JInv, Fails, Results
  <2>2. Seats'
    BY <1>1, <1>3, <2>1 DEF JInv, Seats, Opens
  <2>3. Fate'
    BY <1>1, <1>3, <2>1 DEF JInv, Fate, Opens
  <2> QED BY <1>1, <2>1, <2>2, <2>3, MoveStep
<1>4. CASE OpenFails
  BY <1>3, <1>4 DEF OpenFails, JInv, Seats, Opens
<1>5. CASE Encode
  <2>1. CASE Progress(Writing) /\ jpc' = "insert" /\ UNCHANGED jSession
    <3>1. /\ jHand' \in HandType /\ Job' = Job /\ jHand'.progress = Writing
          /\ jHand'.result = jHand.result
      BY <2>1, HandMoves DEF JInv
    <3>2. jpc = "encode"
      BY <1>5 DEF Encode
    <3>3. Seats' /\ Fate'
      BY <1>1, <2>1, <3>1, <3>2 DEF JInv, Seats, Fate, Opens
    <3> QED BY <1>1, <2>1, <3>1, <3>3, MoveStep
  <2>2. CASE Holds(Encoding, "failed") /\ jSession' = 0 /\ jpc' = "publish"
    <3>1. /\ jHand' \in HandType /\ Job' = Job /\ jHand'.progress = Encoding
          /\ jHand'.result = "failed"
      BY <2>2, HandHolds DEF JInv, Results
    <3>2. jpc = "encode"
      BY <1>5 DEF Encode
    <3>3. Seats' /\ Fate'
      BY <1>1, <2>2, <3>1, <3>2 DEF JInv, Seats, Fate, Opens
    <3> QED BY <1>1, <2>2, <3>1, <3>3, MoveStep
  <2> QED BY <1>5, <2>1, <2>2 DEF Encode
<1>6. CASE Insert
  <2>1. jpc = "insert" /\ jHand.progress = Writing
    BY <1>6 DEF Insert, JInv, Seats
  <2>2. CASE Progress(CommitAttempted) /\ jpc' = "commit" /\ UNCHANGED jSession
    <3>1. /\ jHand' \in HandType /\ Job' = Job /\ jHand'.progress = CommitAttempted
          /\ jHand'.result = jHand.result
      BY <2>2, HandMoves DEF JInv
    <3>2. Seats' /\ Fate'
      BY <1>1, <2>1, <2>2, <3>1 DEF JInv, Seats, Fate, Opens
    <3> QED BY <1>1, <2>2, <3>1, <3>2, MoveStep
  <2> QED BY <1>3, <1>6, <2>1, <2>2 DEF Insert
<1>7. CASE Readback
  <2>1. CASE Row(Job, jSession) \in jRows /\ Holds(Committed, "durable") /\ jpc' = "publish"
               /\ UNCHANGED jSession
    <3>1. /\ jHand' \in HandType /\ Job' = Job /\ jHand'.progress = Committed
          /\ jHand'.result = "durable"
      BY <2>1, HandHolds DEF JInv, Results
    <3>2. Job \in OnDisk
      BY <2>1 DEF OnDisk, Written, Row
    <3>3. jpc = "readback"
      BY <1>7 DEF Readback
    <3>4. Seats' /\ Fate'
      BY <1>1, <2>1, <3>1, <3>2, <3>3 DEF JInv, Seats, Fate, Opens
    <3> QED BY <1>1, <2>1, <3>1, <3>4, MoveStep
  <2> QED BY <1>3, <1>7, <2>1 DEF Readback
<1> QED BY <1>4, <1>5, <1>6, <1>7

LEMMA QueueTail ==
  ASSUME JTypeOK, jQueued # <<>>
  PROVE  /\ Tail(jQueued) \in Seq(JobIds) /\ Len(jQueued) \in Nat \ {0}
         /\ Head(jQueued) = jQueued[1] /\ Head(jQueued) \in JobIds
         /\ Len(Tail(jQueued)) = Len(jQueued) - 1
         /\ \A i \in 1 .. Len(Tail(jQueued)) :
              i + 1 \in 2 .. Len(jQueued) /\ Tail(jQueued)[i] = jQueued[i + 1]
BY DEF JTypeOK

\* The head of the queue becomes the job in hand.
LEMMA HeadStep ==
  ASSUME JInv, jQueued # <<>>, jQueued' = Tail(jQueued), Job' = Head(jQueued),
         UNCHANGED <<jLife, jSeq, jVerdict, jRows, jPruned>>
  PROVE  /\ Line' /\ Job' # Nobody /\ Job' \notin OnDisk'
<1>1. OnDisk' = OnDisk /\ OpenJobs' = OpenJobs
  BY DEF OnDisk, Written, OpenJobs
<1>2. /\ Head(jQueued) \in OpenJobs /\ Head(jQueued) \notin OnDisk
      /\ \A k \in 2 .. Len(jQueued) : jQueued[k] # Head(jQueued)
  BY QueueTail DEF JInv, Line
<1>3. ASSUME NEW i \in 1 .. Len(jQueued')
      PROVE  /\ jQueued'[i] \in OpenJobs' /\ jQueued'[i] # Job' /\ jQueued'[i] \notin OnDisk'
             /\ \A k \in 1 .. Len(jQueued') : i # k => jQueued'[i] # jQueued'[k]
  <2>1. /\ i + 1 \in 1 .. Len(jQueued) /\ i + 1 # 1 /\ jQueued'[i] = jQueued[i + 1]
        /\ \A k \in 1 .. Len(jQueued') : /\ k + 1 \in 1 .. Len(jQueued)
                                         /\ jQueued'[k] = jQueued[k + 1]
                                         /\ i # k => i + 1 # k + 1
    BY QueueTail DEF JInv
  <2> QED BY <1>1, <1>2, <2>1 DEF JInv, Line
<1>4. Job' # Nobody
  BY QueueTail, JobPairs DEF JInv
<1> QED BY <1>1, <1>2, <1>3, <1>4 DEF Line

LEMMA TakeJobStep == ASSUME JInv, TakeJob PROVE JInv'
<1>1. /\ jpc = "idle" /\ jQueued # <<>> /\ jQueued' = Tail(jQueued) /\ jFlight' = Head(jQueued)
      /\ jHand' = [job |-> Head(jQueued), result |-> "none", progress |-> Opening]
      /\ jpc' = IF jSession = 0 THEN "open" ELSE "encode"
      /\ UNCHANGED <<jCompleted, jCredits, jSession, jNext, jRows, jPruned, jLife, jSeq, jTaken,
                     jDrain, jVerdict>>
  BY DEF TakeJob, diskVars, jobOwnerVars
<1>2. Job' = Head(jQueued)
  BY <1>1 DEF Job
<1>3. Line' /\ Job' # Nobody /\ Job' \notin OnDisk'
  BY <1>1, <1>2, HeadStep
<1>4. JTypeOK'
  BY <1>1, QueueTail DEF JInv, JTypeOK, Opening
<1>5. Seats'
  BY <1>1, <1>2, <1>3 DEF JInv, Seats, Opens, Opening
<1>6. Fate'
  BY <1>1, <1>3 DEF Fate
<1>7. Book' /\ Disk'
  BY <1>1, BookKept, DiskKept DEF JInv
<1> QED BY <1>3, <1>4, <1>5, <1>6, <1>7 DEF JInv

\* The row of the job in hand, in the session this process opened.
LEMMA CommitSteps == ASSUME JInv, Commit \/ CommitFails PROVE JInv'
<1> DEFINE row == Row(Job, jSession)
<1>1. /\ jpc = "commit" /\ jRows' \in {jRows, jRows \union {row}}
      /\ UNCHANGED <<jFlight, jQueued, jCompleted, jCredits, jNext, jPruned, jLife, jSeq, jTaken,
                     jDrain, jVerdict>>
  BY DEF Commit, CommitFails, Stored, qvars, jobOwnerVars
<1>2. /\ jSession = jNext /\ jSession \in Nat \ {0} /\ Job \in OpenJobs /\ Job \in JobIds
      /\ jHand.progress = CommitAttempted
  BY <1>1, Numbers DEF JInv, JTypeOK, Seats, Line, OpenJobs
<1>3. row \in JournalRows /\ row.session = jSession /\ row.body = Job /\ row.key = Job[2]
  BY <1>2, RowFields
<1> HIDE DEF row
<1>4. Written' \in {Written, Written \union {row}}
  BY <1>1 DEF Written
<1>5. OnDisk' \in {OnDisk, OnDisk \union {Job}}
  BY <1>3, <1>4 DEF OnDisk
<1>6. /\ Job' = Job /\ jHand' \in HandType
      /\ \/ jpc' = "readback" /\ jSession' = jSession /\ jHand'.progress = Committed
            /\ jHand'.result = jHand.result
         \/ jpc' = "publish" /\ jSession' = 0 /\ jHand'.progress = CommitAttempted
            /\ jHand'.result = "uncertain"
  <2>1. CASE Commit
    BY <2>1, HandMoves DEF Commit, JInv, Committed
  <2>2. CASE CommitFails
    BY <2>2, <1>2, HandHolds DEF CommitFails, Fails, JInv, CommitAttempted, Results
  <2> QED BY <2>1, <2>2
<1>7. JTypeOK'
  BY <1>1, <1>3, <1>6 DEF JInv, JTypeOK, HandType
<1>8. Seats'
  BY <1>1, <1>2, <1>6 DEF JInv, Seats, Opens
<1>9. Line'
  <2>1. OpenJobs' = OpenJobs
    BY <1>1 DEF OpenJobs
  <2> QED BY <1>1, <1>5, <1>6, <2>1 DEF JInv, Line
<1>10. Fate'
  <2>1. jHand.result = "none"
    BY <1>1 DEF JInv, Seats
  <2> QED BY <1>6, <2>1 DEF Fate, CommitAttempted, Committed
<1>11. Book'
  BY <1>1, BookKept DEF JInv
<1>12. Disk'
  <2>1. /\ Job[1] = jLife /\ Job[2] < jSeq
    BY <1>2 DEF OpenJobs
  <2>2. \A r \in Written : r.session = jSession /\ r.key = Job[2] => r = row
    <3> SUFFICES ASSUME NEW r \in Written, r.session = jSession, r.key = Job[2] PROVE r = row
      OBVIOUS
    <3>1. r \in JournalRows /\ r.body[1] = jLife
      BY DEF Written, JInv, JTypeOK, Disk
    <3>2. r.body = Job /\ r = Row(r.body, r.session)
      BY <1>2, <2>1, <3>1, RowFields, JobPairs
    <3> QED BY <3>2 DEF row
  <2>3. \A r \in jPruned : r.session < jSession
    BY <1>2 DEF JInv, Disk
  <2>4. \A r \in Written : r.session # 0
    BY RowFields DEF Written, JInv, JTypeOK
  <2>5. jSession' \in {0, jSession} /\ jSession # 0
    BY <1>2, <1>6
  <2>6. ASSUME NEW r \in Written'
        PROVE  /\ r.session <= jNext
               /\ r.session = jSession' => r.body[1] = jLife
               /\ jVerdict[r.body] # "none" \/ (r.body[1] = jLife /\ r.body[2] < jSeq)
    BY <1>2, <1>3, <1>4, <2>1, <2>4, <2>5 DEF JInv, Disk
  <2>7. \A r, q \in Written' : (r.session = q.session /\ r.key = q.key) => r = q
    BY <1>3, <1>4, <2>2 DEF JInv, Disk
  <2>8. \A r \in jPruned : /\ jSession' # 0 => r.session < jSession'
                           /\ \A q \in jRows' : r.session < q.session
    BY <1>1, <1>3, <2>3, <2>5 DEF JInv, Disk
  <2> QED BY <1>1, <2>6, <2>7, <2>8 DEF Disk
<1> QED BY <1>7, <1>8, <1>9, <1>10, <1>11, <1>12 DEF JInv

\* A verdict turns an open job into a completion, and its credit with it.
LEMMA PublishSteps == ASSUME JInv, Publish \/ UnwindPublishes PROVE JInv'
<1> DEFINE done == [job |-> Job, result |-> jHand.result]
           empty == [job |-> Nobody, result |-> "none", progress |-> 0]
<1>1. /\ jpc \in {"publish", "unwindPublish"}
      /\ jpc' = IF jpc = "publish" THEN "idle" ELSE "unwind"
      /\ jCompleted' = jCompleted \union {done} /\ jFlight' = Nobody /\ jHand' = empty
      /\ jVerdict' = [jVerdict EXCEPT ![Job] = jHand.result]
      /\ UNCHANGED <<jQueued, jCredits, jSession, jNext, jRows, jPruned, jLife, jSeq, jTaken,
                     jDrain>>
  BY DEF Publish, UnwindPublishes, Complete, diskVars, jobOwnerVars
<1>2. Job \in OpenJobs /\ Job \in JobIds /\ jVerdict[Job] = "none" /\ jHand.result \in Results
  BY <1>1, HandFields DEF JInv, Seats, Line, OpenJobs
<1>3. done \in Completions /\ done.job = Job /\ done \notin jCompleted
  BY <1>2 DEF Completions, JInv, Book
<1>4. /\ jVerdict' \in [JobIds -> Results \union {"none", "lost"}]
      /\ jVerdict'[Job] # "none"
      /\ \A j \in JobIds \ {Job} : jVerdict'[j] = jVerdict[j]
  BY <1>1, <1>2 DEF JInv, JTypeOK, Results
<1> HIDE DEF done
<1>5. OpenJobs' = OpenJobs \ {Job}
  BY <1>1, <1>2, <1>4 DEF OpenJobs
<1>6. JTypeOK'
  <2>1. IsFiniteSet(jCompleted')
    BY <1>1, FS_AddElement DEF JInv, JTypeOK
  <2> QED BY <1>1, <1>3, <1>4, <2>1 DEF JInv, JTypeOK
<1>7. Job' = Nobody
  BY <1>1 DEF Job
<1>8. Seats'
  BY <1>1, <1>7 DEF JInv, Seats, Opens, Opening
<1>9. OnDisk' = OnDisk
  BY <1>1 DEF OnDisk, Written
<1>10. Nobody \notin OnDisk
  BY JobPairs, RowFields DEF OnDisk, Written, JInv, JTypeOK
<1>11. Line'
  <2>1. \A i \in 1 .. Len(jQueued) : jQueued[i] # Nobody
    BY JobPairs DEF JInv, Line, OpenJobs
  <2> QED BY <1>1, <1>5, <1>7, <1>9, <2>1 DEF JInv, Line
<1>12. Fate'
  BY <1>1, <1>7, <1>9, <1>10 DEF Fate
<1>13. Book'
  <2>1. /\ IsFiniteSet(OpenJobs') /\ Cardinality(OpenJobs') = Cardinality(OpenJobs) - 1
        /\ Cardinality(OpenJobs) \in Nat /\ Cardinality(jCompleted) \in Nat
        /\ Cardinality(jCompleted') = Cardinality(jCompleted) + 1
    BY <1>1, <1>2, <1>3, <1>5, FS_AddElement, FS_RemoveElement, FS_CardinalityType
       DEF JInv, Book, JTypeOK
  <2>2. jCredits' = Cardinality(jCompleted') + Cardinality(OpenJobs')
    BY <1>1, <2>1 DEF JInv, Book
  <2>3. \A j \in JobIds : (j[1] > jLife \/ (j[1] = jLife /\ j[2] >= jSeq)) => jVerdict'[j] = "none"
    <3>1. ~(Job[1] > jLife) /\ ~(Job[2] >= jSeq)
      BY <1>2, Numbers, JobPairs DEF OpenJobs, JInv
    <3> QED BY <3>1, <1>4 DEF JInv, Book
  <2>4. \A c \in jCompleted' : jVerdict'[c.job] # "none"
    <3>1. \A c \in jCompleted : c.job \in JobIds /\ jVerdict[c.job] # "none"
      BY DEF JInv, JTypeOK, Book, Completions
    <3> QED BY <1>1, <1>3, <1>4, <3>1
  <2>5. \A j \in JobIds : j[1] = jLife /\ j[2] < jSeq /\ jVerdict'[j] # "none" =>
          \E c \in jCompleted' \union jTaken : c.job = j
    BY <1>1, <1>3, <1>4 DEF JInv, Book
  <2> QED BY <1>1, <2>1, <2>2, <2>3, <2>4, <2>5 DEF JInv, Book
<1>14. Disk'
  <2>1. \A r \in Written : r.body \in JobIds /\ (jVerdict[r.body] # "none" => jVerdict'[r.body] # "none")
    BY <1>4, RowFields DEF Written, JInv, JTypeOK
  <2> QED BY <1>1, <2>1 DEF JInv, Disk, Written
<1> QED BY <1>6, <1>8, <1>11, <1>12, <1>13, <1>14 DEF JInv

\* The panic handler: the flight first, then the queue.
LEMMA UnwindStep == ASSUME JInv, UnwindTakes PROVE JInv'
<1>1. /\ jpc = "unwind" /\ jFlight = Job
      /\ UNCHANGED <<jCompleted, jCredits, jSession, jNext, jRows, jPruned, jLife, jSeq, jTaken,
                     jDrain, jVerdict>>
  BY DEF UnwindTakes, diskVars, jobOwnerVars, JInv, Seats
<1>2. Book' /\ Disk' /\ OnDisk' = OnDisk /\ OpenJobs' = OpenJobs
  BY <1>1, BookKept, DiskKept DEF JInv, OnDisk, Written, OpenJobs
<1>3. CASE jFlight # Nobody /\ jHand' = [job |-> jFlight, result |-> FlightResult, progress |-> 0]
             /\ jFlight' = Nobody /\ jpc' = "unwindPublish" /\ UNCHANGED jQueued
  <2>1. Job' = Job /\ FlightResult \in {"failed", "uncertain"} /\ jHand'.result = FlightResult
    BY <1>1, <1>3 DEF Job, FlightResult
  <2>2. JTypeOK'
    BY <1>1, <1>3, <2>1 DEF JInv, JTypeOK, Results, Job
  <2>3. Seats'
    BY <1>1, <1>3, <2>1 DEF Seats, Opens
  <2>4. Line'
    BY <1>1, <1>3, <2>1, LineKept DEF JInv
  <2>5. Fate'
    <3>1. FlightResult = "failed" => Job \notin OnDisk
      BY <1>1, HandFields DEF FlightResult, JInv, Fate, Writing, CommitAttempted
    <3> QED BY <1>2, <1>3, <2>1, <3>1 DEF Fate
  <2> QED BY <1>2, <2>2, <2>3, <2>4, <2>5 DEF JInv
<1>4. CASE jFlight = Nobody /\ jQueued # <<>>
             /\ jHand' = [job |-> Head(jQueued), result |-> "failed", progress |-> 0]
             /\ jQueued' = Tail(jQueued) /\ jpc' = "unwindPublish" /\ UNCHANGED jFlight
  <2>1. Job' = Head(jQueued) /\ jHand'.result = "failed"
    BY <1>4 DEF Job
  <2>2. Line' /\ Job' # Nobody /\ Job' \notin OnDisk'
    BY <1>1, <1>4, <2>1, HeadStep
  <2>3. JTypeOK'
    BY <1>1, <1>4, QueueTail DEF JInv, JTypeOK, Results
  <2>4. Seats' /\ Fate'
    BY <1>4, <2>1, <2>2 DEF Seats, Fate, Opens
  <2> QED BY <1>2, <2>2, <2>3, <2>4 DEF JInv
<1>5. CASE jFlight = Nobody /\ jQueued = <<>>
             /\ jHand' = [job |-> Nobody, result |-> "none", progress |-> 0]
             /\ jpc' = "finish" /\ UNCHANGED <<jFlight, jQueued>>
  <2>1. Job' = Nobody /\ Job = Nobody
    BY <1>1, <1>5 DEF Job
  <2>2. JTypeOK'
    BY <1>1, <1>5 DEF JInv, JTypeOK
  <2>3. Line'
    BY <1>1, <1>5, <2>1, LineKept DEF JInv
  <2>4. Seats'
    BY <1>5, <2>1 DEF Seats, Opens
  <2>5. Fate'
    <3>1. Nobody \notin OnDisk
      BY JobPairs, RowFields DEF OnDisk, Written, JInv, JTypeOK
    <3> QED BY <1>2, <1>5, <2>1, <3>1 DEF Fate
  <2> QED BY <1>2, <2>2, <2>3, <2>4, <2>5 DEF JInv
<1> QED BY <1>3, <1>4, <1>5 DEF UnwindTakes

\* The process dies and the next one starts with nothing but the file.
LEMMA CrashStep == ASSUME JInv, Crash PROVE JInv'
<1>1. /\ jLife < Lives /\ jLife' = jLife + 1 /\ jSeq' = 1 /\ jTaken' = {} /\ jDrain' = "none"
      /\ jQueued' = <<>> /\ jFlight' = Nobody /\ jCompleted' = {} /\ jCredits' = 0
      /\ jpc' = "idle" /\ jHand' = [job |-> Nobody, result |-> "none", progress |-> 0]
      /\ jSession' = 0
      /\ UNCHANGED <<jNext, jRows, jPruned>>
  BY DEF Crash, diskVars
<1>2. /\ jVerdict' \in [JobIds -> Results \union {"none", "lost"}]
      /\ \A j \in JobIds : jVerdict'[j] = IF j[1] = jLife /\ j[2] < jSeq /\ jVerdict[j] = "none"
                                            THEN "lost" ELSE jVerdict[j]
  BY DEF Crash, JInv, JTypeOK
<1>3. JTypeOK'
  BY <1>1, <1>2, FS_EmptySet, JournalAssumption DEF JournalAssumption, JInv, JTypeOK
<1>4. Job' = Nobody
  BY <1>1 DEF Job
<1>5. OnDisk' = OnDisk /\ Nobody \notin OnDisk
  BY <1>1, JobPairs, RowFields DEF OnDisk, Written, JInv, JTypeOK
<1>6. Seats' /\ Fate' /\ Line'
  BY <1>1, <1>4, <1>5 DEF Seats, Fate, Line, Opens
<1>7. Book'
  <2>1. OpenJobs' = {}
    BY <1>1, JobPairs DEF OpenJobs
  <2>2. \A j \in JobIds : j[1] > jLife + 1 \/ j[1] = jLife + 1 => j[1] > jLife /\ j[1] # jLife
    BY JobPairs, Numbers DEF JInv
  <2>3. \A j \in JobIds : (j[1] > jLife' \/ (j[1] = jLife' /\ j[2] >= jSeq')) => jVerdict'[j] = "none"
    BY <1>1, <1>2, <2>2 DEF JInv, Book
  <2>4. \A j \in JobIds : ~(j[2] < jSeq')
    BY <1>1, JobPairs
  <2> QED BY <1>1, <2>1, <2>3, <2>4, FS_EmptySet DEF Book
<1>8. Disk'
  <2>1. \A r \in Written : r.session # 0 /\ r.body \in JobIds
    BY RowFields DEF Written, JInv, JTypeOK
  <2>2. \A r \in Written : jVerdict'[r.body] # "none"
    BY <1>2, <2>1 DEF JInv, Disk
  <2> QED BY <1>1, <2>1, <2>2 DEF JInv, Disk, Written
<1> QED BY <1>3, <1>6, <1>7, <1>8 DEF JInv

-----------------------------------------------------------------------------
LEMMA JournalInitInv == JournalInit => JInv
<1> SUFFICES ASSUME JournalInit PROVE JInv
  OBVIOUS
<1>1. JTypeOK
  BY JournalAssumption, FS_EmptySet DEF JournalAssumption, JournalInit, JTypeOK
<1>2. OpenJobs = {} /\ OnDisk = {} /\ Job = Nobody /\ Written = {}
  BY JobPairs DEF JournalInit, OpenJobs, OnDisk, Written, Job
<1>3. Seats /\ Line /\ Fate /\ Disk
  BY <1>2 DEF JournalInit, Seats, Line, Fate, Disk, Opens
<1>4. Book
  <2>1. \A j \in JobIds : ~(j[2] < jSeq)
    BY JobPairs DEF JournalInit
  <2> QED BY <1>2, <2>1, FS_EmptySet DEF JournalInit, Book
<1> QED BY <1>1, <1>3, <1>4 DEF JInv

LEMMA JournalStep == JInv /\ [JournalNext]_jvars => JInv'
<1> SUFFICES ASSUME JInv, [JournalNext]_jvars PROVE JInv'
  OBVIOUS
<1>1. CASE UNCHANGED jvars
  <2>1. UNCHANGED <<jHand, jFlight, jQueued, jCompleted, jCredits, jSession, jNext, jRows, jPruned,
                    jLife, jSeq, jTaken, jDrain, jVerdict, jpc>>
    BY <1>1 DEF jvars, qvars, diskVars, jobOwnerVars
  <2>2. Job' = Job /\ OnDisk' = OnDisk
    BY <2>1 DEF Job, OnDisk, Written
  <2>3. Seats' /\ Fate'
    BY <2>1, <2>2 DEF JInv, Seats, Fate
  <2>4. jHand' \in HandType
    BY <2>1, HandFields DEF JInv
  <2> QED BY <2>1, <2>2, <2>3, <2>4, MoveStep
<1>2. CASE JournalWorkerStep
  BY <1>2, OpenSteps, AllocateStep, PruneStep, WriteSteps, TakeJobStep, CommitSteps, PublishSteps,
     UnwindStep
     DEF JournalWorkerStep
<1> QED BY <1>1, <1>2, SubmitStep, OwnerSteps, OpenSteps, CrashStep DEF JournalNext

(***************************************************************************)
(* Credits are held by unjudged jobs and unconsumed completions and by     *)
(* nothing else, a complete drain left no job without a result, no two     *)
(* rows ever shared a key, and retention kept the newest sessions: for     *)
(* every number of jobs and processes (submit, complete, take_matching,    *)
(* Database::open, append, prune_oldest_sessions).                         *)
(***************************************************************************)
THEOREM AccountsAddUp == JournalSpec => []JournalAccounts
<1>1. JInv => JournalAccounts
  <2> SUFFICES ASSUME JInv PROVE JournalAccounts
    OBVIOUS
  <2>1. Unfinished = OpenJobs
    BY UnfinishedOpen DEF JInv
  <2>2. \A r \in jPruned : r.session # jSession
    BY RowFields, Numbers DEF JInv, JTypeOK, Disk
  <2> QED BY <2>1, <2>2 DEF JInv, JTypeOK, Book, Disk, JournalAccounts
<1> QED BY <1>1, JournalInitInv, JournalStep, PTL DEF JournalSpec

-----------------------------------------------------------------------------
\* What the ledger sees of the journal.
Accepted == {j \in JobIds : jVerdict[j] # "none" \/ (j[1] = jLife /\ j[2] < jSeq)}

LEMMA OpenAccepted == OpenJobs \subseteq Accepted
BY DEF OpenJobs, Accepted

\* A step that the ledger does not see.
LEMMA LedgerStutter ==
  ASSUME UNCHANGED <<jVerdict, jLife, jSeq>>, OnDisk' = OnDisk
  PROVE  UNCHANGED Ledger!ledgerVars
BY DEF Ledger!ledgerVars, OnDisk

LEMMA SubmitAccepts == ASSUME JInv, Submit PROVE Ledger!LedgerNext
<1> DEFINE new == <<jLife, jSeq>>
<1>1. jSeq' = jSeq + 1 /\ jSeq <= MaxJobs /\ UNCHANGED <<jRows, jPruned, jLife, jVerdict>>
  BY DEF Submit, diskVars
<1>2. new \in JobIds /\ new[1] = jLife /\ new[2] = jSeq
  BY <1>1, OfThisLife DEF JInv
<1>3. \A j \in JobIds : j[1] = jLife /\ j[2] = jSeq => j = new
  BY JobPairs
<1> HIDE DEF new
<1>4. jVerdict[new] = "none" /\ ~(new[2] < jSeq) /\ new[2] < jSeq + 1
  BY <1>2, Numbers DEF JInv, Book
<1>5. \A j \in JobIds : j[2] < jSeq + 1 <=> j[2] < jSeq \/ j[2] = jSeq
  BY Numbers, JobPairs DEF JInv
<1>6. Accepted' = Accepted \union {new}
  <2>1. ASSUME NEW j \in Accepted' PROVE j \in Accepted \union {new}
    BY <1>1, <1>3, <1>5 DEF Accepted
  <2>2. ASSUME NEW j \in Accepted \union {new} PROVE j \in Accepted'
    BY <1>1, <1>2, <1>4, <1>5 DEF Accepted
  <2> QED BY <2>1, <2>2
<1>7. new \notin Accepted /\ OnDisk' = OnDisk
  BY <1>1, <1>4 DEF Accepted, OnDisk, Written
<1>8. PICK j \in JobIds : j = new
  BY <1>2
<1>9. Ledger!Accept(j)
  BY <1>1, <1>6, <1>7, <1>8 DEF Ledger!Accept, Accepted, OnDisk
<1> QED BY <1>9 DEF Ledger!LedgerNext

LEMMA CommitRecords == ASSUME JInv, Commit \/ CommitFails PROVE [Ledger!LedgerNext]_Ledger!ledgerVars
<1>1. /\ jpc = "commit" /\ jRows' \in {jRows, jRows \union {Row(Job, jSession)}}
      /\ UNCHANGED <<jPruned, jLife, jSeq, jVerdict>>
  BY DEF Commit, CommitFails, Stored, jobOwnerVars
<1>2. Job \in OpenJobs /\ Job \in JobIds /\ jVerdict[Job] = "none"
  BY <1>1 DEF JInv, Seats, Line, OpenJobs
<1>3. Row(Job, jSession).body = Job
  BY DEF Row
<1>4. OnDisk' = OnDisk \/ OnDisk' = OnDisk \union {Job}
  BY <1>1, <1>3 DEF OnDisk, Written
<1>5. CASE OnDisk' = OnDisk
  BY <1>1, <1>5, LedgerStutter
<1>6. CASE OnDisk' = OnDisk \union {Job}
  <2>1. Accepted' = Accepted /\ Job \in Accepted
    BY <1>1, <1>2, OpenAccepted DEF Accepted
  <2>2. PICK j \in JobIds : j = Job
    BY <1>2
  <2>3. Ledger!Record(j)
    BY <1>1, <1>2, <1>6, <2>1, <2>2 DEF Ledger!Record, OnDisk, Accepted
  <2> QED BY <2>3 DEF Ledger!LedgerNext
<1> QED BY <1>4, <1>5, <1>6

LEMMA PublishJudges == ASSUME JInv, Publish \/ UnwindPublishes PROVE Ledger!LedgerNext
<1>1. /\ jpc \in {"publish", "unwindPublish"}
      /\ jVerdict' = [jVerdict EXCEPT ![Job] = jHand.result]
      /\ UNCHANGED <<jRows, jPruned, jLife, jSeq>>
  BY DEF Publish, UnwindPublishes, Complete, diskVars, jobOwnerVars
<1>2. Job \in OpenJobs /\ Job \in JobIds /\ jVerdict[Job] = "none" /\ jHand.result \in Results
  BY <1>1, HandFields DEF JInv, Seats, Line, OpenJobs
<1>3. OnDisk' = OnDisk
  BY <1>1 DEF OnDisk, Written
<1>4. Job[1] = jLife /\ Job[2] < jSeq /\ \A j \in JobIds \ {Job} : jVerdict'[j] = jVerdict[j]
  BY <1>1, <1>2 DEF OpenJobs, JInv, JTypeOK
<1>5. Accepted' = Accepted /\ Job \in Accepted
  <2>1. \A j \in JobIds : j \in Accepted' <=> j \in Accepted
    BY <1>1, <1>2, <1>4 DEF Accepted
  <2> QED BY <1>2, <2>1, OpenAccepted DEF Accepted
<1>6. (jHand.result = "durable" => Job \in OnDisk) /\ (jHand.result = "failed" => Job \notin OnDisk)
  BY DEF JInv, Fate
<1>7. PICK j \in JobIds, v \in Ledger!Verdicts : j = Job /\ v = jHand.result
  BY <1>2 DEF Ledger!Verdicts, Results
<1>8. Ledger!Judge(j, v)
  BY <1>1, <1>2, <1>3, <1>5, <1>6, <1>7 DEF Ledger!Judge, OnDisk, Accepted
<1> QED BY <1>8 DEF Ledger!LedgerNext

LEMMA CrashAbandons == ASSUME JInv, Crash PROVE Ledger!LedgerNext
<1>1. jLife' = jLife + 1 /\ jSeq' = 1 /\ UNCHANGED <<jRows, jPruned>>
  BY DEF Crash, diskVars
<1>2. jVerdict' = [j \in JobIds |-> IF j[1] = jLife /\ j[2] < jSeq /\ jVerdict[j] = "none"
                                      THEN "lost" ELSE jVerdict[j]]
  BY DEF Crash
<1>3. \A j \in JobIds : ~(j[2] < 1)
  BY JobPairs
<1>4. Accepted' = Accepted
  <2>1. \A j \in JobIds : j \in Accepted' <=> j \in Accepted
    BY <1>1, <1>2, <1>3 DEF Accepted
  <2> QED BY <2>1 DEF Accepted
<1>5. OnDisk' = OnDisk
  BY <1>1 DEF OnDisk, Written
<1>6. jVerdict' = [j \in JobIds |-> IF j \in Accepted /\ jVerdict[j] = "none"
                                      THEN "lost" ELSE jVerdict[j]]
  BY <1>2 DEF Accepted
<1>7. Ledger!Abandon
  BY <1>4, <1>5, <1>6 DEF Ledger!Abandon, OnDisk, Accepted
<1> QED BY <1>7 DEF Ledger!LedgerNext

(***************************************************************************)
(* The journal implements the ledger: durable only with a row on disk,     *)
(* failed only without one and for good, one verdict per job, whatever     *)
(* transaction fails, wherever the worker panics and the process dies      *)
(* (append's classification of errors, the panic handler's, complete).     *)
(***************************************************************************)
THEOREM JournalRefines == JournalSpec => ImplementsLedger
<1>1. JournalInit => Ledger!LedgerInit
  <2> SUFFICES ASSUME JournalInit PROVE Ledger!LedgerInit
    OBVIOUS
  <2>1. Accepted = {} /\ OnDisk = {}
    BY JobPairs DEF JournalInit, Accepted, OnDisk, Written
  <2> QED BY <2>1 DEF JournalInit, Ledger!LedgerInit, Accepted, OnDisk
<1>2. JInv /\ [JournalNext]_jvars => [Ledger!LedgerNext]_Ledger!ledgerVars
  <2> SUFFICES ASSUME JInv, [JournalNext]_jvars PROVE [Ledger!LedgerNext]_Ledger!ledgerVars
    OBVIOUS
  <2>1. CASE \/ UNCHANGED jvars
             \/ Collect \/ CloseJournal \/ CollectPending \/ Report \/ Unwind
             \/ TakeJob \/ WorkerReturns \/ Finish \/ OpenCreates \/ SchemaCommits \/ OpenExisting
             \/ AllocateSession \/ OpenFails \/ Encode \/ Insert \/ Readback \/ UnwindTakes
    <3>1. UNCHANGED <<jVerdict, jLife, jSeq, jRows, jPruned>>
      BY <2>1 DEF jvars, qvars, diskVars, jobOwnerVars, Collect, CloseJournal, CollectPending,
                  Report, Unwind, TakeJob, WorkerReturns, Finish, OpenCreates, SchemaCommits,
                  OpenExisting, AllocateSession, OpenFails, Encode, Insert, Readback, UnwindTakes
    <3>2. OnDisk' = OnDisk
      BY <3>1 DEF OnDisk, Written
    <3> QED BY <3>1, <3>2, LedgerStutter
  <2>2. CASE PruneOldestSessions
    <3>1. Written' = Written /\ UNCHANGED <<jVerdict, jLife, jSeq>>
      BY <2>2 DEF PruneOldestSessions, JournalAfter, Written, jobOwnerVars
    <3>2. OnDisk' = OnDisk
      BY <3>1 DEF OnDisk
    <3> QED BY <3>1, <3>2, LedgerStutter
  <2> QED BY <2>1, <2>2, SubmitAccepts, CommitRecords, PublishJudges, CrashAbandons
          DEF JournalNext, JournalWorkerStep
<1> QED BY <1>1, <1>2, JournalInitInv, JournalStep, PTL DEF JournalSpec, ImplementsLedger, Ledger!LedgerSpec
============================================================================
