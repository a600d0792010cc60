-------------------------- MODULE NetworkLockProofs --------------------------
(* Proofs about the Network lock, for any number of invocations and        *)
(* operators, any lease and any number of transport failures.              *)
EXTENDS NetworkLock, TLAPS

\* Truncation to the minute keeps times natural numbers.
LEMMA DatetimeType == \A t \in Nat : Datetime(t) \in Nat
  <1> SUFFICES ASSUME NEW t \in Nat PROVE Datetime(t) \in Nat
    OBVIOUS
  <1>1. t % Minute \in 0..t
    BY ConstantsAssumption, SMT
  <1>2. QED
    BY <1>1 DEF Datetime

\* A record written by an invocation is a lock record.
LEMMA LeaseRecordType ==
  \A i \in Invocation \cup {Nobody}, r \in Nat, t \in Nat :
      LeaseRecord(i, r, t) \in LockRecord
  BY DatetimeType, ConstantsAssumption DEF LeaseRecord, LockRecord, Time

\* The resting values of a heartbeat and of an unlock have their types.
LEMMA RestTypes == NoHeartbeat \in Heartbeat /\ NoUnlock \in Snapshot
                   /\ NoReference \in Reference /\ Vacant \in LockRecord
  BY DEF NoHeartbeat, Heartbeat, NoUnlock, Snapshot, NoReference, Reference,
         Vacant, LockRecord, Time

\* What a write on the lock record leaves is a lock record and its tombstones.
LEMMA ServerType ==
  ASSUME TypeOK
  PROVE  /\ \A i \in Invocation, t \in Nat : ApplyPost(i, t)
              => lockRec' \in LockRecord /\ tombstone' = tombstone
         /\ \A r \in Nat, t \in Nat : ApplyHeartbeat(r, t)
              => lockRec' \in LockRecord /\ tombstone' = tombstone
         /\ \A i \in Invocation, how \in {"released", "forced"} :
              ApplyRelease(i, how)
              => /\ lockRec' \in LockRecord
                 /\ tombstone' \in [Invocation -> {"none", "released", "forced"}]
  <1>1. \A i \in Invocation, t \in Nat : ApplyPost(i, t)
              => lockRec' \in LockRecord /\ tombstone' = tombstone
    BY LeaseRecordType DEF ApplyPost
  <1>2. \A r \in Nat, t \in Nat : ApplyHeartbeat(r, t)
              => lockRec' \in LockRecord /\ tombstone' = tombstone
    <2>1. lockRec.owner \in Invocation \cup {Nobody}
      BY DEF TypeOK, LockRecord
    <2>2. \A r \in Nat : r + 1 \in Nat
      OBVIOUS
    <2>3. QED
      BY <2>1, <2>2, LeaseRecordType DEF ApplyHeartbeat
  <1>3. \A i \in Invocation, how \in {"released", "forced"} :
              ApplyRelease(i, how)
              => /\ lockRec' \in LockRecord
                 /\ tombstone' \in [Invocation -> {"none", "released", "forced"}]
    <2> SUFFICES ASSUME NEW i \in Invocation, NEW how \in {"released", "forced"},
                        ApplyRelease(i, how)
                 PROVE  /\ lockRec' \in LockRecord
                        /\ tombstone' \in [Invocation -> {"none", "released", "forced"}]
      OBVIOUS
    <2>1. lockRec' = Vacant /\ tombstone' = [tombstone EXCEPT ![i] = how]
      BY DEF ApplyRelease
    <2>2. QED
      BY <2>1, RestTypes DEF TypeOK
  <1>4. QED
    BY <1>1, <1>2, <1>3

\* The acquire steps keep the types.
LEMMA AcquireType ==
  ASSUME TypeOK, AcquireTimed, NEW i \in Invocation, AcquireStep(i)
  PROVE  TypeOK'
  <1> USE ConstantsAssumption DEF TypeOK, Time, Phase, Reference, Request,
          client, server, recovery
  <1>1. CASE AcquireBegin(i)
    BY <1>1 DEF AcquireBegin
  <1>2. CASE AcquirePost(i)
    <2>1. AcquiredAt(i) \in Nat
      BY <1>2 DEF AcquirePost, AcquiredAt, AcquireTimed
    <2>2. QED
      BY <1>2, <2>1, ServerType DEF AcquirePost
  <1>3. CASE AcquirePostLost(i)
    <2>1. AcquiredAt(i) \in Nat
      BY <1>3 DEF AcquirePostLost, AcquiredAt, AcquireTimed
    <2>2. QED
      BY <1>3, <2>1, ServerType DEF AcquirePostLost, Lost, Fault
  <1>4. CASE AcquireReread(i)
    <2>1. lockRec.rev \in Nat /\ lockRec.leaseExpiresAt \in Nat
      BY DEF LockRecord
    <2>2. ref' \in [Invocation -> Reference]
      BY <1>4, <2>1 DEF AcquireReread
    <2>3. pc' \in [Invocation -> Phase]
      BY <1>4 DEF AcquireReread
    <2>4. QED
      BY <1>4, <2>2, <2>3 DEF AcquireReread
  <1>5. CASE AcquireRereadLost(i)
    BY <1>5 DEF AcquireRereadLost, Fault
  <1>6. QED
    BY <1>1, <1>2, <1>3, <1>4, <1>5 DEF AcquireStep

\* The heartbeat steps keep the types.
LEMMA HeartbeatType ==
  ASSUME TypeOK, NEW i \in Invocation, HeartbeatStep(i)
  PROVE  TypeOK'
  <1> USE ConstantsAssumption DEF client, server, recovery
  <1>1. ASSUME NEW by \in {"timer", "main"}, TickStart(i, by) PROVE TypeOK'
    BY <1>1 DEF TickStart, StartedHeartbeat, TypeOK, Heartbeat, Time
  <1>2. CASE TickJoin(i)
    BY <1>2 DEF TickJoin, TypeOK, Heartbeat
  <1>3. CASE MarkControlPlaneUnreachable(i)
    BY <1>3 DEF MarkControlPlaneUnreachable, TypeOK, MonitorState
  <1>4. CASE ConfirmStart(i)
    BY <1>4 DEF ConfirmStart, StartedHeartbeat, TypeOK, Heartbeat, Time
  <1>5. CASE HeartbeatRead(i)
    <2>1. CASE FenceHolds(i)
      <3>1. hb' = [hb EXCEPT ![i] = [stage |-> "put", by |-> hb[i].by,
                                     rev |-> ref[i].rev, at |-> now]]
            /\ UNCHANGED <<now, faults, server, pc, ref, monitor, recovery>>
        BY <1>5, <2>1 DEF HeartbeatRead
      <3>2. QED
        BY <3>1 DEF TypeOK, Heartbeat, Time, Reference
    <2>2. CASE ~FenceHolds(i)
      BY <1>5, <2>2, RestTypes DEF HeartbeatFailed, MonitorState, HeartbeatRead, TypeOK
    <2>3. QED
      BY <2>1, <2>2
  <1>6. CASE HeartbeatReadLost(i)
    BY <1>6, RestTypes DEF HeartbeatFailed, MonitorState, HeartbeatReadLost, TypeOK, Fault
  <1>7. CASE HeartbeatPut(i)
    <2>1. hb[i].rev \in Nat /\ hb[i].at \in Nat
      BY DEF TypeOK, Heartbeat, Time
    <2>2. CASE HeartbeatAccepted(hb[i].rev)
      BY <1>7, <2>1, <2>2, ServerType DEF HeartbeatPut, TypeOK, Heartbeat
    <2>3. CASE ~HeartbeatAccepted(hb[i].rev)
      <3>1. /\ hb' = [hb EXCEPT ![i] = NoHeartbeat]
            /\ monitor' \in [Invocation -> MonitorState]
            /\ UNCHANGED <<now, faults, server, pc, ref, recovery>>
        BY <1>7, <2>3 DEF HeartbeatPut, HeartbeatFailed, TypeOK, MonitorState
      <3>2. QED
        BY <3>1, RestTypes DEF TypeOK
    <2>4. QED
      BY <2>2, <2>3
  <1>8. CASE HeartbeatPutLost(i)
    <2>1. hb[i].rev \in Nat /\ hb[i].at \in Nat
      BY DEF TypeOK, Heartbeat, Time
    <2>2. QED
      BY <1>8, <2>1, ServerType
      DEF HeartbeatPutLost, Lost, Fault, TypeOK, Heartbeat, Request, Time
  <1>9. CASE HeartbeatAnswer(i)
    BY <1>9 DEF HeartbeatAnswer, HeartbeatSucceeded, NoHeartbeat, TypeOK,
                Heartbeat, Reference, MonitorState, Time
  <1>10. CASE HeartbeatAdjudicate(i)
    <2>1. CASE HeartbeatRecognised(i)
      <3>1. HeartbeatSucceeded(i) /\ UNCHANGED <<now, faults, server, pc, recovery>>
        BY <1>10, <2>1 DEF HeartbeatAdjudicate
      <3>2. QED
        BY <3>1 DEF HeartbeatSucceeded, NoHeartbeat, TypeOK, Heartbeat,
                    Reference, MonitorState, Time
    <2>2. CASE ~HeartbeatRecognised(i)
      BY <1>10, <2>2, RestTypes DEF HeartbeatFailed, MonitorState, HeartbeatAdjudicate, TypeOK
    <2>3. QED
      BY <2>1, <2>2
  <1>11. CASE HeartbeatAdjudicateLost(i)
    BY <1>11, RestTypes DEF HeartbeatFailed, MonitorState, HeartbeatAdjudicateLost, TypeOK, Fault
  <1>12. QED
    BY <1>1, <1>2, <1>3, <1>4, <1>5, <1>6, <1>7, <1>8, <1>9, <1>10, <1>11
    DEF HeartbeatStep

\* The release steps and a crash keep the types.
LEMMA ReleaseType ==
  ASSUME TypeOK, NEW i \in Invocation, ReleaseStep(i) \/ Crash(i)
  PROVE  TypeOK'
  <1> USE DEF client, server, recovery
  <1>0. ref[i].rev \in Nat
    BY DEF TypeOK, Reference
  <1>1. CASE ReleaseBegin(i)
    BY <1>1 DEF ReleaseBegin, TypeOK, Phase
  <1>2. CASE ReleaseRead(i)
    BY <1>2 DEF ReleaseRead, TypeOK, Phase
  <1>3. CASE ReleasePut(i)
    BY <1>3, <1>0, ServerType DEF ReleasePut, TypeOK, Phase
  <1>4. CASE ReleasePutLost(i)
    BY <1>4, <1>0, ServerType
    DEF ReleasePutLost, Lost, Fault, TypeOK, Phase, Request, Time
  <1>5. CASE ReleaseReread(i)
    BY <1>5 DEF ReleaseReread, TypeOK, Phase, Reference, LockRecord
  <1>6. CASE ReleaseReadLost(i)
    BY <1>6 DEF ReleaseReadLost, Fault, TypeOK, Phase
  <1>7. CASE ReleaseAdjudicate(i)
    BY <1>7 DEF ReleaseAdjudicate, TypeOK, Phase
  <1>8. CASE Crash(i)
    BY <1>8, RestTypes
    DEF Crash, TypeOK, Phase, MonitorState, Request, Heartbeat, Time
  <1>9. QED
    BY <1>1, <1>2, <1>3, <1>4, <1>5, <1>6, <1>7, <1>8 DEF ReleaseStep

\* An operator at work holds the name of an invocation.
UnlockNamed ==
  \A o \in Operator : unlocker[o].stage # "idle" => unlocker[o].owner \in Invocation

\* The force-unlock steps keep the types.
LEMMA UnlockType ==
  ASSUME TypeOK, UnlockNamed, NEW o \in Operator, UnlockStep(o)
  PROVE  TypeOK'
  <1> USE RestTypes DEF client, server, recovery
  <1>0. unlocker[o] \in Snapshot /\ unlocker[o].rev \in Nat
    BY DEF TypeOK, Snapshot
  <1>1. CASE UnlockRead(o)
    BY <1>1 DEF UnlockRead, TypeOK, Snapshot, LockRecord
  <1>2. CASE StopConfirmed(o)
    BY <1>2 DEF StopConfirmed, TypeOK, Snapshot
  <1>3. CASE StopNotConfirmed(o)
    BY <1>3 DEF StopNotConfirmed, TypeOK
  <1>4. CASE UnlockRecheck(o)
    BY <1>4 DEF UnlockRecheck, TypeOK, Snapshot
  <1>5. CASE UnlockPut(o)
    <2>1. unlocker[o].owner \in Invocation
      BY <1>5 DEF UnlockPut, UnlockNamed
    <2>2. QED
      BY <1>5, <2>1, ServerType DEF UnlockPut, TypeOK, Snapshot
  <1>6. CASE UnlockPutLost(o)
    <2>1. unlocker[o].owner \in Invocation
      BY <1>6 DEF UnlockPutLost, UnlockNamed
    <2>2. QED
      BY <1>0, <1>6, <2>1, ServerType
      DEF UnlockPutLost, Lost, Fault, TypeOK, Snapshot, Request, Time
  <1>7. CASE UnlockAdjudicate(o)
    BY <1>7 DEF UnlockAdjudicate, TypeOK, Snapshot
  <1>8. CASE UnlockAudit(o)
    BY <1>8 DEF UnlockAudit, TypeOK, UnlockNamed
  <1>9. CASE UnlockAbort(o)
    BY <1>9 DEF UnlockAbort, Fault, TypeOK
  <1>10. QED
    BY <1>1, <1>2, <1>3, <1>4, <1>5, <1>6, <1>7, <1>8, <1>9 DEF UnlockStep

\* A late request and the clock keep the types.
LEMMA DelayedType ==
  ASSUME TypeOK, DelayedArrival \/ Tick
  PROVE  TypeOK'
  <1> USE DEF client, server, recovery
  <1>1. CASE Tick
    BY <1>1 DEF Tick, TypeOK, Time
  <1>2. CASE DelayedArrival
    <2>1. PICK r \in delayed :
             /\ delayed' = delayed \ {r}
             /\ \/ ApplyPost(r.owner, r.at)
                \/ ApplyHeartbeat(r.rev, r.at)
                \/ ApplyRelease(r.owner, "released")
                \/ ApplyRelease(r.owner, "forced")
                \/ UNCHANGED <<lockRec, tombstone>>
             /\ UNCHANGED <<now, faults, client, recovery>>
      BY <1>2 DEF DelayedArrival
    <2>2. r.owner \in Invocation /\ r.rev \in Nat /\ r.at \in Nat
      BY DEF TypeOK, Request, Time
    <2>3. /\ lockRec' \in LockRecord
          /\ tombstone' \in [Invocation -> {"none", "released", "forced"}]
      BY <2>1, <2>2, ServerType DEF TypeOK
    <2>4. QED
      BY <2>1, <2>3 DEF TypeOK
  <1>3. QED
    BY <1>1, <1>2

-----------------------------------------------------------------------------
(* The other conjuncts of IInv. *)

\* What IInv says beyond the types.
Rest == /\ AcquireTimed /\ OwnerHoldsRecord /\ UnlockAgainstStopped
        /\ DelayedIsPast /\ RecordOnce /\ AuditedReleaseHappened

\* A heartbeat moves no owner: it changes neither whose record it is nor who
\* runs, and what it leaves on the wire is a heartbeat.
LEMMA HeartbeatEffect ==
  ASSUME TypeOK, NEW i \in Invocation, HeartbeatStep(i)
  PROVE  /\ lockRec'.owner = lockRec.owner
         /\ UNCHANGED <<tombstone, pc, unlocker, audited>>
         /\ \A r \in delayed' : r \in delayed \/ r.kind = "heartbeat"
         /\ \/ UNCHANGED ref
            \/ /\ ref' = [ref EXCEPT ![i] = [rev |-> hb[i].rev + 1,
                                  leaseExpiresAt |-> hb[i].at + LeaseDuration]]
  <1> USE DEF client, server, recovery
  <1>1. \A r, t : ApplyHeartbeat(r, t) => lockRec'.owner = lockRec.owner
                                           /\ tombstone' = tombstone
    BY DEF ApplyHeartbeat, LeaseRecord
  <1>2. ASSUME NEW by \in {"timer", "main"}, TickStart(i, by)
        PROVE UNCHANGED <<lockRec, tombstone, pc, unlocker, audited, delayed, ref>>
    BY <1>2 DEF TickStart
  <1>3. CASE TickJoin(i) \/ MarkControlPlaneUnreachable(i) \/ ConfirmStart(i)
             \/ HeartbeatRead(i) \/ HeartbeatReadLost(i) \/ HeartbeatAdjudicateLost(i)
    BY <1>3 DEF TickJoin, MarkControlPlaneUnreachable, ConfirmStart, HeartbeatRead,
                HeartbeatReadLost, HeartbeatAdjudicateLost
  <1>4. CASE HeartbeatPut(i)
    BY <1>1, <1>4 DEF HeartbeatPut
  <1>5. CASE HeartbeatPutLost(i)
    BY <1>1, <1>5 DEF HeartbeatPutLost, Lost
  <1>6. CASE HeartbeatAnswer(i)
    BY <1>6 DEF HeartbeatAnswer, HeartbeatSucceeded
  <1>7. CASE HeartbeatAdjudicate(i)
    BY <1>7 DEF HeartbeatAdjudicate, HeartbeatSucceeded
  <1>8. QED
    BY <1>2, <1>3, <1>4, <1>5, <1>6, <1>7 DEF HeartbeatStep

\* The heartbeat steps keep the rest of the invariant.
LEMMA HeartbeatRest ==
  ASSUME TypeOK, Rest, NEW i \in Invocation, HeartbeatStep(i)
  PROVE  Rest'
  <1>1. AcquireTimed'
    <2>1. hb[i].at + LeaseDuration >= LeaseDuration
      BY ConstantsAssumption DEF TypeOK, Heartbeat, Time
    <2>2. QED
      BY <2>1, HeartbeatEffect DEF Rest, AcquireTimed, TypeOK
  <1>2. OwnerHoldsRecord'
    BY HeartbeatEffect DEF Rest, OwnerHoldsRecord, UnderLock
  <1>3. UnlockAgainstStopped'
    BY HeartbeatEffect DEF Rest, UnlockAgainstStopped, Stopped
  <1>4. DelayedIsPast'
    BY HeartbeatEffect DEF Rest, DelayedIsPast, Stopped
  <1>5. RecordOnce'
    BY HeartbeatEffect DEF Rest, RecordOnce
  <1>6. AuditedReleaseHappened'
    BY HeartbeatEffect DEF Rest, AuditedReleaseHappened
  <1>7. QED
    BY <1>1, <1>2, <1>3, <1>4, <1>5, <1>6 DEF Rest

\* Only the invocation whose step it is, and only through the key, becomes
\* owner by acquiring.
LEMMA AcquireRest ==
  ASSUME TypeOK, Rest, NEW i \in Invocation, AcquireStep(i)
  PROVE  Rest'
  <1> USE DEF client, server, recovery
  <1>1. CASE AcquireBegin(i)
    <2>1. /\ pc' = [pc EXCEPT ![i] = "acquiring"] /\ pc[i] = "idle"
          /\ ref' = [ref EXCEPT ![i] = [rev |-> 1, leaseExpiresAt |-> now + LeaseDuration]]
          /\ UNCHANGED <<lockRec, tombstone, delayed, unlocker, audited>>
      BY <1>1 DEF AcquireBegin
    <2>2. now + LeaseDuration >= LeaseDuration
      BY ConstantsAssumption DEF TypeOK, Time
    <2>3. AcquireTimed' /\ OwnerHoldsRecord'
      BY <2>1, <2>2 DEF Rest, AcquireTimed, OwnerHoldsRecord, UnderLock, TypeOK
    <2>4. UnlockAgainstStopped' /\ DelayedIsPast'
      BY <2>1 DEF Rest, UnlockAgainstStopped, DelayedIsPast, Stopped, TypeOK, Request
    <2>5. RecordOnce' /\ AuditedReleaseHappened'
      BY <2>1 DEF Rest, RecordOnce, AuditedReleaseHappened, TypeOK
    <2>6. QED
      BY <2>3, <2>4, <2>5 DEF Rest
  <1>2. CASE AcquirePost(i)
    <2>1. CASE PostAccepted
      <3>1. /\ pc' = [pc EXCEPT ![i] = "working"] /\ pc[i] = "acquiring"
            /\ lockRec.owner = Nobody /\ lockRec'.owner = i
            /\ UNCHANGED <<tombstone, delayed, ref, unlocker, audited>>
        BY <1>2, <2>1 DEF AcquirePost, PostAccepted, ApplyPost, LeaseRecord
      <3>2. AcquireTimed' /\ OwnerHoldsRecord'
        BY <3>1, ConstantsAssumption
        DEF Rest, AcquireTimed, OwnerHoldsRecord, UnderLock, TypeOK
      <3>3. UnlockAgainstStopped' /\ DelayedIsPast'
        BY <3>1 DEF Rest, UnlockAgainstStopped, DelayedIsPast, Stopped, TypeOK, Request
      <3>4. RecordOnce' /\ AuditedReleaseHappened'
        BY <3>1 DEF Rest, RecordOnce, AuditedReleaseHappened, DelayedIsPast, TypeOK
      <3>5. QED
        BY <3>2, <3>3, <3>4 DEF Rest
    <2>2. CASE ~PostAccepted
      <3>1. /\ pc' = [pc EXCEPT ![i] = "acquireReread"] /\ pc[i] = "acquiring"
            /\ UNCHANGED <<lockRec, tombstone, delayed, ref, unlocker, audited>>
        BY <1>2, <2>2 DEF AcquirePost
      <3>2. QED
        BY <3>1 DEF Rest, AcquireTimed, OwnerHoldsRecord, UnderLock, UnlockAgainstStopped,
                    DelayedIsPast, Stopped, RecordOnce, AuditedReleaseHappened, TypeOK, Request
    <2>3. QED
      BY <2>1, <2>2
  <1>3. CASE AcquirePostLost(i)
    <2> DEFINE req == [kind |-> "post", owner |-> i, rev |-> 0, at |-> AcquiredAt(i)]
    <2>1. /\ pc' = [pc EXCEPT ![i] = "acquireReread"] /\ pc[i] = "acquiring"
          /\ UNCHANGED <<tombstone, ref, unlocker, audited>>
          /\ \/ UNCHANGED <<lockRec, delayed>>
             \/ UNCHANGED lockRec /\ delayed' = delayed \cup {req}
             \/ UNCHANGED delayed /\ lockRec.owner = Nobody /\ lockRec'.owner = i
      BY <1>3 DEF AcquirePostLost, Lost, PostAccepted, ApplyPost, LeaseRecord
    <2>2. req.kind = "post" /\ req.owner = i
      OBVIOUS
    <2> HIDE DEF req
    <2>3. AcquireTimed' /\ OwnerHoldsRecord'
      BY <2>1, ConstantsAssumption DEF Rest, AcquireTimed, OwnerHoldsRecord, UnderLock, TypeOK
    <2>4. UnlockAgainstStopped' /\ DelayedIsPast'
      BY <2>1, <2>2 DEF Rest, UnlockAgainstStopped, DelayedIsPast, Stopped, TypeOK, Request
    <2>5. RecordOnce'
      BY <2>1, <2>2 DEF Rest, RecordOnce, DelayedIsPast, TypeOK, Request
    <2>6. AuditedReleaseHappened'
      BY <2>1 DEF Rest, AuditedReleaseHappened
    <2>7. QED
      BY <2>3, <2>4, <2>5, <2>6 DEF Rest
  <1>4. CASE AcquireReread(i) \/ AcquireRereadLost(i)
    <2>1. /\ pc[i] = "acquireReread"
          /\ \/ pc' = [pc EXCEPT ![i] = "done"]
             \/ pc' = [pc EXCEPT ![i] = "working"] /\ lockRec.owner = i
          /\ UNCHANGED <<lockRec, tombstone, delayed, unlocker, audited>>
          /\ \A j \in Invocation : j # i => ref'[j] = ref[j]
      BY <1>4 DEF AcquireReread, AcquireRereadLost, TypeOK
    <2>2. AcquireTimed' /\ OwnerHoldsRecord'
      BY <2>1 DEF Rest, AcquireTimed, OwnerHoldsRecord, UnderLock, TypeOK
    <2>3. UnlockAgainstStopped' /\ DelayedIsPast'
      BY <2>1 DEF Rest, UnlockAgainstStopped, DelayedIsPast, Stopped, TypeOK, Request
    <2>4. RecordOnce' /\ AuditedReleaseHappened'
      BY <2>1 DEF Rest, RecordOnce, AuditedReleaseHappened, TypeOK
    <2>5. QED
      BY <2>2, <2>3, <2>4 DEF Rest
  <1>5. QED
    BY <1>1, <1>2, <1>3, <1>4 DEF AcquireStep

\* A release gives up its own record only, and a crash leaves the record.
LEMMA ReleaseRest ==
  ASSUME TypeOK, Rest, NEW i \in Invocation, ReleaseStep(i) \/ Crash(i)
  PROVE  Rest'
  <1> USE DEF client, server, recovery
  <1>1. CASE \/ ReleaseBegin(i) \/ ReleaseRead(i) \/ ReleaseReread(i)
             \/ ReleaseReadLost(i) \/ ReleaseAdjudicate(i)
    <2>1. /\ pc[i] \in {"working", "releaseRead", "releaseReread", "releaseAdjudicate"}
          /\ \/ pc' = [pc EXCEPT ![i] = "done"]
             \/ /\ pc[i] # "releaseAdjudicate"
                /\ \E p \in {"releaseRead", "releasePut", "releaseRetry"} :
                      pc' = [pc EXCEPT ![i] = p]
          /\ UNCHANGED <<lockRec, tombstone, delayed, unlocker, audited>>
          /\ \A j \in Invocation : j # i => ref'[j] = ref[j]
      BY <1>1 DEF ReleaseBegin, ReleaseRead, ReleaseReread, ReleaseReadLost,
                  ReleaseAdjudicate, TypeOK
    <2>2. AcquireTimed' /\ OwnerHoldsRecord'
      BY <2>1 DEF Rest, AcquireTimed, OwnerHoldsRecord, UnderLock, TypeOK
    <2>3. UnlockAgainstStopped' /\ DelayedIsPast'
      BY <2>1 DEF Rest, UnlockAgainstStopped, DelayedIsPast, Stopped, TypeOK, Request
    <2>4. RecordOnce' /\ AuditedReleaseHappened'
      BY <2>1 DEF Rest, RecordOnce, AuditedReleaseHappened, TypeOK
    <2>5. QED
      BY <2>2, <2>3, <2>4 DEF Rest
  <1>2. CASE ReleasePut(i) \/ ReleasePutLost(i)
    <2> DEFINE req == [kind |-> "release", owner |-> i, rev |-> ref[i].rev, at |-> 0]
    <2>1. /\ pc[i] \in {"releasePut", "releaseRetry"}
          /\ UNCHANGED <<ref, unlocker, audited>>
          /\ \/ /\ lockRec.owner = i /\ lockRec'.owner = Nobody
                /\ tombstone' = [tombstone EXCEPT ![i] = "released"]
                /\ UNCHANGED delayed
                /\ \E p \in {"done", "releaseAdjudicate"} : pc' = [pc EXCEPT ![i] = p]
             \/ /\ UNCHANGED <<lockRec, tombstone, delayed>>
                /\ \E p \in {"done", "releaseReread", "releaseAdjudicate"} :
                      pc' = [pc EXCEPT ![i] = p]
             \/ /\ UNCHANGED <<lockRec, tombstone>>
                /\ delayed' = delayed \cup {req}
                /\ pc' = [pc EXCEPT ![i] = "releaseAdjudicate"]
      BY <1>2 DEF ReleasePut, ReleasePutLost, Lost, ReleaseAccepted, ApplyRelease, Vacant
    <2>2. req.kind = "release" /\ req.owner = i
      OBVIOUS
    <2> HIDE DEF req
    <2>3. AcquireTimed' /\ OwnerHoldsRecord'
      BY <2>1, ConstantsAssumption DEF Rest, AcquireTimed, OwnerHoldsRecord, UnderLock, TypeOK
    <2>4. \A o \in Operator : Stopped(unlocker[o].owner) => unlocker[o].owner # i
      BY <2>1 DEF Stopped
    <2>5. UnlockAgainstStopped'
      BY <2>1, <2>4 DEF Rest, UnlockAgainstStopped, Stopped, TypeOK
    <2>6. DelayedIsPast'
      BY <2>1, <2>2 DEF Rest, DelayedIsPast, Stopped, TypeOK, Request
    <2>7. RecordOnce'
      BY <2>1, <2>2, ConstantsAssumption DEF Rest, RecordOnce, DelayedIsPast, TypeOK, Request
    <2>8. AuditedReleaseHappened'
      BY <2>1 DEF Rest, AuditedReleaseHappened, RecordOnce, TypeOK
    <2>9. QED
      BY <2>3, <2>5, <2>6, <2>7, <2>8 DEF Rest
  <1>3. CASE Crash(i)
    <2>1. /\ pc[i] \notin {"idle", "done", "crashed"}
          /\ pc' = [pc EXCEPT ![i] = "crashed"]
          /\ ref' = [ref EXCEPT ![i] = NoReference]
          /\ \A r \in delayed' : r \in delayed \/ r.kind = "heartbeat"
          /\ UNCHANGED <<lockRec, tombstone, unlocker, audited>>
      BY <1>3 DEF Crash
    <2>2. AcquireTimed' /\ OwnerHoldsRecord'
      BY <2>1 DEF Rest, AcquireTimed, OwnerHoldsRecord, UnderLock, TypeOK
    <2>3. UnlockAgainstStopped' /\ DelayedIsPast'
      BY <2>1 DEF Rest, UnlockAgainstStopped, DelayedIsPast, Stopped, TypeOK, Request
    <2>4. RecordOnce' /\ AuditedReleaseHappened'
      BY <2>1 DEF Rest, RecordOnce, AuditedReleaseHappened, TypeOK
    <2>5. QED
      BY <2>2, <2>3, <2>4 DEF Rest
  <1>4. QED
    BY <1>1, <1>2, <1>3 DEF ReleaseStep

\* A forced release opens the record of a stopped owner.
LEMMA UnlockRest ==
  ASSUME TypeOK, Rest, MistakenStops = FALSE, NEW o \in Operator, UnlockStep(o)
  PROVE  Rest'
  <1> USE DEF client, server, recovery
  <1> DEFINE w == unlocker[o].owner
             req == [kind |-> "force", owner |-> w, rev |-> unlocker[o].rev, at |-> 0]
  <1>1. CASE UnlockRead(o)
    <2>1. /\ lockRec.owner \in Invocation
          /\ unlocker' = [unlocker EXCEPT ![o] =
                      [stage |-> "confirm", owner |-> lockRec.owner,
                       rev |-> lockRec.rev, heartbeatAt |-> lockRec.heartbeatAt]]
          /\ UNCHANGED <<lockRec, tombstone, delayed, pc, ref, audited>>
      BY <1>1 DEF UnlockRead, TypeOK, LockRecord
    <2>2. QED
      BY <2>1 DEF Rest, AcquireTimed, OwnerHoldsRecord, UnderLock, UnlockAgainstStopped,
                  DelayedIsPast, Stopped, RecordOnce, AuditedReleaseHappened, TypeOK
  <1>2. CASE StopConfirmed(o)
    <2>1. /\ Stopped(w) /\ unlocker[o].stage = "confirm"
          /\ unlocker' = [unlocker EXCEPT ![o].stage = "recheck"]
          /\ UNCHANGED <<lockRec, tombstone, delayed, pc, ref, audited>>
      BY <1>2 DEF StopConfirmed
    <2>2. QED
      BY <2>1 DEF Rest, AcquireTimed, OwnerHoldsRecord, UnderLock, UnlockAgainstStopped,
                  DelayedIsPast, Stopped, RecordOnce, AuditedReleaseHappened, TypeOK, Snapshot
  <1>3. CASE StopNotConfirmed(o) \/ UnlockRecheck(o) \/ UnlockAdjudicate(o) \/ UnlockAbort(o)
    <2>1. /\ \/ unlocker' = [unlocker EXCEPT ![o] = NoUnlock]
             \/ /\ unlocker[o].stage = "recheck"
                /\ unlocker' = [unlocker EXCEPT ![o] = [unlocker[o] EXCEPT !.stage = "put"]]
             \/ /\ unlocker[o].stage = "adjudicate" /\ tombstone[w] = "forced"
                /\ unlocker' = [unlocker EXCEPT ![o] = [unlocker[o] EXCEPT !.stage = "audit"]]
          /\ UNCHANGED <<lockRec, tombstone, delayed, pc, ref, audited>>
      BY <1>3 DEF StopNotConfirmed, UnlockRecheck, UnlockAdjudicate, UnlockAbort
    <2>2. UnlockAgainstStopped'
      BY <2>1 DEF Rest, UnlockAgainstStopped, Stopped, TypeOK, Snapshot, NoUnlock
    <2>3. QED
      BY <2>1, <2>2 DEF Rest, AcquireTimed, OwnerHoldsRecord, UnderLock,
                  DelayedIsPast, Stopped, RecordOnce, AuditedReleaseHappened
  <1>4. CASE UnlockPut(o) \/ UnlockPutLost(o)
    <2>1. /\ unlocker[o].stage = "put"
          /\ UNCHANGED <<pc, ref, audited>>
          /\ \/ /\ lockRec.owner = w /\ lockRec'.owner = Nobody
                /\ tombstone' = [tombstone EXCEPT ![w] = "forced"]
                /\ UNCHANGED delayed
                /\ \E g \in {"audit", "adjudicate"} :
                       unlocker' = [unlocker EXCEPT ![o].stage = g]
             \/ /\ UNCHANGED <<lockRec, tombstone, delayed>>
                /\ \/ unlocker' = [unlocker EXCEPT ![o] = NoUnlock]
                   \/ unlocker' = [unlocker EXCEPT ![o].stage = "adjudicate"]
             \/ /\ UNCHANGED <<lockRec, tombstone>>
                /\ delayed' = delayed \cup {req}
                /\ unlocker' = [unlocker EXCEPT ![o].stage = "adjudicate"]
      BY <1>4 DEF UnlockPut, UnlockPutLost, Lost, ReleaseAccepted, ApplyRelease, Vacant
    <2>2. w \in Invocation /\ Stopped(w)
      BY <2>1 DEF Rest, UnlockAgainstStopped
    <2>3. req.kind = "force" /\ req.owner = w
      OBVIOUS
    <2> HIDE DEF req
    <2>4. AcquireTimed'
      BY <2>1 DEF Rest, AcquireTimed
    <2>5. OwnerHoldsRecord'
      BY <2>1, <2>2, ConstantsAssumption DEF Rest, OwnerHoldsRecord, UnderLock, Stopped
    <2>6. UnlockAgainstStopped'
      BY <2>1, <2>2 DEF Rest, UnlockAgainstStopped, Stopped, TypeOK, Snapshot, NoUnlock
    <2>7. DelayedIsPast'
      BY <2>1, <2>2, <2>3 DEF Rest, DelayedIsPast, Stopped
    <2>8. RecordOnce'
      BY <2>1, <2>2, <2>3, ConstantsAssumption DEF Rest, RecordOnce, Stopped, TypeOK
    <2>9. AuditedReleaseHappened'
      BY <2>1, <2>2 DEF Rest, AuditedReleaseHappened, TypeOK
    <2>10. QED
      BY <2>4, <2>5, <2>6, <2>7, <2>8, <2>9 DEF Rest
  <1>5. CASE UnlockAudit(o)
    <2>1. /\ unlocker[o].stage = "audit" /\ audited' = audited \cup {w}
          /\ unlocker' = [unlocker EXCEPT ![o] = NoUnlock]
          /\ UNCHANGED <<lockRec, tombstone, delayed, pc, ref>>
      BY <1>5 DEF UnlockAudit
    <2>2. UnlockAgainstStopped'
      BY <2>1 DEF Rest, UnlockAgainstStopped, Stopped, TypeOK, NoUnlock
    <2>3. AuditedReleaseHappened'
      BY <2>1 DEF Rest, UnlockAgainstStopped, AuditedReleaseHappened
    <2>4. QED
      BY <2>1, <2>2, <2>3 DEF Rest, AcquireTimed, OwnerHoldsRecord, UnderLock,
                  DelayedIsPast, Stopped, RecordOnce
  <1>6. QED
    BY <1>1, <1>2, <1>3, <1>4, <1>5 DEF UnlockStep

\* A late request finds its sender past the point where it mattered.
LEMMA DelayedRest ==
  ASSUME TypeOK, Rest, DelayedArrival \/ Tick
  PROVE  Rest'
  <1> USE DEF client, server, recovery
  <1>1. CASE Tick
    BY <1>1 DEF Tick, Rest, AcquireTimed, OwnerHoldsRecord, UnderLock, UnlockAgainstStopped,
                DelayedIsPast, Stopped, RecordOnce, AuditedReleaseHappened
  <1>2. CASE DelayedArrival
    <2>1. PICK r \in delayed :
             /\ delayed' = delayed \ {r}
             /\ \/ /\ r.kind = "post" /\ lockRec.owner = Nobody /\ lockRec'.owner = r.owner
                   /\ UNCHANGED tombstone
                \/ lockRec'.owner = lockRec.owner /\ UNCHANGED tombstone
                \/ /\ r.kind = "release" /\ lockRec.owner = r.owner /\ lockRec'.owner = Nobody
                   /\ tombstone' = [tombstone EXCEPT ![r.owner] = "released"]
                \/ /\ r.kind = "force" /\ lockRec.owner = r.owner /\ lockRec'.owner = Nobody
                   /\ tombstone' = [tombstone EXCEPT ![r.owner] = "forced"]
             /\ UNCHANGED <<pc, ref, unlocker, audited>>
      BY <1>2 DEF DelayedArrival, PostAccepted, ApplyPost, ApplyHeartbeat, LeaseRecord,
                  ReleaseAccepted, ApplyRelease, Vacant
    <2>2. r.owner \in Invocation /\ r \in Request
      BY DEF TypeOK, Request
    <2>3. r.kind \in {"release", "force"} => ~UnderLock(r.owner)
      BY DEF Rest, DelayedIsPast, UnderLock, Stopped
    <2>4. lockRec.owner = r.owner => tombstone[r.owner] = "none"
      BY <2>2 DEF Rest, RecordOnce
    <2>5. AcquireTimed' /\ DelayedIsPast'
      BY <2>1 DEF Rest, AcquireTimed, DelayedIsPast, Stopped
    <2>6. OwnerHoldsRecord'
      BY <2>1, <2>2, <2>3, ConstantsAssumption DEF Rest, OwnerHoldsRecord, UnderLock
    <2>7. UnlockAgainstStopped'
      BY <2>1, <2>2, <2>4 DEF Rest, UnlockAgainstStopped, Stopped, TypeOK
    <2>8. RecordOnce'
      BY <2>1, <2>2, <2>4, ConstantsAssumption DEF Rest, RecordOnce, DelayedIsPast, Stopped, TypeOK
    <2>9. AuditedReleaseHappened'
      BY <2>1, <2>2, <2>4 DEF Rest, AuditedReleaseHappened, TypeOK
    <2>10. QED
      BY <2>5, <2>6, <2>7, <2>8, <2>9 DEF Rest
  <1>3. QED
    BY <1>1, <1>2

\* The invariant holds initially: nobody runs and there is no record.
LEMMA InitIInv == Init => IInv
  <1> SUFFICES ASSUME Init PROVE IInv
    OBVIOUS
  <1>1. TypeOK
    BY RestTypes DEF Init, TypeOK, Time, Phase, MonitorState
  <1>2. Rest
    BY ConstantsAssumption
    DEF Init, Rest, AcquireTimed, OwnerHoldsRecord, UnderLock, UnlockAgainstStopped,
        DelayedIsPast, Stopped, RecordOnce, AuditedReleaseHappened, Vacant, NoUnlock
  <1>3. QED
    BY <1>1, <1>2 DEF IInv, Rest

\* Every step keeps it, when stop confirmations can be trusted.
LEMMA NextIInv ==
  ASSUME MistakenStops = FALSE, IInv, [Next]_vars
  PROVE  IInv'
  <1>0. TypeOK /\ Rest
    BY DEF IInv, Rest
  <1>1. ASSUME NEW i \in Invocation, AcquireStep(i) PROVE IInv'
    BY <1>0, <1>1, AcquireType, AcquireRest DEF IInv, Rest
  <1>2. ASSUME NEW i \in Invocation, HeartbeatStep(i) PROVE IInv'
    BY <1>0, <1>2, HeartbeatType, HeartbeatRest DEF IInv, Rest
  <1>3. ASSUME NEW i \in Invocation, ReleaseStep(i) \/ Crash(i) PROVE IInv'
    BY <1>0, <1>3, ReleaseType, ReleaseRest DEF IInv, Rest
  <1>4. ASSUME NEW o \in Operator, UnlockStep(o) PROVE IInv'
    <2>1. UnlockNamed
      BY <1>0 DEF Rest, UnlockAgainstStopped, UnlockNamed
    <2>2. QED
      BY <1>0, <1>4, <2>1, UnlockType, UnlockRest DEF IInv, Rest
  <1>5. CASE DelayedArrival \/ Tick
    BY <1>0, <1>5, DelayedType, DelayedRest DEF IInv, Rest
  <1>6. CASE UNCHANGED vars
    BY <1>0, <1>6
    DEF IInv, vars, TypeOK, AcquireTimed, OwnerHoldsRecord, UnderLock, UnlockAgainstStopped,
        DelayedIsPast, Stopped, RecordOnce, AuditedReleaseHappened
  <1>7. QED
    BY <1>1, <1>2, <1>3, <1>4, <1>5, <1>6 DEF Next

\* With trustworthy stop confirmations the invariant, types included, holds
\* in every reachable state of the lock protocol.
THEOREM Invariance == ASSUME MistakenStops = FALSE PROVE Spec => []IInv
  <1>1. Init => IInv
    BY InitIInv
  <1>2. IInv /\ [Next]_vars => IInv'
    BY NextIInv
  <1>3. QED
    BY <1>1, <1>2, PTL DEF Spec

\* Lock records, references, heartbeats in flight and unlocks keep their types.
THEOREM LockTypes == ASSUME MistakenStops = FALSE PROVE Spec => []TypeOK
  <1>1. IInv => TypeOK
    BY DEF IInv
  <1>2. QED
    BY <1>1, Invariance, PTL

\* The Network lock excludes: for any number of invocations, operators and
\* transport failures, two processes never run under it at once.
THEOREM LockExcludes == ASSUME MistakenStops = FALSE PROVE Spec => []MutualExclusion
  <1>1. IInv => MutualExclusion
    BY DEF IInv, OwnerHoldsRecord, MutualExclusion
  <1>2. QED
    BY <1>1, Invariance, PTL

\* The audit trail is truthful: an operation audit of a forced release is
\* never written for a lock that its owner released itself.
THEOREM AuditTruthful ==
  ASSUME MistakenStops = FALSE PROVE Spec => []AuditedReleaseHappened
  <1>1. IInv => AuditedReleaseHappened
    BY DEF IInv
  <1>2. QED
    BY <1>1, Invariance, PTL
-----------------------------------------------------------------------------
(* The lock protocol implements the lock it promises (NetworkMutex), for   *)
(* any number of invocations, operators and transport failures, when stop  *)
(* confirmations can be trusted.                                           *)

\* Processes other than i start and stop no work under the lock.
OthersStay(i) == \A j \in Invocation \ {i} : UnderLock(j)' <=> UnderLock(j)

\* A step that moves no record and starts or stops no work is a stutter.
LEMMA Stutters ==
  ASSUME lockRec'.owner = lockRec.owner, tombstone' = tombstone, pc' = pc
  PROVE  UNCHANGED Mutex!mutexVars
  BY DEF Mutex!mutexVars, UnderLock

\* A step of i alone that moves no record, after which i does not work.
LEMMA Quits ==
  ASSUME NEW i \in Invocation, lockRec'.owner = lockRec.owner, tombstone' = tombstone,
         OthersStay(i), ~UnderLock(i)'
  PROVE  Mutex!MutexNext
  <1>1. {j \in Invocation : UnderLock(j)'} = {j \in Invocation : UnderLock(j)} \ {i}
    BY DEF OthersStay
  <1>2. Mutex!Quit(i)
    BY <1>1 DEF Mutex!Quit
  <1>3. QED
    BY <1>2 DEF Mutex!MutexNext

\* A step of i alone that moves no record and changes nothing for i.
LEMMA Goes ==
  ASSUME NEW i \in Invocation, lockRec'.owner = lockRec.owner, tombstone' = tombstone,
         OthersStay(i), UnderLock(i)' <=> UnderLock(i)
  PROVE  UNCHANGED Mutex!mutexVars
  <1>1. {j \in Invocation : UnderLock(j)'} = {j \in Invocation : UnderLock(j)}
    BY DEF OthersStay
  <1>2. QED
    BY <1>1 DEF Mutex!mutexVars

\* The owner of the record starts to work.
LEMMA Learns ==
  ASSUME NEW i \in Invocation, lockRec.owner = i, lockRec'.owner = i, tombstone' = tombstone,
         OthersStay(i), UnderLock(i)'
  PROVE  Mutex!MutexNext
  <1>1. {j \in Invocation : UnderLock(j)'} = {j \in Invocation : UnderLock(j)} \cup {i}
    BY DEF OthersStay
  <1>2. Mutex!Learn(i)
    BY <1>1 DEF Mutex!Learn
  <1>3. QED
    BY <1>2 DEF Mutex!MutexNext

\* The record of i comes into being, where there was none.
LEMMA Grants ==
  ASSUME NEW i \in Invocation, lockRec.owner = Nobody, lockRec'.owner = i,
         tombstone' = tombstone, tombstone[i] = "none", OthersStay(i),
         UnderLock(i)' \/ ~UnderLock(i)
  PROVE  Mutex!MutexNext
  <1>1. \/ {j \in Invocation : UnderLock(j)'} = {j \in Invocation : UnderLock(j)} \cup {i}
        \/ {j \in Invocation : UnderLock(j)'} = {j \in Invocation : UnderLock(j)}
    <2>1. CASE UnderLock(i)'
      <3>1. {j \in Invocation : UnderLock(j)'} = {j \in Invocation : UnderLock(j)} \cup {i}
        BY <2>1 DEF OthersStay
      <3>2. QED
        BY <3>1
    <2>2. CASE ~UnderLock(i)' /\ ~UnderLock(i)
      <3>1. {j \in Invocation : UnderLock(j)'} = {j \in Invocation : UnderLock(j)}
        BY <2>2 DEF OthersStay
      <3>2. QED
        BY <3>1
    <2>3. QED
      BY <2>1, <2>2
  <1>2. Mutex!Grant(i)
    BY <1>1 DEF Mutex!Grant
  <1>3. QED
    BY <1>2 DEF Mutex!MutexNext

\* The record of i becomes its tombstone; i does not work any more.
LEMMA Closes ==
  ASSUME TypeOK, NEW i \in Invocation, NEW how \in {"released", "forced"},
         lockRec.owner = i, ApplyRelease(i, how), OthersStay(i), ~UnderLock(i)'
  PROVE  Mutex!MutexNext
  <1>1. {j \in Invocation : UnderLock(j)'} = {j \in Invocation : UnderLock(j)} \ {i}
    BY DEF OthersStay
  <1>2. tombstone' = [tombstone EXCEPT ![i] = how] /\ lockRec'.owner = Nobody
    BY DEF ApplyRelease, Vacant
  <1>3. {j \in Invocation : tombstone'[j] # "none"}
          = {j \in Invocation : tombstone[j] # "none"} \cup {i}
    BY <1>2 DEF TypeOK
  <1>4. Mutex!Close(i)
    BY <1>1, <1>2, <1>3 DEF Mutex!Close
  <1>5. QED
    BY <1>4 DEF Mutex!MutexNext

\* An acquire is granted the lock, learns that it was, or gives up.
LEMMA AcquireSteps ==
  ASSUME IInv, NEW i \in Invocation, AcquireStep(i)
  PROVE  Mutex!MutexNext
  <1> USE DEF client, server, recovery
  <1>1. pc \in [Invocation -> Phase] /\ (pc[i] = "acquiring" => tombstone[i] = "none")
    BY DEF IInv, TypeOK, RecordOnce
  <1>2. OthersStay(i)
    BY <1>1 DEF AcquireStep, AcquireBegin, AcquirePost, AcquirePostLost, AcquireReread,
                AcquireRereadLost, OthersStay, UnderLock
  <1>3. CASE AcquireBegin(i) \/ AcquireRereadLost(i)
    <2>1. lockRec' = lockRec /\ tombstone' = tombstone /\ ~UnderLock(i)'
      BY <1>1, <1>3 DEF AcquireBegin, AcquireRereadLost, UnderLock
    <2>2. QED
      BY <1>2, <2>1, Quits
  <1>4. CASE AcquirePost(i) /\ PostAccepted
    <2>1. /\ lockRec.owner = Nobody /\ lockRec'.owner = i /\ tombstone' = tombstone
          /\ tombstone[i] = "none" /\ UnderLock(i)'
      BY <1>1, <1>4 DEF AcquirePost, PostAccepted, ApplyPost, LeaseRecord, UnderLock
    <2>2. QED
      BY <1>2, <2>1, Grants
  <1>5. CASE AcquirePost(i) /\ ~PostAccepted
    <2>1. lockRec' = lockRec /\ tombstone' = tombstone /\ ~UnderLock(i)'
      BY <1>1, <1>5 DEF AcquirePost, UnderLock
    <2>2. QED
      BY <1>2, <2>1, Quits
  <1>6. CASE AcquirePostLost(i)
    <2>1. ~UnderLock(i) /\ ~UnderLock(i)' /\ tombstone[i] = "none"
      BY <1>1, <1>6 DEF AcquirePostLost, UnderLock
    <2>2. CASE lockRec' = lockRec /\ tombstone' = tombstone
      BY <1>2, <2>1, <2>2, Quits
    <2>3. CASE PostAccepted /\ ApplyPost(i, AcquiredAt(i))
      <3>1. lockRec.owner = Nobody /\ lockRec'.owner = i /\ tombstone' = tombstone
        BY <2>3 DEF PostAccepted, ApplyPost, LeaseRecord
      <3>2. QED
        BY <1>2, <2>1, <3>1, Grants
    <2>4. QED
      BY <1>6, <2>2, <2>3 DEF AcquirePostLost, Lost
  <1>7. CASE AcquireReread(i)
    <2>1. lockRec' = lockRec /\ tombstone' = tombstone
      BY <1>7 DEF AcquireReread
    <2>2. CASE lockRec.owner = i
      <3>1. UnderLock(i)'
        BY <1>1, <1>7, <2>2 DEF AcquireReread, UnderLock
      <3>2. QED
        BY <1>2, <2>1, <2>2, <3>1, Learns
    <2>3. CASE lockRec.owner # i
      <3>1. ~UnderLock(i)'
        BY <1>1, <1>7, <2>3 DEF AcquireReread, UnderLock
      <3>2. QED
        BY <1>2, <2>1, <3>1, Quits
    <2>4. QED
      BY <2>2, <2>3
  <1>8. QED
    BY <1>3, <1>4, <1>5, <1>6, <1>7 DEF AcquireStep

\* A release closes the record as it stops, or stops and leaves it.
LEMMA ReleaseSteps ==
  ASSUME IInv, NEW i \in Invocation, ReleaseStep(i) \/ Crash(i)
  PROVE  Mutex!MutexNext \/ UNCHANGED Mutex!mutexVars
  <1> USE DEF client, server, recovery
  <1>1. TypeOK /\ pc \in [Invocation -> Phase]
    BY DEF IInv, TypeOK
  <1>2. OthersStay(i)
    BY <1>1 DEF ReleaseStep, ReleaseBegin, ReleaseRead, ReleasePut, ReleasePutLost,
                ReleaseReread, ReleaseReadLost, ReleaseAdjudicate, Crash, OthersStay, UnderLock
  <1>3. CASE ReleaseBegin(i) \/ ReleaseRead(i) \/ ReleaseReread(i) \/ ReleaseReadLost(i)
             \/ ReleaseAdjudicate(i) \/ Crash(i)
    <2>1. lockRec' = lockRec /\ tombstone' = tombstone
      BY <1>3 DEF ReleaseBegin, ReleaseRead, ReleaseReread, ReleaseReadLost,
                  ReleaseAdjudicate, Crash
    <2>2. ~UnderLock(i)' \/ (UnderLock(i) /\ UnderLock(i)')
      BY <1>1, <1>3 DEF ReleaseBegin, ReleaseRead, ReleaseReread, ReleaseReadLost,
                        ReleaseAdjudicate, Crash, UnderLock
    <2>3. QED
      BY <1>2, <2>1, <2>2, Quits, Goes
  <1>4. CASE ReleasePut(i)
    <2>1. CASE ReleaseAccepted(i, ref[i].rev)
      <3>1. lockRec.owner = i /\ ApplyRelease(i, "released") /\ ~UnderLock(i)'
        BY <1>1, <1>4, <2>1 DEF ReleasePut, ReleaseAccepted, UnderLock
      <3>2. QED
        BY <1>1, <1>2, <3>1, Closes
    <2>2. CASE ~ReleaseAccepted(i, ref[i].rev)
      <3>1. lockRec' = lockRec /\ tombstone' = tombstone
        BY <1>4, <2>2 DEF ReleasePut
      <3>2. ~UnderLock(i)' \/ (UnderLock(i) /\ UnderLock(i)')
        BY <1>1, <1>4, <2>2 DEF ReleasePut, UnderLock
      <3>3. QED
        BY <1>2, <3>1, <3>2, Quits, Goes
    <2>3. QED
      BY <2>1, <2>2
  <1>5. CASE ReleasePutLost(i)
    <2>1. ~UnderLock(i)'
      BY <1>1, <1>5 DEF ReleasePutLost, UnderLock
    <2>2. CASE lockRec' = lockRec /\ tombstone' = tombstone
      BY <1>2, <2>1, <2>2, Quits
    <2>3. CASE ReleaseAccepted(i, ref[i].rev) /\ ApplyRelease(i, "released")
      BY <1>1, <1>2, <2>1, <2>3, Closes DEF ReleaseAccepted
    <2>4. QED
      BY <1>5, <2>2, <2>3 DEF ReleasePutLost, Lost
  <1>6. QED
    BY <1>3, <1>4, <1>5 DEF ReleaseStep

\* A forced release closes the record of a process that has stopped.
LEMMA UnlockSteps ==
  ASSUME IInv, NEW o \in Operator, UnlockStep(o)
  PROVE  Mutex!MutexNext \/ UNCHANGED Mutex!mutexVars
  <1> USE DEF client, server, recovery
  <1>1. TypeOK /\ pc' = pc
    BY DEF IInv, UnlockStep, UnlockRead, StopConfirmed, StopNotConfirmed, UnlockRecheck,
           UnlockPut, UnlockPutLost, UnlockAdjudicate, UnlockAudit, UnlockAbort
  <1>2. CASE lockRec' = lockRec /\ tombstone' = tombstone
    BY <1>1, <1>2, Stutters
  <1>3. ASSUME unlocker[o].stage = "put",
               ReleaseAccepted(unlocker[o].owner, unlocker[o].rev),
               ApplyRelease(unlocker[o].owner, "forced")
        PROVE  Mutex!MutexNext
    <2>1. PICK i \in Invocation : i = unlocker[o].owner /\ Stopped(i)
      BY <1>3 DEF IInv, UnlockAgainstStopped
    <2>2. OthersStay(i) /\ ~UnderLock(i)'
      BY <1>1, <2>1 DEF OthersStay, UnderLock, Stopped
    <2>3. QED
      BY <1>1, <1>3, <2>1, <2>2, Closes DEF ReleaseAccepted
  <1>4. \/ lockRec' = lockRec /\ tombstone' = tombstone
        \/ /\ unlocker[o].stage = "put"
           /\ ReleaseAccepted(unlocker[o].owner, unlocker[o].rev)
           /\ ApplyRelease(unlocker[o].owner, "forced")
    BY DEF UnlockStep, UnlockRead, StopConfirmed, StopNotConfirmed, UnlockRecheck,
           UnlockPut, UnlockPutLost, UnlockAdjudicate, UnlockAudit, UnlockAbort, Lost
  <1>5. QED
    BY <1>2, <1>3, <1>4

\* A request that arrives late grants the lock to a process that gave up, or
\* closes the record of one that does not work any more.
LEMMA LateSteps ==
  ASSUME IInv, DelayedArrival
  PROVE  Mutex!MutexNext \/ UNCHANGED Mutex!mutexVars
  <1> USE DEF client, recovery
  <1>1. TypeOK /\ pc' = pc
    BY DEF IInv, DelayedArrival
  <1>2. PICK r \in delayed :
          \/ /\ r.kind = "post" /\ PostAccepted
             /\ ApplyPost(r.owner, r.at)
          \/ /\ r.kind = "heartbeat" /\ HeartbeatAccepted(r.rev)
             /\ ApplyHeartbeat(r.rev, r.at)
          \/ /\ r.kind = "release" /\ ReleaseAccepted(r.owner, r.rev)
             /\ ApplyRelease(r.owner, "released")
          \/ /\ r.kind = "force" /\ ReleaseAccepted(r.owner, r.rev)
             /\ ApplyRelease(r.owner, "forced")
          \/ lockRec' = lockRec /\ tombstone' = tombstone
    BY DEF DelayedArrival
  <1>3. r.owner \in Invocation
    BY <1>1 DEF TypeOK, Request
  <1>4. OthersStay(r.owner) /\ (UnderLock(r.owner)' <=> UnderLock(r.owner))
    BY <1>1 DEF OthersStay, UnderLock
  <1>5. CASE r.kind = "post" /\ PostAccepted /\ ApplyPost(r.owner, r.at)
    <2>1. lockRec.owner = Nobody /\ lockRec'.owner = r.owner /\ tombstone' = tombstone
      BY <1>5 DEF PostAccepted, ApplyPost, LeaseRecord
    <2>2. tombstone[r.owner] = "none"
      BY <1>3, <1>5 DEF IInv, RecordOnce
    <2>3. QED
      BY <1>3, <1>4, <2>1, <2>2, Grants
  <1>6. CASE r.kind = "heartbeat" /\ ApplyHeartbeat(r.rev, r.at)
    <2>1. lockRec'.owner = lockRec.owner /\ tombstone' = tombstone
      BY <1>6 DEF ApplyHeartbeat, LeaseRecord
    <2>2. QED
      BY <1>1, <2>1, Stutters
  <1>7. CASE r.kind = "release" /\ ReleaseAccepted(r.owner, r.rev)
             /\ ApplyRelease(r.owner, "released")
    <2>1. ~UnderLock(r.owner)
      BY <1>7 DEF IInv, DelayedIsPast, UnderLock
    <2>2. QED
      BY <1>1, <1>3, <1>4, <1>7, <2>1, Closes DEF ReleaseAccepted
  <1>8. CASE r.kind = "force" /\ ReleaseAccepted(r.owner, r.rev)
             /\ ApplyRelease(r.owner, "forced")
    <2>1. ~UnderLock(r.owner)
      BY <1>8 DEF IInv, DelayedIsPast, UnderLock, Stopped
    <2>2. QED
      BY <1>1, <1>3, <1>4, <1>8, <2>1, Closes DEF ReleaseAccepted
  <1>9. CASE lockRec' = lockRec /\ tombstone' = tombstone
    BY <1>1, <1>9, Stutters
  <1>10. QED
    BY <1>2, <1>5, <1>6, <1>7, <1>8, <1>9

\* The Network lock of the code is the lock of NetworkMutex: whatever is lost,
\* late or repeated, and whoever dies, each process is granted the lock at most
\* once and never has it closed while it works (acquire, heartbeat, release,
\* forceUnlockNetwork).
THEOREM LockRefinesMutex == ASSUME MistakenStops = FALSE PROVE Spec => ImplementsMutex
  <1>1. Init => Mutex!MutexInit
    BY DEF Init, Mutex!MutexInit, Vacant, UnderLock
  <1>2. IInv /\ [Next]_vars => [Mutex!MutexNext]_(Mutex!mutexVars)
    <2> SUFFICES ASSUME IInv, [Next]_vars
                 PROVE  Mutex!MutexNext \/ UNCHANGED Mutex!mutexVars
      OBVIOUS
    <2>1. ASSUME NEW i \in Invocation, HeartbeatStep(i) PROVE UNCHANGED Mutex!mutexVars
      <3>1. lockRec'.owner = lockRec.owner /\ tombstone' = tombstone /\ pc' = pc
        BY <2>1, HeartbeatEffect DEF IInv
      <3>2. QED
        BY <3>1, Stutters
    <2>2. CASE Tick \/ UNCHANGED vars
      <3>1. lockRec' = lockRec /\ tombstone' = tombstone /\ pc' = pc
        BY <2>2 DEF Tick, vars, server, client
      <3>2. QED
        BY <3>1, Stutters
    <2>3. QED
      BY <2>1, <2>2, AcquireSteps, ReleaseSteps, UnlockSteps, LateSteps DEF Next
  <1>3. QED
    BY <1>1, <1>2, Invariance, PTL DEF Spec, ImplementsMutex, Mutex!MutexSpec

-----------------------------------------------------------------------------
(* The lease of a record and of its owner, whether or not stop             *)
(* confirmations can be trusted and whoever's heartbeat reaches the record. *)

Sent == {"put", "applied", "lost"}
BeforeWork == {"idle", "acquiring", "acquireReread"}

\* The heartbeat of i: one that was sent carries no later revision than i
\* knows.  One that was applied has moved the record past its own revision, and
\* right after it the record grants the lease that it asked for.
HeartbeatOK(i) ==
    /\ hb[i].stage # "none" => pc[i] \notin BeforeWork \cup {"crashed"}
    /\ hb[i].stage \in Sent => hb[i].rev <= ref[i].rev
    /\ hb[i].stage = "applied" /\ lockRec.owner = i =>
          /\ hb[i].rev + 1 <= lockRec.rev
          /\ lockRec.rev = hb[i].rev + 1 => hb[i].at + LeaseDuration <= lockRec.until

\* A POST of i still on the wire: i has not worked and sent no heartbeat.
LatePostOK(i) ==
    /\ pc[i] \in {"acquireReread", "done", "crashed"}
    /\ hb[i].stage = "none"
    /\ tombstone[i] = "none" /\ lockRec.owner # i

\* At the revision i knows the record grants the lease that i counts on; a
\* process that retries its release knows the revision only.
LeaseOnRecord(i) ==
    UnderLock(i) /\ lockRec.owner = i =>
        /\ ref[i].rev <= lockRec.rev
        /\ lockRec.rev = ref[i].rev /\ pc[i] # "releaseRetry"
              => ref[i].leaseExpiresAt <= lockRec.until

InvocationOK(i) ==
    /\ pc[i] = "acquiring" => ref[i].leaseExpiresAt >= LeaseDuration /\ ref[i].rev = 1
    /\ tombstone[i] # "none" => lockRec.owner # i
    /\ tombstone[i] # "none" \/ lockRec.owner = i => pc[i] \notin {"idle", "acquiring"}
    /\ HeartbeatOK(i)
    /\ LeaseOnRecord(i)
    /\ \A r \in delayed : r.kind = "post" /\ r.owner = i => LatePostOK(i)

\* The record was read at revision r with a lease that had run out: at this
\* revision it still has, and a record once closed does not come back.
ExpiredAt(i, r) ==
    /\ i \in Invocation
    /\ lockRec.owner = i \/ tombstone[i] # "none"
    /\ lockRec.owner = i =>
          /\ r <= lockRec.rev
          /\ lockRec.rev = r => lockRec.leaseExpiresAt + Minute <= now

\* What the operators know: those at work, and those whose PUT is on the wire.
OperatorsOK ==
    /\ \A r \in delayed : r.kind = "force" => ExpiredAt(r.owner, r.rev)
    /\ \A o \in Operator :
          unlocker[o].stage # "idle" => ExpiredAt(unlocker[o].owner, unlocker[o].rev)

\* The record keeps the end of its lease to less than a minute, and no
\* invocation has two POSTs on the wire.
ServerOK ==
    /\ lockRec.leaseExpiresAt <= lockRec.until
    /\ lockRec.until < lockRec.leaseExpiresAt + Minute
    /\ \A r, s \in delayed :
          r.kind = "post" /\ s.kind = "post" /\ r.owner = s.owner => r = s

\* The inductive invariant behind ForcedOnlyAfterLease and FencedLeaseIsKept.
LInv == TypeOK /\ ServerOK /\ OperatorsOK /\ \A i \in Invocation : InvocationOK(i)

\* A stored time is less than a minute early.
LEMMA DatetimeClose ==
  \A t \in Nat : /\ Datetime(t) \in Nat /\ Datetime(t) <= t
                 /\ t < Datetime(t) + Minute
  <1> SUFFICES ASSUME NEW t \in Nat
               PROVE  /\ Datetime(t) \in Nat /\ Datetime(t) <= t
                      /\ t < Datetime(t) + Minute
    OBVIOUS
  <1>1. t % Minute \in 0..t /\ t % Minute < Minute
    BY ConstantsAssumption, SMT
  <1>2. QED
    BY <1>1, ConstantsAssumption DEF Datetime

\* A record comes into being, is renewed by a heartbeat of any process, or is
\* closed.
Posted(k, t) ==
    /\ lockRec.owner = Nobody /\ tombstone[k] = "none"
    /\ lockRec' = LeaseRecord(k, 1, t) /\ tombstone' = tombstone
Renewed(t) ==
    /\ lockRec.owner # Nobody
    /\ lockRec' = LeaseRecord(lockRec.owner, lockRec.rev + 1, t) /\ tombstone' = tombstone
Closed(k) ==
    /\ lockRec.owner = k /\ lockRec' = Vacant
    /\ \E how \in {"released", "forced"} : tombstone' = [tombstone EXCEPT ![k] = how]

\* What a step may do to the record: nothing, or one of the three.
RecordStep ==
    \/ lockRec' = lockRec /\ tombstone' = tombstone
    \/ \E t \in Nat : (\E k \in Invocation : Posted(k, t)) \/ Renewed(t)
    \/ \E k \in Invocation : Closed(k)

\* The parts of a record that an invocation writes.
LEMMA LeaseRecordParts ==
  ASSUME NEW k, NEW r, NEW t
  PROVE  /\ LeaseRecord(k, r, t).owner = k /\ LeaseRecord(k, r, t).rev = r
         /\ LeaseRecord(k, r, t).leaseExpiresAt = Datetime(t + LeaseDuration)
         /\ LeaseRecord(k, r, t).until = t + LeaseDuration
  BY DEF LeaseRecord

\* The numbers of an invocation and of the record.
LEMMA Numbers ==
  ASSUME TypeOK
  PROVE  /\ now \in Nat /\ LeaseDuration \in Nat /\ Minute \in Nat /\ Minute > 0
         /\ lockRec.rev \in Nat /\ lockRec.leaseExpiresAt \in Nat /\ lockRec.until \in Nat
         /\ lockRec.owner \in Invocation \cup {Nobody} /\ Nobody \notin Invocation
         /\ tombstone \in [Invocation -> {"none", "released", "forced"}]
         /\ \A i \in Invocation :
              /\ ref[i].rev \in Nat /\ ref[i].leaseExpiresAt \in Nat
              /\ hb[i].rev \in Nat /\ hb[i].at \in Nat
         /\ \A r \in delayed : r.owner \in Invocation /\ r.rev \in Nat /\ r.at \in Nat
  BY ConstantsAssumption DEF TypeOK, Time, Reference, Heartbeat, LockRecord, Request

\* An invocation that did nothing itself is as well off as before, whatever
\* became of the record: only its own POST could make it worse.
LEMMA OthersKeep ==
  ASSUME TypeOK, RecordStep, NEW j \in Invocation, InvocationOK(j),
         pc'[j] = pc[j], ref'[j] = ref[j], hb'[j] = hb[j],
         lockRec'.owner = j => lockRec.owner = j,
         \A r \in delayed' : r.kind = "post" /\ r.owner = j => r \in delayed
  PROVE  InvocationOK(j)'
  <1>n. /\ lockRec.rev \in Nat /\ ref[j].rev \in Nat /\ hb[j].rev \in Nat
        /\ tombstone \in [Invocation -> {"none", "released", "forced"}]
        /\ Nobody \notin Invocation
    BY Numbers
  <1>1. lockRec'.owner = j =>
          /\ lockRec.owner = j /\ tombstone' = tombstone
          /\ lockRec' = lockRec \/ lockRec'.rev = lockRec.rev + 1
    BY <1>n, LeaseRecordParts DEF RecordStep, Posted, Renewed, Closed, Vacant
  <1>2. tombstone'[j] # "none" => tombstone[j] # "none" \/ lockRec.owner = j
    BY <1>n DEF RecordStep, Posted, Renewed, Closed
  <1>3. tombstone'[j] # "none" => lockRec'.owner # j
    BY <1>1 DEF InvocationOK
  <1>4. tombstone'[j] # "none" \/ lockRec'.owner = j => pc'[j] \notin {"idle", "acquiring"}
    BY <1>1, <1>2 DEF InvocationOK
  <1>5. HeartbeatOK(j)'
    <2>1. HeartbeatOK(j)
      BY DEF InvocationOK
    <2>2. CASE lockRec'.owner # j
      BY <2>1, <2>2 DEF HeartbeatOK
    <2>3. CASE lockRec' = lockRec
      BY <2>1, <2>3 DEF HeartbeatOK
    <2>4. CASE lockRec'.owner = j /\ lockRec.owner = j /\ lockRec'.rev = lockRec.rev + 1
      BY <1>n, <2>1, <2>4 DEF HeartbeatOK
    <2>5. QED
      BY <1>1, <2>2, <2>3, <2>4
  <1>6. LeaseOnRecord(j)'
    <2>1. LeaseOnRecord(j)
      BY DEF InvocationOK
    <2>2. CASE lockRec'.owner # j
      BY <2>2 DEF LeaseOnRecord
    <2>3. CASE lockRec' = lockRec
      BY <2>1, <2>3 DEF LeaseOnRecord, UnderLock
    <2>4. CASE lockRec'.owner = j /\ lockRec.owner = j /\ lockRec'.rev = lockRec.rev + 1
      BY <1>n, <2>1, <2>4 DEF LeaseOnRecord, UnderLock
    <2>5. QED
      BY <1>1, <2>2, <2>3, <2>4
  <1>7. ASSUME NEW r \in delayed', r.kind = "post", r.owner = j PROVE LatePostOK(j)'
    <2>1. LatePostOK(j)
      BY <1>7 DEF InvocationOK
    <2>2. QED
      BY <1>1, <1>2, <2>1 DEF LatePostOK
  <1>8. pc'[j] = "acquiring" => ref'[j].leaseExpiresAt >= LeaseDuration /\ ref'[j].rev = 1
    BY DEF InvocationOK
  <1>9. QED
    BY <1>3, <1>4, <1>5, <1>6, <1>7, <1>8 DEF InvocationOK

\* What was read of an expired record stays true of it.
LEMMA ExpiredStays ==
  ASSUME TypeOK, now' \in Nat, now <= now', RecordStep,
         \A j \in Invocation : InvocationOK(j),
         NEW i, NEW r \in Nat, ExpiredAt(i, r)
  PROVE  ExpiredAt(i, r)'
  <1>1. /\ i \in Invocation /\ tombstone \in [Invocation -> {"none", "released", "forced"}]
        /\ lockRec.rev \in Nat /\ lockRec.leaseExpiresAt \in Nat /\ now \in Nat
        /\ Minute \in Nat /\ Nobody \notin Invocation
        /\ tombstone[i] # "none" => lockRec.owner # i
    BY Numbers DEF ExpiredAt, InvocationOK
  <1>2. CASE lockRec' = lockRec /\ tombstone' = tombstone
    BY <1>1, <1>2 DEF ExpiredAt
  <1>3. ASSUME NEW t \in Nat, NEW k \in Invocation, Posted(k, t) PROVE ExpiredAt(i, r)'
    <2>1. lockRec'.owner = k /\ tombstone' = tombstone /\ tombstone[k] = "none"
      BY <1>3, LeaseRecordParts DEF Posted
    <2>2. tombstone[i] # "none" /\ i # k
      BY <1>1, <1>3, <2>1 DEF ExpiredAt, Posted
    <2>3. QED
      BY <1>1, <2>1, <2>2 DEF ExpiredAt
  <1>4. ASSUME NEW t \in Nat, Renewed(t) PROVE ExpiredAt(i, r)'
    <2>1. lockRec'.owner = lockRec.owner /\ lockRec'.rev = lockRec.rev + 1
          /\ tombstone' = tombstone
      BY <1>4, LeaseRecordParts DEF Renewed
    <2>2. lockRec.owner = i => r <= lockRec.rev
      BY DEF ExpiredAt
    <2>3. lockRec'.owner = i => r <= lockRec'.rev /\ lockRec'.rev # r
      BY <1>1, <2>1, <2>2
    <2>4. QED
      BY <1>1, <2>1, <2>3 DEF ExpiredAt
  <1>5. ASSUME NEW k \in Invocation, Closed(k) PROVE ExpiredAt(i, r)'
    <2>1. PICK how \in {"released", "forced"} : tombstone' = [tombstone EXCEPT ![k] = how]
      BY <1>5 DEF Closed
    <2>2. lockRec.owner = k /\ lockRec'.owner = Nobody
      BY <1>5 DEF Closed, Vacant
    <2>3. tombstone'[i] # "none"
      BY <1>1, <2>1, <2>2 DEF ExpiredAt
    <2>4. QED
      BY <1>1, <2>2, <2>3 DEF ExpiredAt
  <1>6. QED
    BY <1>2, <1>3, <1>4, <1>5 DEF RecordStep

\* The record and the operators after a step.
LEMMA ServerKeeps ==
  ASSUME LInv, TypeOK', now <= now', RecordStep,
         \A r, s \in delayed' :
             r.kind = "post" /\ s.kind = "post" /\ r.owner = s.owner => r = s,
         \A r \in delayed' : r.kind = "force" => ExpiredAt(r.owner, r.rev),
         \A o \in Operator : unlocker'[o].stage # "idle"
             => ExpiredAt(unlocker'[o].owner, unlocker'[o].rev)
  PROVE  ServerOK' /\ OperatorsOK'
  <1>0. TypeOK /\ ServerOK /\ (\A j \in Invocation : InvocationOK(j)) /\ now' \in Nat
    BY DEF LInv, TypeOK, Time
  <1>1. Minute \in Nat /\ Minute > 0 /\ LeaseDuration \in Nat
    BY <1>0, Numbers
  <1>2. lockRec'.leaseExpiresAt <= lockRec'.until
        /\ lockRec'.until < lockRec'.leaseExpiresAt + Minute
    <2>1. CASE lockRec' = lockRec
      BY <1>0, <2>1 DEF ServerOK
    <2>2. ASSUME NEW t \in Nat, (\E k \in Invocation : Posted(k, t)) \/ Renewed(t)
          PROVE  /\ lockRec'.leaseExpiresAt <= lockRec'.until
                 /\ lockRec'.until < lockRec'.leaseExpiresAt + Minute
      <3>1. lockRec'.leaseExpiresAt = Datetime(t + LeaseDuration)
            /\ lockRec'.until = t + LeaseDuration
        BY <2>2, LeaseRecordParts DEF Posted, Renewed
      <3>2. t + LeaseDuration \in Nat
        BY <1>1
      <3>3. QED
        BY <3>1, <3>2, DatetimeClose
    <2>3. CASE lockRec' = Vacant
      BY <1>1, <2>3 DEF Vacant
    <2>4. QED
      BY <2>1, <2>2, <2>3 DEF RecordStep, Closed
  <1>3. ASSUME NEW r \in delayed', r.kind = "force" PROVE ExpiredAt(r.owner, r.rev)'
    <2>1. ExpiredAt(r.owner, r.rev) /\ r.rev \in Nat
      BY <1>3 DEF TypeOK, Request
    <2>2. PICK a, b : a = r.owner /\ b = r.rev
      OBVIOUS
    <2>3. ExpiredAt(a, b)'
      BY <1>0, <2>1, <2>2, ExpiredStays
    <2>4. QED
      BY <2>2, <2>3 DEF ExpiredAt
  <1>4. ASSUME NEW o \in Operator, unlocker'[o].stage # "idle"
        PROVE  ExpiredAt(unlocker[o].owner, unlocker[o].rev)'
    <2>1. unlocker'[o].rev \in Nat
      BY DEF TypeOK, Snapshot
    <2>2. PICK a, b : a = unlocker'[o].owner /\ b = unlocker'[o].rev
      OBVIOUS
    <2>3. ExpiredAt(a, b)'
      BY <1>0, <1>4, <2>1, <2>2, ExpiredStays
    <2>4. QED
      BY <2>2, <2>3 DEF ExpiredAt
  <1>5. QED
    BY <1>2, <1>3, <1>4 DEF ServerOK, OperatorsOK

\* The other invocations during a step of k.
OthersIdle(k) ==
    /\ \A j \in Invocation \ {k} : pc'[j] = pc[j] /\ ref'[j] = ref[j] /\ hb'[j] = hb[j]
    /\ lockRec'.owner \in {lockRec.owner, Nobody, k}

\* What a step of k may put on the wire: its own requests, and a POST only when
\* it has none there.
OwnRequests(k) ==
    /\ \A r \in delayed' : r \in delayed
          \/ /\ r.owner = k /\ r.kind \in {"post", "heartbeat", "release"}
             /\ r.kind = "post" => \A s \in delayed : s.kind = "post" => s.owner # k
    /\ \A r, s \in delayed' : r \notin delayed /\ s \notin delayed => r = s

\* A step of k alone keeps the invariant when k is well off after it.
LEMMA StepOf ==
  ASSUME LInv, TypeOK', NEW k \in Invocation, OthersIdle(k), RecordStep,
         now' = now, unlocker' = unlocker, OwnRequests(k), InvocationOK(k)'
  PROVE  LInv'
  <1>1. now \in Nat /\ now <= now' /\ TypeOK
    BY DEF LInv, TypeOK, Time
  <1>2. ASSUME NEW j \in Invocation, j # k PROVE InvocationOK(j)'
    <2>1. lockRec'.owner = j => lockRec.owner = j
      BY <1>1, <1>2, Numbers DEF OthersIdle
    <2>2. pc'[j] = pc[j] /\ ref'[j] = ref[j] /\ hb'[j] = hb[j]
      BY <1>2 DEF OthersIdle
    <2>3. \A r \in delayed' : r.kind = "post" /\ r.owner = j => r \in delayed
      BY <1>2 DEF OwnRequests
    <2>4. QED
      BY <1>1, <2>1, <2>2, <2>3, OthersKeep DEF LInv
  <1>3. \A r, s \in delayed' :
             r.kind = "post" /\ s.kind = "post" /\ r.owner = s.owner => r = s
    BY DEF OwnRequests, LInv, ServerOK
  <1>4. \A r \in delayed' : r.kind = "force" => ExpiredAt(r.owner, r.rev)
    BY DEF OwnRequests, LInv, OperatorsOK
  <1>5. \A o \in Operator : unlocker'[o].stage # "idle"
             => ExpiredAt(unlocker'[o].owner, unlocker'[o].rev)
    BY DEF LInv, OperatorsOK
  <1>6. ServerOK' /\ OperatorsOK'
    BY <1>1, <1>3, <1>4, <1>5, ServerKeeps
  <1>7. QED
    BY <1>2, <1>6 DEF LInv

\* A step that no invocation takes part in.
LEMMA StepOfNone ==
  ASSUME LInv, TypeOK', now <= now', RecordStep,
         pc' = pc, ref' = ref, hb' = hb,
         lockRec'.owner \in {lockRec.owner, Nobody},
         \A r \in delayed' : r \in delayed \/ (r.kind = "force" /\ ExpiredAt(r.owner, r.rev)),
         \A o \in Operator : unlocker'[o].stage # "idle"
             => ExpiredAt(unlocker'[o].owner, unlocker'[o].rev)
  PROVE  LInv'
  <1>1. TypeOK
    BY DEF LInv
  <1>2. ASSUME NEW j \in Invocation PROVE InvocationOK(j)'
    <2>1. lockRec'.owner = j => lockRec.owner = j
      BY <1>1, Numbers
    <2>2. \A r \in delayed' : r.kind = "post" /\ r.owner = j => r \in delayed
      OBVIOUS
    <2>3. QED
      BY <1>1, <2>1, <2>2, OthersKeep DEF LInv
  <1>3. \A r, s \in delayed' :
             r.kind = "post" /\ s.kind = "post" /\ r.owner = s.owner => r = s
    BY DEF LInv, ServerOK
  <1>4. \A r \in delayed' : r.kind = "force" => ExpiredAt(r.owner, r.rev)
    BY DEF LInv, OperatorsOK
  <1>5. ServerOK' /\ OperatorsOK'
    BY <1>3, <1>4, ServerKeeps
  <1>6. QED
    BY <1>2, <1>5 DEF LInv

\* The steps of an acquire.
LEMMA AcquireLInv ==
  ASSUME LInv, NEW i \in Invocation, AcquireStep(i)
  PROVE  LInv'
  <1> USE DEF client, server, recovery
  <1>0. TypeOK' /\ TypeOK /\ InvocationOK(i) /\ ServerOK
    <2>1. AcquireTimed
      BY DEF LInv, AcquireTimed, InvocationOK
    <2>2. QED
      BY <2>1, AcquireType DEF LInv
  <1>n. /\ now \in Nat /\ LeaseDuration \in Nat /\ ref[i].leaseExpiresAt \in Nat
        /\ lockRec.rev \in Nat /\ Nobody \notin Invocation
        /\ pc \in [Invocation -> Phase] /\ ref \in [Invocation -> Reference]
    BY <1>0, Numbers DEF TypeOK
  <1>h. pc[i] \in BeforeWork
    BY DEF AcquireStep, AcquireBegin, AcquirePost, AcquirePostLost, AcquireReread,
           AcquireRereadLost, BeforeWork
  <1>q. hb[i].stage = "none"
    BY <1>0, <1>h DEF InvocationOK, HeartbeatOK
  <1>p. pc[i] # "acquireReread" => \A r \in delayed : r.kind = "post" => r.owner # i
    BY <1>0, <1>h DEF InvocationOK, LatePostOK, BeforeWork
  <1>a. pc[i] = "acquiring" => AcquiredAt(i) \in Nat
            /\ AcquiredAt(i) + LeaseDuration = ref[i].leaseExpiresAt
            /\ tombstone[i] = "none" /\ lockRec.owner # i
    BY <1>0, <1>n DEF InvocationOK, AcquiredAt
  <1>1. CASE AcquireBegin(i)
    <2>1. /\ pc' = [pc EXCEPT ![i] = "acquiring"] /\ pc[i] = "idle"
          /\ ref' = [ref EXCEPT ![i] = [rev |-> 1, leaseExpiresAt |-> now + LeaseDuration]]
          /\ UNCHANGED <<now, lockRec, tombstone, delayed, unlocker, hb>>
      BY <1>1 DEF AcquireBegin
    <2>2. OthersIdle(i) /\ RecordStep /\ OwnRequests(i) /\ pc'[i] = "acquiring"
          /\ ref'[i].leaseExpiresAt >= LeaseDuration /\ ref'[i].rev = 1
      BY <1>n, <2>1 DEF OthersIdle, RecordStep, OwnRequests
    <2>3. HeartbeatOK(i)' /\ LeaseOnRecord(i)'
      BY <1>q, <2>1, <2>2 DEF HeartbeatOK, LeaseOnRecord, UnderLock, Sent
    <2>4. InvocationOK(i)'
      BY <1>0, <1>p, <2>1, <2>2, <2>3 DEF InvocationOK
    <2>5. QED
      BY <1>0, <2>1, <2>2, <2>4, StepOf
  <1>2. CASE AcquirePost(i) /\ PostAccepted
    <2>1. /\ pc' = [pc EXCEPT ![i] = "working"] /\ pc[i] = "acquiring"
          /\ lockRec.owner = Nobody /\ lockRec' = LeaseRecord(i, 1, AcquiredAt(i))
          /\ UNCHANGED <<now, tombstone, delayed, unlocker, hb, ref>>
      BY <1>2 DEF AcquirePost, PostAccepted, ApplyPost
    <2>2. /\ lockRec'.owner = i /\ lockRec'.rev = 1
          /\ lockRec'.until = ref[i].leaseExpiresAt /\ ref[i].rev = 1
      BY <1>0, <1>a, <2>1, LeaseRecordParts DEF InvocationOK
    <2>3. OthersIdle(i) /\ OwnRequests(i) /\ pc'[i] = "working" /\ RecordStep
      BY <1>n, <1>a, <2>1, <2>2 DEF OthersIdle, OwnRequests, RecordStep, Posted
    <2>4. HeartbeatOK(i)' /\ LeaseOnRecord(i)'
      BY <1>n, <1>q, <2>1, <2>2, <2>3 DEF HeartbeatOK, LeaseOnRecord, Sent
    <2>5. InvocationOK(i)'
      BY <1>0, <1>a, <1>p, <2>1, <2>2, <2>3, <2>4 DEF InvocationOK
    <2>6. QED
      BY <1>0, <2>1, <2>3, <2>5, StepOf
  <1>3. CASE AcquirePost(i) /\ ~PostAccepted
    <2>1. /\ pc' = [pc EXCEPT ![i] = "acquireReread"] /\ pc[i] = "acquiring"
          /\ UNCHANGED <<now, lockRec, tombstone, delayed, unlocker, hb, ref>>
      BY <1>3 DEF AcquirePost
    <2>2. OthersIdle(i) /\ OwnRequests(i) /\ RecordStep /\ pc'[i] = "acquireReread"
      BY <1>n, <2>1 DEF OthersIdle, OwnRequests, RecordStep
    <2>3. HeartbeatOK(i)' /\ LeaseOnRecord(i)'
      BY <1>q, <2>1, <2>2 DEF HeartbeatOK, LeaseOnRecord, UnderLock, Sent
    <2>4. InvocationOK(i)'
      BY <1>0, <1>p, <2>1, <2>2, <2>3 DEF InvocationOK
    <2>5. QED
      BY <1>0, <2>1, <2>2, <2>4, StepOf
  <1>4. CASE AcquirePostLost(i)
    <2> DEFINE req == [kind |-> "post", owner |-> i, rev |-> 0, at |-> AcquiredAt(i)]
    <2>1. /\ pc' = [pc EXCEPT ![i] = "acquireReread"] /\ pc[i] = "acquiring"
          /\ UNCHANGED <<now, tombstone, unlocker, hb, ref>>
          /\ \/ UNCHANGED <<lockRec, delayed>>
             \/ UNCHANGED lockRec /\ delayed' = delayed \cup {req}
             \/ UNCHANGED delayed /\ lockRec.owner = Nobody
                /\ lockRec' = LeaseRecord(i, 1, AcquiredAt(i))
      BY <1>4 DEF AcquirePostLost, Lost, PostAccepted, ApplyPost
    <2>2. req.kind = "post" /\ req.owner = i
      OBVIOUS
    <2> HIDE DEF req
    <2>3. pc'[i] = "acquireReread" /\ RecordStep
      BY <1>n, <1>a, <2>1 DEF RecordStep, Posted
    <2>4. OthersIdle(i)
      BY <1>n, <2>1, LeaseRecordParts DEF OthersIdle
    <2>5. OwnRequests(i)
      BY <1>p, <2>1, <2>2 DEF OwnRequests
    <2>6. HeartbeatOK(i)' /\ LeaseOnRecord(i)'
      BY <1>q, <2>1, <2>3 DEF HeartbeatOK, LeaseOnRecord, UnderLock, Sent
    <2>7. \A r \in delayed' : r.kind = "post" /\ r.owner = i => LatePostOK(i)'
      BY <1>a, <1>p, <1>q, <2>1, <2>3 DEF LatePostOK
    <2>8. InvocationOK(i)'
      BY <1>0, <1>a, <2>1, <2>3, <2>6, <2>7 DEF InvocationOK
    <2>9. QED
      BY <1>0, <2>1, <2>3, <2>4, <2>5, <2>8, StepOf
  <1>5. CASE AcquireReread(i) /\ lockRec.owner = i
    <2>1. /\ pc' = [pc EXCEPT ![i] = "working"]
          /\ ref' = [ref EXCEPT ![i] = [rev |-> lockRec.rev,
                                        leaseExpiresAt |-> lockRec.leaseExpiresAt]]
          /\ UNCHANGED <<now, lockRec, tombstone, delayed, unlocker, hb>>
      BY <1>5 DEF AcquireReread
    <2>2. OthersIdle(i) /\ OwnRequests(i) /\ RecordStep /\ pc'[i] = "working"
          /\ ref'[i].rev = lockRec.rev /\ ref'[i].leaseExpiresAt = lockRec.leaseExpiresAt
      BY <1>n, <2>1 DEF OthersIdle, OwnRequests, RecordStep
    <2>3. HeartbeatOK(i)' /\ LeaseOnRecord(i)'
      BY <1>0, <1>n, <1>q, <2>1, <2>2 DEF HeartbeatOK, LeaseOnRecord, ServerOK, Sent
    <2>4. \A r \in delayed : r.kind = "post" => r.owner # i
      BY <1>0, <1>5 DEF InvocationOK, LatePostOK
    <2>5. InvocationOK(i)'
      BY <1>0, <2>1, <2>2, <2>3, <2>4 DEF InvocationOK
    <2>6. QED
      BY <1>0, <2>1, <2>2, <2>5, StepOf
  <1>6. CASE (AcquireReread(i) /\ lockRec.owner # i) \/ AcquireRereadLost(i)
    <2>1. /\ pc' = [pc EXCEPT ![i] = "done"]
          /\ UNCHANGED <<now, lockRec, tombstone, delayed, unlocker, hb, ref>>
      BY <1>6 DEF AcquireReread, AcquireRereadLost
    <2>2. OthersIdle(i) /\ OwnRequests(i) /\ RecordStep /\ pc'[i] = "done"
      BY <1>n, <2>1 DEF OthersIdle, OwnRequests, RecordStep
    <2>3. HeartbeatOK(i)' /\ LeaseOnRecord(i)'
      BY <1>q, <2>1, <2>2 DEF HeartbeatOK, LeaseOnRecord, UnderLock, Sent
    <2>4. InvocationOK(i)'
      BY <1>0, <1>q, <2>1, <2>2, <2>3 DEF InvocationOK, LatePostOK
    <2>5. QED
      BY <1>0, <2>1, <2>2, <2>4, StepOf
  <1>7. QED
    BY <1>1, <1>2, <1>3, <1>4, <1>5, <1>6 DEF AcquireStep, AcquirePost, AcquireReread

\* The heartbeat steps of i.  Its PUT may reach the record of another process.
LEMMA HeartbeatLInv ==
  ASSUME LInv, NEW i \in Invocation, HeartbeatStep(i)
  PROVE  LInv'
  <1> USE DEF client, server, recovery
  <1>0. /\ TypeOK' /\ TypeOK /\ InvocationOK(i) /\ HeartbeatOK(i) /\ LeaseOnRecord(i)
        /\ ServerOK
        /\ hb \in [Invocation -> Heartbeat] /\ ref \in [Invocation -> Reference]
    BY HeartbeatType DEF LInv, TypeOK, InvocationOK
  <1>n. /\ LeaseDuration \in Nat /\ Minute \in Nat /\ Nobody \notin Invocation
        /\ ref[i].rev \in Nat /\ ref[i].leaseExpiresAt \in Nat
        /\ hb[i].rev \in Nat /\ hb[i].at \in Nat
        /\ lockRec.rev \in Nat /\ lockRec.leaseExpiresAt \in Nat /\ lockRec.until \in Nat
    BY <1>0, Numbers
  <1>u. pc' = pc /\ unlocker' = unlocker /\ now' = now /\ tombstone' = tombstone
    <2>1. pc' = pc /\ unlocker' = unlocker /\ tombstone' = tombstone
      BY <1>0, HeartbeatEffect
    <2>2. now' = now
      BY DEF HeartbeatStep, TickStart, TickJoin, MarkControlPlaneUnreachable, ConfirmStart,
             HeartbeatRead, HeartbeatReadLost, HeartbeatPut, HeartbeatPutLost, HeartbeatAnswer,
             HeartbeatAdjudicate, HeartbeatAdjudicateLost
    <2>3. QED
      BY <2>1, <2>2
  <1>p. hb[i].stage # "none" \/ pc[i] = "working"
          => /\ \A r \in delayed : r.kind = "post" => r.owner # i
             /\ pc[i] \notin {"idle", "acquiring", "acquireReread", "crashed"}
    BY <1>0 DEF InvocationOK, HeartbeatOK, LatePostOK, BeforeWork
  \* The client's part of a heartbeat changes while the record stays.
  <1>1. ASSUME NEW H \in Heartbeat, hb' = [hb EXCEPT ![i] = H],
               H.stage \in {"none", "read", "put", "lost"} \/ H.stage = hb[i].stage,
               \/ H.stage \notin Sent
               \/ H.rev = hb[i].rev /\ H.at = hb[i].at /\ hb[i].stage \in Sent
               \/ H.rev = ref[i].rev /\ H.stage = "put",
               hb[i].stage # "none" \/ pc[i] = "working",
               OwnRequests(i), \A r \in delayed' : r.kind = "post" => r \in delayed,
               UNCHANGED <<lockRec, ref>>
        PROVE  LInv'
    <2>1. hb'[i] = H /\ OthersIdle(i) /\ RecordStep
      BY <1>0, <1>1, <1>u DEF OthersIdle, RecordStep
    <2>2. HeartbeatOK(i)' /\ LeaseOnRecord(i)'
      BY <1>0, <1>n, <1>1, <1>u, <1>p, <2>1
      DEF HeartbeatOK, LeaseOnRecord, UnderLock, Sent, BeforeWork
    <2>3. \A r \in delayed' : r.kind = "post" => r.owner # i
      BY <1>1, <1>p
    <2>4. InvocationOK(i)'
      BY <1>0, <1>1, <1>u, <1>p, <2>2, <2>3 DEF InvocationOK
    <2>5. QED
      BY <1>0, <1>1, <1>u, <2>1, <2>4, StepOf
  <1>s. delayed' = delayed => OwnRequests(i)
    BY DEF OwnRequests
  <1>2. CASE (\E by \in {"timer", "main"} : TickStart(i, by)) \/ ConfirmStart(i)
    <2>1. PICK by \in {"timer", "main", "confirm"} : hb' = [hb EXCEPT ![i] = StartedHeartbeat(by)]
      BY <1>2 DEF TickStart, ConfirmStart
    <2>2. StartedHeartbeat(by) \in Heartbeat /\ StartedHeartbeat(by).stage = "read"
      BY DEF StartedHeartbeat, Heartbeat, Time
    <2>3. pc[i] = "working" /\ UNCHANGED <<lockRec, delayed, ref>>
      BY <1>2 DEF TickStart, ConfirmStart
    <2>4. QED
      BY <1>1, <1>s, <2>1, <2>2, <2>3 DEF Sent
  <1>3. CASE \/ HeartbeatRead(i) /\ ~FenceHolds(i)
             \/ HeartbeatReadLost(i)
             \/ HeartbeatPut(i) /\ ~HeartbeatAccepted(hb[i].rev)
             \/ HeartbeatAdjudicate(i) /\ ~HeartbeatRecognised(i)
             \/ HeartbeatAdjudicateLost(i)
    <2>1. /\ hb' = [hb EXCEPT ![i] = NoHeartbeat] /\ hb[i].stage # "none"
          /\ UNCHANGED <<lockRec, delayed, ref>>
      BY <1>3 DEF HeartbeatRead, HeartbeatReadLost, HeartbeatPut, HeartbeatAdjudicate,
                  HeartbeatAdjudicateLost, HeartbeatFailed
    <2>2. NoHeartbeat \in Heartbeat /\ NoHeartbeat.stage = "none"
      BY DEF NoHeartbeat, Heartbeat, Time
    <2>3. QED
      BY <1>1, <1>s, <2>1, <2>2 DEF Sent
  \* Only who waits changes.
  <1>4. CASE TickJoin(i) \/ MarkControlPlaneUnreachable(i)
    <2>1. PICK H \in Heartbeat : /\ hb' = [hb EXCEPT ![i] = H] /\ H.stage = hb[i].stage
                                 /\ H.rev = hb[i].rev /\ H.at = hb[i].at
      <3>1. CASE TickJoin(i)
        <4>1. hb'[i] \in Heartbeat /\ hb' = [hb EXCEPT ![i] = hb'[i]]
              /\ hb'[i].stage = hb[i].stage /\ hb'[i].rev = hb[i].rev /\ hb'[i].at = hb[i].at
          BY <1>0, <3>1 DEF TickJoin, Heartbeat
        <4>2. QED
          BY <4>1
      <3>2. CASE MarkControlPlaneUnreachable(i)
        <4>1. hb[i] \in Heartbeat /\ hb' = [hb EXCEPT ![i] = hb[i]]
          BY <1>0, <3>2 DEF MarkControlPlaneUnreachable
        <4>2. QED
          BY <4>1
      <3>3. QED
        BY <1>4, <3>1, <3>2
    <2>2. pc[i] = "working" /\ UNCHANGED <<lockRec, delayed, ref>>
      BY <1>4 DEF TickJoin, MarkControlPlaneUnreachable
    <2>3. \/ H.stage \notin Sent
          \/ H.rev = hb[i].rev /\ H.at = hb[i].at /\ hb[i].stage \in Sent
      BY <2>1
    <2>4. OwnRequests(i) /\ \A r \in delayed' : r.kind = "post" => r \in delayed
      BY <1>s, <2>2
    <2>5. QED
      BY <1>1, <2>1, <2>2, <2>3, <2>4
  \* The fence held: the PUT is about to be sent.
  <1>5. CASE HeartbeatRead(i) /\ FenceHolds(i)
    <2>1. PICK H : H = [stage |-> "put", by |-> hb[i].by, rev |-> ref[i].rev, at |-> now]
      OBVIOUS
    <2>2. /\ hb' = [hb EXCEPT ![i] = H] /\ hb[i].stage = "read"
          /\ UNCHANGED <<lockRec, delayed, ref>>
      BY <1>5, <2>1 DEF HeartbeatRead
    <2>3. H \in Heartbeat /\ H.stage = "put" /\ H.rev = ref[i].rev
      BY <1>0, <1>n, <2>1 DEF Heartbeat, TypeOK
    <2> HIDE <2>1
    <2>4. QED
      BY <1>1, <1>s, <2>2, <2>3
  \* The PUT is applied, to the record of whoever holds the lock.
  <1>6. ASSUME NEW g \in {"applied", "lost"}, hb[i].stage = "put",
               HeartbeatAccepted(hb[i].rev), ApplyHeartbeat(hb[i].rev, hb[i].at),
               hb' = [hb EXCEPT ![i].stage = g], UNCHANGED <<delayed, ref>>
        PROVE  LInv'
    <2>1. /\ hb'[i].stage = g /\ hb'[i].rev = hb[i].rev /\ hb'[i].at = hb[i].at
      BY <1>0, <1>6 DEF Heartbeat
    <2>2. /\ lockRec.owner # Nobody /\ lockRec.rev = hb[i].rev
          /\ lockRec' = LeaseRecord(lockRec.owner, lockRec.rev + 1, hb[i].at)
          /\ lockRec'.owner = lockRec.owner /\ lockRec'.rev = hb[i].rev + 1
          /\ lockRec'.until = hb[i].at + LeaseDuration
      BY <1>6, LeaseRecordParts DEF HeartbeatAccepted, ApplyHeartbeat
    <2>3. RecordStep /\ OthersIdle(i)
      BY <1>0, <1>n, <1>6, <1>u, <2>2 DEF RecordStep, Renewed, OthersIdle
    <2>4. HeartbeatOK(i)'
      BY <1>0, <1>n, <1>6, <1>u, <2>1, <2>2 DEF HeartbeatOK, Sent, BeforeWork
    <2>5. LeaseOnRecord(i)'
      BY <1>0, <1>n, <1>6, <1>u, <2>2 DEF LeaseOnRecord, UnderLock
    <2>6. InvocationOK(i)'
      BY <1>0, <1>6, <1>u, <1>p, <2>2, <2>4, <2>5 DEF InvocationOK
    <2>7. QED
      BY <1>0, <1>6, <1>s, <1>u, <2>3, <2>6, StepOf
  \* The PUT is dropped, or still on the wire.
  <1>7. CASE HeartbeatPutLost(i) /\ lockRec' = lockRec
    <2>1. PICK H \in Heartbeat : /\ hb' = [hb EXCEPT ![i] = H] /\ H.stage = "lost"
                                 /\ H.rev = hb[i].rev /\ H.at = hb[i].at
      <3>1. hb'[i] \in Heartbeat /\ hb' = [hb EXCEPT ![i] = hb'[i]]
            /\ hb'[i].stage = "lost" /\ hb'[i].rev = hb[i].rev /\ hb'[i].at = hb[i].at
        BY <1>0, <1>7 DEF HeartbeatPutLost, Heartbeat
      <3>2. QED
        BY <3>1
    <2>2. PICK q : q = [kind |-> "heartbeat", owner |-> i, rev |-> hb[i].rev, at |-> hb[i].at]
      OBVIOUS
    <2>3. /\ hb[i].stage = "put" /\ UNCHANGED <<lockRec, ref>>
          /\ (delayed' = delayed \/ delayed' = delayed \cup {q})
      BY <1>7, <2>2 DEF HeartbeatPutLost, Lost
    <2>4. q.kind = "heartbeat" /\ q.owner = i
      BY <2>2
    <2> HIDE <2>2
    <2>5. OwnRequests(i) /\ \A r \in delayed' : r.kind = "post" => r \in delayed
      BY <2>3, <2>4 DEF OwnRequests
    <2>6. hb[i].stage \in Sent
      BY <2>3 DEF Sent
    <2>7. QED
      BY <1>1, <2>1, <2>3, <2>5, <2>6
  \* The client learns that it was applied.
  <1>8. ASSUME hb[i].stage \in {"applied", "lost"}, HeartbeatSucceeded(i),
               hb[i].stage = "lost" => HeartbeatRecognised(i), UNCHANGED <<lockRec, delayed>>
        PROVE  LInv'
    <2>1. PICK R : R = [rev |-> hb[i].rev + 1, leaseExpiresAt |-> hb[i].at + LeaseDuration]
      OBVIOUS
    <2>2. ref' = [ref EXCEPT ![i] = R] /\ hb' = [hb EXCEPT ![i] = NoHeartbeat]
      BY <1>8, <2>1 DEF HeartbeatSucceeded
    <2>3. /\ hb'[i].stage = "none" /\ ref'[i].rev = hb[i].rev + 1
          /\ ref'[i].leaseExpiresAt = hb[i].at + LeaseDuration
          /\ OthersIdle(i) /\ RecordStep
      BY <1>0, <1>8, <1>u, <2>1, <2>2 DEF OthersIdle, RecordStep, NoHeartbeat
    <2> HIDE <2>1
    <2>4. lockRec.owner = i =>
            /\ hb[i].rev + 1 <= lockRec.rev
            /\ lockRec.rev = hb[i].rev + 1 => hb[i].at + LeaseDuration <= lockRec.until
      BY <1>0, <1>n, <1>8 DEF HeartbeatOK, HeartbeatRecognised, ServerOK, Sent
    <2>5. HeartbeatOK(i)' /\ LeaseOnRecord(i)'
      BY <1>8, <1>n, <2>3, <2>4 DEF HeartbeatOK, LeaseOnRecord, Sent
    <2>6. InvocationOK(i)'
      BY <1>0, <1>8, <1>u, <1>p, <2>5 DEF InvocationOK
    <2>7. QED
      BY <1>0, <1>8, <1>s, <1>u, <2>3, <2>6, StepOf
  <1>9. CASE HeartbeatPut(i) /\ HeartbeatAccepted(hb[i].rev)
    BY <1>6, <1>9 DEF HeartbeatPut
  <1>10. CASE HeartbeatPutLost(i)
    BY <1>6, <1>7, <1>10 DEF HeartbeatPutLost, Lost
  <1>11. CASE HeartbeatAnswer(i) \/ (HeartbeatAdjudicate(i) /\ HeartbeatRecognised(i))
    BY <1>8, <1>11 DEF HeartbeatAnswer, HeartbeatAdjudicate
  <1>12. QED
    BY <1>2, <1>3, <1>4, <1>5, <1>9, <1>10, <1>11 DEF HeartbeatStep

\* The steps of a release, and a crash.
LEMMA ReleaseLInv ==
  ASSUME LInv, NEW i \in Invocation, ReleaseStep(i) \/ Crash(i)
  PROVE  LInv'
  <1> USE DEF client, server, recovery
  <1>0. /\ TypeOK' /\ TypeOK /\ InvocationOK(i) /\ HeartbeatOK(i) /\ LeaseOnRecord(i)
        /\ hb \in [Invocation -> Heartbeat] /\ ref \in [Invocation -> Reference]
        /\ pc \in [Invocation -> Phase] /\ delayed \subseteq Request
    BY ReleaseType DEF LInv, TypeOK, InvocationOK
  <1>n. /\ Nobody \notin Invocation /\ lockRec.rev \in Nat
        /\ ref[i].rev \in Nat /\ hb[i].rev \in Nat
        /\ tombstone \in [Invocation -> {"none", "released", "forced"}]
    BY <1>0, Numbers
  <1>u. unlocker' = unlocker /\ now' = now
    BY DEF ReleaseStep, ReleaseBegin, ReleaseRead, ReleasePut, ReleasePutLost,
           ReleaseReread, ReleaseReadLost, ReleaseAdjudicate, Crash
  <1>p. pc[i] \notin {"acquireReread", "done", "crashed"} \/ hb[i].stage # "none"
          => \A r \in delayed : r.kind = "post" => r.owner # i
    BY <1>0 DEF InvocationOK, LatePostOK
  \* The process goes on, or ends, without touching the record.
  <1>1. ASSUME NEW p \in {"releaseRead", "releasePut", "releaseReread", "releaseRetry", "done",
                          "releaseAdjudicate"},
               pc' = [pc EXCEPT ![i] = p],
               pc[i] \in {"working", "releaseRead", "releasePut", "releaseReread",
                          "releaseRetry", "releaseAdjudicate"},
               p \notin {"done", "releaseAdjudicate"} => UnderLock(i) /\ pc[i] # "releaseRetry",
               \/ ref' = ref
               \/ /\ p = "releaseRetry" /\ lockRec.owner = i
                  /\ ref' = [ref EXCEPT ![i].rev = lockRec.rev],
               OwnRequests(i), \A r \in delayed' : r.kind = "post" => r \in delayed,
               UNCHANGED <<lockRec, tombstone, hb>>
        PROVE  LInv'
    <2>1. pc'[i] = p /\ OthersIdle(i) /\ RecordStep
      BY <1>0, <1>1 DEF OthersIdle, RecordStep
    <2>2. ref'[i] = ref[i] \/ (p = "releaseRetry" /\ lockRec.owner = i /\ ref'[i].rev = lockRec.rev)
      BY <1>0, <1>1 DEF Reference
    <2>3. HeartbeatOK(i)'
      BY <1>0, <1>n, <1>1, <2>1, <2>2 DEF HeartbeatOK, LeaseOnRecord, Sent, BeforeWork
    <2>4. LeaseOnRecord(i)'
      BY <1>0, <1>n, <1>1, <2>1, <2>2 DEF LeaseOnRecord, UnderLock
    <2>5. \A r \in delayed' : r.kind = "post" => r.owner # i
      BY <1>1, <1>p
    <2>6. InvocationOK(i)'
      BY <1>0, <1>1, <2>1, <2>3, <2>4, <2>5 DEF InvocationOK
    <2>7. QED
      BY <1>0, <1>1, <1>u, <2>1, <2>6, StepOf
  <1>s. delayed' = delayed => OwnRequests(i)
    BY DEF OwnRequests
  \* The release is applied.
  <1>2. ASSUME NEW p \in {"done", "releaseAdjudicate"}, pc' = [pc EXCEPT ![i] = p],
               pc[i] \in {"releasePut", "releaseRetry"}, lockRec.owner = i,
               ApplyRelease(i, "released"), UNCHANGED <<ref, hb, delayed>>
        PROVE  LInv'
    <2>1. pc'[i] = p /\ OthersIdle(i) /\ Closed(i) /\ lockRec'.owner = Nobody
      BY <1>0, <1>2 DEF OthersIdle, Closed, ApplyRelease, Vacant
    <2>2. RecordStep
      BY <2>1 DEF RecordStep
    <2>3. HeartbeatOK(i)' /\ LeaseOnRecord(i)'
      BY <1>0, <1>n, <1>2, <2>1 DEF HeartbeatOK, LeaseOnRecord, Sent, BeforeWork
    <2>4. InvocationOK(i)'
      BY <1>0, <1>n, <1>2, <1>p, <2>1, <2>3 DEF InvocationOK
    <2>5. QED
      BY <1>0, <1>2, <1>s, <1>u, <2>1, <2>2, <2>4, StepOf
  <1>3. CASE \/ ReleaseBegin(i) \/ ReleaseRead(i) \/ ReleaseReadLost(i) \/ ReleaseAdjudicate(i)
             \/ ReleaseReread(i)
    <2>1. PICK p \in {"releaseRead", "releasePut", "releaseRetry", "done"} :
                  pc' = [pc EXCEPT ![i] = p]
      BY <1>3 DEF ReleaseBegin, ReleaseRead, ReleaseReadLost, ReleaseAdjudicate, ReleaseReread
    <2>2. /\ pc[i] \in {"working", "releaseRead", "releaseReread", "releaseAdjudicate"}
          /\ p # "done" => UnderLock(i)
          /\ UNCHANGED <<lockRec, tombstone, hb, delayed>>
          /\ \/ ref' = ref
             \/ /\ p = "releaseRetry" /\ lockRec.owner = i
                /\ ref' = [ref EXCEPT ![i].rev = lockRec.rev]
      BY <1>0, <1>3, <2>1
      DEF ReleaseBegin, ReleaseRead, ReleaseReadLost, ReleaseAdjudicate, ReleaseReread, UnderLock
    <2>3. QED
      BY <1>1, <1>s, <2>1, <2>2
  <1>4. CASE ReleasePut(i)
    <2>1. CASE ReleaseAccepted(i, ref[i].rev)
      BY <1>2, <1>4, <2>1 DEF ReleasePut, ReleaseAccepted
    <2>2. CASE ~ReleaseAccepted(i, ref[i].rev)
      <3>1. PICK p \in {"releaseReread", "done"} : pc' = [pc EXCEPT ![i] = p]
        BY <1>4, <2>2 DEF ReleasePut
      <3>2. /\ pc[i] \in {"releasePut", "releaseRetry"}
            /\ p # "done" => UnderLock(i) /\ pc[i] # "releaseRetry"
            /\ UNCHANGED <<lockRec, tombstone, hb, ref, delayed>>
        BY <1>0, <1>4, <2>2, <3>1 DEF ReleasePut, UnderLock
      <3>3. QED
        BY <1>1, <1>s, <3>1, <3>2
    <2>3. QED
      BY <2>1, <2>2
  <1>5. CASE ReleasePutLost(i)
    <2>1. PICK q : q = [kind |-> "release", owner |-> i, rev |-> ref[i].rev, at |-> 0]
      OBVIOUS
    <2>2. /\ pc[i] \in {"releasePut", "releaseRetry"} /\ UNCHANGED <<hb, ref>>
          /\ pc' = [pc EXCEPT ![i] = "releaseAdjudicate"]
          /\ \/ (delayed' = delayed \/ delayed' = delayed \cup {q})
                /\ UNCHANGED <<lockRec, tombstone>>
             \/ lockRec.owner = i /\ ApplyRelease(i, "released") /\ UNCHANGED delayed
      BY <1>5, <2>1 DEF ReleasePutLost, Lost, ReleaseAccepted
    <2>3. q.kind = "release" /\ q.owner = i
      BY <2>1
    <2> HIDE <2>1
    <2>4. CASE (delayed' = delayed \/ delayed' = delayed \cup {q})
                /\ UNCHANGED <<lockRec, tombstone>>
      <3>1. OwnRequests(i) /\ \A r \in delayed' : r.kind = "post" => r \in delayed
        BY <2>3, <2>4 DEF OwnRequests
      <3>2. QED
        BY <1>1, <2>2, <2>4, <3>1
    <2>5. CASE lockRec.owner = i /\ ApplyRelease(i, "released") /\ UNCHANGED delayed
      BY <1>2, <2>2, <2>5
    <2>6. QED
      BY <2>2, <2>4, <2>5
  <1>6. CASE Crash(i)
    <2>1. PICK q : q = [kind |-> "heartbeat", owner |-> i, rev |-> hb[i].rev, at |-> hb[i].at]
      OBVIOUS
    <2>2. /\ pc[i] \notin {"idle", "done", "crashed"} /\ pc' = [pc EXCEPT ![i] = "crashed"]
          /\ delayed' = delayed \/ delayed' = delayed \cup {q}
          /\ hb' = [hb EXCEPT ![i] = NoHeartbeat] /\ ref' = [ref EXCEPT ![i] = NoReference]
          /\ UNCHANGED <<lockRec, tombstone>>
      BY <1>6, <2>1 DEF Crash
    <2>3. q.kind = "heartbeat" /\ q.owner = i
      BY <2>1
    <2> HIDE <2>1
    <2>4. /\ pc'[i] = "crashed" /\ hb'[i].stage = "none" /\ OthersIdle(i) /\ RecordStep
      BY <1>0, <2>2 DEF OthersIdle, RecordStep, NoHeartbeat
    <2>5. OwnRequests(i) /\ \A r \in delayed' : r.kind = "post" => r \in delayed
      BY <2>2, <2>3 DEF OwnRequests
    <2>6. HeartbeatOK(i)' /\ LeaseOnRecord(i)'
      BY <2>4 DEF HeartbeatOK, LeaseOnRecord, UnderLock, Sent
    <2>7. ASSUME NEW r \in delayed', r.kind = "post", r.owner = i PROVE LatePostOK(i)'
      <3>1. LatePostOK(i)
        BY <1>0, <2>5, <2>7 DEF InvocationOK
      <3>2. QED
        BY <2>2, <2>4, <3>1 DEF LatePostOK
    <2>8. InvocationOK(i)'
      BY <1>0, <2>2, <2>4, <2>6, <2>7 DEF InvocationOK
    <2>9. QED
      BY <1>0, <1>u, <2>4, <2>5, <2>8, StepOf
  <1>7. QED
    BY <1>3, <1>4, <1>5, <1>6 DEF ReleaseStep

\* The steps of an operator.
LEMMA UnlockLInv ==
  ASSUME LInv, NEW o \in Operator, UnlockStep(o)
  PROVE  LInv'
  <1> USE DEF client, server, recovery
  <1>0. /\ TypeOK' /\ TypeOK /\ OperatorsOK
        /\ unlocker[o].stage # "idle" => ExpiredAt(unlocker[o].owner, unlocker[o].rev)
        /\ unlocker \in [Operator -> Snapshot]
    <2>1. UnlockNamed
      BY DEF LInv, OperatorsOK, ExpiredAt, UnlockNamed
    <2>2. QED
      BY <2>1, UnlockType DEF LInv, OperatorsOK, TypeOK
  <1>n. now \in Nat /\ Nobody \notin Invocation /\ Minute \in Nat
        /\ lockRec.rev \in Nat /\ lockRec.leaseExpiresAt \in Nat
    BY <1>0, Numbers
  <1>u. pc' = pc /\ ref' = ref /\ hb' = hb /\ now' = now
    BY DEF UnlockStep, UnlockRead, StopConfirmed, StopNotConfirmed,
           UnlockRecheck, UnlockPut, UnlockPutLost, UnlockAdjudicate, UnlockAudit, UnlockAbort
  \* What the operators know after the step was true before it.
  <1>1. \A p \in Operator : unlocker'[p].stage # "idle"
             => ExpiredAt(unlocker'[p].owner, unlocker'[p].rev)
    <2>1. \A p \in Operator : p # o => unlocker'[p] = unlocker[p]
      BY <1>0 DEF UnlockStep, UnlockRead, StopConfirmed, StopNotConfirmed,
           UnlockRecheck, UnlockPut, UnlockPutLost, UnlockAdjudicate, UnlockAudit, UnlockAbort
    <2>2. CASE UnlockRead(o)
      <3>1. /\ lockRec.owner \in Invocation /\ ~LeaseStillActive
            /\ unlocker'[o].owner = lockRec.owner /\ unlocker'[o].rev = lockRec.rev
        BY <1>0, <2>2 DEF UnlockRead, TypeOK, LockRecord
      <3>2. lockRec.leaseExpiresAt + Minute <= now /\ lockRec.rev <= lockRec.rev
        BY <1>n, <3>1 DEF LeaseStillActive
      <3>3. ExpiredAt(unlocker'[o].owner, unlocker'[o].rev)
        BY <3>1, <3>2 DEF ExpiredAt
      <3>4. QED
        BY <1>0, <2>1, <3>3 DEF OperatorsOK
    <2>3. CASE ~UnlockRead(o)
      <3>1. \/ unlocker'[o].stage = "idle"
            \/ /\ unlocker[o].stage # "idle" /\ unlocker'[o].owner = unlocker[o].owner
               /\ unlocker'[o].rev = unlocker[o].rev
        BY <1>0, <2>3
        DEF UnlockStep, StopConfirmed, StopNotConfirmed, UnlockRecheck, UnlockPut, UnlockPutLost,
            UnlockAdjudicate, UnlockAudit, UnlockAbort, NoUnlock, Snapshot
      <3>2. unlocker'[o].stage # "idle" => ExpiredAt(unlocker'[o].owner, unlocker'[o].rev)
        BY <1>0, <3>1
      <3>3. QED
        BY <1>0, <2>1, <3>2 DEF OperatorsOK
    <2>4. QED
      BY <2>2, <2>3
  \* The record stays, or is closed by the PUT.
  <1>2. /\ RecordStep /\ lockRec'.owner \in {lockRec.owner, Nobody}
        /\ \A r \in delayed' : r \in delayed \/ (r.kind = "force" /\ ExpiredAt(r.owner, r.rev))
    <2>1. CASE UnlockPut(o) \/ UnlockPutLost(o)
      <3>1. PICK k \in Invocation : k = unlocker[o].owner
        BY <1>0, <2>1 DEF UnlockPut, UnlockPutLost, ExpiredAt
      <3>2. PICK q : q = [kind |-> "force", owner |-> unlocker[o].owner,
                          rev |-> unlocker[o].rev, at |-> 0]
        OBVIOUS
      <3>3. \/ ReleaseAccepted(k, unlocker[o].rev) /\ ApplyRelease(k, "forced")
               /\ delayed' = delayed
            \/ lockRec' = lockRec /\ tombstone' = tombstone
               /\ (delayed' = delayed \/ delayed' = delayed \cup {q})
        BY <2>1, <3>1, <3>2 DEF UnlockPut, UnlockPutLost, Lost
      <3>4. q.kind = "force" /\ ExpiredAt(q.owner, q.rev)
        BY <1>0, <2>1, <3>2 DEF UnlockPut, UnlockPutLost
      <3>5. ReleaseAccepted(k, unlocker[o].rev) /\ ApplyRelease(k, "forced")
              => Closed(k) /\ lockRec'.owner = Nobody
        BY DEF ReleaseAccepted, ApplyRelease, Closed, Vacant
      <3> HIDE <3>2
      <3>6. \A r \in delayed' : r \in delayed \/ r = q
        BY <3>3
      <3>7. \A r \in delayed' : r \in delayed \/ (r.kind = "force" /\ ExpiredAt(r.owner, r.rev))
        BY <3>4, <3>6
      <3>8. RecordStep /\ lockRec'.owner \in {lockRec.owner, Nobody}
        BY <3>3, <3>5 DEF RecordStep
      <3>9. QED
        BY <3>7, <3>8
    <2>2. CASE ~(UnlockPut(o) \/ UnlockPutLost(o))
      <3>1. lockRec' = lockRec /\ tombstone' = tombstone /\ delayed' = delayed
        BY <2>2 DEF UnlockStep, UnlockRead, StopConfirmed, StopNotConfirmed, UnlockRecheck,
                    UnlockAdjudicate, UnlockAudit, UnlockAbort
      <3>2. QED
        BY <3>1 DEF RecordStep
    <2>3. QED
      BY <2>1, <2>2
  <1>3. now <= now'
    BY <1>n, <1>u
  <1>4. QED
    BY <1>0, <1>1, <1>2, <1>3, <1>u, StepOfNone

\* A late POST is the first record of a process that has given up on it.
LEMMA LatePostLInv ==
  ASSUME LInv, TypeOK', NEW r \in delayed, r.kind = "post",
         delayed' = delayed \ {r}, PostAccepted, ApplyPost(r.owner, r.at),
         UNCHANGED <<now, unlocker, pc, ref, hb>>
  PROVE  LInv'
  <1>1. PICK i \in Invocation : i = r.owner
    BY DEF LInv, TypeOK, Request
  <1>2. /\ TypeOK /\ InvocationOK(i) /\ LatePostOK(i) /\ r.at \in Nat
    BY <1>1 DEF LInv, InvocationOK, TypeOK, Request, Time
  <1>3. /\ lockRec.owner = Nobody /\ tombstone[i] = "none" /\ lockRec'.owner = i
        /\ lockRec' = LeaseRecord(i, 1, r.at) /\ tombstone' = tombstone
    BY <1>1, <1>2, LeaseRecordParts DEF PostAccepted, ApplyPost, LatePostOK
  <1>4. RecordStep /\ OthersIdle(i) /\ OwnRequests(i)
    BY <1>2, <1>3 DEF RecordStep, Posted, OthersIdle, OwnRequests
  <1>5. HeartbeatOK(i)' /\ LeaseOnRecord(i)'
    BY <1>2 DEF LatePostOK, HeartbeatOK, LeaseOnRecord, UnderLock, Sent
  <1>6. \A s \in delayed' : s.kind = "post" => s.owner # i
    BY <1>1 DEF LInv, ServerOK
  <1>7. InvocationOK(i)'
    BY <1>2, <1>3, <1>5, <1>6 DEF InvocationOK, LatePostOK
  <1>8. QED
    BY <1>4, <1>7, StepOf

\* Requests that arrive late, and the clock.
LEMMA DelayedLInv ==
  ASSUME LInv, DelayedArrival \/ Tick
  PROVE  LInv'
  <1> USE DEF client, server, recovery
  <1>0. TypeOK' /\ TypeOK /\ OperatorsOK /\ Nobody \notin Invocation /\ now \in Nat
        /\ \A o \in Operator : unlocker[o].stage # "idle"
             => ExpiredAt(unlocker[o].owner, unlocker[o].rev)
    BY DelayedType, Numbers DEF LInv, OperatorsOK
  <1>1. CASE Tick
    <2>1. now <= now' /\ UNCHANGED <<lockRec, tombstone, delayed, pc, ref, hb, unlocker>>
      BY <1>0, <1>1 DEF Tick
    <2>2. RecordStep
      BY <2>1 DEF RecordStep
    <2>3. QED
      BY <1>0, <2>1, <2>2, StepOfNone
  <1>2. CASE DelayedArrival
    <2>1. PICK r \in delayed :
        /\ delayed' = delayed \ {r}
        /\ \/ /\ r.kind = "post" /\ PostAccepted
              /\ ApplyPost(r.owner, r.at)
           \/ /\ r.kind = "heartbeat" /\ HeartbeatAccepted(r.rev)
              /\ ApplyHeartbeat(r.rev, r.at)
           \/ /\ ReleaseAccepted(r.owner, r.rev)
              /\ ApplyRelease(r.owner, "released") \/ ApplyRelease(r.owner, "forced")
           \/ UNCHANGED <<lockRec, tombstone>>
        /\ UNCHANGED <<now, pc, ref, hb, unlocker>>
      BY <1>2 DEF DelayedArrival
    <2>2. r.owner \in Invocation /\ r.at \in Nat /\ now <= now'
      BY <1>0, <2>1, Numbers
    <2>3. CASE r.kind = "post" /\ PostAccepted /\ ApplyPost(r.owner, r.at)
      BY <1>0, <2>1, <2>3, LatePostLInv
    <2>4. CASE r.kind = "heartbeat" /\ HeartbeatAccepted(r.rev) /\ ApplyHeartbeat(r.rev, r.at)
      <3>1. RecordStep /\ lockRec'.owner = lockRec.owner
        BY <2>2, <2>4, LeaseRecordParts
        DEF RecordStep, Renewed, HeartbeatAccepted, ApplyHeartbeat
      <3>2. QED
        BY <1>0, <2>1, <2>2, <3>1, StepOfNone
    <2>5. CASE /\ ReleaseAccepted(r.owner, r.rev)
               /\ ApplyRelease(r.owner, "released") \/ ApplyRelease(r.owner, "forced")
      <3>1. RecordStep /\ lockRec'.owner = Nobody
        BY <2>2, <2>5 DEF RecordStep, Closed, ReleaseAccepted, ApplyRelease, Vacant
      <3>2. QED
        BY <1>0, <2>1, <2>2, <3>1, StepOfNone
    <2>6. CASE UNCHANGED <<lockRec, tombstone>>
      <3>1. RecordStep
        BY <2>6 DEF RecordStep
      <3>2. QED
        BY <1>0, <2>1, <2>2, <2>6, <3>1, StepOfNone
    <2>7. QED
      BY <2>1, <2>3, <2>4, <2>5, <2>6
  <1>3. QED
    BY <1>1, <1>2

\* Nobody counts on a lease at first.
LEMMA InitLInv == Init => LInv
  <1> SUFFICES ASSUME Init PROVE LInv
    OBVIOUS
  <1> USE ConstantsAssumption
  <1>1. TypeOK
    BY InitIInv DEF IInv
  <1>2. ServerOK /\ OperatorsOK
    BY DEF Init, ServerOK, OperatorsOK, Vacant, NoUnlock
  <1>3. ASSUME NEW i \in Invocation PROVE InvocationOK(i)
    BY DEF Init, InvocationOK, HeartbeatOK, LeaseOnRecord, UnderLock, Sent, BeforeWork,
           Vacant, NoReference, NoHeartbeat
  <1>4. QED
    BY <1>1, <1>2, <1>3 DEF LInv

\* Every step keeps the invariant.
LEMMA NextLInv ==
  ASSUME LInv, [Next]_vars
  PROVE  LInv'
  <1>1. CASE UNCHANGED vars
    <2>1. UNCHANGED <<now, lockRec, tombstone, delayed, faults, pc, ref, monitor, hb,
                      unlocker, audited>>
      BY <1>1 DEF vars
    <2>2. TypeOK' /\ now <= now' /\ RecordStep
      BY <2>1, Numbers DEF LInv, TypeOK, RecordStep
    <2>3. QED
      BY <2>1, <2>2, StepOfNone DEF LInv, OperatorsOK
  <1>2. QED
    BY <1>1, AcquireLInv, HeartbeatLInv, ReleaseLInv, UnlockLInv, DelayedLInv DEF Next

\* What forces a lock open: the PUT of an operator, at once or late.
LEMMA ForcedBy ==
  ASSUME TypeOK, [Next]_vars, NEW i \in Invocation,
         tombstone[i] # "forced", tombstone'[i] = "forced"
  PROVE  \/ \E o \in Operator : /\ unlocker[o].stage = "put" /\ unlocker[o].owner = i
                                /\ ReleaseAccepted(i, unlocker[o].rev)
         \/ \E r \in delayed : /\ r.kind = "force" /\ r.owner = i
                               /\ ReleaseAccepted(i, r.rev)
  <1> USE DEF client, server, recovery
  <1>0. tombstone \in [Invocation -> {"none", "released", "forced"}]
    BY DEF TypeOK
  <1>1. \A w : ApplyRelease(w, "forced") => w = i
    BY <1>0 DEF ApplyRelease
  <1>2. tombstone' # tombstone
    OBVIOUS
  <1>3. \A w : tombstone' # [tombstone EXCEPT ![w] = "released"]
    BY <1>0
  <1>4. ASSUME NEW j \in Invocation, AcquireStep(j) \/ HeartbeatStep(j) \/ Crash(j)
        PROVE  FALSE
    <2>1. AcquireStep(j) => tombstone' = tombstone
      BY DEF AcquireStep, AcquireBegin, AcquirePost, AcquirePostLost, AcquireReread,
             AcquireRereadLost, Lost, ApplyPost
    <2>2. HeartbeatStep(j) => tombstone' = tombstone
      BY HeartbeatEffect
    <2>3. Crash(j) => tombstone' = tombstone
      BY DEF Crash
    <2>4. QED
      BY <1>2, <1>4, <2>1, <2>2, <2>3
  <1>5. ASSUME NEW j \in Invocation, ReleaseStep(j) PROVE FALSE
    <2>1. tombstone' = tombstone \/ tombstone' = [tombstone EXCEPT ![j] = "released"]
      BY <1>5 DEF ReleaseStep, ReleaseBegin, ReleaseRead, ReleasePut, ReleasePutLost,
                  ReleaseReread, ReleaseReadLost, ReleaseAdjudicate, Lost, ApplyRelease
    <2>2. QED
      BY <1>2, <1>3, <2>1
  <1>6. ASSUME NEW o \in Operator, UnlockStep(o)
        PROVE  /\ unlocker[o].stage = "put" /\ unlocker[o].owner = i
               /\ ReleaseAccepted(i, unlocker[o].rev)
    <2>1. \/ tombstone' = tombstone
          \/ /\ unlocker[o].stage = "put"
             /\ ReleaseAccepted(unlocker[o].owner, unlocker[o].rev)
             /\ ApplyRelease(unlocker[o].owner, "forced")
      BY <1>6 DEF UnlockStep, UnlockRead, StopConfirmed, StopNotConfirmed, UnlockRecheck,
                  UnlockPut, UnlockPutLost, UnlockAdjudicate, UnlockAudit, UnlockAbort, Lost
    <2>2. QED
      BY <1>1, <1>2, <2>1
  <1>7. CASE DelayedArrival
    <2>1. PICK r \in delayed :
          \/ tombstone' = tombstone
          \/ tombstone' = [tombstone EXCEPT ![r.owner] = "released"]
          \/ /\ r.kind = "force" /\ ReleaseAccepted(r.owner, r.rev)
             /\ ApplyRelease(r.owner, "forced")
      BY <1>7 DEF DelayedArrival, ApplyPost, ApplyHeartbeat, ApplyRelease
    <2>2. QED
      BY <1>1, <1>2, <1>3, <2>1
  <1>8. ~Tick /\ ~UNCHANGED vars
    BY <1>2 DEF Tick, vars
  <1>9. QED
    BY <1>4, <1>5, <1>6, <1>7, <1>8 DEF Next

\* A forced release finds the lease that the record grants run out.
LEMMA ForcedAfterExpiry ==
  ASSUME LInv, [Next]_vars, NEW i \in Invocation,
         tombstone[i] # "forced", tombstone'[i] = "forced"
  PROVE  lockRec.owner = i /\ now >= lockRec.until
  <1>1. TypeOK /\ ServerOK /\ OperatorsOK
    BY DEF LInv
  <1>2. lockRec.owner = i /\ lockRec.leaseExpiresAt + Minute <= now
    BY <1>1, ForcedBy DEF OperatorsOK, ExpiredAt, ReleaseAccepted
  <1>3. lockRec.until < lockRec.leaseExpiresAt + Minute
    BY <1>1 DEF ServerOK
  <1>4. QED
    BY <1>1, <1>2, <1>3, Numbers

\* A lock is forced open only after the exact end of the lease that the latest
\* write of its record granted, for every number of processes and operators,
\* whoever confirms stops and however wrongly, and whatever is lost or late:
\* the minute added to the truncated expiry and the revision of the PUT see to
\* it (forceUnlockNetwork, LEASE_STILL_ACTIVE).
THEOREM LeaseRunsOut == Spec => ForcedOnlyAfterLease
  <1>1. Init => LInv
    BY InitLInv
  <1>2. LInv /\ [Next]_vars => LInv'
    BY NextLInv
  <1>3. LInv /\ [Next]_vars
          => [\A i \in Invocation :
                tombstone[i] # "forced" /\ tombstone'[i] = "forced"
                  => now >= lockRec.until]_vars
    BY ForcedAfterExpiry
  <1>4. QED
    BY <1>1, <1>2, <1>3, PTL DEF Spec, ForcedOnlyAfterLease

\* The owner's side of it.  A process at work whose fence would hold, because
\* the record bears the revision it knows, is not forced open before the exact
\* end of the lease it counts on, even when its stop was confirmed by mistake.
\* At another revision it may be: a heartbeat that another process sent by key
\* and revision has reached the record and shortened its lease (heartbeat,
\* assertFence).
FencedLeaseIsKept ==
    [][\A i \in Invocation :
          (/\ tombstone[i] # "forced" /\ tombstone'[i] = "forced"
           /\ UnderLock(i) /\ pc[i] # "releaseRetry" /\ FenceHolds(i))
             => now >= ref[i].leaseExpiresAt]_vars

\* For any number of processes, of which any may be taken for stopped by
\* mistake, FencedLeaseIsKept holds: no heartbeat reaches a record without
\* moving its revision (heartbeat, forceUnlockNetwork).
THEOREM FencedLeases == Spec => FencedLeaseIsKept
  <1>1. Init => LInv
    BY InitLInv
  <1>2. LInv /\ [Next]_vars => LInv'
    BY NextLInv
  <1>3. LInv /\ [Next]_vars
          => [\A i \in Invocation :
                (/\ tombstone[i] # "forced" /\ tombstone'[i] = "forced"
                 /\ UnderLock(i) /\ pc[i] # "releaseRetry" /\ FenceHolds(i))
                   => now >= ref[i].leaseExpiresAt]_vars
    <2> SUFFICES ASSUME LInv, [Next]_vars, NEW i \in Invocation,
                        tombstone[i] # "forced", tombstone'[i] = "forced",
                        UnderLock(i), pc[i] # "releaseRetry", FenceHolds(i)
                 PROVE  now >= ref[i].leaseExpiresAt
      OBVIOUS
    <2>1. now >= lockRec.until
      BY ForcedAfterExpiry
    <2>2. ref[i].leaseExpiresAt <= lockRec.until
      BY DEF LInv, InvocationOK, LeaseOnRecord, FenceHolds
    <2>3. QED
      BY <2>1, <2>2, Numbers DEF LInv
  <1>4. QED
    BY <1>1, <1>2, <1>3, PTL DEF Spec, FencedLeaseIsKept
=============================================================================
