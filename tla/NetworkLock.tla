---------------------------- MODULE NetworkLock ----------------------------
(***************************************************************************)
(* The Network lock of one profile and network: a single kintone record    *)
(* with the unique record_key LOCK:<key>, a renewable lease on it, the     *)
(* CLI invocations that acquire, heartbeat and release it                  *)
(* (persistence/network-lock.ts), and the operators that force it open     *)
(* (persistence/network-lock-recovery.ts).                                 *)
(*                                                                         *)
(* Every HTTP call is a step of its own at the server.  The answer of a    *)
(* heartbeat PUT is a further step of the client, because the release of   *)
(* the same process may run in between.  A call may fail in transport:     *)
(* the request was dropped, or applied and its answer lost, or is still on *)
(* the wire and applied later (`delayed`).                                 *)
(*                                                                         *)
(* A lease token is a fresh uuid and an invocation acquires once, so the   *)
(* invocation stands for its token.  Time is counted in units of which     *)
(* Minute make one minute; kintone DATETIME fields keep whole minutes.     *)
(***************************************************************************)
EXTENDS Integers, FiniteSets

CONSTANTS
    Invocation,     \* CLI processes that run or archive a Run of the network
    Operator,       \* force-unlock-network processes
    Nobody,         \* the owner of an absent lock record
    LeaseDuration,  \* lease_duration_sec
    Minute,         \* the truncation of a DATETIME field, and the allowance for it
    MistakenStops,  \* TRUE: a manual stop confirmation may be wrong
    Horizon,        \* bound: no lease is taken or renewed after this time
    MaxTime,        \* bound: the clock stops here
    MaxRev,         \* bound: no heartbeat starts from a revision as high as this
    MaxFaults       \* bound: the number of transport failures

ASSUME ConstantsAssumption ==
    /\ Nobody \notin Invocation
    /\ LeaseDuration \in Nat \ {0}
    /\ Minute \in Nat \ {0}
    /\ MistakenStops \in BOOLEAN
    /\ Horizon \in Nat
    /\ MaxTime \in Nat
    /\ MaxRev \in Nat
    /\ MaxFaults \in Nat

VARIABLES
    now,        \* the clock
    lockRec,    \* the record with record_key LOCK:<key>; owner Nobody when absent
    tombstone,  \* the LOCKDONE:<token> record each lock record becomes
    delayed,    \* writes whose sender saw a transport error and that arrive later
    faults,     \* transport failures so far
    pc,         \* the main thread of each invocation
    ref,        \* its NetworkLockReference
    monitor,    \* its LeaseMonitor state
    hb,         \* its heartbeat in flight
    unlocker,   \* each forceUnlockNetwork call in progress
    audited     \* invocations whose forced release has its operation audit

vars == <<now, lockRec, tombstone, delayed, faults, pc, ref, monitor, hb,
          unlocker, audited>>
client == <<pc, ref, monitor, hb>>
server == <<lockRec, tombstone, delayed>>
recovery == <<unlocker, audited>>

-----------------------------------------------------------------------------
(* Types. *)

Time == Nat
\* `until' is history, which no process reads: the exact end of the lease that
\* the last write of the record granted.
LockRecord == [owner : Invocation \cup {Nobody}, rev : Nat,
               heartbeatAt : Time, leaseExpiresAt : Time, until : Time]
Phase == {"idle", "acquiring", "acquireReread", "working", "releaseRead",
          "releasePut", "releaseReread", "releaseRetry", "releaseAdjudicate",
          "done", "crashed"}
Reference == [rev : Nat, leaseExpiresAt : Time]
MonitorState == {"HELD", "LEASE_UNCERTAIN", "FINAL_WRITE_CONFIRMED"}
Heartbeat == [stage : {"none", "read", "put", "applied", "lost"},
              by : {"timer", "main", "confirm"}, rev : Nat, at : Time]
Request == [kind : {"post", "heartbeat", "release", "force"},
            owner : Invocation, rev : Nat, at : Time]
Snapshot == [stage : {"idle", "confirm", "recheck", "put", "adjudicate", "audit"},
             owner : Invocation \cup {Nobody}, rev : Nat, heartbeatAt : Time]

TypeOK ==
    /\ now \in Time
    /\ lockRec \in LockRecord
    /\ tombstone \in [Invocation -> {"none", "released", "forced"}]
    /\ delayed \subseteq Request
    /\ faults \in Nat
    /\ pc \in [Invocation -> Phase]
    /\ ref \in [Invocation -> Reference]
    /\ monitor \in [Invocation -> MonitorState]
    /\ hb \in [Invocation -> Heartbeat]
    /\ unlocker \in [Operator -> Snapshot]
    /\ audited \subseteq Invocation

-----------------------------------------------------------------------------
(* The kintone record: what a DATETIME keeps and what a write does.        *)


\* Faulty variant: a whole minute is taken off instead of its fraction.
DatetimeMinusMinute(t) == t - Minute

\* A DATETIME field keeps the minute of the time written to it.
Datetime(t) == t - (t % Minute)

Vacant == [owner |-> Nobody, rev |-> 0, heartbeatAt |-> 0, leaseExpiresAt |-> 0,
           until |-> 0]

\* The lock record after owner i wrote heartbeat time t at revision r.
LeaseRecord(i, r, t) ==
    [owner |-> i, rev |-> r, heartbeatAt |-> Datetime(t),
     leaseExpiresAt |-> Datetime(t + LeaseDuration),
     until |-> t + LeaseDuration]

NoHeartbeat == [stage |-> "none", by |-> "timer", rev |-> 0, at |-> 0]
NoReference == [rev |-> 0, leaseExpiresAt |-> 0]
NoUnlock == [stage |-> "idle", owner |-> Nobody, rev |-> 0, heartbeatAt |-> 0]

\* POST: the unique record_key admits the record only when there is none.
PostAccepted == lockRec.owner = Nobody
ApplyPost(i, t) == lockRec' = LeaseRecord(i, 1, t) /\ UNCHANGED tombstone

\* The heartbeat PUT names the record by its record_key and the revision:
\* whoever's record is there is updated, its owner and token stay.
HeartbeatAccepted(r) == lockRec.owner # Nobody /\ lockRec.rev = r
ApplyHeartbeat(r, t) ==
    /\ lockRec' = LeaseRecord(lockRec.owner, r + 1, t)
    /\ UNCHANGED tombstone

\* Faulty variant: the release PUT names the record by its record_key.
ReleaseAcceptedByKey(i, r) == lockRec.owner # Nobody /\ lockRec.rev = r

\* The release PUT names the record by its $id, hence owner i's own record.
ReleaseAccepted(i, r) == lockRec.owner = i /\ lockRec.rev = r
ApplyRelease(i, how) ==
    /\ lockRec' = Vacant
    /\ tombstone' = [tombstone EXCEPT ![i] = how]

Fault == faults < MaxFaults /\ faults' = faults + 1

\* A request that arrives after its sender gave up on it.
DelayedArrival ==
    \E r \in delayed :
        /\ delayed' = delayed \ {r}
        /\ \/ /\ r.kind = "post" /\ PostAccepted
              /\ ApplyPost(r.owner, r.at)
           \/ /\ r.kind = "heartbeat" /\ HeartbeatAccepted(r.rev)
              /\ ApplyHeartbeat(r.rev, r.at)
           \/ /\ r.kind = "release" /\ ReleaseAccepted(r.owner, r.rev)
              /\ ApplyRelease(r.owner, "released")
           \/ /\ r.kind = "force" /\ ReleaseAccepted(r.owner, r.rev)
              /\ ApplyRelease(r.owner, "forced")
           \/ /\ \/ r.kind = "post" /\ ~PostAccepted
                 \/ r.kind = "heartbeat" /\ ~HeartbeatAccepted(r.rev)
                 \/ r.kind \in {"release", "force"}
                    /\ ~ReleaseAccepted(r.owner, r.rev)
              /\ UNCHANGED <<lockRec, tombstone>>
        /\ UNCHANGED <<now, faults, client, recovery>>

\* A write whose answer is a transport error: dropped, still on the wire, or
\* (when the server accepts it) applied.
Lost(request, accepted, apply) ==
    /\ Fault
    /\ \/ UNCHANGED server
       \/ delayed' = delayed \cup {request} /\ UNCHANGED <<lockRec, tombstone>>
       \/ accepted /\ apply /\ UNCHANGED delayed

-----------------------------------------------------------------------------
(* NetworkLockManager.acquire *)

AcquireBegin(i) ==
    /\ pc[i] = "idle"
    /\ now <= Horizon
    /\ pc' = [pc EXCEPT ![i] = "acquiring"]
    /\ ref' = [ref EXCEPT ![i] = [rev |-> 1, leaseExpiresAt |-> now + LeaseDuration]]
    /\ UNCHANGED <<now, faults, server, monitor, hb, recovery>>

AcquiredAt(i) == ref[i].leaseExpiresAt - LeaseDuration

AcquirePost(i) ==
    /\ pc[i] = "acquiring"
    /\ \/ /\ PostAccepted
          /\ ApplyPost(i, AcquiredAt(i))
          /\ pc' = [pc EXCEPT ![i] = "working"]
       \/ /\ ~PostAccepted                       \* CB_VA01: the key exists
          /\ pc' = [pc EXCEPT ![i] = "acquireReread"]
          /\ UNCHANGED <<lockRec, tombstone>>
    /\ UNCHANGED <<now, faults, delayed, ref, monitor, hb, recovery>>

AcquirePostLost(i) ==
    /\ pc[i] = "acquiring"
    /\ Lost([kind |-> "post", owner |-> i, rev |-> 0, at |-> AcquiredAt(i)],
            PostAccepted, ApplyPost(i, AcquiredAt(i)))
    /\ pc' = [pc EXCEPT ![i] = "acquireReread"]
    /\ UNCHANGED <<now, ref, monitor, hb, recovery>>

\* getUniqueAfterAcquireFailure: its own token on the record means it won;
\* another token is LOCK_CONFLICT, no record is LOCK_UNAVAILABLE.
AcquireReread(i) ==
    /\ pc[i] = "acquireReread"
    /\ \/ /\ lockRec.owner = i
          /\ pc' = [pc EXCEPT ![i] = "working"]
          /\ ref' = [ref EXCEPT ![i] =
                        [rev |-> lockRec.rev,
                         leaseExpiresAt |-> lockRec.leaseExpiresAt]]
       \/ /\ lockRec.owner # i
          /\ pc' = [pc EXCEPT ![i] = "done"]
          /\ UNCHANGED ref
    /\ UNCHANGED <<now, faults, server, monitor, hb, recovery>>

AcquireRereadLost(i) ==
    /\ pc[i] = "acquireReread"
    /\ Fault
    /\ pc' = [pc EXCEPT ![i] = "done"]
    /\ UNCHANGED <<now, server, ref, monitor, hb, recovery>>

-----------------------------------------------------------------------------
(* NetworkLockManager.heartbeat under LeaseMonitor.  At most one heartbeat *)
(* is in flight: tick() shares it and confirmLeaseForFinalWrite waits.     *)

Idle(i) == hb[i].stage = "none"
StartedHeartbeat(by) == [stage |-> "read", by |-> by, rev |-> 0, at |-> 0]

\* The timer or the main thread starts a tick; performTick acts in HELD only.
TickStart(i, by) ==
    /\ pc[i] = "working" /\ monitor[i] = "HELD" /\ Idle(i)
    /\ by \in {"timer", "main"}
    /\ now <= Horizon /\ ref[i].rev < MaxRev
    /\ hb' = [hb EXCEPT ![i] = StartedHeartbeat(by)]
    /\ UNCHANGED <<now, faults, server, pc, ref, monitor, recovery>>

\* The main thread joins the tick the timer started.
TickJoin(i) ==
    /\ pc[i] = "working" /\ ~Idle(i) /\ hb[i].by = "timer"
    /\ hb' = [hb EXCEPT ![i].by = "main"]
    /\ UNCHANGED <<now, faults, server, pc, ref, monitor, recovery>>

\* A control-plane operation failed in transport.
MarkControlPlaneUnreachable(i) ==
    /\ pc[i] = "working" /\ (Idle(i) \/ hb[i].by = "timer")
    /\ monitor[i] # "LEASE_UNCERTAIN"
    /\ monitor' = [monitor EXCEPT ![i] = "LEASE_UNCERTAIN"]
    /\ UNCHANGED <<now, faults, server, pc, ref, hb, recovery>>

ConfirmStart(i) ==
    /\ pc[i] = "working" /\ monitor[i] = "LEASE_UNCERTAIN" /\ Idle(i)
    /\ now <= Horizon /\ ref[i].rev < MaxRev
    /\ hb' = [hb EXCEPT ![i] = StartedHeartbeat("confirm")]
    /\ UNCHANGED <<now, faults, server, pc, ref, monitor, recovery>>

\* What a failed heartbeat does to the monitor: a lost fence always ends
\* HELD, an unavailable lock does when a threshold is reached (LeaseMonitor
\* says when).
HeartbeatFailed(i, fenceLost) ==
    /\ hb' = [hb EXCEPT ![i] = NoHeartbeat]
    /\ IF hb[i].by = "confirm" THEN UNCHANGED monitor
       ELSE \E m \in {monitor[i], "LEASE_UNCERTAIN"} :
                /\ fenceLost => m = "LEASE_UNCERTAIN"
                /\ monitor' = [monitor EXCEPT ![i] = m]

\* getUnique and assertFence.
FenceHolds(i) == lockRec.owner = i /\ lockRec.rev = ref[i].rev

HeartbeatRead(i) ==
    /\ hb[i].stage = "read" /\ pc[i] # "crashed"
    /\ \/ /\ FenceHolds(i)
          /\ hb' = [hb EXCEPT ![i] = [stage |-> "put", by |-> hb[i].by,
                                      rev |-> ref[i].rev, at |-> now]]
          /\ UNCHANGED monitor
       \/ /\ ~FenceHolds(i)
          /\ HeartbeatFailed(i, lockRec.owner # Nobody)
    /\ UNCHANGED <<now, faults, server, pc, ref, recovery>>

HeartbeatReadLost(i) ==
    /\ hb[i].stage = "read" /\ pc[i] # "crashed"
    /\ Fault
    /\ HeartbeatFailed(i, FALSE)
    /\ UNCHANGED <<now, server, pc, ref, recovery>>

\* The PUT at the server.  A refused revision is answered 409, or 400 with
\* GAIA_DA02, which the lock does not treat as a conflict; a missing record 404.
HeartbeatPut(i) ==
    /\ hb[i].stage = "put" /\ pc[i] # "crashed"
    /\ \/ /\ HeartbeatAccepted(hb[i].rev)
          /\ ApplyHeartbeat(hb[i].rev, hb[i].at)
          /\ hb' = [hb EXCEPT ![i].stage = "applied"]
          /\ UNCHANGED monitor
       \/ /\ ~HeartbeatAccepted(hb[i].rev)
          /\ \E conflict \in BOOLEAN :
                HeartbeatFailed(i, conflict /\ lockRec.owner # Nobody)
          /\ UNCHANGED <<lockRec, tombstone>>
    /\ UNCHANGED <<now, faults, delayed, pc, ref, recovery>>

HeartbeatPutLost(i) ==
    /\ hb[i].stage = "put" /\ pc[i] # "crashed"
    /\ Lost([kind |-> "heartbeat", owner |-> i, rev |-> hb[i].rev, at |-> hb[i].at],
            HeartbeatAccepted(hb[i].rev), ApplyHeartbeat(hb[i].rev, hb[i].at))
    /\ hb' = [hb EXCEPT ![i].stage = "lost"]
    /\ UNCHANGED <<now, pc, ref, monitor, recovery>>

\* The reference and the monitor after a heartbeat known to be applied.
HeartbeatSucceeded(i) ==
    /\ ref' = [ref EXCEPT ![i] = [rev |-> hb[i].rev + 1,
                                  leaseExpiresAt |-> hb[i].at + LeaseDuration]]
    /\ monitor' = IF hb[i].by = "confirm"
                  THEN [monitor EXCEPT ![i] = "FINAL_WRITE_CONFIRMED"]
                  ELSE monitor
    /\ hb' = [hb EXCEPT ![i] = NoHeartbeat]

HeartbeatAnswer(i) ==
    /\ hb[i].stage = "applied" /\ pc[i] # "crashed"
    /\ HeartbeatSucceeded(i)
    /\ UNCHANGED <<now, faults, server, pc, recovery>>

\* The re-read after a transport error recognises the write by its token, its
\* revision and the DATETIME texts, which hold whole minutes.
HeartbeatRecognised(i) ==
    /\ lockRec.owner = i
    /\ lockRec.rev = ref[i].rev + 1
    /\ lockRec.heartbeatAt = hb[i].at
    /\ lockRec.leaseExpiresAt = hb[i].at + LeaseDuration

HeartbeatAdjudicate(i) ==
    /\ hb[i].stage = "lost" /\ pc[i] # "crashed"
    /\ \/ HeartbeatRecognised(i) /\ HeartbeatSucceeded(i)
       \/ ~HeartbeatRecognised(i) /\ HeartbeatFailed(i, FALSE) /\ UNCHANGED ref
    /\ UNCHANGED <<now, faults, server, pc, recovery>>

HeartbeatAdjudicateLost(i) ==
    /\ hb[i].stage = "lost" /\ pc[i] # "crashed"
    /\ Fault
    /\ HeartbeatFailed(i, FALSE)
    /\ UNCHANGED <<now, server, pc, ref, recovery>>

-----------------------------------------------------------------------------
(* NetworkLockManager.release, after monitor.stop(): no tick starts any    *)
(* more, but one in flight is not awaited.                                 *)

MainBlocked(i) == ~Idle(i) /\ hb[i].by \in {"main", "confirm"}

ReleaseBegin(i) ==
    /\ pc[i] = "working" /\ ~MainBlocked(i)
    /\ pc' = [pc EXCEPT ![i] = "releaseRead"]
    /\ UNCHANGED <<now, faults, server, ref, monitor, hb, recovery>>

ReleaseRead(i) ==
    /\ pc[i] = "releaseRead"
    /\ pc' = [pc EXCEPT ![i] = IF FenceHolds(i) THEN "releasePut" ELSE "done"]
    /\ UNCHANGED <<now, faults, server, ref, monitor, hb, recovery>>

\* A conflict on the first PUT leads to one re-read and one more PUT.
ReleasePut(i) ==
    /\ pc[i] \in {"releasePut", "releaseRetry"}
    /\ \/ /\ ReleaseAccepted(i, ref[i].rev)
          /\ ApplyRelease(i, "released")
          /\ pc' = [pc EXCEPT ![i] = "done"]
       \/ /\ ~ReleaseAccepted(i, ref[i].rev)
          /\ pc' = [pc EXCEPT ![i] =
                       IF pc[i] = "releasePut" THEN "releaseReread" ELSE "done"]
          /\ UNCHANGED <<lockRec, tombstone>>
    /\ UNCHANGED <<now, faults, delayed, ref, monitor, hb, recovery>>

ReleasePutLost(i) ==
    /\ pc[i] \in {"releasePut", "releaseRetry"}
    /\ Lost([kind |-> "release", owner |-> i, rev |-> ref[i].rev, at |-> 0],
            ReleaseAccepted(i, ref[i].rev), ApplyRelease(i, "released"))
    /\ pc' = [pc EXCEPT ![i] = "releaseAdjudicate"]
    /\ UNCHANGED <<now, ref, monitor, hb, recovery>>

\* Its own token on the record: the revision was advanced by its own
\* heartbeat, and the latest revision is used once.
ReleaseReread(i) ==
    /\ pc[i] = "releaseReread"
    /\ \/ /\ lockRec.owner = i
          /\ ref' = [ref EXCEPT ![i].rev = lockRec.rev]
          /\ pc' = [pc EXCEPT ![i] = "releaseRetry"]
       \/ /\ lockRec.owner # i
          /\ pc' = [pc EXCEPT ![i] = "done"]
          /\ UNCHANGED ref
    /\ UNCHANGED <<now, faults, server, monitor, hb, recovery>>

\* The reads of a release fail: it is given up.
ReleaseReadLost(i) ==
    /\ pc[i] \in {"releaseRead", "releaseReread"}
    /\ Fault
    /\ pc' = [pc EXCEPT ![i] = "done"]
    /\ UNCHANGED <<now, server, ref, monitor, hb, recovery>>

\* The tombstone is looked up; whatever it shows, the process ends.
ReleaseAdjudicate(i) ==
    /\ pc[i] = "releaseAdjudicate"
    /\ pc' = [pc EXCEPT ![i] = "done"]
    /\ UNCHANGED <<now, faults, server, ref, monitor, hb, recovery>>

\* The process is killed and its memory is lost.  A PUT it had issued may
\* still be on the wire.
Crash(i) ==
    /\ pc[i] \notin {"idle", "done", "crashed"}
    /\ pc' = [pc EXCEPT ![i] = "crashed"]
    /\ \/ UNCHANGED delayed
       \/ /\ hb[i].stage = "put"
          /\ delayed' = delayed \cup
                {[kind |-> "heartbeat", owner |-> i, rev |-> hb[i].rev, at |-> hb[i].at]}
    /\ hb' = [hb EXCEPT ![i] = NoHeartbeat]
    /\ ref' = [ref EXCEPT ![i] = NoReference]
    /\ monitor' = [monitor EXCEPT ![i] = "HELD"]
    /\ UNCHANGED <<now, faults, lockRec, tombstone, recovery>>

-----------------------------------------------------------------------------
(* forceUnlockNetwork *)


\* Faulty variants: the truncated expiry is taken as exact; every lock that
\* has an owner counts as active.
LeaseActiveAsRead == lockRec.leaseExpiresAt > now
LeaseActiveWhileOwned == lockRec.owner # Nobody

\* The expiry read back is up to a minute early, so a minute is added.
LeaseStillActive == lockRec.leaseExpiresAt + Minute > now

Stopped(i) == pc[i] \in {"done", "crashed"}

UnlockRead(o) ==
    /\ unlocker[o].stage = "idle"
    /\ lockRec.owner # Nobody           \* LOCK_NOT_FOUND, OWNER_MISMATCH
    /\ ~LeaseStillActive                \* LEASE_STILL_ACTIVE
    /\ unlocker' = [unlocker EXCEPT ![o] =
                      [stage |-> "confirm", owner |-> lockRec.owner,
                       rev |-> lockRec.rev, heartbeatAt |-> lockRec.heartbeatAt]]
    /\ UNCHANGED <<now, faults, server, client, audited>>


\* Faulty variant: any answer of the stop check is taken for a stop.
StopAssumed(o) ==
    /\ unlocker[o].stage = "confirm"
    /\ unlocker' = [unlocker EXCEPT ![o].stage = "recheck"]
    /\ UNCHANGED <<now, faults, server, client, audited>>

\* local_pid and cloud_run_job_execution look at the process; manual takes the
\* operator's word.
StopConfirmed(o) ==
    /\ unlocker[o].stage = "confirm"
    /\ Stopped(unlocker[o].owner) \/ MistakenStops
    /\ unlocker' = [unlocker EXCEPT ![o].stage = "recheck"]
    /\ UNCHANGED <<now, faults, server, client, audited>>

StopNotConfirmed(o) ==
    /\ unlocker[o].stage = "confirm"
    /\ ~Stopped(unlocker[o].owner)
    /\ unlocker' = [unlocker EXCEPT ![o] = NoUnlock]
    /\ UNCHANGED <<now, faults, server, client, audited>>

\* The record must not have moved while the stop was confirmed.
SnapshotUnchanged(o) ==
    /\ lockRec.owner = unlocker[o].owner
    /\ lockRec.rev = unlocker[o].rev
    /\ lockRec.heartbeatAt = unlocker[o].heartbeatAt

UnlockRecheck(o) ==
    /\ unlocker[o].stage = "recheck"
    /\ unlocker' = [unlocker EXCEPT ![o] =
                      IF SnapshotUnchanged(o) THEN [unlocker[o] EXCEPT !.stage = "put"]
                                              ELSE NoUnlock]
    /\ UNCHANGED <<now, faults, server, client, audited>>


\* Faulty variant: a conflict on the PUT is taken for the lock being open.
UnlockPutAuditsConflict(o) ==
    /\ unlocker[o].stage = "put"
    /\ \/ /\ ReleaseAccepted(unlocker[o].owner, unlocker[o].rev)
          /\ ApplyRelease(unlocker[o].owner, "forced")
       \/ /\ ~ReleaseAccepted(unlocker[o].owner, unlocker[o].rev)
          /\ UNCHANGED <<lockRec, tombstone>>
    /\ unlocker' = [unlocker EXCEPT ![o].stage = "audit"]
    /\ UNCHANGED <<now, faults, delayed, client, audited>>

UnlockPut(o) ==
    /\ unlocker[o].stage = "put"
    /\ \/ /\ ReleaseAccepted(unlocker[o].owner, unlocker[o].rev)
          /\ ApplyRelease(unlocker[o].owner, "forced")
          /\ unlocker' = [unlocker EXCEPT ![o].stage = "audit"]
       \/ /\ ~ReleaseAccepted(unlocker[o].owner, unlocker[o].rev)
          /\ unlocker' = [unlocker EXCEPT ![o] = NoUnlock]
          /\ UNCHANGED <<lockRec, tombstone>>
    /\ UNCHANGED <<now, faults, delayed, client, audited>>

UnlockPutLost(o) ==
    /\ unlocker[o].stage = "put"
    /\ Lost([kind |-> "force", owner |-> unlocker[o].owner,
             rev |-> unlocker[o].rev, at |-> 0],
            ReleaseAccepted(unlocker[o].owner, unlocker[o].rev),
            ApplyRelease(unlocker[o].owner, "forced"))
    /\ unlocker' = [unlocker EXCEPT ![o].stage = "adjudicate"]
    /\ UNCHANGED <<now, client, audited>>

\* releaseConfirmed: the tombstone must carry the forced release's own marks.
UnlockAdjudicate(o) ==
    /\ unlocker[o].stage = "adjudicate"
    /\ unlocker' = [unlocker EXCEPT ![o] =
                      IF tombstone[unlocker[o].owner] = "forced"
                      THEN [unlocker[o] EXCEPT !.stage = "audit"] ELSE NoUnlock]
    /\ UNCHANGED <<now, faults, server, client, audited>>

UnlockAudit(o) ==
    /\ unlocker[o].stage = "audit"
    /\ audited' = audited \cup {unlocker[o].owner}
    /\ unlocker' = [unlocker EXCEPT ![o] = NoUnlock]
    /\ UNCHANGED <<now, faults, server, client>>

\* A read, the audit or the operator's process fails at any stage.
UnlockAbort(o) ==
    /\ unlocker[o].stage # "idle"
    /\ Fault
    /\ unlocker' = [unlocker EXCEPT ![o] = NoUnlock]
    /\ UNCHANGED <<now, server, client, audited>>

\* Time passes; past Horizon only once no heartbeat is about to be renewed.
Tick ==
    /\ now < MaxTime
    /\ now < Horizon \/ \A i \in Invocation : hb[i].stage # "read"
    /\ now' = now + 1
    /\ UNCHANGED <<faults, server, client, recovery>>

-----------------------------------------------------------------------------
Init ==
    /\ now = 0
    /\ lockRec = Vacant
    /\ tombstone = [i \in Invocation |-> "none"]
    /\ delayed = {}
    /\ faults = 0
    /\ pc = [i \in Invocation |-> "idle"]
    /\ ref = [i \in Invocation |-> NoReference]
    /\ monitor = [i \in Invocation |-> "HELD"]
    /\ hb = [i \in Invocation |-> NoHeartbeat]
    /\ unlocker = [o \in Operator |-> NoUnlock]
    /\ audited = {}

AcquireStep(i) == AcquireBegin(i) \/ AcquirePost(i) \/ AcquirePostLost(i)
                  \/ AcquireReread(i) \/ AcquireRereadLost(i)
HeartbeatStep(i) ==
    \/ \E by \in {"timer", "main"} : TickStart(i, by)
    \/ TickJoin(i) \/ MarkControlPlaneUnreachable(i) \/ ConfirmStart(i)
    \/ HeartbeatRead(i) \/ HeartbeatReadLost(i)
    \/ HeartbeatPut(i) \/ HeartbeatPutLost(i) \/ HeartbeatAnswer(i)
    \/ HeartbeatAdjudicate(i) \/ HeartbeatAdjudicateLost(i)
ReleaseStep(i) ==
    \/ ReleaseBegin(i) \/ ReleaseRead(i) \/ ReleasePut(i) \/ ReleasePutLost(i)
    \/ ReleaseReread(i) \/ ReleaseReadLost(i) \/ ReleaseAdjudicate(i)
UnlockStep(o) ==
    \/ UnlockRead(o) \/ StopConfirmed(o) \/ StopNotConfirmed(o)
    \/ UnlockRecheck(o) \/ UnlockPut(o) \/ UnlockPutLost(o)
    \/ UnlockAdjudicate(o) \/ UnlockAudit(o) \/ UnlockAbort(o)

Next ==
    \/ \E i \in Invocation : AcquireStep(i) \/ HeartbeatStep(i)
                              \/ ReleaseStep(i) \/ Crash(i)
    \/ \E o \in Operator : UnlockStep(o)
    \/ DelayedArrival
    \/ Tick

Spec == Init /\ [][Next]_vars

-----------------------------------------------------------------------------
(* Properties *)

\* The process runs under the lock: it has acquired it and has not yet ended
\* or sent a release whose fate it does not know.
UnderLock(i) == pc[i] \in {"working", "releaseRead", "releasePut",
                           "releaseReread", "releaseRetry"}

\* Two processes never run under the Network lock at once: acquire wins only
\* through the unique record_key or its own token, and a forced release needs
\* the owner's stop and an unmoved record (acquire, forceUnlockNetwork).
MutualExclusion ==
    \A i, j \in Invocation : UnderLock(i) /\ UnderLock(j) => i = j

\* A lock is forced open only after the exact end of the lease that its latest
\* write granted, whoever wrote it and however late it arrived: the minute added
\* to the truncated expiry and the revision of the PUT see to it, beside the
\* heartbeats that come in between the operator's reads and the PUT
\* (forceUnlockNetwork, LEASE_STILL_ACTIVE and the revision of the release).
ForcedOnlyAfterLease ==
    [][\A i \in Invocation :
          tombstone[i] # "forced" /\ tombstone'[i] = "forced"
             => now >= lockRec.until]_vars

\* The audit NETWORK_LOCK_FORCE_RELEASED is written for a lock that was forced
\* open, never for one its owner released itself in the meantime
\* (releaseConfirmed, appendOperationAudit).
AuditedReleaseHappened ==
    \A i \in audited : tombstone[i] = "forced"

\* A release races only with a heartbeat of its own process, and that race is
\* settled by the one retry: without any transport failure a process that
\* ended leaves no lock behind (release, the 409 branch).
EndedProcessLeavesNoLock ==
    \A i \in Invocation : pc[i] = "done" => lockRec.owner # i

\* When the answer of a heartbeat was lost and the re-read shows the next
\* revision under the own token, the heartbeat counts as done: identity comes
\* from the key and the revision, not from a DATETIME read back (heartbeat,
\* the KintoneTransportError branch).
LostAnswerRecognised ==
    [][\A i \in Invocation :
          (/\ hb[i].stage = "lost" /\ hb'[i].stage = "none"
           /\ UNCHANGED <<pc[i], faults>>
           /\ lockRec.owner = i /\ lockRec.rev = ref[i].rev + 1)
             => ref'[i].rev = lockRec.rev]_vars

\* The lock as its users see it.
Mutex == INSTANCE NetworkMutex
    WITH Process <- Invocation,
         owner <- lockRec.owner,
         closed <- {i \in Invocation : tombstone[i] # "none"},
         active <- {i \in Invocation : UnderLock(i)}

\* Acquire, heartbeat, release and forced release, with every lost, late and
\* repeated request among them, amount to a lock that each process is granted at
\* most once, that passes on only through being closed, and that is never
\* closed under a process at work (acquire, release, forceUnlockNetwork).
ImplementsMutex == Mutex!MutexSpec

(* Fairness: the clock advances, requests on the wire arrive, a heartbeat  *)
(* that started is sent, and operators keep trying to open a lock that     *)
(* looks stale (force-unlock-network is rerun by hand until it succeeds).  *)
FairSpec ==
    /\ Spec
    /\ WF_vars(Tick)
    /\ WF_vars(DelayedArrival)
    /\ \A i \in Invocation : WF_vars(HeartbeatRead(i))
    /\ \A o \in Operator :
          /\ WF_vars(UnlockRead(o))
          /\ WF_vars(StopConfirmed(o))
          /\ WF_vars(UnlockRecheck(o))
          /\ WF_vars(UnlockPut(o))
          /\ WF_vars(UnlockAdjudicate(o))
          /\ WF_vars(UnlockAudit(o))

\* A lock left behind by a stopped process is opened in the end, whatever
\* left it there: a crash, a release that failed, an acquire whose POST
\* arrived after it was given up (forceUnlockNetwork).
AbandonedLockIsRecovered ==
    \A i \in Invocation :
        (lockRec.owner = i /\ Stopped(i)) ~> (lockRec.owner # i)

-----------------------------------------------------------------------------
(* The inductive invariant behind MutualExclusion and                      *)
(* AuditedReleaseHappened when no stop confirmation is mistaken.           *)

\* Whoever runs under the lock owns the record.
OwnerHoldsRecord == \A i \in Invocation : UnderLock(i) => lockRec.owner = i

\* A process about to acquire computed its expiry from the clock.
AcquireTimed ==
    \A i \in Invocation :
        pc[i] = "acquiring" => ref[i].leaseExpiresAt >= LeaseDuration

\* An operator past the confirmation acts against a stopped owner.
UnlockAgainstStopped ==
    \A o \in Operator :
        /\ unlocker[o].stage # "idle" => unlocker[o].owner \in Invocation
        /\ unlocker[o].stage \in {"recheck", "put", "adjudicate", "audit"}
             => Stopped(unlocker[o].owner)
        /\ unlocker[o].stage = "audit" => tombstone[unlocker[o].owner] = "forced"

\* A request still on the wire comes from a process that has moved past it.
DelayedIsPast ==
    \A r \in delayed :
        /\ r.kind = "post" => pc[r.owner] \notin {"idle", "acquiring"}
        /\ r.kind = "release"
             => pc[r.owner] \in {"releaseAdjudicate", "done", "crashed"}
        /\ r.kind = "force" => Stopped(r.owner)

\* Each invocation's lock record comes into being at most once.
RecordOnce ==
    /\ \A i \in Invocation :
          /\ tombstone[i] # "none" => lockRec.owner # i
          /\ tombstone[i] # "none" \/ lockRec.owner = i
               => /\ pc[i] \notin {"idle", "acquiring"}
                  /\ \A r \in delayed : r.kind = "post" => r.owner # i
    /\ \A r, s \in delayed :
          r.kind = "post" /\ s.kind = "post" /\ r.owner = s.owner => r = s

IInv == /\ TypeOK /\ AcquireTimed /\ OwnerHoldsRecord /\ UnlockAgainstStopped
        /\ DelayedIsPast /\ RecordOnce /\ AuditedReleaseHappened
=============================================================================
