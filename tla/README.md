# A TLA+ verification of kSQL-FlowNet

kSQL-FlowNet runs a *network*, a DAG of kSQL-Flow jobs, one job after the
other. It has no server of its own: every CLI call is a process, all durable
state is in kintone records, and every write is a compare-and-set on a record's
revision. What can go wrong lies between two writes: processes crash, lose
their lease, lose an answer, and others (a later invocation, an operator who
resolves a node, forces a lock or files a stop request) go on from whatever
records they left. That is what these modules model. Paths below are relative
to the repository's `src/` directory of TypeScript unless they start with `docs/`.

## 1. Inventory

| Component | State it keeps | Operations | Interacts with |
|---|---|---|---|
| Network lock (`persistence/network-lock.ts`) | the `LOCK:<key>` record: owner, token, revision, heartbeat and expiry as DATETIME; the `LOCKDONE:` record it becomes | `acquire`, `heartbeat`, `release` | kintone, LeaseMonitor, force-unlock |
| Lease monitor (same file) | HELD / LEASE_UNCERTAIN / FINAL_WRITE_CONFIRMED, failure counter, timer | `tick`, `markControlPlaneUnreachable`, `confirmLeaseForFinalWrite`, `start`, `stop` | the scheduler before each write |
| Lock recovery (`persistence/network-lock-recovery.ts`) | a snapshot of the lock record; the audit | `forceUnlockNetwork`, three stop confirmations | a lock owner that may be alive |
| Ensure-run (`orchestration/ensure-run.ts`) | NETWORK_RUN, RUN_INVOCATION | create, resume, rerun, `close` | lock, reconciliation, scheduler |
| Reconciliation (`orchestration/reconciliation.ts`) | none | `reconcileRun`: repair or refuse | Node States, Attempts, Resolutions |
| Orphan adjudication (`orchestration/orphan-attempt-adjudication.ts`) | none | decide RUNNING attempts of dead invocations; close their invocation records | JOB log of kSQL-Flow |
| Sequential scheduler (`orchestration/sequential-scheduler.ts`) | its copy of the Node States, excluded nodes | resume preparation, retry brake, loop, stop check, drain | executor, lease monitor |
| Attempt executor (`executor/`) | NODE_ATTEMPT | start marker, subprocess, classification, two final writes | kSQL-Flow |
| Resolve-node (`orchestration/resolve-node.ts`) | ATTEMPT_RESOLUTION | append, then write the Node State; no lock | scheduler, reconciliation |
| Stop request (`orchestration/cancel-request.ts`) | CANCEL_REQUEST | request, release; the scheduler accepts | scheduler, ensure-run |
| kintone repository (`persistence/kintone/`) | all of the above | revision-checked writes | kintone |
| Definitions and DAG algorithms (`domain/validate-network.ts`, `dag/`) | none | validate, stable topological sort, descendants, closure of held nodes | ensure-run, scheduler |
| Business keys (`domain/business-key.ts`) | none | resolve a call to the key of its Run | ensure-run |
| Bundles, profile, inputs (`bundle/`, `io/`, `executor/preflight.ts`) | the bundle with a Run, baselines in Attempts | inspect, build, verify, compare | files that others edit |
| Request poller and store (`requests/`) | request records | list, review, claim, heartbeat, child, result, stale recovery | board, child processes of this CLI |
| Archive-run (`orchestration/archive-run.ts`) | lifecycle flags of a Run, RUN_ARCHIVED audit | archive under the lock | lock, resuming invocations |
| Board plugin (`plugin/src/`) | a page, its loads, its dialogs | load, offer, create and withdraw requests | request records |
| Status (`orchestration/status.ts`) | none | Run and lock at two moments | poller |
| Record keys, ZIP encoding, CLI, settings form, HTML | - | text and user interface | - |

Hard behaviours: release against the own heartbeat in flight; force-unlock
against an owner that comes back; answers lost and requests that arrive late;
minute-precision timestamps; crashes between the two writes that describe one
fact; orphaned jobs that are still running; resolve-node and stop requests that
work without the lock; two owners after a mistaken stop confirmation. Each is
listed, with its line, under `hazards` in `PROJECT.json`.

What makes the parts correct: one process under the lock; a lock forced
open only after the lease on its record ran out; HELD ends before the lease does; a
non-idempotent node runs at most once; a SUCCESS is true and final; a node
starts only after its dependencies; a stop request stops; nothing an ended
process left stays RUNNING; every invocation ends; a job runs what its Run
pinned, on the inputs its predecessors read; a request is executed once, its
result is what happened, and it is settled; what the board says about a request
holds; an archived Run was finished; a period has one Run; an
order is the file's wherever dependencies leave a choice.

## 2. Modules

| Module | Models | Run by |
|---|---|---|
| `NetworkLock` | lock record, `NetworkLockManager`, LeaseMonitor's heartbeats, `forceUnlockNetwork` | `MCNetworkLock` |
| `LeaseMonitor` | one LeaseMonitor with its clock, counter and thresholds | `MCLeaseMonitor` |
| `NetworkMutex` | what the lock promises, without records, messages or clocks | implemented by `NetworkLock` |
| `RunRecords` | transition table, aggregate, descendants | extended by `RunExecution` |
| `RunExecution` | everything one Network Run goes through | `MCRunExecution` |
| `NetworkWorkflow` | what a Network Run promises, without records, processes, crashes or leases | implemented by `RunExecution` |
| `JobResults` | result file, receipts, exit code and JOB log of one job, and their classification | extended by `PinnedRun` |
| `PinnedRun` | what a Run executes: bundle, profile, inputs, subprocess | `MCPinnedRun` |
| `BusinessKeys` | policies, formats, zones, keys | extended by `NetworkDefinition` |
| `NetworkDefinition` | checks of a definition, sort, selection, each loop round a step | extended by `RunAdmission` |
| `RunAdmission` | which Run a call of run-network works on | `MCRunAdmission` |
| `RequestRules` | review, classification, offers: the decisions of poller and board | extended by the next three |
| `RequestQueue` | request records, pollers, children, the Run they act on | `MCRequestQueue` |
| `RequestService` | what the request app promises, without records, pollers or crashes | implemented by `RequestQueue` |
| `RequestBoard` | the board plugin, composed with `RequestQueue` | `MCRequestBoard` |
| `ArchiveRun` | archive-run beside a resume | `MCArchiveRun` |
| `NetworkLockProofs`, `LeaseMonitorProofs`, `RunExecutionProofs`, `PinnedRunProofs`, `RunAdmissionProofs`, `ArchiveRunProofs`, `RequestQueueProofs`, `RequestBoardProofs` | theorems and their proofs (section 4) | - |

### NetworkLock

Each HTTP call is an action at the server (`AcquirePost`, `HeartbeatRead`,
`HeartbeatPut`, `ReleaseRead`, `ReleasePut`, `UnlockRead`, ...). The *answer* of
a heartbeat is one more step, since the timer's heartbeat and the main thread's
release interleave in one process. `...Lost` actions are transport errors: the
request was dropped, applied, or put into `delayed` and applied later. `pc` is
the main thread, `hb` the heartbeat in flight (`by` says who awaits it), `ref`
the mutable NetworkLockReference. A lease token is a fresh uuid and an
invocation acquires once, so the invocation stands for the token; the lock and
its tombstone are one kintone record with two keys, here `lockRec` and
`tombstone`. The heartbeat PUT names the record by key and revision and so may
hit whoever's record is there; the release PUT names it by `$id`. Times are
written through `Datetime`, which drops the fraction of a minute; the record's
`until` is history and keeps the exact end of the lease that its latest write
granted. A heartbeat whose answer was lost is recognised here by owner and
revision, which is more generous than the code's comparison of texts; what that
comparison misses is stated as `LostAnswerRecognised` (section 3). A refused
updateKey PUT is answered 409 or 400 GAIA_DA02 (`design-notes.ts`), and the
latter the lock takes for unavailability. A server error without effect is a
lost request that was dropped. Whether a failed tick ends HELD is left open
here; `LeaseMonitor` decides it.

### LeaseMonitor

The same monitor with numbers: `failures`, `expires`, `due` (the next firing of
`setInterval`), and the heartbeat reduced to its outcome. `Preparation` is the
time between acquire and `monitor.start()`, in which no heartbeat is sent.
Assumed: the configuration rules of `validateMonitorConfig`, a safety margin of
at least one interval (the default), a punctual timer and heartbeats that are
answered within `MaxLatency`, less than a lease minus an interval.

### RunExecution

One Run, its invocations, and what happens around it. An action of invocation i
is one write with the code up to it (`CreateAttempt`, `ClaimNode`,
`FinalizeAttempt`, `ApplyResult`, ...) or the reads of one phase
(`ReconcileRead`, `ReadOrphans`, `ReadStates`). The process works on `view`, the
versioned records it has read, and `PutState`, `PutRun`, `PutAttempt` compare
its revision with the record's, as `persistence/kintone/repository.ts` does;
`StateWritable` is the transition check of `upsertNodeState`. Any write that is
refused ends the invocation through `Close` and `Release`. An invocation makes
at most one attempt per node, so an attempt is named by node and invocation.

`job` is what kSQL-Flow has really done with an attempt, known to the code only
through `Classified` (result file, JOB log marker, exit code) and
`OrphanDecision` (JOB log); it goes on when its orchestrator crashes. A result
may always be missing or invalid, hence UNKNOWN is always among the answers. A
job refused by its Job lock and one that was not started at all are one case
here (`notBegun`), as the executor treats them alike: PREPARE_FAILED; `PinnedRun`
keeps them apart. A job that fails validation before its first statement counts as run, which makes
`AtMostOnce` stronger than needed.

`lease` is HELD, UNCERTAIN or FINAL. A write that needs `confirmOrdinaryWrite`
requires HELD and is one step with that tick; `LeaseInterrupted` is the other
answer. `Exclusive = TRUE` takes over what `NetworkLock` shows: the next process
gets the lock when the owner released it or was forced out after its stop.
`Exclusive = FALSE` is the world after a mistaken manual stop confirmation.
An ambiguous write answer is the write followed by `Fail`.

`RunExecution` implements `NetworkWorkflow` under the mapping `WorkflowStatus`:
a node without a record, WAITING or BLOCKED waits, FAILED and CANCELLED have
failed, UNKNOWN stays unknown; the starts of a node are the number of its latest
attempt, and the workflow is finished when the Run's status is SUCCESS.
`WorkflowSpec` writes out the stutter that `[]_` allows anyway, as TLC then skips
the workflow's actions on the many steps that change none of the three.

Not modelled here: nodes with `inputs`, bundle and profile (`PinnedRun`), archive
flags (`ArchiveRun`), which Run a call means (`RunAdmission`), operation audits,
the approver rules of resolve-node. The order in which the records of one phase
are treated is left open.

### PinnedRun and JobResults

One Run with one idempotent node that has an input and an output. The files of
others (network.yaml, SQL, profile, input) are versions or contents that `Edit`
replaces between any two steps. `CreateRun` stores what was read at each of the
code's reads; `RunsAsPinned` compares what a job runs with what was inspected.
The job is a process of its own (`proc`): it goes on after its invocation's
death, leaves a result file, a JOB log and an exit code, and may be killed by
the timeout after it has written them. `JobResults!ClassifyResult` and
`Decision` are the real classification, over all combinations of these.
Reductions: invocations follow one another (`NetworkLock`); an Attempt and its
Node State change in one step (`RunExecution` takes them apart); definition and
SQL are edited only until the Run exists, since nothing reads them afterwards;
a bundle that retention has removed is a refusal; kill and grace period are one
step. A kill that fails (`KillFails`) emits the child's `error` event, which the
code takes for a failed launch (`run-subprocess.ts:236`), and the job goes on.

### BusinessKeys, NetworkDefinition and RunAdmission

A format, a key and a pattern are the sets of their parts. The calendar has
days of 2 hours, months of 2 days and years of 2 months, so that every carry
happens. A zone is a constant offset, and months have one length: the rules of
daylight saving time, under which a local day has 23 or 25 hours, are left to
`Intl.DateTimeFormat` and outside the model. The loops of `stableTopologicalSort`, `countDescendants`,
`selectDescendants` and `descendantsIncludingRoots` are steps of one state
machine (`Place`, `CountVisit`, `SelectDescendants`, `HoldNode`, and the step
that ends each). The order of the code's queues, and of the nodes within a pass
of `descendantsIncludingRoots`, only decides which node is next; here it is any
of them, and the results are shown not to depend on it. They are checked against definitions that do not mention the loops: the
first node in file order whose dependencies are placed; a definition is
accepted exactly if it has no cycle, no repeated id and no unknown dependency;
reachability. `RunAdmission` then lets processes call run-network for the loaded
definition, with a period, a key, a Run id or nothing. A manual key is unique
per call; FAILED stands for CANCELLED too; a Run may end with any status; the
lock is the process that owns it.

### RequestRules, RequestQueue and RequestBoard

`RequestRules` holds the pure decisions: `reviewRequest`, the classification of
each child's exit code and output, `deriveRunActivity`, the plugin's action
matrix. `RequestQueue` has one action per REST call of a poller (`ListRequested`,
`Claim`, `Heartbeat`, `Settle...`, the steps of `recoverStale`), children as
processes that act on the Run and outlive a dead poller, invocations nobody
requested, and the lock as its owner and whether its lease is fresh. The history
`effect` says how far the operation of a request has come: nothing written, found
as wanted, *prepared* (`ensureRun` created the Run, or computed its status again
and reset Node States, and then failed), or changed (handed over to the
scheduler, hold written, Run archived). `ChildRunNetwork` has the five ends of
`ensureRun`: nothing to do, a refusal, a failure before and one after it wrote,
and the hand-over. The creator of a request may tick `cancel_requested` in any
state (`EditCancel`); that the app lets the creator untick it again is left out:
`docs/internal/p2-16-request-lifecycle-v2-spec.md:37` calls it an operating
violation, and a poller would claim such a request, whatever a dialog said before.
Result messages are not modelled, so where `writeResult` finds its own state and
code on the record it may stop or write again. A tick is
one heartbeat interval; a process that neither stalls nor waits for its child
is done within it. `RequestBoard` adds one browser tab: each GET of a load is a
step, loads overlap, only the newest generation is rendered, a dialog outlives
its page. A dialog of an earlier detail page may find the root element of its page
in use by the next one (`desktop.ts:349`) and then renders the row of its own
model there, marked as pending; `NoOfferWhileCreatedPends` does not count that
request as reported, since the load of the later page, when it ends, replaces the
mark with what it read. Loads that a newer one has overtaken are kept only as long as they can
still fail or be rendered.

### ArchiveRun

Two calls of archive-run and an invocation that may resume the Run. Each REST
call is a step, an ambiguous PUT may arrive late (`LateArrival`), and the lease
may be lost before each write. The outcome record is the one the CLI prints;
`Finish` releases the lock and computes the exit code.

## 3. Runs

| Run | Shows | Bounds |
|---|---|---|
| `lock_safety` | `TypeOK`, `MutualExclusion`, `AuditedReleaseHappened`, `ForcedOnlyAfterLease`, `ImplementsMutex` (refinement) | 2 invocations, 1 operator, 1 transport failure, lease 2, minute 2, time 4 |
| `lock_lease` | `AbandonedLockIsRecovered` (liveness) with mistaken stops | 1 invocation, 2 failures (the second loses the re-read that adjudicates the first), lease 3 (not a multiple of the minute), time 8 |
| `monitor` | `HeldWithinLease`, `ConfirmedByRenewal` | lease 6, interval 2, threshold 3, latency 3, time 16 |
| `run_exclusive` | `ImplementsWorkflow` (refinement), `SuccessIsTruthful`, `SuccessfulRunIsFinal`, `StopBoundary`, `StartsAfterDependencies` | chain of 2 nodes, 2 invocations, 1 fault, 2 calls of resolve-node or cancel-run |
| `run_contended` | `AtMostOnce` without exclusion | 1 node, 2 invocations at once, 1 fault |
| `run_brake` | `RetryBrakeHolds` | 1 node, 3 invocations, brake after 2, 1 operator call |
| `run_ends` | `InvocationEnds` (liveness) | chain, 2 invocations, 1 fault |
| `requests` | `ExecutedOnce`, `WithdrawnNeverRuns`, `ResultIsTruthful`, `HealthyClaimSurvives`, `EndedStaysEnded`, `ImplementsService` (refinement), `RequestsSettle` (liveness) | 2 pollers, 1 request of any of the 5 types, stale after 3 ticks, 1 beat, 1 outside invocation, 1 fault |
| `board` | `CancelAnswerHonoured`, `NoOfferWhileCreatedPends`, `OffersAreServed` | 1 poller, CLOSE requests, 3 loads, 1 dialog, 1 failing call |
| `archive` | `OutcomeTruthful`, `AuditOnce`, `ExitZeroIsClean`, `ArchivesFinishedRunsOnly` | 2 calls, 1 resume, 3 faults, revision 3 |
| `pinned` | `RunsAsPinned`, `InputsPinned`, `BaselineBeforeExecution`, `ResultIsTruthful`, `InvocationEnds` (liveness) | 2 contents, 3 invocations, 1 rerun or resolve, 2 edits, 1 fault |
| `definitions` | `OrderIsStable`, `LoadVerdict`, `SelectionIsDescendants`, `OneRunPerPeriod`, `ActiveRunsBounded` | all 4096 graphs of 4 nodes without self-loops; graphs of 3 nodes with repeated, unknown or self dependencies or a repeated id; 1-node networks with all policies (sets of 8 format parts, 4 zones); 2 callers, 3 calls, instants on both sides of a day, a month and a year |

Why the bounds are enough: two invocations give one that leaves something
behind and one that finds it; one fault can hit between any two steps, and the
properties speak of what a single failure leaves; a chain of two nodes has a
dependency, a blocked and a deferred node; two operator calls give a request
and its release, two resolutions that disagree, or one of each. The brake needs as many failing
invocations as its limit and one more, so its limit of 3 is a constant and 2 in
the run. `Horizon` and `MaxRev` stop new leases, so that `MaxTime` still lets
the last lease expire. Times are small numbers of half minutes.
One request is enough for `requests`, as pollers treat requests independently
and the Run can be changed by an outside invocation; three faults in `archive`
are an ambiguous write, a lost lease and a failing re-read. Three invocations in
`pinned` give an attempt, an attempt that failed in between, and one that
compares across it. Four nodes give a diamond and every pair of independent
chains. Deadlock is checked in `requests`, where time always goes on; elsewhere
processes end and the bounds stop the rest.

`NetworkLock` and `RunExecution` runs use symmetry over invocations except where
a liveness property is checked.

### Known deviations

Modelling met places where the code does not do what a document says, or what a
reader would expect. None of them makes a property of the runs fail. The
modules state the first six as definitions that no run checks; each can be
reproduced by naming it as INVARIANT or PROPERTY in a copy of a cfg.

* `EndedProcessLeavesNoLock` (`lock_safety` with 1 invocation, `MaxFaults` 0):
  `stop()` does not wait for a heartbeat in flight; a release that reads between
  the heartbeat's PUT and its answer fails its own fence check
  (`network-lock.ts:282`) and leaves the lock until an operator forces it.
  `docs/internal/phase1-freeze-decision-record.md:251` calls the race settled.
* `LostAnswerRecognised` (a PROPERTY; 1 invocation, 1 failure): the re-read after
  a lost heartbeat answer compares DATETIME texts (`network-lock.ts:251`), which
  `phase1-freeze-decision-record.md:249` forbids; an applied heartbeat is not
  recognised unless it was sent on the full minute.
* `ResumableRunResumes` (1 idempotent node, 3 invocations, no fault, 1 call):
  after a resolved attempt was retried, every later resume is refused with
  RESOLUTION_NOT_CURRENT_ATTEMPT (`reconciliation.ts:604`), against
  `docs/specification.md:275`.
* `PrepareFailedStaysWaiting` (1 non-idempotent node, 2 invocations, 1 fault, no
  call): a crash after PREPARE_FAILED was written to the attempt makes
  reconciliation set the node CANCELLED (`reconciliation.ts:526`), from which
  nothing leads on; `docs/internal/job-network-phase1-spec.md:549` expects a
  plain resume to continue.
* `OrphanAdjudicatedFirst` (1 idempotent node, 2 invocations, 1 fault):
  `--rerun-from` resets the state of an orphaned attempt before adjudication
  could find it (`ensure-run.ts:842`; `docs/runbook-recovery.md:64`).
* `BaselineKept` (`pinned`): adjudication replaces the message that carries an
  attempt's baseline (`orphan-attempt-adjudication.ts:114`). The resume after it
  compares nothing only where a person intervened, so `InputsPinned` excludes
  resolve-node and `--rerun-from`.

Smaller ones that can be read off the models:

* A heartbeat checks the token in its read but writes by key and revision, so an
  old owner can renew a new owner's lock that stands at the same revision
  (`network-lock.ts:229`, `HeartbeatAccepted`), with its own, older time: the
  lease on record may then end before the one the new owner counts on, and a
  mistaken stop confirmation lets an operator force it open (2 invocations, no
  fault). `ForcedOnlyAfterLease` therefore speaks of the lease on record;
  `FencedLeaseIsKept` in `NetworkLockProofs` is what remains for an owner.
* When the claim of a Node State fails after `createAttempt`, the new attempt
  stays RUNNING and later resumes are refused (`sequential-scheduler.ts:373`).
* Stale recovery fences its write with the revision it has just read, not with
  the state it judged, so a request that ended meanwhile may get another result
  (`TerminalIsFinal` in `RequestQueue`); `EndedStaysEnded` is what remains true.
* A poller whose claim conflicts does not read the request again.
* run-network reports an error as REJECTED until it has handed over to the
  scheduler (`run-network-command.ts:153`), also after `createRun` or after
  `prepareRerunFrom` has reset Node States: the request is then REJECTED with the
  Run in place, and with the message of `request-result.ts:44` that says that no
  Invocation was created, where one may have been (`ensure-run.ts:257`, `:310`).
  `ResultIsTruthful` lets a certain REJECTED have *prepared* the Run, nothing more.
* The dialog may say that a request was started when it is CANCELLED a moment
  later; the detail page does not use the hold when it decides its offers
  (`detail-controller.ts:51`), so that it offers RERUN and CLOSE for a held FAILED
  Run, which the review always refuses; when the read back after a POST fails, the page offers the same request again.
* archive-run audits a Run that another call archived when its own ambiguous
  write cannot be told from the other's. Its result AUDIT_CONFLICT stands for an
  event id found with other facts; the id is fresh in each call, so no step of the
  model gets there.
* network.yaml is read several times while a Run is created, so a new Run may
  carry one version's definition and another version's Node States until its
  first resume refuses; an edit of the SQL that is undone during inspection is
  not noticed; the profile is not checked again after ensure-run.
* A failing kill emits the child's `error` event, which counts as a launch failure
  (`KillFails`): a job that had not begun is recorded as PREPARE_FAILED and may
  begin afterwards. `ResultIsTruthful` of `PinnedRun` excepts that job; without the
  exception TLC finds it. `RunExecution` leaves such kills out, and so do the
  theorems about it.
* A format or key with `:` passes validation, and each invocation is refused
  when its record key is built; a changed policy gives a period a second Run.

### Fairness

`lock_lease` assumes that time passes, requests on the wire arrive, and
operators repeat force-unlock until it succeeds: recovery is manual, and without
an operator a stale lock stays. It assumes nothing of the processes that hold
the lock except that a heartbeat they started is sent. `run_ends` assumes weak
fairness of each process's next step and of each job: a live Node.js process
runs on, kSQL-Flow stops itself at its timeout, and `run-subprocess.ts` kills it
after a grace period. Crashes, errors and lease losses are never forced.
`requests` assumes that pollers are started again and again (cron), that a
started poller and a living child go on, that leases run out and time passes.
`pinned` assumes weak fairness of the invocation at work and nothing of the job:
the timeout has to end it.

### Stated beside the runs

The configurations keep to what is hard to test. The modules also state the
types (`TypeOK`, `BoardTypeOK`) and some plainer facts, which hold on the same
instances when they are added to the cfg: `AbandonedAreClosed` and `AtMostOnce` (`run_exclusive`; the latter is checked
without exclusion by `run_contended`, and proved),
`LoadingEnds` (`board`; proved, `LoadsGoOn`), `ArchivedIsNotResumed` and, under `FairSpec`, `CallEnds`
(`archive`), `ProfilePinned` (`pinned`), and, under `FairSpec`, `LoadEnds`
(`definitions`).

## 4. Proofs

The theorems hold for every value of the constants: any nodes and dependencies,
any number of invocations, pollers, calls and operators, all leases and
thresholds, any number of faults. They rest on the assumptions that the modules
name: a network is finite, its order lists every node once and after its
dependencies (`NetworkAssumption`; `stableTopologicalSort`, checked by
`definitions`), the value that stands for nobody is none of the processes and
none of the codes (`ExecutionAssumption`, `ArchiveAssumption`,
`QueueAssumption`), the value that stands for an absent file is no content, no
version and no end of a job (`PinnedRunAssumption`), and, for the lease monitor, the rules of
`validateMonitorConfig` with a margin of at least one interval and heartbeats
answered in time (`MonitorAssumption`).

**Network lock** (`NetworkLockProofs`).

* `LockExcludes`: `Spec => []MutualExclusion`, and
  `AuditTruthful`: `Spec => []AuditedReleaseHappened`, both assuming that no stop
  confirmation is mistaken (`MistakenStops = FALSE`). `MutualExclusion` is not
  inductive. `IInv` adds: whoever is under the lock owns the record
  (`OwnerHoldsRecord`, of which exclusion is a corollary since a record has one
  owner); an operator past the confirmation acts against a process that has
  ended (`UnlockAgainstStopped`), so its PUT and its late copies hit nobody
  under the lock; requests on the wire come from processes that have moved past
  them (`DelayedIsPast`), so a late release cannot free a lock still in use; a
  lock record of an invocation comes into being once (`RecordOnce`), so a late
  POST cannot bring back a lock its owner lost. The type part and the rest are
  proved by separate lemmas per group of actions.
* `LockRefinesMutex`: `Spec => ImplementsMutex`, that is
  `Mutex!MutexSpec` under the mapping owner <- the owner of the lock record,
  closed <- the invocations with a tombstone, active <- those under the lock.
  Every action leaves the three alone or is one of Grant, Learn, Quit and Close;
  `IInv` is what shows that a POST that arrives late finds no tombstone of its
  own, and that no close hits a process at work.
* `LeaseRunsOut`: `Spec => ForcedOnlyAfterLease`, with stops confirmed rightly or
  wrongly, any number of processes and no further condition: a lock is forced open
  only after the exact end of the lease that the latest write of its record
  granted. `FencedLeases`: `Spec => FencedLeaseIsKept` is the owner's side: as long
  as the record bears the revision the owner knows, that lease is the one it counts
  on. Neither says that an owner is safe from the heartbeat of another process
  (second list of section 3): such a heartbeat moves the revision and becomes the
  record's latest write. The inductive invariant `LInv`, checked by TLC with 1 and 2
  invocations before it was proved, compares the places where a lease is kept: the
  record's expiry is less than a minute before `until` (`ServerOK`); what a process
  counts on ends no later than `until` while the record is its own and bears the
  revision the process knows (`LeaseOnRecord`); a heartbeat that was applied and
  whose answer is due has granted, at its revision, the lease its sender will count
  on (`HeartbeatOK`); what an operator read has expired as long as the
  record has the revision read (`ExpiredAt`), since every write moves the revision.

**Lease monitor** (`LeaseMonitorProofs`). `HeldSafe`:
`Spec => []HeldWithinLease`, from `TickBeforeExpiry`: while HELD and idle the
next firing of the timer is before the expiry. It is re-established by a
successful tick because latency plus interval is less than the lease, and by a
failed one because the safety margin is at least an interval.
`FinalWriteConfirmed`: `Spec => ConfirmedByRenewal`.

**The Run** (`RunExecutionProofs`). Four inductive invariants; TLC checked the
first two on the instances of `run_contended` and `run_exclusive`, the third,
but for its last conjunct, on that of `run_brake` with one fault, and the fourth,
but for two conjuncts, on that of `run_exclusive`, before they were proved.

* `RunInvariant`: `Spec => []IInv`, with or without exclusion, and from it
  `RunAtMostOnce` and `RunSuccessIsTruthful`: the compare-and-sets alone give
  both. `AtMostOnce` speaks of jobs and is not inductive, since what starts a
  job was decided many steps before. `IInv` has four parts.
  - Records (`NodeOK`). A node that never had an attempt has not run; its active
    attempt is its latest. `OnceOK`: a process is *engaged* in a node if it is
    between the claim and the launch, or its job was started. In a node that may
    be claimed (WAITING, BLOCKED, no record) nobody is engaged, in a RUNNING node
    only the active attempt, in any other at most one. `ClaimNode` is the only
    step that engages anybody and its compare-and-set needs a WAITING node; the
    steps that lead a non-idempotent node back to WAITING are the reset of a node
    without attempts and the result PREPARE_FAILED, whose job started nothing.
  - Memory (`ProcOK`). A copy with the record's revision is the record
    (`SeenState`), so a write that succeeds was decided on what is there; an
    attempt seen as SUCCESS has a job that was (`SeenAttempt`); a process has no
    attempt yet for the nodes ahead of it (`FreshOK`), so it names one attempt
    per node.
  - Phases (`PhaseOK`). What each `await` may rely on after it: the node claimed
    is RUNNING and the process's own in its copy, the decision about a result is
    SUCCESS only if the job was, an orphan's decision is about the active attempt.
  - The operator (`ResolverOK`). A resolve-node call in progress works on a state
    it saw UNKNOWN or FAILED, for the latest attempt, and has appended its
    resolution before it writes the state.
* `OwnerInvariant`: `Exclusive => (Spec => []XInv)`; that the lock excludes is
  `LockExcludes`. Only the owner is live, and from the first read of the
  reconciliation to the end of the loop its copies equal the records, except
  where an operator resolved an UNKNOWN or FAILED node (`SyncedOK`). Hence
  - `RunStartsAfterDependencies`: dependencies found SUCCESS at the boundary are
    SUCCESS on record at the launch, several writes later;
  - `RunSuccessIsFinal`: an aggregate SUCCESS is computed from current states;
    the only writes that take a node out of SUCCESS reset it to WAITING, and only
    RERUN_FROM resets a SUCCESS node, after `RERUN_FROM_SUCCESS_RUN` was checked
    on the current Run;
  - `RunStopBoundary`: between a boundary check that found no hold and the
    creation of the attempt nobody else creates one, so a new hold still counts
    zero.
* `BrakeInvariant`: `Exclusive => (Spec => []BrakeInv)`, and from it
  `RunRetryBrakeHolds`: `Exclusive => (Spec => RetryBrakeHolds)`. The brake is
  computed once, when a resume resets a node, and the attempt is created many
  steps later, perhaps by another invocation after a crash. `BrakeInv` says that,
  while no invocation was opened with --rerun-from (`NoRerun`), a node that may be
  started (WAITING, BLOCKED or no record) is not braked by the attempts on record.
  It is kept because
  - a resume counts all attempts of the Run: what `ReadOrphans` read, with the
    results it wrote for the orphans itself, is still what is on record when the
    nodes are reset (`AttemptsKnown`). This needs exclusion: a second
    process could add a failure in between;
  - a new attempt is numbered after all others of its node and is RUNNING, which
    releases the brake (`BrakeReleased`) until it has a result, and its node is
    then RUNNING or gets a final status;
  - the one result that sends its node back to WAITING, PREPARE_FAILED, is on
    record as such before (`ResultOK`) and is not counted, so the count is the one
    at the start of the attempt (`BrakeWithout`). For this the invariant also says
    of a RUNNING node that it is not braked without its active attempt.

  `BrakeDepends` (the brake depends only on status, code and number of the attempts
  it counts) reduces each step to what it writes; `Braked` itself, a cardinality,
  is expanded in three places only.
* `ProgressInvariant`: `Exclusive => (Spec => []ProgressInv)`, and from it
  `RunImplementsWorkflow`: `Exclusive => (Spec => ImplementsWorkflow)`, that is
  `Workflow!WorkflowSpec`. What the workflow says in one guard the code decides
  from copies, many steps before. `ProgressInv` adds what the other invariants do
  not say of the Run record and of the attempt numbers: the owner's copy of the
  Run is the record (`RunSeen`), of a SUCCESS Run every copy in a process that may
  still evaluate it is SUCCESS, the Run is started before any of its nodes and
  before it can succeed (`StartedOK`), and the attempt about to be claimed has the
  number after its node's latest (`NextNumber`). With it each write of a Node
  State is one workflow step (`NodeStep`): only `ClaimNode` is a Start, a result or
  a repair is an End or a Settle, a reset is a Retry or RunAgain that the checks of
  resume and rerun allow, and resolve-node beside the owner is a Settle. Only the
  aggregate of `close` is Finish. Every other action leaves the three alone.

**What a Run executes** (`PinnedRunProofs`). `PinnedInvariant`: `Spec => []IInv`,
checked by TLC on the instance of `pinned` before it was proved. Its parts:

* what the Run pins and what the invocation at work has read so far (`RunOK`,
  `SqlOK`, `ProfileOK`). Versions only grow, so `InspectJob` between two reads of
  the SQL that agree saw the same file: `run.sql = run.seen`;
* what each job was given and did (`JobOK`): it ran SQL only on the bytes it was
  told to read, and was told the pinned SQL and, after the first invocation, the
  pinned definition;
* what its attempt's record says of it (`AttemptOK`, `WorkOK`): the baseline on
  record is what the job was told to read from before it is launched until an
  orphan adjudication empties it;
* what the scheduler knows of the earlier attempts (`KnownOK`), and, as long as
  nobody has repaired the Run, that all attempts are bound to the same bytes
  (`PinOK`): an attempt that may leave a successor has ended FAILED or CANCELLED
  and kept its baseline, and the successor compares with the latest one.

`PinnedRunsAsPinned`, `PinnedProfile`, `PinnedInputs`, `PinnedBaseline` and
`PinnedResult` follow from it state by state. `ResultTells` is the lemma behind
the last one: whichever of the defective files is found in the place of a result,
the classification with exit code and receipts never reports an outcome that is
not the job's. That there is a latest baseline (`LatestBaseline` chooses the last
of a set of places) is `LastOne`, by well-founded induction on the distance from
the end.

**Definitions and admission** (`RunAdmissionProofs`), for every definition that
passes the schema (`DefinitionsAssumption`), every set of zones, any calendar
with months of one length (`CalendarAssumption`) and any number of callers and
calls (`AdmissionAssumption`). `DefInv` has one part per loop:

* the sort (`SortOK`): the indegree of a node is the number of its dependencies
  not yet placed (`CountsMissing`), and every place of the order has the first
  node of the file that was available for it (`PlaceOK`).
  When nothing is available but nodes are left, those nodes are a cycle
  (`StuckIsCycle`), and a cycle is never placed: with `SoundTells`, which takes
  the semantic checks apart, this is `VerdictOK`;
* the count before a selection (`CountOK`), by the same argument, visits every
  node of a loaded definition, so the refusal for a cycle is not met;
* the selection (`SelectOK`): all that is selected is reachable, and the
  dependents of all but the queued nodes are selected; when the queue is empty
  what is selected is closed, hence everything reachable.

From it `DefinitionOrder`, `DefinitionVerdict` and `DefinitionSelection`.
`LeastOne` (a nonempty set of places has a first one) is by well-founded
induction. `AdmInv` says that every key a caller holds is the key of its period
(`PeriodKey`), that the caller at work has the lock and an active Run, and that
the active Runs are within the limit; counting and writing are one step of the
model (`Admit`), as the code does both under the lock. `AdmissionBounded` and
`AdmissionPeriods` follow; the latter rests on `KeysArePeriods`: with a format that passes
`validateScheduledPeriodPolicy`, two instants get the same key exactly if they
are of the same day or month of the zone. The years, months and days in the key
determine the period by division (`QuotientOfQuotient`, `QuotientAndRemainder`).

**Archive-run** (`ArchiveRunProofs`). `IInv` says of every call what its place
and its outcome tell about the Run, the lock and the audits: a call that has not
written has nothing on the wire either (`NothingWritten`), one that goes on to
the audit knows the Run is archived (`ArchivedKnown`), the revision it carries is
current only while the Run is still closable (`StatusOK`, `WireOK`). A call that
audits excludes any other at work under the lock (`AuditExcludes`), which is what
`AuditedOnce` needs across a lost answer and a lost lease. From it
`OutcomesAreTruthful`, `AuditedOnce`, `ExitZeroClean` and `ArchivesFinishedRuns`
(an action property); `ArchivedStaysArchived` says in addition that no step
leads out of ARCHIVED.

**Request queue** (`RequestQueueProofs`). `IInv`: a request is served by one
claimant (`OneClaimant`); an envelope of the list that still has the record's
revision is still REQUESTED (`ListedOK`), so a claim is a claim of something
untouched; a claimant that has started no child finds that nothing was started
(`PollerOK`); a result about to be written is already true, and a child's report
says what its child did (`ChildOK`). From it `StartedOnce`, `WithdrawalHolds`,
`ResultsAreTruthful` and the action property `EndedForGood`. `HealthyClaims`
needs a second invariant `HInv`: every claim that met no fault is tended by a
poller whose grace (beats still due before its next write) bounds its age. It
has the hypothesis `StaleAfter >= 3`: a claim is two heartbeat intervals and a
tick old when a healthy claimant writes at the latest. The defaults give 16
intervals (60 s against 15 min and 60 s of allowance,
`requests/poll-requests-config.ts:8-10`); the check at line 162 only demands
more than one interval.

`QueueImplementsService`: `Spec => ImplementsService`, that is
`Service!ServiceSpec` under the mapping `Stage` (of a request's record: its state,
a REQUESTED one with the cancel flag being withdrawn, a REJECTED one with a code
that admits to not knowing being unsure) and `Work` (of its child and its effect).
`IInv` suffices. A write of a record is a move of its request (`RecordStep`): a
PUT that meets the listed revision finds what was listed, and the result a poller
carries agrees with the work: DONE of something changed or found, a certain
REJECTED of something that was at most prepared. A step of a child is progress of the work
(`WorkStep`), possible only while the request is taken or its answer unsure, as a
live child excludes an answer that is certain (`Underway`).

**Request board** (`RequestBoardProofs`). The board adds stale copies: rows of a
load, of the page rendered and of a dialog opened from an earlier page. Records
only go onward: they are never taken back, every change of state raises the
revision, and what has ended stays ended. So a copy stays usable together with
its revision (`KnownOK`): a cancel it leads to is refused or hits the record that
was shown. `BInv` has, beside the queue's `IInv`, which the board's writes keep
(`BoardKeepsQueue`):

* the loads (`PageInv`): what the newest load has put together, and what is on
  the page, offers nothing while a request that was reported as created is open,
  unless the page says that it could not read the requests (`Covers`);
* the dialogs (`DialogInv`): each has what its kind needs from its page at every
  `await`, and a cancel confirmed at a revision that is still current is of a
  request that is still REQUESTED;
* what was said (`HistoryInv`): "accepted" was said of withdrawn requests only.

From it `BoardNoOffer` (`NoOfferWhileCreatedPends`), `BoardCancelHonoured`
(`CancelAnswerHonoured`), `BoardOffersServed` (`OffersAreServed`, which reads no page:
it compares two pure decisions, `decideBoardAction` given the hold and
`reviewRequest`, for all Runs, and says nothing of the detail page, which decides
without the hold) and `LoadsGoOn` (`LoadingEnds`). `BoardImplementsService`: a dialog's POST
and PUT are an Ask and a Withdraw of the same service. `HealthyClaims` is not carried over to the
composed system: `HInv` counts faults, and a cancel from the board, which a poller
meets as a conflict, is none.

`NetworkLockProofs!LockTypes`, `LeaseMonitorProofs!MonitorTypes`, `RunTypes`,
`PinnedTypes`, `ArchiveTypes` and `QueueTypes` are the type parts of the invariants.

Only model-checked: liveness (`AbandonedLockIsRecovered`, `InvocationEnds`,
`RequestsSettle`, `LoadEnds`; the prover has no rules for fairness and ENABLED).

## 5. Not modelled

Record and lock keys, ZIP bytes, YAML and JSON schema (text formats without a
protocol); the settings form and the HTML of the plugin; argument parsing and
output of the CLI; the audit of kSQL-Flow's own lock, which changes no state
here; the in-memory repository (a test double); the templates and spikes. A
full page of `listAccepted`, and an invalid record in it, are outside
`RequestQueue`: its records are valid and fewer than the limit.

## 6. Left open

`HealthyClaims` beside a board that cancels (the count of faults would have to
treat a cancel as a disturbance of the claim); liveness of requests whose Run
does not exist, and of a queue longer than one page; operation audits of repairs.
