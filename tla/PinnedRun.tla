------------------------------ MODULE PinnedRun ------------------------------
(***************************************************************************)
(* What a Run executes.  A Run pins, when it is created, the definition    *)
(* and the SQL it was inspected with (the bundle), the profile and, at the *)
(* first attempt of a node, the bytes of its input files (the baseline in  *)
(* the Attempt record); a resume is to execute the same again.  The files  *)
(* belong to others: network.yaml, the SQL, the profile and the input may  *)
(* be replaced between any two steps of an invocation, an invocation may   *)
(* die between any two of its steps, and the job it left goes on.          *)
(*                                                                         *)
(* One Run with one idempotent node that has one input and one output.     *)
(* Invocations follow one another: NetworkLock and RunExecution model that *)
(* they exclude each other, and the several writes that make up one change *)
(* of an Attempt and its Node State; here such a change is one step.       *)
(*                                                                         *)
(* Sources: orchestration/ensure-run.ts, orchestration/sequential-         *)
(* scheduler.ts, bundle/bundle-builder.ts, executor/*.ts, io/*.ts.         *)
(***************************************************************************)
EXTENDS JobResults, Sequences

CONSTANTS
    Content,        \* what an input file may hold
    None,           \* no content, no record
    MaxInvocations, \* invocations of the program
    MaxRepairs,     \* uses of --rerun-from and of resolve-node
    MaxEdits,       \* changes of a file by somebody else
    MaxFaults       \* deaths of an invocation or a job, failing calls, unusable results

\* What became of a job: "refused" and "conflict" end before the first SQL
\* statement, "died" says nothing of its SQL.
Ends == Outcomes \cup {"refused", "conflict", "died"}

ASSUME PinnedRunAssumption ==
    /\ None \notin Content \cup Ends \cup Nat /\ Content # {}
    /\ MaxInvocations \in Nat \ {0}
    /\ {MaxRepairs, MaxEdits, MaxFaults} \subseteq Nat

VARIABLES
    world,          \* the files as they are now
    run,            \* the Network Run and what it pins
    node,           \* the status of the Node State
    attempts,       \* the Node Attempts, by number
    proc,           \* the job each attempt launched
    inv,            \* the invocation at work and its local variables
    used            \* how much of each bound is used up

vars == <<world, run, node, attempts, proc, inv, used>>

Attempt == 1..MaxInvocations
Modes == {"NEW", "RESUME", "RERUN_FROM"}
Version == 0..MaxEdits
AttemptStatus == {"RUNNING", "UNKNOWN"} \cup Outcomes
Code == {"PENDING", "RESULT", "PREPARE_FAILED", "PATH_REJECTED", "INPUT_FILE_MISSING",
         "INPUT_FILE_MUTATED", "NO_VALID_RESULT"}

NoRun == [exists |-> FALSE, net |-> 0, sql |-> 0, seen |-> 0, prof |-> 0, states |-> None]

NoProc == [phase |-> "none", mode |-> "NEW", net |-> 0, sql |-> 0, prof |-> 0, began |-> 0,
           want |-> None, read |-> None, end |-> None, unkilled |-> FALSE]

Idle == [pc |-> "idle", mode |-> "NEW", def |-> 0, began |-> 0, prof |-> 0, net |-> 0,
         sql |-> 0, seen |-> 0, known |-> <<>>, file |-> None, forced |-> FALSE]

TypeOK ==
    /\ world \in [net : Version, sql : Version, prof : Version, file : Content \cup {None}]
    /\ run \in [exists : BOOLEAN, net : Version, sql : Version, seen : Version,
                prof : Version, states : Version \cup {None}]
    /\ node \in {"none", "WAITING"} \cup AttemptStatus
    /\ attempts \in Seq([status : AttemptStatus, base : Content \cup {None},
                         started : BOOLEAN, code : Code])
    /\ Len(attempts) <= MaxInvocations
    /\ node = "RUNNING" => Len(attempts) > 0
    /\ proc \in [Attempt -> [phase : {"none", "launchFailed", "spawned", "executing", "ended"},
                             mode : Modes, net : Version, sql : Version, prof : Version,
                             began : Version, want : Content \cup {None},
                             read : Content \cup {None}, end : Ends \cup {None},
                             unkilled : BOOLEAN]]
    /\ inv.pc \in {"idle", "describe", "network", "sql", "inspect", "again",
                  "check", "states", "verify", "schedule", "prepare", "attempt", "inputs",
                  "baseline", "started", "spawn", "wait", "forced", "classify"}
    /\ inv.mode \in Modes /\ inv.forced \in BOOLEAN
    /\ {inv.def, inv.began, inv.prof, inv.net, inv.sql, inv.seen} \subseteq Version
    /\ inv.file \in Content \cup {None}
    /\ used \in [starts : 0..MaxInvocations, repairs : 0..MaxRepairs, edits : 0..MaxEdits,
                 faults : 0..MaxFaults]

Init ==
    /\ world = [net |-> 0, sql |-> 0, prof |-> 0, file |-> CHOOSE c \in Content : TRUE]
    /\ run = NoRun /\ node = "none" /\ attempts = <<>>
    /\ proc = [k \in Attempt |-> NoProc]
    /\ inv = Idle
    /\ used = [starts |-> 0, repairs |-> 0, edits |-> 0, faults |-> 0]

Goto(pc) == inv' = [inv EXCEPT !.pc = pc]
EndInvocation == inv' = Idle
Fault == used.faults < MaxFaults /\ used' = [used EXCEPT !.faults = @ + 1]

Last == Len(attempts)

---------------------------------------------------------------------------
(* ensureRun: what comes before the Run *)

\* findRunInsideLock.  A Run that exists is resumed only on demand, one with
\* SUCCESS not at all: a no-op, or refused by prepareRerunFrom (after
\* reconcileRun the status of the one node is that of its Run).
FindRun(m) ==
    IF ~run.exists THEN IF m = "RERUN_FROM" THEN "idle" ELSE "describe"
    ELSE IF m = "NEW" \/ node = "SUCCESS" THEN "idle" ELSE "check"

\* ensureRun starts: loadNetworkDefinition reads network.yaml, kSQL-Flow answers
\* with the capabilities the definition needs (validateCapabilities), and the
\* Run is looked for.
Start(m) ==
    /\ inv.pc = "idle" /\ used.starts < MaxInvocations
    /\ m = "RERUN_FROM" => used.repairs < MaxRepairs
    /\ used' = [used EXCEPT !.starts = @ + 1,
                            !.repairs = IF m = "RERUN_FROM" THEN @ + 1 ELSE @]
    /\ inv' = IF FindRun(m) = "idle" THEN Idle
              ELSE [Idle EXCEPT !.pc = FindRun(m), !.mode = IF run.exists THEN m ELSE "NEW",
                                !.def = world.net, !.began = world.prof]
    /\ UNCHANGED <<world, run, node, attempts, proc>>

\* invokeJson fails, or its answer is refused: a capability is missing, the
\* profile is not described, the job is not the one of the definition or has
\* an unapproved nondeterministic element.
ToolRefuses ==
    /\ inv.pc \in {"describe", "inspect", "check"}
    /\ Fault /\ EndInvocation
    /\ UNCHANGED <<world, run, node, attempts, proc>>

---------------------------------------------------------------------------
(* createNewRun *)

DescribeProfile ==
    /\ inv.pc = "describe"
    /\ inv' = [inv EXCEPT !.pc = "network", !.prof = world.prof]
    /\ UNCHANGED <<world, run, node, attempts, proc, used>>

ReadNetwork ==
    /\ inv.pc = "network"
    /\ inv' = [inv EXCEPT !.pc = "sql", !.net = world.net]
    /\ UNCHANGED <<world, run, node, attempts, proc, used>>

ReadSql ==
    /\ inv.pc = "sql"
    /\ inv' = [inv EXCEPT !.pc = "inspect", !.sql = world.sql]
    /\ UNCHANGED <<world, run, node, attempts, proc, used>>

InspectJob ==
    /\ inv.pc = "inspect"
    /\ inv' = [inv EXCEPT !.pc = "again", !.seen = world.sql]
    /\ UNCHANGED <<world, run, node, attempts, proc, used>>

\* buildBundle: what was read, in one file; seen is history.
Bundle == [NoRun EXCEPT !.net = inv.net, !.sql = inv.sql, !.seen = inv.seen]

\* The upload of the bundle, createRun and the Run Invocation.
CreateRun ==
    /\ run' = [Bundle EXCEPT !.exists = TRUE, !.prof = inv.prof]
    /\ inv' = [Idle EXCEPT !.pc = "states", !.def = inv.def, !.began = inv.began]

\* Faulty variant: the SQL is taken as it was read first.
ReadSqlOnce ==
    /\ inv.pc = "again"
    /\ CreateRun
    /\ UNCHANGED <<world, node, attempts, proc, used>>

\* The SQL is read again and must not have changed (BUNDLE_INPUT_CHANGED);
\* then the Run is created.
ReadSqlAgain ==
    /\ inv.pc = "again"
    /\ IF world.sql = inv.sql THEN CreateRun ELSE EndInvocation /\ UNCHANGED run
    /\ UNCHANGED <<world, node, attempts, proc, used>>

---------------------------------------------------------------------------
(* The path of a resume, and what both paths have in common *)

\* assertStoredProfile: the profile must be the one of the Run.
CheckProfile ==
    /\ inv.pc = "check"
    /\ inv' = IF world.prof = run.prof THEN [inv EXCEPT !.pc = "states"] ELSE Idle
    /\ UNCHANGED <<world, run, node, attempts, proc, used>>

\* The download of the bundle fails, its bytes are not those of the Run, or the
\* retention period of the Run's inputs is over (assertInputRetention).
BundleRefused ==
    /\ inv.pc = "states"
    /\ Fault /\ EndInvocation
    /\ UNCHANGED <<world, run, node, attempts, proc>>

\* The bundle is downloaded and has the SHA-256 of the Run (verifyBundle,
\* definitionFromBundle).
\* ensureNodeStates: the Node States that are missing are created from the
\* definition (of this invocation for a new Run, of the bundle for a resume);
\* those that exist must match it (RUN_SNAPSHOT_MISMATCH).  An edit of
\* network.yaml here is one of the fields compared: job_id, idempotent,
\* trigger_rule.
EnsureNodeStates ==
    /\ inv.pc = "states"
    /\ IF run.states = None
       THEN /\ run' = [run EXCEPT !.states = IF inv.mode = "NEW" THEN inv.def ELSE run.net]
            /\ node' = "WAITING"
            /\ Goto(IF inv.mode = "NEW" THEN "schedule" ELSE "verify")
       ELSE /\ inv' = IF run.states = run.net THEN [inv EXCEPT !.pc = "verify"] ELSE Idle
            /\ UNCHANGED <<run, node>>
    /\ UNCHANGED <<world, attempts, proc, used>>

\* latestStoredBaseline, latestInputBaseline: of the latest attempt with one.
LatestBaseline(as) ==
    LET with == {k \in 1..Len(as) : as[k].base # None}
    IN  IF with = {} THEN None
        ELSE as[CHOOSE k \in with : \A l \in with : l <= k].base

\* inputBaselinesEqual, where there is a baseline.
SameBaseline(as, c) == LatestBaseline(as) \in {None, c}

\* verifyExistingInputBaselines: for the nodes a resume will reset, or those
\* selected by --rerun-from; a file that cannot be read is left to the
\* scheduler.  --rerun-from refuses UNKNOWN, then resets its nodes to WAITING.
VerifyBaselines ==
    /\ inv.pc = "verify"
    /\ LET target == inv.mode = "RERUN_FROM" \/ node \in {"FAILED", "CANCELLED"}
           mutated == /\ target /\ world.file # None
                      /\ ~SameBaseline(attempts, world.file)
       IN  IF mutated \/ (inv.mode = "RERUN_FROM" /\ node = "UNKNOWN")
           THEN EndInvocation /\ UNCHANGED node
           ELSE /\ node' = IF inv.mode = "RERUN_FROM" THEN "WAITING" ELSE node
                /\ Goto("schedule")
    /\ UNCHANGED <<world, run, attempts, proc, used>>

---------------------------------------------------------------------------
(* The scheduler *)

\* The JOB log of the job of attempt k, as decideOrphanResult reads it.
JobLog(k) == IF proc[k].end \in Outcomes THEN {proc[k].end, "UNKNOWN"} ELSE {"UNKNOWN"}

\* extractBundle, getAttempts and adjudicateOrphanRunningAttempts: the attempts
\* are read first, the baseline of an attempt adjudicated UNKNOWN is replaced
\* by a message in the record, not in what was read.
Adjudicate ==
    /\ inv.pc = "schedule"
    /\ IF inv.mode # "NEW" /\ node = "RUNNING" /\ attempts[Last].status = "RUNNING"
       THEN \E s \in JobLog(Last) :
              LET done == [attempts[Last] EXCEPT !.status = s, !.code = "RESULT"]
              IN  /\ attempts' = [attempts EXCEPT
                                    ![Last] = IF s = "UNKNOWN" THEN [done EXCEPT !.base = None]
                                              ELSE done]
                  /\ node' = s
                  /\ inv' = [inv EXCEPT !.pc = "prepare",
                                        !.known = [attempts EXCEPT ![Last] = done]]
       ELSE /\ inv' = [inv EXCEPT !.pc = "prepare",
                                  !.known = IF inv.mode = "NEW" THEN <<>> ELSE attempts]
            /\ UNCHANGED <<attempts, node>>
    /\ UNCHANGED <<world, run, proc, used>>

\* prepareResumeStates: a resume resets FAILED and CANCELLED; what is not
\* WAITING then is not executed.  (The retry brake needs more invocations than
\* MaxInvocations; RunExecution models it.)
PrepareResumeStates ==
    /\ inv.pc = "prepare"
    /\ LET reset == inv.mode = "RESUME" /\ node \in {"FAILED", "CANCELLED"}
       IN  IF reset \/ node = "WAITING"
           THEN node' = "WAITING" /\ Goto("attempt")
           ELSE EndInvocation /\ UNCHANGED node
    /\ UNCHANGED <<world, run, attempts, proc, used>>

\* createAttempt and the Node State RUNNING.
CreateAttempt ==
    /\ inv.pc = "attempt"
    /\ attempts' = Append(attempts, [status |-> "RUNNING", base |-> None, started |-> FALSE,
                                     code |-> "PENDING"])
    /\ node' = "RUNNING"
    /\ Goto("inputs")
    /\ UNCHANGED <<world, run, proc, used>>

\* finalizeAttempt and the Node State; the record keeps its baseline.
Finalize(status, state, code) ==
    /\ attempts' = [attempts EXCEPT ![Last].status = status, ![Last].code = code]
    /\ node' = state
    /\ EndInvocation

\* finalizeIoPathFailure: the message takes the place of the baseline.
FinalizeIoPathFailure(code) ==
    /\ attempts' = [attempts EXCEPT ![Last].status = "FAILED", ![Last].base = None,
                                    ![Last].code = code]
    /\ node' = "FAILED"
    /\ EndInvocation

\* A component of the path of the input or the output is a link, or no
\* directory, or no regular file (resolveNodeInputs, resolveNodeOutputs).
PathRejected ==
    /\ inv.pc = "inputs"
    /\ Fault
    /\ FinalizeIoPathFailure("PATH_REJECTED")
    /\ UNCHANGED <<world, run, proc>>

\* shouldComparePreviousBaseline
ShouldCompare ==
    \/ inv.mode = "RERUN_FROM"
    \/ /\ inv.mode = "RESUME" /\ inv.known # <<>>
       /\ inv.known[Len(inv.known)].status \in {"FAILED", "CANCELLED"}

\* Faulty variant: only the attempt before is looked at for a baseline.
ResolveAgainstLast ==
    LET last == IF inv.known = <<>> THEN None ELSE inv.known[Len(inv.known)].base
    IN  /\ inv.pc = "inputs"
        /\ IF world.file = None THEN FinalizeIoPathFailure("INPUT_FILE_MISSING")
           ELSE IF ShouldCompare /\ last \notin {None, world.file}
           THEN FinalizeIoPathFailure("INPUT_FILE_MUTATED")
           ELSE /\ inv' = [inv EXCEPT !.pc = "baseline", !.file = world.file, !.known = <<>>]
                /\ UNCHANGED <<attempts, node>>
        /\ UNCHANGED <<world, run, proc, used>>

\* resolveNodeInputs: the file is opened and hashed; resolveNodeOutputs; the
\* hash must be the one of the earlier attempts.
ResolveNodeInputs ==
    /\ inv.pc = "inputs"
    /\ IF world.file = None THEN FinalizeIoPathFailure("INPUT_FILE_MISSING")
       ELSE IF ShouldCompare /\ ~SameBaseline(inv.known, world.file)
       THEN FinalizeIoPathFailure("INPUT_FILE_MUTATED")
       ELSE /\ inv' = [inv EXCEPT !.pc = "baseline", !.file = world.file, !.known = <<>>]
            /\ UNCHANGED <<attempts, node>>
    /\ UNCHANGED <<world, run, proc, used>>

\* Faulty variant: the baseline is left to the end of the attempt.
PersistNothing ==
    /\ inv.pc = "baseline"
    /\ Goto("started")
    /\ UNCHANGED <<world, run, node, attempts, proc, used>>

\* persistInputBaseline; a lost answer is settled by reading the record.
PersistInputBaseline ==
    /\ inv.pc = "baseline"
    /\ attempts' = [attempts EXCEPT ![Last].base = inv.file]
    /\ Goto("started")
    /\ UNCHANGED <<world, run, node, proc, used>>

\* The write of the baseline failed: the scheduler stops, the attempt stays.
BaselineUnconfirmed ==
    /\ inv.pc = "baseline"
    /\ Fault /\ EndInvocation
    /\ \/ UNCHANGED attempts
       \/ attempts' = [attempts EXCEPT ![Last].base = inv.file]
    /\ UNCHANGED <<world, run, node, proc>>

---------------------------------------------------------------------------
(* AttemptExecutor.execute and RunSubprocess.run *)

SetAttemptExecutionStarted ==
    /\ inv.pc = "started"
    /\ attempts' = [attempts EXCEPT ![Last].started = TRUE]
    /\ Goto("spawn")
    /\ UNCHANGED <<world, run, node, proc, used>>

\* extractBundle: the job runs the SQL of the bundle, not the one on disk.
Extracted == [NoProc EXCEPT !.net = run.net, !.sql = run.sql]

\* The job gets that SQL, the expected job id of the definition there and the
\* hash of the input.
Job == [Extracted EXCEPT !.mode = inv.mode, !.began = inv.began, !.want = inv.file]

Spawn ==
    /\ inv.pc = "spawn"
    /\ proc' = [proc EXCEPT ![Last] = [Job EXCEPT !.phase = "spawned"]]
    /\ Goto("wait")
    /\ UNCHANGED <<world, run, node, attempts, used>>

\* The process cannot be started.
SpawnFails ==
    /\ inv.pc = "spawn"
    /\ Fault
    /\ proc' = [proc EXCEPT ![Last] = [Job EXCEPT !.phase = "launchFailed"]]
    /\ Goto("wait")
    /\ UNCHANGED <<world, run, node, attempts>>

\* timeoutMs, then gracePeriodMs, pass: gracefulStop, which the job may heed by
\* ending in any way, then forceStop.
Timeout ==
    /\ inv.pc = "wait" /\ proc[Last].phase \in {"spawned", "executing"}
    /\ inv' = [inv EXCEPT !.pc = "forced", !.forced = TRUE]
    /\ UNCHANGED <<world, run, node, attempts, proc, used>>

\* Faulty variant: the wait after forceStop has no end of its own.
ExitSeenOnly ==
    /\ inv.pc \in {"wait", "forced"}
    /\ proc[Last].phase \in {"launchFailed", "ended"}
    /\ Goto("classify")
    /\ UNCHANGED <<world, run, node, attempts, proc, used>>

\* The process has ended, or the wait after forceStop is over.
ExitSeen ==
    /\ \/ inv.pc \in {"wait", "forced"} /\ proc[Last].phase \in {"launchFailed", "ended"}
       \/ inv.pc = "forced"
    /\ Goto("classify")
    /\ UNCHANGED <<world, run, node, attempts, proc, used>>

\* What an honest job of kSQL-Flow leaves, by how it ended.
Honest(end) ==
    CASE end = "SUCCESS" -> ResultFile("SUCCESS", "OK", 0, TRUE)
      [] end = "FAILED" -> ResultFile("FAILED", "SQL_ERROR", 1, TRUE)
      [] end = "CANCELLED" -> ResultFile("CANCELLED", "CANCELLED", 3, TRUE)
      [] end = "conflict" -> ResultFile("FAILED", "LOCK_CONFLICT", 5, FALSE)
      [] end = "refused" -> [ResultFile("FAILED", "INPUT_FILE_MUTATED", 1, FALSE)
                             EXCEPT !.inputs = "other"]

\* What else may be found: no usable file, the result of another attempt or
\* job, receipts that do not fit, claims the exit code does not bear out.
Defective(r) ==
    {NoFile, [r EXCEPT !.shape = FALSE], [r EXCEPT !.echo = FALSE],
     [r EXCEPT !.inputs = "other"], [r EXCEPT !.outputs = "other"],
     [r EXCEPT !.status = "SUCCESS"], [r EXCEPT !.started = ~@],
     [r EXCEPT !.status = "SUCCESS", !.code = "OK", !.exit = 0, !.started = TRUE]}

\* The result file as it may be found; a job that still runs, or died, has no
\* exit code and at most a file that does not count.
Found(end) ==
    IF end \in Ends \ {"died"} THEN {Honest(end)} \cup Defective(Honest(end)) ELSE {NoFile}

ExitOf(end) == IF end \in Ends \ {"died"} THEN Honest(end).exit ELSE NoExit

MarkerOf(k) == IF proc[k].read # None THEN "started" ELSE "none"

\* readAndClassifyResult, the receipts, readMarker and the decision.  A file
\* that is not the honest one, and an unusable answer of the JOB log, are faults.
ClassifyAndFinalize ==
    /\ inv.pc = "classify"
    /\ LET end == proc[Last].end
       IN  \E file \in Found(end), marker \in {MarkerOf(Last), "error"} :
             LET honest == /\ end \in Ends \ {"died"} => file = Honest(end)
                           /\ marker # "error"
                 d == Decision(CheckedResult(file, ExitOf(end), inv.forced),
                               attempts[Last].started, marker,
                               proc[Last].phase = "launchFailed")
             IN  /\ IF honest THEN UNCHANGED used ELSE Fault
                 /\ Finalize(d.status, d.state, d.code)
    /\ UNCHANGED <<world, run, proc>>

\* The kill of gracefulStop or forceStop fails: the error event of the child ends
\* the wait as that of a failed launch does, without an exit code, and the job goes
\* on.  What it has not begun by the time of the decision it may begin afterwards.
\* (Of a job that has begun it makes an UNKNOWN attempt, as a wait that is over
\* does.)
KillFails ==
    /\ inv.pc \in {"wait", "forced"} /\ proc[Last].phase = "spawned"
    /\ Fault
    /\ proc' = [proc EXCEPT ![Last].unkilled = TRUE]
    /\ LET d == Decision(CheckedResult(NoFile, NoExit, FALSE), attempts[Last].started,
                         MarkerOf(Last), TRUE)
       IN  Finalize(d.status, d.state, d.code)
    /\ UNCHANGED <<world, run>>

---------------------------------------------------------------------------
(* The job, an external process *)

\* The job reads the profile and its input; the input must have the expected
\* hash, and the job lock must be free, before the start marker is written and
\* the first SQL statement runs.
JobBegins(k) ==
    /\ proc[k].phase = "spawned"
    /\ IF world.file # proc[k].want
       THEN proc' = [proc EXCEPT ![k].phase = "ended", ![k].end = "refused"]
       ELSE IF \E l \in Attempt : proc[l].phase = "executing"
       THEN proc' = [proc EXCEPT ![k].phase = "ended", ![k].end = "conflict"]
       ELSE proc' = [proc EXCEPT ![k].phase = "executing", ![k].read = world.file,
                                 ![k].prof = world.prof]
    /\ UNCHANGED <<world, run, node, attempts, inv, used>>

JobEnds(k, end) ==
    /\ proc[k].phase = "executing"
    /\ proc' = [proc EXCEPT ![k].phase = "ended", ![k].end = end]
    /\ UNCHANGED <<world, run, node, attempts, inv, used>>

\* It dies, by itself or of forceStop.
JobDies(k) ==
    /\ proc[k].phase \in {"spawned", "executing"}
    /\ IF inv.pc = "forced" /\ k = Last THEN UNCHANGED used ELSE Fault
    /\ proc' = [proc EXCEPT ![k].phase = "ended", ![k].end = "died"]
    /\ UNCHANGED <<world, run, node, attempts, inv>>

---------------------------------------------------------------------------
(* The others *)

\* The invocation dies; its job, if it launched one, does not.
Crash ==
    /\ inv.pc # "idle"
    /\ Fault /\ EndInvocation
    /\ UNCHANGED <<world, run, node, attempts, proc>>

\* Somebody replaces a file: every version of the sources is a new one, an
\* input may be taken away and come back.  (Nothing of network.yaml and of the
\* SQL is used any more once the Run has its bundle.)
Edit ==
    /\ used.edits < MaxEdits
    /\ used' = [used EXCEPT !.edits = @ + 1]
    /\ \/ ~run.exists /\ world' = [world EXCEPT !.net = @ + 1]
       \/ ~run.exists /\ world' = [world EXCEPT !.sql = @ + 1]
       \/ world' = [world EXCEPT !.prof = @ + 1]
       \/ \E c \in (Content \cup {None}) \ {world.file} : world' = [world EXCEPT !.file = c]
    /\ UNCHANGED <<run, node, attempts, proc, inv>>

\* resolve-node: an operator decides an UNKNOWN node, when no invocation runs.
ResolveNode(o) ==
    /\ inv.pc = "idle" /\ node = "UNKNOWN" /\ used.repairs < MaxRepairs
    /\ used' = [used EXCEPT !.repairs = @ + 1]
    /\ node' = o
    /\ UNCHANGED <<world, run, attempts, proc, inv>>

EnsureRun ==
    \/ \E m \in Modes : Start(m)
    \/ ToolRefuses
    \/ DescribeProfile \/ ReadNetwork \/ ReadSql \/ InspectJob \/ ReadSqlAgain
    \/ CheckProfile \/ BundleRefused \/ EnsureNodeStates \/ VerifyBaselines

Scheduler ==
    \/ Adjudicate \/ PrepareResumeStates \/ CreateAttempt
    \/ ResolveNodeInputs \/ PathRejected
    \/ PersistInputBaseline \/ BaselineUnconfirmed

Executor ==
    \/ SetAttemptExecutionStarted \/ Spawn \/ SpawnFails \/ Timeout \/ ExitSeen
    \/ ClassifyAndFinalize \/ KillFails

JobStep == \E k \in Attempt : \/ JobBegins(k) \/ JobDies(k)
                              \/ \E o \in Outcomes : JobEnds(k, o)

Others == Crash \/ Edit \/ \E o \in Outcomes : ResolveNode(o)

Next == EnsureRun \/ Scheduler \/ Executor \/ JobStep \/ Others

\* The steps of an invocation that is at work, its timers among them.
Program == inv.pc # "idle" /\ (EnsureRun \/ Scheduler \/ Executor)

Spec == Init /\ [][Next]_vars
FairSpec == Spec /\ WF_vars(Program)

---------------------------------------------------------------------------
(* Properties *)

\* The first SQL statement of attempt k's job has run.
Executed(k) == proc[k].read # None

\* A job executes the very SQL that kSQL-Flow inspected for the Run, though the
\* file may change while it is inspected (createNewRun), and a later invocation
\* executes the definition the Run's Node States were made from
\* (ensureNodeStates), though network.yaml is read twice when the Run is made.
RunsAsPinned ==
    \A k \in Attempt : Executed(k) =>
        /\ proc[k].sql = run.seen
        /\ proc[k].mode # "NEW" => proc[k].net = run.states

\* A job runs under the profile the Run pinned, unless the profile was changed
\* while its invocation was at work (assertStoredProfile): a change before the
\* invocation is always noticed.
ProfilePinned ==
    \A k \in Attempt : Executed(k) => proc[k].prof = run.prof \/ proc[k].prof > proc[k].began

\* All jobs of the node that ran SQL read the same bytes, over crashes, orphan
\* adjudications, missing files and files that come and go between the two
\* comparisons (ensure-run and scheduler), as long as nobody has resolved an
\* UNKNOWN node or used --rerun-from.
InputsPinned ==
    used.repairs = 0 =>
        \A j, k \in Attempt : Executed(j) /\ Executed(k) => proc[j].read = proc[k].read

\* A crash at any point leaves the baseline on record: while an attempt is
\* RUNNING, its job has read nothing but the bytes its record names.
BaselineBeforeExecution ==
    \A k \in 1..Last :
        attempts[k].status = "RUNNING" /\ Executed(k) => attempts[k].base = proc[k].read

\* The record of an attempt whose job ran SQL keeps its baseline for the resumes
\* to come, whatever became of its invocation.
BaselineKept == \A k \in 1..Last : Executed(k) => attempts[k].base = proc[k].read

\* An attempt is recorded with an outcome only if its job really ended so, with
\* SUCCESS only on the input on record, and as PREPARE_FAILED only if its job
\* has not run and never will, whatever result file is found, whenever the job
\* is killed, and if the wait for it is given up while it still runs.  The one
\* exception is a job that could not be killed: it may begin after its attempt was
\* called PREPARE_FAILED.
ResultIsTruthful ==
    \A k \in 1..Last :
        /\ attempts[k].code = "RESULT" /\ attempts[k].status \in Outcomes
              => proc[k].end = attempts[k].status
        /\ attempts[k].status = "SUCCESS" => attempts[k].base = proc[k].read
        /\ attempts[k].code = "PREPARE_FAILED" => ~Executed(k) \/ proc[k].unkilled

\* Every invocation ends, even if its job ignores every signal and never ends:
\* RunSubprocess.run gives up after the wait that follows forceStop.  (For a
\* profile with a batch timeout; without one the first wait has no end.)
InvocationEnds == []<>(inv.pc = "idle")
=============================================================================
