---------------------------- MODULE RequestRules ----------------------------
(***************************************************************************)
(* The pure rules of operation requests: what a Run looks like to the      *)
(* poller and to the board (orchestration/run-activity.ts,                 *)
(* orchestration/status.ts, plugin/src/activity-input.ts), which requests  *)
(* the poller lets through (requests/request-poller.ts,                    *)
(* requests/start-request.ts), what it makes of a child's report           *)
(* (requests/request-result.ts), and which operations the board offers     *)
(* (plugin/src/board-action.ts).                                           *)
(*                                                                         *)
(* A Run is a record [exists, status, started, hold, lifecycle, owner,     *)
(* fresh]: hold abstracts the CANCEL_REQUEST record (TRUE: REQUESTED or    *)
(* ACCEPTED; FALSE: RELEASED or absent), owner names who holds the Network *)
(* lock for it and fresh says whether that lease is still valid.           *)
(***************************************************************************)
EXTENDS Integers, FiniteSets

CONSTANT None       \* no owner, no code, no record

RequestType == {"RERUN", "STOP", "RELEASE", "START", "CLOSE"}
TerminalRun == {"SUCCESS", "FAILED", "CANCELLED", "UNKNOWN"}

\* A result the poller writes: a terminal request state and a code.
Rejected(code) == [state |-> "REJECTED", code |-> code]
Done(code) == [state |-> "DONE", code |-> code]

\* hasLiveOwner: the lock's owner is an invocation of this Run and its lease,
\* with the precision allowance, has not run out.
HasLiveOwner(run) == run.owner # None /\ run.fresh

\* deriveRunActivity, null written as None.
DeriveRunActivity(run) ==
    CASE run.status \in TerminalRun -> None
      [] run.status \notin TerminalRun /\ run.hold -> "STOPPED"
      [] run.status \notin TerminalRun /\ ~run.hold /\ HasLiveOwner(run) -> "LIVE"
      [] OTHER -> IF run.started THEN "INTERRUPTED" ELSE "IDLE"
-----------------------------------------------------------------------------
(* The poller's review of a claimed request. *)

\* reviewRequest: None lets the request through. resume_allowed is true from
\* the creation of a Run on, so lifecycle_status alone decides.
ReviewRerun(run) ==
    IF run.status \in {"SUCCESS", "UNKNOWN"}
    THEN Rejected("RUN_STATUS_NOT_RERUNNABLE")
    ELSE IF run.lifecycle # "ACTIVE" THEN Rejected("RUN_NOT_RESUMABLE")
    ELSE IF run.hold THEN Rejected("RUN_ON_HOLD")
    ELSE IF HasLiveOwner(run) THEN Rejected("RUN_LIVE")
    ELSE None

ReviewStop(run) ==
    IF run.status \in TerminalRun THEN Rejected("RUN_TERMINAL")
    ELSE IF DeriveRunActivity(run) = "STOPPED" THEN Rejected("RUN_ALREADY_ON_HOLD")
    ELSE None

ReviewClose(run) ==
    IF run.lifecycle = "ARCHIVED" THEN Done("RUN_ALREADY_ARCHIVED")
    ELSE IF run.status = "SUCCESS" THEN Rejected("RUN_STATUS_NOT_CLOSABLE")
    ELSE IF run.status = "UNKNOWN" THEN Rejected("RUN_UNKNOWN_NOT_CLOSABLE")
    ELSE IF run.status \in {"CREATED", "RUNNING"} THEN Rejected("RUN_NOT_TERMINAL")
    ELSE IF run.hold THEN Rejected("RUN_ON_HOLD")
    ELSE IF HasLiveOwner(run) THEN Rejected("RUN_LIVE")
    ELSE None

ReviewRequest(type, run) ==
    CASE type = "RERUN" -> ReviewRerun(run)
      [] type = "STOP" -> ReviewStop(run)
      [] type = "RELEASE" -> IF run.hold THEN None ELSE Rejected("RUN_NOT_ON_HOLD")
      [] type = "START" -> None
      [] type = "CLOSE" -> ReviewClose(run)

\* The results of the checks of a START before the child is started: its
\* run_id, the allowlist, and prepareStartRequest on the definition file,
\* which may change between two readings.
StartRefusals ==
    {Rejected(c) : c \in {"RUN_ID_NOT_ALLOWED", "NETWORK_NOT_ALLOWED"}}

PrepareStartRequest ==
    {Rejected(c) : c \in {"NETWORK_NOT_IDEMPOTENT", "NETWORK_DEFINITION_INVALID",
                          "KEY_POLICY_MISMATCH", "AS_OF_UNDEFINED",
                          "INVALID_TIMESTAMP_FORMAT"}}
-----------------------------------------------------------------------------
(* What the poller makes of a child's report. A report is a record          *)
(* [kind, code]: kind "spawn" (the process did not start), "garbled" (no    *)
(* valid machine-readable output or an exit code that contradicts it),      *)
(* "failed" (the client call itself threw) or the outcome the child printed.*)

\* Mutant: no readable report is taken for a process that never started.
ClassifyGarbledAsUnstarted(type, report) ==
    CASE report.kind = "invoked" -> Done(report.code)
      [] report.kind = "NOOP" ->
            Done(IF type = "START" THEN "NOOP_ALREADY_SUCCESS" ELSE report.code)
      [] report.kind = "REJECTED" -> Rejected(report.code)
      [] OTHER -> Rejected("CHILD_SPAWN_FAILED")

\* classifyRunNetworkResult and classifyStartNetworkResult; "invoked" is an
\* output with an invocation_id, whatever its outcome.
ClassifyRunNetwork(type, report) ==
    CASE report.kind = "invoked" -> Done(report.code)
      [] report.kind = "NOOP" ->
            Done(IF type = "START" THEN "NOOP_ALREADY_SUCCESS" ELSE report.code)
      [] report.kind = "spawn" -> Rejected("CHILD_SPAWN_FAILED")
      [] report.kind = "REJECTED" -> Rejected(report.code)
      [] OTHER -> Rejected("CHILD_RESULT_INVALID")

\* classifyCancelResult only has the exit code to go by.
ClassifyCancel(type, report) ==
    CASE report.kind = "spawn" -> Rejected("CHILD_SPAWN_FAILED")
      [] report.kind = "exit0" ->
            Done(IF type = "RELEASE" THEN "RELEASED" ELSE "STOP_REQUESTED")
      [] OTHER -> Rejected("CANCEL_RUN_REJECTED")

\* expectedArchiveExitCode: 0 for an outcome that leaves nothing to do.
ExpectedArchiveExitCode(out) ==
    IF /\ out.lock_released
       /\ \/ out.outcome = "ARCHIVED" /\ out.audit = "RECORDED"
          \/ out.outcome = "ALREADY_ARCHIVED"
    THEN 0 ELSE 1

\* classifyArchiveRun of a valid output with the expected exit code.
ClassifyArchiveOutput(out) ==
    CASE out.outcome = "ARCHIVED" /\ out.audit = "PENDING" ->
            Done("RUN_ARCHIVED_AUDIT_PENDING")
      [] out.outcome = "ARCHIVED" /\ out.audit # "PENDING" ->
            Done(IF out.lock_released THEN "RUN_ARCHIVED"
                 ELSE "RUN_ARCHIVED_LOCK_UNRELEASED")
      [] out.outcome = "ALREADY_ARCHIVED" ->
            Done(IF out.lock_released THEN "RUN_ALREADY_ARCHIVED"
                 ELSE "RUN_ARCHIVED_LOCK_UNRELEASED")
      [] out.outcome = "UNCONFIRMED" -> Rejected("ARCHIVE_UNCONFIRMED")
      [] out.outcome = "REJECTED" -> Rejected(out.code)

\* classifyArchiveRun on the report of the child: a spawn error, truncated
\* output or an unexpected exit code all make the result invalid.
ClassifyArchive(report) ==
    CASE report.kind \in {"ARCHIVED", "ALREADY_ARCHIVED"} -> Done(report.code)
      [] report.kind \in {"UNCONFIRMED", "REJECTED"} -> Rejected(report.code)
      [] OTHER -> Rejected("CHILD_RESULT_INVALID")

Classify(type, report) ==
    IF report.kind = "failed" THEN Rejected("CHILD_EXECUTION_FAILED")
    ELSE IF type \in {"RERUN", "START"} THEN ClassifyRunNetwork(type, report)
    ELSE IF type \in {"STOP", "RELEASE"} THEN ClassifyCancel(type, report)
    ELSE ClassifyArchive(report)

\* The codes that leave open whether the operation happened.
UncertainCode ==
    {"STALE", "CHILD_RESULT_INVALID", "CHILD_EXECUTION_FAILED",
     "CANCEL_RUN_REJECTED", "ARCHIVE_UNCONFIRMED"}
-----------------------------------------------------------------------------
(* What the board offers. *)

\* matrixAction: the operation for a status and an activity.
MatrixAction(status, activity) ==
    CASE status \in {"CREATED", "RUNNING"} ->
            (CASE activity = "IDLE" -> "NONE"
               [] activity = "LIVE" -> "STOP"
               [] activity = "STOPPED" -> "RELEASE"
               [] activity = "INTERRUPTED" -> "RERUN"
               [] OTHER -> "INVALID")
      [] status \in TerminalRun /\ activity # None -> "INVALID"
      [] status = "SUCCESS" /\ activity = None -> "NONE"
      [] status \in {"FAILED", "CANCELLED"} /\ activity = None -> "RERUN"
      [] OTHER -> "UNKNOWN"

\* Mutant: a hold on a finished Run is not looked at.
DecideIgnoringHold(run, hasHold, pending) ==
    LET matrix == MatrixAction(run.status, DeriveRunActivity(run))
    IN  CASE \/ matrix = "INVALID" \/ pending # {}
             \/ run.status = "UNKNOWN" \/ matrix = "NONE" -> {}
          [] run.status \in {"FAILED", "CANCELLED"} /\ pending = {} ->
                IF run.lifecycle = "ACTIVE" THEN {"RERUN", "CLOSE"} ELSE {}
          [] OTHER -> {matrix}

\* decideBoardAction: the operations with a button, given whether the row
\* knows of a hold and of pending requests.
DecideBoardAction(run, hasHold, pending) ==
    LET matrix == MatrixAction(run.status, DeriveRunActivity(run))
    IN  CASE \/ matrix = "INVALID" \/ pending # {}
             \/ run.status = "UNKNOWN" \/ matrix = "NONE" -> {}
          [] run.status \in {"FAILED", "CANCELLED"} /\ pending = {} ->
                IF hasHold THEN {"RELEASE"}
                ELSE IF run.lifecycle = "ACTIVE" THEN {"RERUN", "CLOSE"} ELSE {}
          [] OTHER ->
                IF matrix = "RERUN" /\ run.lifecycle # "ACTIVE" THEN {} ELSE {matrix}

\* Mutant: the flag alone decides.
MessageByFlag(state, cancelRequested) ==
    IF cancelRequested THEN "accepted" ELSE IF state = "REQUESTED" THEN "retry" ELSE "started"

\* cancellationResultMessage: what the board says after a cancellation PUT
\* that did not answer with success.
CancellationResultMessage(state, cancelRequested) ==
    IF state = "REQUESTED"
    THEN IF cancelRequested THEN "accepted" ELSE "retry"
    ELSE "started"
=============================================================================
