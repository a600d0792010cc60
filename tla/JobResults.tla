----------------------------- MODULE JobResults -----------------------------
(***************************************************************************)
(* What the orchestrator makes of the Execution Result of one job:         *)
(* executor/result-classifier.ts (readAndClassifyResult, classifyResult),  *)
(* the receipt checks and the decision of executor/attempt-executor.ts and *)
(* decideMissingResult of executor/job-log-reader.ts.                      *)
(*                                                                         *)
(* A result file that can be read and parsed is a record: "shape" says     *)
(* whether validateShape accepts it, "echo" whether it carries the         *)
(* correlation and attempt ids of this attempt, "inputs" and "outputs"     *)
(* what its receipts say of the configured sources and sinks.              *)
(***************************************************************************)
EXTENDS Integers

Outcomes == {"SUCCESS", "FAILED", "CANCELLED"}

NoExit == -1        \* exitCode: null, the process left no exit code

\* KNOWN_RESULTS: a result code with the status and the exit code it goes with.
KnownResults ==
    {<<"OK", "SUCCESS", 0>>, <<"NO_DATA", "SUCCESS", 0>>,
     <<"VALIDATION_ERROR", "FAILED", 1>>, <<"SQL_ERROR", "FAILED", 1>>,
     <<"ASSERT_FAILED", "FAILED", 2>>, <<"CANCELLED", "CANCELLED", 3>>,
     <<"LOCK_CONFLICT", "FAILED", 5>>}
    \cup ({"API_ERROR", "AUTH_ERROR", "EXECUTION_TIMEOUT", "LOCK_UNAVAILABLE",
           "INTERNAL_ERROR"} \X {"FAILED"} \X {3})

IsStatusExitCompatible(status, exit) ==
    exit \in CASE status = "SUCCESS" -> {0}
               [] status = "CANCELLED" -> {3}
               [] status = "FAILED" -> {1, 2, 3, 5}

\* The file does not exist or is no complete JSON.
NoFile == [file |-> FALSE]

ResultFile(status, code, exit, started) ==
    [file |-> TRUE, shape |-> TRUE, echo |-> TRUE, status |-> status, code |-> code,
     exit |-> exit, started |-> started, inputs |-> "match", outputs |-> "match"]

Consistent(r) ==
    /\ IF \E k \in KnownResults : k[1] = r.code
       THEN <<r.code, r.status, r.exit>> \in KnownResults
       ELSE IsStatusExitCompatible(r.status, r.exit)
    /\ r.code \in {"VALIDATION_ERROR", "LOCK_CONFLICT"} => ~r.started
    /\ r.status = "SUCCESS" => r.started

\* Faulty variant: the exit code of the process is not compared.
ClassifyIgnoringExit(r, exit) ==
    IF ~r.file THEN "NO_RESULT"
    ELSE IF ~(r.shape /\ r.echo /\ Consistent(r)) THEN "INVALID_RESULT"
    ELSE IF r.code = "LOCK_CONFLICT" THEN "LOCK_CONFLICT" ELSE r.status

\* The kind of the classification, or its outcome when the result is valid.
ClassifyResult(r, exit) ==
    IF ~r.file THEN "NO_RESULT"
    ELSE IF ~(r.shape /\ r.echo /\ r.exit = exit /\ Consistent(r)) THEN "INVALID_RESULT"
    ELSE IF r.code = "LOCK_CONFLICT" THEN "LOCK_CONFLICT" ELSE r.status

\* The receipts of a valid result must be those of the files the job was given.
\* A job that was forcibly terminated has no valid result.
CheckedResult(r, exit, forced) ==
    LET c == ClassifyResult(r, exit)
    IN  IF forced THEN "INVALID_RESULT"
        ELSE IF c \in {"NO_RESULT", "INVALID_RESULT"} THEN c
        ELSE IF r.inputs # "match" \/ r.outputs # "match" THEN "INVALID_RESULT" ELSE c

DecideMissingResult(orchestratorStarted, runnerStarted, launchFailure) ==
    IF \/ ~orchestratorStarted /\ ~runnerStarted
       \/ orchestratorStarted /\ ~runnerStarted /\ launchFailure
    THEN "NOT_EXECUTED" ELSE "UNKNOWN"

\* The lookup of the start marker in the JOB log. "error": readMarker swallowed
\* an error of the answer; "none": no record or no start time; "started".
Markers == {"error", "none", "started"}

\* The Attempt status, its result code and the Node State that execute decides.
\* NO_VALID_RESULT stands for FORCED_TERMINATION, NO_EXECUTION_RESULT and
\* INVALID_EXECUTION_RESULT, which the program does not tell apart afterwards.
Decision(result, orchestratorStarted, marker, launchFailure) ==
    IF result \in Outcomes
    THEN [status |-> result, code |-> "RESULT", state |-> result]
    ELSE IF \/ result = "LOCK_CONFLICT"
            \/ DecideMissingResult(orchestratorStarted, marker = "started",
                                   launchFailure /\ marker # "error") = "NOT_EXECUTED"
    THEN [status |-> "CANCELLED", code |-> "PREPARE_FAILED", state |-> "WAITING"]
    ELSE [status |-> "UNKNOWN", code |-> "NO_VALID_RESULT", state |-> "UNKNOWN"]
=============================================================================
