----------------------------- MODULE ArchiveRun -----------------------------
(***************************************************************************)
(* archive-run (orchestration/archive-run.ts, cli/archive-run-command.ts,  *)
(* the Run and audit writes of persistence/kintone/repository.ts): several *)
(* calls that close one Run, beside an invocation that may resume it and   *)
(* operators who hold, release and force the Network lock open.            *)
(*                                                                         *)
(* Every REST call is one step. A PUT carries a revision. A fault, out of  *)
(* MaxFaults, makes one call fail, lets one write arrive late, kills one   *)
(* process or forces the lock of a living one open. How the lock is taken, *)
(* renewed and released is NetworkLock's; how a Run is executed is         *)
(* RunExecution's: here an invocation is a status that changes under the   *)
(* lock.                                                                   *)
(***************************************************************************)
EXTENDS RequestRules

CONSTANTS
    Archiver,       \* the calls of archive-run
    Resumer,        \* the invocation that may resume the Run
    MaxRev,         \* bound: the revision of the Run up to which others write it
    MaxFaults       \* bound: the faults

\* The codes of ArchiveRunResult.
ArchiveCode ==
    {"LOCK_CONFLICT", "LOCK_UNAVAILABLE", "RUN_STATUS_NOT_CLOSABLE", "RUN_UNKNOWN_NOT_CLOSABLE",
     "RUN_NOT_TERMINAL", "RUN_READ_FAILED", "RUN_ON_HOLD", "LEASE_INTERRUPTED",
     "ARCHIVE_UNCONFIRMED", "ARCHIVE_WRITE_FAILED", "LEASE_INTERRUPTED_AFTER_ARCHIVE",
     "ARCHIVE_AUDIT_FAILED"}

ASSUME ArchiveAssumption ==
    /\ Resumer \notin Archiver /\ None \notin Archiver /\ Resumer # None
    /\ None \notin ArchiveCode \cup {"ARCHIVED", "ALREADY_ARCHIVED", "UNCONFIRMED", "REJECTED",
                                    "RECORDED", "PENDING"}
    /\ MaxRev \in Nat /\ MaxFaults \in Nat

VARIABLES
    run,        \* the Run record, with the hold of its CANCEL_REQUEST
    lock,       \* the owner of the Network lock
    arc,        \* the calls: where they are, the revision they know, their outcome
    wire,       \* PUTs that were sent and have not arrived
    audits,     \* the calls whose RUN_ARCHIVED audit exists
    faults,     \* the faults that are left
    by,         \* history: the call whose write archived the Run
    late        \* history: the calls of which a write arrived late

vars == <<run, lock, arc, wire, audits, faults, by, late>>

NoOutcome == [outcome |-> None, audit |-> None, lock_released |-> FALSE, code |-> None]

Init ==
    /\ run \in [status : {"FAILED", "CANCELLED", "RUNNING", "SUCCESS", "UNKNOWN"},
                lifecycle : {"ACTIVE"}, hold : BOOLEAN, rev : {1}]
    /\ lock = None
    /\ arc = [c \in Archiver |-> [pc |-> "acquire", rev |-> 0, ambiguous |-> FALSE,
                                  conflict |-> FALSE, out |-> NoOutcome]]
    /\ wire = {}
    /\ audits = {}
    /\ faults = MaxFaults
    /\ by = None
    /\ late = {}

Fault == faults > 0 /\ faults' = faults - 1
NoFault == UNCHANGED faults

At(c, pc) == arc[c].pc = pc
Goto(c, pc) == arc' = [arc EXCEPT ![c].pc = pc]

\* Every result goes through finish: the lock is released last.
Result(c, outcome, audit, code) ==
    arc' = [arc EXCEPT ![c] = [@ EXCEPT !.pc = "finish",
                !.out = [outcome |-> outcome, audit |-> audit, lock_released |-> FALSE,
                         code |-> code]]]
-----------------------------------------------------------------------------
\* acquire: a conflict and any other error end the call, with nothing to
\* release. A call that failed may have taken the lock all the same.
Acquire(c) ==
    LET refuse(code) ==
            arc' = [arc EXCEPT ![c] = [@ EXCEPT !.pc = "ended",
                        !.out = [outcome |-> "REJECTED", audit |-> None,
                                 lock_released |-> TRUE, code |-> code]]]
    IN  /\ At(c, "acquire")
        /\ \/ lock = None /\ lock' = c /\ Goto(c, "read") /\ NoFault
           \/ lock # None /\ refuse("LOCK_CONFLICT") /\ NoFault /\ UNCHANGED lock
           \/ /\ refuse("LOCK_UNAVAILABLE") /\ Fault
              /\ (UNCHANGED lock \/ (lock = None /\ lock' = c))
        /\ UNCHANGED <<run, wire, audits, by, late>>

\* Mutant: a Run that is not finished is let through.
ReadRunUnfinished(c) ==
    /\ At(c, "read")
    /\ \/ run.lifecycle = "ARCHIVED" /\ Result(c, "ALREADY_ARCHIVED", None, None)
       \/ /\ run.lifecycle # "ARCHIVED" /\ run.status \notin {"SUCCESS", "UNKNOWN"}
          /\ arc' = [arc EXCEPT ![c] = [@ EXCEPT !.pc = "hold", !.rev = run.rev]]
    /\ UNCHANGED <<run, lock, wire, audits, faults, by, late>>

\* getRun and the refusals by lifecycle and status.
ReadRun(c) ==
    LET refusal == CASE run.status = "SUCCESS" -> "RUN_STATUS_NOT_CLOSABLE"
                     [] run.status = "UNKNOWN" -> "RUN_UNKNOWN_NOT_CLOSABLE"
                     [] run.status \in {"CREATED", "RUNNING"} -> "RUN_NOT_TERMINAL"
                     [] OTHER -> None
    IN  /\ At(c, "read")
        /\ \/ run.lifecycle = "ARCHIVED" /\ Result(c, "ALREADY_ARCHIVED", None, None) /\ NoFault
           \/ /\ run.lifecycle # "ARCHIVED" /\ refusal # None
              /\ Result(c, "REJECTED", None, refusal) /\ NoFault
           \/ /\ run.lifecycle # "ARCHIVED" /\ refusal = None
              /\ arc' = [arc EXCEPT ![c] = [@ EXCEPT !.pc = "hold", !.rev = run.rev]] /\ NoFault
           \/ Result(c, "REJECTED", None, "RUN_READ_FAILED") /\ Fault
        /\ UNCHANGED <<run, lock, wire, audits, by, late>>

\* getCancelRequest.
ReadHold(c) ==
    /\ At(c, "hold")
    /\ \/ run.hold /\ Result(c, "REJECTED", None, "RUN_ON_HOLD") /\ NoFault
       \/ ~run.hold /\ Goto(c, "tick") /\ NoFault
       \/ Result(c, "REJECTED", None, "RUN_READ_FAILED") /\ Fault
    /\ UNCHANGED <<run, lock, wire, audits, by, late>>

\* LeaseMonitor.tick: true only if the heartbeat was confirmed, which it is
\* not once the lock has another owner.
Tick(c, next, lost) ==
    /\ \/ lock = c /\ Goto(c, next) /\ NoFault
       \/ lock # c /\ lost /\ NoFault
       \/ lost /\ Fault
    /\ UNCHANGED <<run, lock, wire, audits, by, late>>

Interrupted(c) == Result(c, "REJECTED", None, "LEASE_INTERRUPTED")

TickBeforeArchive(c) == At(c, "tick") /\ Tick(c, "write", Interrupted(c))
-----------------------------------------------------------------------------
\* The PUT of archiveRun: lifecycle_status, whatever the status then is.
Archived(c, rev) ==
    /\ run.rev = rev
    /\ run' = [run EXCEPT !.lifecycle = "ARCHIVED", !.rev = @ + 1]
    /\ by' = IF run.lifecycle = "ARCHIVED" THEN by ELSE c

\* One call of repository.archiveRun: done; a conflict; another error, nothing
\* written; or an ambiguous one, which was written, never will be, or is late.
ArchiveWrite(c, done, conflict, failed, ambiguous) ==
    \/ Archived(c, arc[c].rev) /\ done /\ NoFault /\ UNCHANGED wire
    \/ run.rev # arc[c].rev /\ conflict /\ NoFault /\ UNCHANGED <<run, by, wire>>
    \/ failed /\ Fault /\ UNCHANGED <<run, by, wire>>
    \/ /\ ambiguous /\ Fault
       /\ \/ Archived(c, arc[c].rev) /\ UNCHANGED wire
          \/ UNCHANGED <<run, by, wire>>
          \/ wire' = wire \cup {[c |-> c, rev |-> arc[c].rev]} /\ UNCHANGED <<run, by>>

WriteArchive(c) ==
    LET reread(amb, con) ==
            arc' = [arc EXCEPT ![c] = [@ EXCEPT !.pc = "reread", !.ambiguous = amb,
                                                !.conflict = con]]
    IN  /\ At(c, "write")
        /\ ArchiveWrite(c, Goto(c, "tickAudit"), reread(FALSE, TRUE), reread(FALSE, FALSE),
                        reread(TRUE, FALSE))
        /\ UNCHANGED <<lock, audits, late>>

\* Mutant: the second reading is taken for proof that somebody else archived.
RereadAlwaysAlready(c) ==
    /\ At(c, "reread") /\ run.lifecycle = "ARCHIVED"
    /\ Result(c, "ALREADY_ARCHIVED", None, None)
    /\ UNCHANGED <<run, lock, wire, audits, faults, by, late>>

\* The adjudication of a write that failed.
Reread(c) ==
    LET archived == run.lifecycle = "ARCHIVED"
    IN  /\ At(c, "reread")
        /\ \/ archived /\ arc[c].conflict /\ Result(c, "ALREADY_ARCHIVED", None, None) /\ NoFault
           \/ archived /\ ~arc[c].conflict /\ Goto(c, "tickAudit") /\ NoFault
           \/ /\ ~archived /\ arc[c].conflict
              /\ Result(c, "UNCONFIRMED", None, "ARCHIVE_UNCONFIRMED") /\ NoFault
           \/ /\ ~archived /\ ~arc[c].conflict /\ ~arc[c].ambiguous
              /\ Result(c, "REJECTED", None, "ARCHIVE_WRITE_FAILED") /\ NoFault
           \/ /\ ~archived /\ arc[c].ambiguous
              /\ arc' = [arc EXCEPT ![c] = [@ EXCEPT !.pc = "tickAgain", !.rev = run.rev]]
              /\ NoFault
           \/ Result(c, "UNCONFIRMED", None, "ARCHIVE_UNCONFIRMED") /\ Fault
        /\ UNCHANGED <<run, lock, wire, audits, by, late>>

TickBeforeRetry(c) == At(c, "tickAgain") /\ Tick(c, "rewrite", Interrupted(c))

\* The second write, with the revision just read; the status is not looked at
\* again.
RewriteArchive(c) ==
    /\ At(c, "rewrite")
    /\ ArchiveWrite(c, Goto(c, "tickAudit"), Goto(c, "final"), Goto(c, "final"), Goto(c, "final"))
    /\ UNCHANGED <<lock, audits, late>>

FinalRead(c) ==
    /\ At(c, "final")
    /\ \/ run.lifecycle = "ARCHIVED" /\ Goto(c, "tickAudit") /\ NoFault
       \/ /\ run.lifecycle # "ARCHIVED"
          /\ Result(c, "REJECTED", None, "ARCHIVE_WRITE_FAILED") /\ NoFault
       \/ Result(c, "UNCONFIRMED", None, "ARCHIVE_UNCONFIRMED") /\ Fault
    /\ UNCHANGED <<run, lock, wire, audits, by, late>>

\* Mutant: the audit is written without another tick.
AuditWithoutTick(c) ==
    /\ At(c, "tickAudit") /\ Goto(c, "audit")
    /\ UNCHANGED <<run, lock, wire, audits, faults, by, late>>

TickBeforeAudit(c) ==
    /\ At(c, "tickAudit")
    /\ Tick(c, "audit", Result(c, "ARCHIVED", "PENDING", "LEASE_INTERRUPTED_AFTER_ARCHIVE"))
-----------------------------------------------------------------------------
\* appendOperationAudit under the key of this call's event: an ambiguous answer
\* is settled by reading the event back, and one more append. (AUDIT_CONFLICT, an
\* event found with other facts, ends as PENDING too; the event id is fresh, so
\* nobody else writes under it.)
Recorded(c) == Result(c, "ARCHIVED", "RECORDED", None)
AuditPending(c) == Result(c, "ARCHIVED", "PENDING", "ARCHIVE_AUDIT_FAILED")

AppendAudit(c) ==
    /\ At(c, "audit")
    /\ \/ audits' = audits \cup {c} /\ Recorded(c) /\ NoFault
       \/ Goto(c, "auditReread") /\ Fault /\ (audits' = audits \cup {c} \/ UNCHANGED audits)
       \/ AuditPending(c) /\ Fault /\ UNCHANGED audits
    /\ UNCHANGED <<run, lock, wire, by, late>>

RereadAudit(c) ==
    /\ At(c, "auditReread")
    /\ \/ c \in audits /\ Recorded(c) /\ NoFault
       \/ c \notin audits /\ Goto(c, "auditAgain") /\ NoFault
       \/ AuditPending(c) /\ Fault
    /\ UNCHANGED <<run, lock, wire, audits, by, late>>

AppendAuditAgain(c) ==
    /\ At(c, "auditAgain")
    /\ \/ audits' = audits \cup {c} /\ Recorded(c) /\ NoFault
       \/ AuditPending(c) /\ Fault /\ (audits' = audits \cup {c} \/ UNCHANGED audits)
    /\ UNCHANGED <<run, lock, wire, by, late>>

\* Mutant: a release that failed is reported as done.
FinishAlwaysReleased(c) ==
    /\ At(c, "finish")
    /\ arc' = [arc EXCEPT ![c] = [@ EXCEPT !.pc = "ended", !.out.lock_released = TRUE]]
    /\ \/ lock = c /\ lock' = None /\ NoFault
       \/ lock # c /\ NoFault /\ UNCHANGED lock
       \/ Fault /\ UNCHANGED lock
    /\ UNCHANGED <<run, wire, audits, by, late>>

\* finish: the release throws if the lock has another owner.
Finish(c) ==
    LET end(released) ==
            arc' = [arc EXCEPT ![c] = [@ EXCEPT !.pc = "ended", !.out.lock_released = released]]
    IN  /\ At(c, "finish")
        /\ \/ lock = c /\ lock' = None /\ end(TRUE) /\ NoFault
           \/ lock # c /\ end(FALSE) /\ NoFault /\ UNCHANGED lock
           \/ end(FALSE) /\ Fault /\ (UNCHANGED lock \/ (lock = c /\ lock' = None))
        /\ UNCHANGED <<run, wire, audits, by, late>>

\* The process is killed.
Die(c) ==
    /\ arc[c].pc \notin {"acquire", "ended", "dead"} /\ Goto(c, "dead") /\ Fault
    /\ UNCHANGED <<run, lock, wire, audits, by, late>>
-----------------------------------------------------------------------------
\* A write that was given up arrives: applied if its revision still matches.
LateArrival ==
    \E w \in wire :
        /\ wire' = wire \ {w}
        /\ IF run.rev = w.rev
           THEN Archived(w.c, w.rev) /\ late' = late \cup {w.c}
           ELSE UNCHANGED <<run, by, late>>
        /\ UNCHANGED <<lock, arc, audits, faults>>

\* force-unlock-network: the lock of a process that is gone, or, by a mistaken
\* stop confirmation, of one that is not.
ForceUnlock ==
    /\ lock \in Archiver /\ lock' = None
    /\ IF arc[lock].pc \in {"ended", "dead"} THEN NoFault ELSE Fault
    /\ UNCHANGED <<run, arc, wire, audits, by, late>>

\* ensureRun: under the lock, only an ACTIVE Run without a hold is resumed.
Resume ==
    /\ lock = None /\ run.rev < MaxRev
    /\ run.lifecycle = "ACTIVE" /\ ~run.hold /\ run.status \in {"FAILED", "CANCELLED", "RUNNING"}
    /\ lock' = Resumer
    /\ run' = [run EXCEPT !.status = "RUNNING", !.rev = @ + 1]
    /\ UNCHANGED <<arc, wire, audits, faults, by, late>>

ResumeEnds ==
    /\ lock = Resumer /\ lock' = None
    /\ \E s \in {"FAILED", "SUCCESS", "RUNNING"} :
          run' = [run EXCEPT !.status = s, !.rev = @ + 1]
    /\ UNCHANGED <<arc, wire, audits, faults, by, late>>

\* cancel-run: a hold is set on an unfinished Run only, and released at any time.
ChangeHold ==
    /\ run.hold \/ run.status \notin TerminalRun
    /\ run' = [run EXCEPT !.hold = ~@]
    /\ UNCHANGED <<lock, arc, wire, audits, faults, by, late>>

Step(c) ==
    \/ Acquire(c) \/ ReadRun(c) \/ ReadHold(c) \/ TickBeforeArchive(c) \/ WriteArchive(c)
    \/ Reread(c) \/ TickBeforeRetry(c) \/ RewriteArchive(c) \/ FinalRead(c)
    \/ TickBeforeAudit(c) \/ AppendAudit(c) \/ RereadAudit(c) \/ AppendAuditAgain(c)
    \/ Finish(c)

Next ==
    \/ \E c \in Archiver : Step(c) \/ Die(c)
    \/ LateArrival \/ ForceUnlock \/ Resume \/ ResumeEnds \/ ChangeHold

Spec == Init /\ [][Next]_vars

FairSpec == Spec /\ \A c \in Archiver : WF_vars(Step(c))
-----------------------------------------------------------------------------
Ended(c) == arc[c].pc = "ended"
Out(c) == arc[c].out

\* What the process exits with, and what the poller makes of its output.
ExitCode(c) == ExpectedArchiveExitCode(Out(c))

Phase == {"acquire", "read", "hold", "tick", "write", "reread", "tickAgain", "rewrite", "final",
          "tickAudit", "audit", "auditReread", "auditAgain", "finish", "ended", "dead"}

Outcome == [outcome : {None, "ARCHIVED", "ALREADY_ARCHIVED", "UNCONFIRMED", "REJECTED"},
            audit : {None, "RECORDED", "PENDING"}, lock_released : BOOLEAN,
            code : ArchiveCode \cup {None}]

\* The variables have their types.
TypeOK ==
    /\ run \in [status : TerminalRun \cup {"RUNNING"}, lifecycle : {"ACTIVE", "ARCHIVED"},
                hold : BOOLEAN, rev : Nat]
    /\ lock \in Archiver \cup {Resumer, None}
    /\ arc \in [Archiver -> [pc : Phase, rev : Nat, ambiguous : BOOLEAN, conflict : BOOLEAN,
                            out : Outcome]]
    /\ wire \subseteq [c : Archiver, rev : Nat]
    /\ audits \subseteq Archiver /\ late \subseteq Archiver
    /\ by \in Archiver \cup {None} /\ faults \in Nat

\* The outcome is true whatever was lost or came late: ARCHIVED and
\* ALREADY_ARCHIVED are said of an archived Run only, ALREADY_ARCHIVED never of
\* one this call archived itself, and after REJECTED this call changed nothing,
\* unless a write it had given up arrives afterwards.
OutcomeTruthful ==
    \A c \in Archiver :
        /\ Out(c).outcome \in {"ARCHIVED", "ALREADY_ARCHIVED"} => run.lifecycle = "ARCHIVED"
        /\ Out(c).outcome = "ALREADY_ARCHIVED" => by # c
        /\ Out(c).outcome = "REJECTED" => by # c \/ c \in late

\* An archiving is audited once at most, and never before it is a fact: when a
\* write is settled by a reading that sees what another call wrote, both believe
\* they archived, and the tick before the audit lets one of them through.
AuditOnce ==
    /\ audits # {} => run.lifecycle = "ARCHIVED"
    /\ \A c, d \in audits : c = d

\* Exit code 0 leaves nothing to do: the Run is archived, an archiving by this
\* call is audited, and the lock is not this call's any more; and the poller
\* reports RUN_ARCHIVED for nothing less.
ExitZeroIsClean ==
    \A c \in Archiver : Ended(c) =>
        /\ ExitCode(c) = 0 =>
              run.lifecycle = "ARCHIVED" /\ lock # c /\ (by = c => c \in audits)
        /\ ClassifyArchiveOutput(Out(c)) = Done("RUN_ARCHIVED") => ExitCode(c) = 0

\* Only a finished Run is archived, however the lock was lost on the way: the
\* revision guards the first write and the tick the second, which follows a
\* reading that did not look at the status.
ArchivesFinishedRunsOnly ==
    [][run.lifecycle # run'.lifecycle => run.status \in {"FAILED", "CANCELLED"}]_vars

\* An archived Run keeps its status: it is not resumed.
ArchivedIsNotResumed ==
    [][run.lifecycle = "ARCHIVED" => run'.status = run.status /\ run'.lifecycle = "ARCHIVED"]_vars

\* Every call ends, with a result or by being killed.
CallEnds == \A c \in Archiver : <>(arc[c].pc \in {"ended", "dead"})
=============================================================================
