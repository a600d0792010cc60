---------------------------- MODULE RequestQueue ----------------------------
(***************************************************************************)
(* The operation request app, the pollers that serve it and the children   *)
(* they start (requests/request-poller.ts, kintone-request-store.ts,       *)
(* flownet-child-client.ts, cli/poll-requests-command.ts), around one Run. *)
(*                                                                         *)
(* Pollers are one-shot processes started over and over on several hosts;  *)
(* they share nothing but the records. Every REST call is one step. A PUT  *)
(* carries the revision its writer knows and fails with a conflict if the  *)
(* record has moved on. A fault, out of MaxFaults, makes one call fail     *)
(* (applied or not), one process die or stall. A tick is one heartbeat     *)
(* interval; everything but a child or a stalled process is done within it.*)
(***************************************************************************)
EXTENDS RequestRules

CONSTANTS
    Poller,         \* the hosts that run poll-requests
    NumRequests,    \* bound: the requests that are ever created
    PostType,       \* the request types that are created
    StaleAfter,     \* staleAfterMs and the allowance, in ticks
    FetchLimit,     \* fetchLimit of the store
    MaxBeats,       \* bound: the heartbeats a child lives through
    MaxOutside,     \* bound: the invocations nobody requested (cron)
    MaxFaults       \* bound: the faults

\* What a child can report: how it ended, and its code.
ChildKind ==
    {"NOOP", "REJECTED", "invoked", "exit0", "exit1", "ARCHIVED", "ALREADY_ARCHIVED",
     "garbled", "spawn"}
ChildCode ==
    {"NOOP_ALREADY_SUCCESS", "LOCK_CONFLICT", "RUN_ALREADY_EXISTS", "RUN_ON_HOLD",
     "RUN_NOT_RESUMABLE", "ENSURE_RUN_FAILED", "RUN_ARCHIVED", "RUN_ALREADY_ARCHIVED",
     "RUN_STATUS_NOT_CLOSABLE", "RUN_UNKNOWN_NOT_CLOSABLE", "RUN_NOT_TERMINAL", "RUN_LIVE",
     "RERUN_FROM_SUCCESS_RUN", "OK"}

\* The codes a request can end with.
ResultCode ==
    ChildCode \cup UncertainCode \cup
    {"RUN_STATUS_NOT_RERUNNABLE", "RUN_TERMINAL", "RUN_ALREADY_ON_HOLD", "RUN_NOT_ON_HOLD",
     "RUN_ID_NOT_ALLOWED", "NETWORK_NOT_ALLOWED", "NETWORK_NOT_IDEMPOTENT",
     "NETWORK_DEFINITION_INVALID", "KEY_POLICY_MISMATCH", "AS_OF_UNDEFINED",
     "INVALID_TIMESTAMP_FORMAT", "REQUESTED_BY_INVALID", "RUN_NOT_FOUND", "STATUS_UNAVAILABLE",
     "CHILD_SPAWN_FAILED", "RELEASED", "STOP_REQUESTED", "REQUEST_INVALID",
     "CANCELLED_BY_REQUESTER"}

ASSUME QueueAssumption ==
    /\ NumRequests \in Nat /\ StaleAfter \in Nat \ {0}
    /\ FetchLimit \in Nat \ {0} /\ MaxBeats \in Nat
    /\ MaxOutside \in Nat /\ MaxFaults \in Nat
    /\ PostType \subseteq RequestType /\ None \notin ResultCode

\* $id: records are numbered in the order they are created.
Request == 1..NumRequests
Outsider == 0   \* an invocation that serves no request, as owner of the lock

VARIABLES
    req,        \* the records of the request app
    run,        \* the Run the requests are about
    child,      \* the child process of a request, if one was started
    pol,        \* the pollers
    faults,     \* the faults that are left
    outside,    \* the invocations nobody requested that may still come
    starts,     \* history: how many children were started for a request
    effect,     \* history: what the operation of a request did to the Run
    trouble,    \* history: the requests whose claimant met a fault or an edit
    withdrawn   \* history: the requests cancelled while they were REQUESTED

vars == <<req, run, child, pol, faults, outside, starts, effect, trouble, withdrawn>>

RequestState == {"ABSENT", "REQUESTED", "ACCEPTED", "DONE", "REJECTED", "CANCELLED"}
TerminalState == {"DONE", "REJECTED", "CANCELLED"}
NoResult == [state |-> "REJECTED", code |-> None]
NoCur == [id |-> 0, rev |-> 0]
NoLock == [owner |-> None, fresh |-> FALSE]

\* A Run before its START, and one an operator's request can be about.
FreshRun == [exists |-> FALSE, status |-> "CREATED", started |-> FALSE, hold |-> FALSE,
             lifecycle |-> "ACTIVE", owner |-> None, fresh |-> FALSE]
FailedRun == [FreshRun EXCEPT !.exists = TRUE, !.status = "FAILED", !.started = TRUE]
HeldRun == [FailedRun EXCEPT !.hold = TRUE]

Init ==
    /\ req = [r \in Request |-> [type |-> None, valid |-> TRUE, state |-> "ABSENT",
                                 cancel |-> FALSE, rev |-> 0, age |-> 0, code |-> None]]
    /\ run \in {FreshRun, FailedRun, HeldRun}
    /\ child = [r \in Request |-> [ph |-> "none", beats |-> 0, kind |-> None, code |-> None]]
    /\ pol = [p \in Poller |-> [pc |-> "idle", todo |-> {}, acc |-> {}, cur |-> NoCur,
                                seen |-> NoLock, res |-> NoResult, due |-> FALSE]]
    /\ faults = MaxFaults
    /\ outside = MaxOutside
    /\ starts = [r \in Request |-> 0]
    /\ effect = [r \in Request |-> "none"]
    /\ trouble = {}
    /\ withdrawn = {}

Fault == faults > 0 /\ faults' = faults - 1
NoFault == UNCHANGED faults
-----------------------------------------------------------------------------
(* The store's writes: putRecordById with the revision the writer knows.    *)

Fresh(cur) == req[cur.id].rev = cur.rev

\* The record after an update; the revision counts the writes.
Put(r, rec) == req' = [req EXCEPT ![r] = [rec EXCEPT !.rev = @ + 1]]
Settled(r, res) == [req[r] EXCEPT !.state = res.state, !.code = res.code]

\* A PUT whose answer is lost may have been applied.
LostPut(cur, rec) ==
    \/ UNCHANGED req
    \/ Fresh(cur) /\ Put(cur.id, rec)
-----------------------------------------------------------------------------
(* The requesters.                                                          *)

\* A record appears in the request app, by the board or by hand; only a
\* record entered by hand can fail the validation.
Post(type, valid) ==
    \E r \in Request :
        /\ req[r].state = "ABSENT"
        /\ \A q \in Request : q < r => req[q].state # "ABSENT"
        /\ req' = [req EXCEPT ![r] = [@ EXCEPT !.type = type, !.valid = valid,
                                               !.state = "REQUESTED", !.rev = 1]]

PostByHand ==
    /\ \E type \in PostType, valid \in BOOLEAN : Post(type, valid)
    /\ UNCHANGED <<run, child, pol, faults, outside, starts, effect, trouble, withdrawn>>

\* The creator sets cancel_requested in the app's own form, in any state: the
\* field right does not depend on it. The right lets the creator untick it as
\* well, which the operating rules forbid and no action does: the next poller
\* would claim such a request.
EditCancel(r) ==
    /\ req[r].state \in {"REQUESTED", "ACCEPTED"} /\ ~req[r].cancel
    /\ Put(r, [req[r] EXCEPT !.cancel = TRUE])
    /\ trouble' = trouble \cup {r}
    /\ withdrawn' = IF req[r].state = "REQUESTED" THEN withdrawn \cup {r} ELSE withdrawn
    /\ UNCHANGED <<run, child, pol, faults, outside, starts, effect>>
-----------------------------------------------------------------------------
(* The child processes, as their own modules have them: run-network takes   *)
(* the lock or is refused, cancel-run writes the hold, archive-run archives *)
(* under the lock.                                                          *)

Exit(r, kind, code) ==
    child' = [child EXCEPT ![r] = [ph |-> "exited", beats |-> 0, kind |-> kind, code |-> code]]

Effect(r, what) == effect' = [effect EXCEPT ![r] = what]

\* The child lets go of the Network lock and leaves the Run as run'; when the
\* release fails, the lock stays until its lease has run out.
LetGo(r, left) ==
    \/ NoFault /\ run' = left
    \/ Fault /\ run' = [left EXCEPT !.owner = r, !.fresh = TRUE]

\* What ensureRun says to a START, to a RERUN (--resume-run) and to a RERUN from
\* a node (--rerun-from) before it changes the Run or a Node State.
RunNetworkRefusal(type, from) ==
    CASE run.owner # None -> "LOCK_CONFLICT"
      [] run.owner = None /\ run.exists /\ run.status = "SUCCESS" /\ ~from ->
            "NOOP_ALREADY_SUCCESS"
      [] run.owner = None /\ run.exists /\ run.status # "SUCCESS" /\ type = "START" ->
            "RUN_ALREADY_EXISTS"
      [] run.owner = None /\ (from \/ run.status # "SUCCESS") /\ type # "START" /\ run.hold ->
            "RUN_ON_HOLD"
      [] run.owner = None /\ run.status # "SUCCESS" /\ type # "START" /\ ~run.hold
         /\ run.lifecycle = "ARCHIVED" -> "RUN_NOT_RESUMABLE"
      [] run.owner = None /\ from /\ run.status = "SUCCESS" /\ ~run.hold ->
            "RERUN_FROM_SUCCESS_RUN"
      [] OTHER -> None

\* What ensureRun may leave of the Run when it fails on the way: a Run that was
\* created, or one whose status reconcileRun has computed again and whose Node
\* States are reset.
Prepared ==
    IF ~run.started THEN {[run EXCEPT !.exists = TRUE]}
    ELSE {[run EXCEPT !.status = s] : s \in {"RUNNING", "FAILED", "SUCCESS"}}

\* Mutant: every error of run-network is reported alike.
ReportByError(handedOff, failed) == IF failed THEN "REJECTED" ELSE "invoked"

\* run-network's report: an error is a REJECTED unless ensureRun had handed the
\* Run and an Invocation over to the scheduler; from then on the report names
\* the Invocation.
RunNetworkReport(handedOff, failed) ==
    IF failed /\ ~handedOff THEN "REJECTED" ELSE "invoked"

\* ensureRun under the lock: it finds nothing to do, refuses, fails before it
\* wrote, fails after it wrote, or hands over to the scheduler.
ChildRunNetwork(r) ==
    \E from \in IF req[r].type = "RERUN" THEN BOOLEAN ELSE {FALSE} :
        LET refusal == RunNetworkRefusal(req[r].type, from)
        IN  /\ req[r].type \in {"RERUN", "START"}
            /\ \/ /\ refusal = "NOOP_ALREADY_SUCCESS" /\ NoFault
                  /\ Exit(r, "NOOP", refusal)
                  /\ Effect(r, "found") /\ UNCHANGED run
               \/ /\ refusal \notin {None, "NOOP_ALREADY_SUCCESS"} /\ NoFault
                  /\ Exit(r, RunNetworkReport(FALSE, TRUE), refusal)
                  /\ UNCHANGED <<run, effect>>
               \/ /\ refusal # "LOCK_CONFLICT" /\ LetGo(r, run)
                  /\ Exit(r, RunNetworkReport(FALSE, TRUE), "ENSURE_RUN_FAILED")
                  /\ UNCHANGED effect
               \/ /\ refusal = None /\ \E left \in Prepared : LetGo(r, left)
                  /\ Exit(r, RunNetworkReport(FALSE, TRUE), "ENSURE_RUN_FAILED")
                  /\ Effect(r, "prepared")
               \/ /\ refusal = None /\ NoFault
                  /\ child' = [child EXCEPT ![r].ph = "running"]
                  /\ run' = [run EXCEPT !.exists = TRUE, !.status = "RUNNING",
                                        !.started = TRUE, !.owner = r, !.fresh = TRUE]
                  /\ Effect(r, "changed")

\* changeCancelRequest: a hold that is there, or a release without one, is
\* no error; a terminal Run takes no hold.
ChildCancelRun(r) ==
    LET stop == req[r].type = "STOP"
    IN  /\ req[r].type \in {"STOP", "RELEASE"} /\ NoFault
        /\ \/ /\ stop = run.hold
              /\ Exit(r, "exit0", None) /\ Effect(r, "found") /\ UNCHANGED run
           \/ /\ stop /\ ~run.hold /\ run.status \in TerminalRun
              /\ Exit(r, "exit1", None) /\ UNCHANGED <<run, effect>>
           \/ /\ IF stop THEN ~run.hold /\ run.status \notin TerminalRun ELSE run.hold
              /\ Exit(r, "exit0", None) /\ Effect(r, "changed")
              /\ run' = [run EXCEPT !.hold = stop]

\* archive-run, which ArchiveRun.tla details.
ChildArchiveRun(r) ==
    LET refusal == IF run.owner # None THEN Rejected("LOCK_CONFLICT") ELSE ReviewClose(run)
    IN  /\ req[r].type = "CLOSE" /\ NoFault
        /\ \/ /\ refusal = None
              /\ Exit(r, "ARCHIVED", "RUN_ARCHIVED") /\ Effect(r, "changed")
              /\ run' = [run EXCEPT !.lifecycle = "ARCHIVED"]
           \/ /\ refusal = Done("RUN_ALREADY_ARCHIVED")
              /\ Exit(r, "ALREADY_ARCHIVED", "RUN_ALREADY_ARCHIVED")
              /\ Effect(r, "found") /\ UNCHANGED run
           \/ /\ refusal # None /\ refusal.state = "REJECTED"
              /\ Exit(r, "REJECTED", refusal.code) /\ UNCHANGED <<run, effect>>

ChildActs(r) ==
    /\ child[r].ph = "spawned"
    /\ ChildRunNetwork(r) \/ ChildCancelRun(r) \/ ChildArchiveRun(r)
    /\ UNCHANGED <<req, pol, outside, starts, trouble, withdrawn>>

\* The invocation ends: all done, a node failed, or stopped half way at a hold
\* or at the end of its lease; or the scheduler or the release throws.
ChildEnds(r) ==
    /\ child[r].ph = "running"
    /\ \E s \in {"SUCCESS", "FAILED", "RUNNING"} :
          LetGo(r, [run EXCEPT !.status = s, !.owner = None, !.fresh = FALSE])
    /\ \E failed \in BOOLEAN : Exit(r, RunNetworkReport(TRUE, failed), "OK")
    /\ UNCHANGED <<req, pol, outside, starts, effect, trouble, withdrawn>>

\* The process is killed: no report, and the lock is left behind; so may be
\* what ensureRun has written by then.
ChildDies(r) ==
    /\ child[r].ph \in {"spawned", "running"} /\ Fault
    /\ Exit(r, "garbled", None)
    /\ \/ UNCHANGED <<run, effect>>
       \/ /\ child[r].ph = "spawned" /\ req[r].type \in {"RERUN", "START"}
          /\ RunNetworkRefusal(req[r].type, FALSE) = None
          /\ \E left \in Prepared : run' = [left EXCEPT !.owner = r, !.fresh = TRUE]
          /\ Effect(r, "prepared")
    /\ trouble' = trouble \cup {r}
    /\ UNCHANGED <<req, pol, outside, starts, withdrawn>>

\* The lease of a dead owner runs out, and an operator forces the lock open.
LeaseExpires ==
    /\ run.owner \in Request /\ run.fresh /\ child[run.owner].ph = "exited"
    /\ run' = [run EXCEPT !.fresh = FALSE]
    /\ UNCHANGED <<req, child, pol, faults, outside, starts, effect, trouble, withdrawn>>

ForceUnlock ==
    /\ run.owner # None /\ ~run.fresh
    /\ run' = [run EXCEPT !.owner = None]
    /\ UNCHANGED <<req, child, pol, faults, outside, starts, effect, trouble, withdrawn>>

\* run-network by cron: it takes the lock and resumes the Run, as any other.
OutsideRun ==
    /\ outside > 0 /\ outside' = outside - 1
    /\ run.owner = None /\ run.exists /\ run.lifecycle = "ACTIVE" /\ ~run.hold
    /\ run.status \in {"RUNNING", "FAILED", "CANCELLED"}
    /\ run' = [run EXCEPT !.status = "RUNNING", !.owner = Outsider, !.fresh = TRUE]
    /\ UNCHANGED <<req, child, pol, faults, starts, effect, trouble, withdrawn>>

OutsideEnds ==
    /\ run.owner = Outsider
    /\ \E s \in {"SUCCESS", "FAILED", "RUNNING"} :
          run' = [run EXCEPT !.status = s, !.owner = None, !.fresh = FALSE]
    /\ UNCHANGED <<req, child, pol, faults, outside, starts, effect, trouble, withdrawn>>
-----------------------------------------------------------------------------
(* One poll: list REQUESTED, recover the stale, then serve what was listed. *)

Goto(p, pc) == pol' = [pol EXCEPT ![p].pc = pc]
PollEnds(p) == [pol EXCEPT ![p] = [pc |-> "idle", todo |-> {}, acc |-> {}, cur |-> NoCur,
                                   seen |-> NoLock, res |-> NoResult, due |-> FALSE]]

\* The first FetchLimit of a set in the order of a query.
First(S, before) == {r \in S : Cardinality({q \in S : <<q, r>> \in before}) < FetchLimit}

\* The orders of the queries: by creation; by heartbeat, oldest first.
Earlier == {e \in Request \X Request : e[1] < e[2]}
Older == {e \in Request \X Request :
             \/ req[e[1]].age > req[e[2]].age
             \/ req[e[1]].age = req[e[2]].age /\ e[1] < e[2]}

\* listRequested: order by creation time; the envelope keeps the revision and
\* the cancel flag of the moment.
ListRequested(p) ==
    LET open == {r \in Request : req[r].state = "REQUESTED"}
    IN  /\ pol[p].pc = "idle"
        /\ pol' = [pol EXCEPT ![p] =
                [@ EXCEPT !.pc = "accepted",
                          !.todo = {[id |-> r, rev |-> req[r].rev, cancel |-> req[r].cancel] :
                                    r \in First(open, Earlier)}]]
        /\ UNCHANGED <<req, run, child, faults, outside, starts, effect, trouble, withdrawn>>

\* recoverStale, first half: listAccepted orders by heartbeat; a claim is a
\* candidate once its heartbeat is older than the threshold and the allowance.
ListAccepted(p) ==
    LET open == {r \in Request : req[r].state = "ACCEPTED"}
        stale == {r \in First(open, Older) : req[r].age > StaleAfter}
    IN  /\ pol[p].pc = "accepted"
        /\ \/ /\ pol' = [pol EXCEPT ![p] =
                    [@ EXCEPT !.pc = "recover",
                              !.acc = {[id |-> r, rev |-> req[r].rev] : r \in stale}]]
              /\ NoFault
           \/ pol' = PollEnds(p) /\ Fault
        /\ UNCHANGED <<req, run, child, outside, starts, effect, trouble, withdrawn>>

\* inspectStatus, in the child that status runs: first the lock, then the Run
\* with its invocations and its hold. What the poller judges is put together
\* from both.
Status(p) == [run EXCEPT !.owner = pol[p].seen.owner, !.fresh = pol[p].seen.fresh]

See(p, pc) ==
    pol' = [pol EXCEPT ![p] = [@ EXCEPT !.pc = pc, !.seen = [owner |-> run.owner, fresh |-> run.fresh]]]

\* Mutant: only a Run that is interrupted is given up.
RecoverableIfInterrupted(p) ==
    run.exists /\ DeriveRunActivity(Status(p)) = "INTERRUPTED"

\* A stale claim may be given up when the Run it names exists and has no live
\* owner. A START finds its Run by the business key, and is passed over too when
\* its definition file is no longer accepted.
Recoverable(p) ==
    run.exists /\ DeriveRunActivity(Status(p)) # "LIVE" /\ ~HasLiveOwner(Status(p))

\* The candidate whose turn it is.
Candidate(p, a) == a \in pol[p].acc /\ \A b \in pol[p].acc : a.id <= b.id
PassOver(p) ==
    \E a \in pol[p].acc :
        /\ Candidate(p, a)
        /\ pol' = [pol EXCEPT ![p] = [@ EXCEPT !.pc = "recover", !.acc = pol[p].acc \ {a},
                                              !.seen = NoLock]]

\* recoverStale, second half: one candidate after the other.
ReadStaleLock(p) ==
    /\ pol[p].pc = "recover" /\ pol[p].acc # {}
    /\ \/ See(p, "stale") /\ NoFault
       \/ PassOver(p) /\ Fault
    /\ UNCHANGED <<req, run, child, outside, starts, effect, trouble, withdrawn>>

RecoverStale(p) ==
    /\ pol[p].pc = "stale"
    /\ \/ /\ Recoverable(p)
          /\ \E a \in pol[p].acc :
                /\ Candidate(p, a)
                /\ pol' = [pol EXCEPT ![p] = [@ EXCEPT !.pc = "put", !.acc = pol[p].acc \ {a},
                              !.cur = a, !.res = Rejected("STALE"), !.seen = NoLock]]
          /\ NoFault
       \/ /\ ~Recoverable(p) \/ \E a \in pol[p].acc : Candidate(p, a) /\ req[a.id].type = "START"
          /\ PassOver(p) /\ NoFault
       \/ PassOver(p) /\ Fault
    /\ UNCHANGED <<req, run, child, outside, starts, effect, trouble, withdrawn>>

\* The listed requests in the order pollRequests serves them: the invalid
\* ones first, each group in the order of the query.
Listed(p) == pol[p].todo
Head(p, t) ==
    t \in Listed(p) /\ \A u \in Listed(p) :
        \/ ~req[t.id].valid /\ req[u.id].valid
        \/ req[t.id].valid = req[u.id].valid /\ t.id <= u.id
Serving(p, t) == pol[p].pc = "recover" /\ pol[p].acc = {} /\ Head(p, t)
Rest(p, t) == pol[p].todo \ {t}

\* Mutants: a PUT of the listed record without its revision.
SettleUnfenced(p) ==
    \E t \in Listed(p) :
        LET res == IF t.cancel THEN [state |-> "CANCELLED", code |-> "CANCELLED_BY_REQUESTER"]
                   ELSE Rejected("REQUEST_INVALID")
        IN  /\ Serving(p, t) /\ (t.cancel \/ ~req[t.id].valid)
            /\ Put(t.id, Settled(t.id, res))
            /\ pol' = [pol EXCEPT ![p].todo = Rest(p, t)]
            /\ UNCHANGED <<run, child, faults, outside, starts, effect, trouble, withdrawn>>

ClaimUnfenced(p) ==
    \E t \in Listed(p) :
        /\ Serving(p, t) /\ ~t.cancel /\ req[t.id].valid
        /\ Put(t.id, [req[t.id] EXCEPT !.state = "ACCEPTED", !.age = 0])
        /\ pol' = [pol EXCEPT ![p] = [@ EXCEPT !.pc = "claimed", !.todo = Rest(p, t), !.due = FALSE,
                                               !.cur = [id |-> t.id, rev |-> req[t.id].rev + 1]]]
        /\ UNCHANGED <<run, child, faults, outside, starts, effect, trouble, withdrawn>>

\* cancelBeforeClaim, for valid and invalid records alike, and rejectInvalid:
\* straight from REQUESTED; a conflict leaves the request to the next poll,
\* another error ends the poll.
SettleUnclaimed(p) ==
    \E t \in Listed(p) :
        LET res == IF t.cancel THEN [state |-> "CANCELLED", code |-> "CANCELLED_BY_REQUESTER"]
                   ELSE Rejected("REQUEST_INVALID")
        IN  /\ Serving(p, t) /\ (t.cancel \/ ~req[t.id].valid)
            /\ \/ /\ IF Fresh(t) THEN Put(t.id, Settled(t.id, res)) ELSE UNCHANGED req
                  /\ pol' = [pol EXCEPT ![p].todo = Rest(p, t)]
                  /\ NoFault
               \/ LostPut(t, Settled(t.id, res)) /\ pol' = PollEnds(p) /\ Fault
            /\ UNCHANGED <<run, child, outside, starts, effect, trouble, withdrawn>>

\* claim: REQUESTED -> ACCEPTED with the listed revision. Without a confirmed
\* answer no child is started; a claim that was applied all the same is left
\* to the recovery.
Claim(p) ==
    \E t \in Listed(p) :
        LET rec == [req[t.id] EXCEPT !.state = "ACCEPTED", !.age = 0]
        IN  /\ Serving(p, t) /\ ~t.cancel /\ req[t.id].valid
            /\ \/ /\ Fresh(t)
                  /\ Put(t.id, rec)
                  /\ pol' = [pol EXCEPT ![p] = [@ EXCEPT !.pc = "claimed", !.todo = Rest(p, t), !.due = FALSE,
                                                         !.cur = [id |-> t.id, rev |-> t.rev + 1]]]
                  /\ NoFault /\ UNCHANGED trouble
               \/ /\ ~Fresh(t)
                  /\ pol' = [pol EXCEPT ![p].todo = Rest(p, t)]
                  /\ NoFault /\ UNCHANGED <<req, trouble>>
               \/ /\ LostPut(t, rec) /\ pol' = PollEnds(p) /\ Fault
                  /\ trouble' = trouble \cup {t.id}
            /\ UNCHANGED <<run, child, outside, starts, effect, withdrawn>>

\* Nothing is left of what was listed.
EndPoll(p) ==
    /\ pol[p].pc = "recover" /\ pol[p].acc = {} /\ Listed(p) = {}
    /\ pol' = PollEnds(p)
    /\ UNCHANGED <<req, run, child, faults, outside, starts, effect, trouble, withdrawn>>

\* processClaimed asks for the Run's status; a START goes without.
ReadStatusLock(p) ==
    /\ pol[p].pc = "claimed" /\ req[pol[p].cur.id].type # "START"
    /\ See(p, "review")
    /\ UNCHANGED <<req, run, child, faults, outside, starts, effect, trouble, withdrawn>>

\* processClaimed and processStart: what is decided before a child exists. The
\* creator's correlation may be too long; one Run cannot match twice.
Review(p, r) ==
    {Rejected("REQUESTED_BY_INVALID")} \cup
    (IF req[r].type = "START" THEN {None} \cup StartRefusals \cup PrepareStartRequest
     ELSE IF ~run.exists THEN {Rejected("RUN_NOT_FOUND")}
     ELSE {ReviewRequest(req[r].type, Status(p))})

ProcessClaimed(p) ==
    LET r == pol[p].cur.id
        decide(res) == pol' = [pol EXCEPT ![p] = [@ EXCEPT !.pc = "final", !.res = res,
                                                        !.seen = NoLock]]
    IN  /\ pol[p].pc \in {"claimed", "review"}
        /\ (pol[p].pc = "claimed") = (req[r].type = "START")
        /\ \/ /\ \E res \in Review(p, r) \ {None} :
                    /\ decide(res)
                    /\ IF res.state = "DONE" THEN Effect(r, "found") ELSE UNCHANGED effect
              /\ NoFault /\ UNCHANGED <<child, starts>>
           \/ /\ req[r].type # "START" /\ decide(Rejected("STATUS_UNAVAILABLE"))
              /\ Fault /\ UNCHANGED <<child, starts, effect>>
           \/ /\ None \in Review(p, r)
              /\ child' = [child EXCEPT ![r].ph = "spawned"]
              /\ starts' = [starts EXCEPT ![r] = @ + 1]
              /\ pol' = [pol EXCEPT ![p] = [@ EXCEPT !.pc = "child", !.due = FALSE,
                                                     !.seen = NoLock]]
              /\ NoFault /\ UNCHANGED effect
        /\ UNCHANGED <<req, run, trouble, outside, withdrawn>>

\* Mutant: the heartbeat does not write claim_heartbeat_at.
HeartbeatKeepsTime(p) ==
    LET c == pol[p].cur
    IN  /\ pol[p].pc = "child" /\ pol[p].due
        /\ child[c.id].ph # "exited" /\ child[c.id].beats < MaxBeats
        /\ Fresh(c) /\ Put(c.id, req[c.id])
        /\ pol' = [pol EXCEPT ![p] = [@ EXCEPT !.due = FALSE, !.cur.rev = c.rev + 1]]
        /\ child' = [child EXCEPT ![c.id].beats = @ + 1]
        /\ UNCHANGED <<run, faults, outside, starts, effect, trouble, withdrawn>>

\* One turn of withHeartbeat: the timer fires. A failure is only logged and
\* keeps the revision the poller had.
Heartbeat(p) ==
    LET c == pol[p].cur
        rec == [req[c.id] EXCEPT !.age = 0]
        beat(rev) == pol' = [pol EXCEPT ![p] = [@ EXCEPT !.due = FALSE, !.cur.rev = rev]]
    IN  /\ pol[p].pc = "child" /\ pol[p].due
        /\ child[c.id].ph # "exited" /\ child[c.id].beats < MaxBeats
        /\ \/ /\ Fresh(c) /\ Put(c.id, rec) /\ beat(c.rev + 1)
              /\ NoFault /\ UNCHANGED trouble
           \/ /\ ~Fresh(c) /\ beat(c.rev)
              /\ NoFault /\ UNCHANGED <<req, trouble>>
           \/ /\ LostPut(c, rec) /\ beat(c.rev) /\ Fault
              /\ trouble' = trouble \cup {c.id}
        /\ child' = [child EXCEPT ![c.id].beats = @ + 1]
        /\ UNCHANGED <<run, outside, starts, effect, withdrawn>>

\* The child's process has ended, or the call that ran it threw.
ChildDone(p) ==
    LET r == pol[p].cur.id
        report(k) == [kind |-> k, code |-> child[r].code]
        result(k) == pol' = [pol EXCEPT ![p] = [@ EXCEPT !.pc = "final", !.due = FALSE,
                                                !.res = Classify(req[r].type, report(k))]]
    IN  /\ pol[p].pc = "child" /\ child[r].ph = "exited"
        /\ \/ result(child[r].kind) /\ NoFault
           \/ result("failed") /\ Fault
        /\ UNCHANGED <<req, run, child, outside, starts, effect, trouble, withdrawn>>

\* The process could not be started at all.
SpawnFails(p) ==
    LET r == pol[p].cur.id
    IN  /\ pol[p].pc = "child" /\ child[r].ph = "spawned" /\ Fault
        /\ Exit(r, "spawn", None)
        /\ UNCHANGED <<req, run, pol, outside, starts, effect, trouble, withdrawn>>

\* Back to the list: the recovery and the service share what follows.
Proceed(p) == pol' = [pol EXCEPT ![p] = [@ EXCEPT !.pc = "recover", !.cur = NoCur,
                                                  !.res = NoResult, !.due = FALSE]]

\* finalizeResult: read again, give up unless still ACCEPTED, write with the
\* revision just read. The mark "(cancel_ignored)" is in the message only.
FinalizeResult(p) ==
    LET r == pol[p].cur.id
    IN  /\ pol[p].pc = "final"
        /\ \/ /\ req[r].state = "ACCEPTED"
              /\ pol' = [pol EXCEPT ![p] = [@ EXCEPT !.pc = "put", !.cur.rev = req[r].rev]]
              /\ NoFault /\ UNCHANGED trouble
           \/ /\ req[r].state # "ACCEPTED" /\ Proceed(p)
              /\ NoFault /\ UNCHANGED trouble
           \/ Proceed(p) /\ Fault /\ trouble' = trouble \cup {r}
        /\ UNCHANGED <<req, run, child, outside, starts, effect, withdrawn>>

\* writeResult: the first PUT.
WriteResult(p) ==
    LET c == pol[p].cur
    IN  /\ pol[p].pc = "put"
        /\ \/ Fresh(c) /\ Put(c.id, Settled(c.id, pol[p].res)) /\ Proceed(p)
              /\ NoFault /\ UNCHANGED trouble
           \/ ~Fresh(c) /\ Goto(p, "reget") /\ NoFault /\ UNCHANGED <<req, trouble>>
           \/ /\ LostPut(c, Settled(c.id, pol[p].res)) /\ Proceed(p) /\ Fault
              /\ trouble' = trouble \cup {c.id}
        /\ UNCHANGED <<run, child, outside, starts, effect, withdrawn>>

\* writeResult after a conflict: read again; the same state, code and message
\* (which is not modelled) are success, anything else is overwritten with the
\* revision just read.
RereadResult(p) ==
    LET c == pol[p].cur
        rec == req[c.id]
    IN  /\ pol[p].pc = "reget"
        /\ \/ /\ rec.state = pol[p].res.state /\ rec.code = pol[p].res.code
              /\ Proceed(p) /\ NoFault /\ UNCHANGED trouble
           \/ /\ pol' = [pol EXCEPT ![p] = [@ EXCEPT !.pc = "put2", !.cur.rev = rec.rev]]
              /\ NoFault /\ UNCHANGED trouble
           \/ Proceed(p) /\ Fault /\ trouble' = trouble \cup {c.id}
        /\ UNCHANGED <<req, run, child, outside, starts, effect, withdrawn>>

RewriteResult(p) ==
    LET c == pol[p].cur
    IN  /\ pol[p].pc = "put2"
        /\ \/ Fresh(c) /\ Put(c.id, Settled(c.id, pol[p].res)) /\ NoFault /\ UNCHANGED trouble
           \/ ~Fresh(c) /\ NoFault /\ UNCHANGED req /\ trouble' = trouble \cup {c.id}
           \/ /\ LostPut(c, Settled(c.id, pol[p].res)) /\ Fault
              /\ trouble' = trouble \cup {c.id}
        /\ Proceed(p)
        /\ UNCHANGED <<run, child, outside, starts, effect, withdrawn>>

\* The poller's process dies; its child lives on. cron starts the next one.
Crash(p) ==
    /\ pol[p].pc \notin {"idle", "down"} /\ Fault
    /\ pol' = [PollEnds(p) EXCEPT ![p].pc = "down"]
    /\ trouble' = trouble \cup {pol[p].cur.id}
    /\ UNCHANGED <<req, run, child, outside, starts, effect, withdrawn>>

Restart(p) ==
    /\ pol[p].pc = "down" /\ Goto(p, "idle")
    /\ UNCHANGED <<req, run, child, faults, outside, starts, effect, trouble, withdrawn>>
-----------------------------------------------------------------------------
\* A heartbeat interval goes by. A busy poller gets on, from one request to
\* the next, to its child, to the next heartbeat or to the end, in less than
\* an interval; one that does not has stalled. Ages above the threshold are
\* all alike.
Busy(p) == pol[p].pc \notin {"idle", "down"}

Tick ==
    LET stalled == {p \in Poller : Busy(p) /\ pol[p].due}
    IN  /\ \E r \in Request : req[r].state = "ACCEPTED" /\ req[r].age <= StaleAfter
        /\ IF stalled = {} THEN NoFault ELSE Fault
        /\ req' = [r \in Request |->
                     IF req[r].state = "ACCEPTED" /\ req[r].age <= StaleAfter
                     THEN [req[r] EXCEPT !.age = @ + 1] ELSE req[r]]
        /\ pol' = [p \in Poller |-> [pol[p] EXCEPT !.due = Busy(p)]]
        /\ trouble' = trouble \cup {pol[p].cur.id : p \in stalled}
        /\ UNCHANGED <<run, child, outside, starts, effect, withdrawn>>

Poll(p) ==
    \/ ListRequested(p) \/ ListAccepted(p) \/ ReadStaleLock(p) \/ RecoverStale(p)
    \/ SettleUnclaimed(p) \/ Claim(p) \/ EndPoll(p)
    \/ ReadStatusLock(p) \/ ProcessClaimed(p) \/ Heartbeat(p) \/ ChildDone(p) \/ SpawnFails(p)
    \/ FinalizeResult(p) \/ WriteResult(p) \/ RereadResult(p) \/ RewriteResult(p)

ChildStep(r) == ChildActs(r) \/ ChildEnds(r) \/ ChildDies(r)

Next ==
    \/ PostByHand
    \/ \E r \in Request : EditCancel(r) \/ ChildStep(r)
    \/ \E p \in Poller : Poll(p) \/ Crash(p) \/ Restart(p)
    \/ LeaseExpires \/ ForceUnlock \/ OutsideRun \/ OutsideEnds \/ Tick

Spec == Init /\ [][Next]_vars

\* Pollers are started over and over, processes get on and time passes.
Fairness ==
    /\ \A p \in Poller : WF_vars(Poll(p))
    /\ \A p \in Poller : WF_vars(Restart(p))
    /\ \A r \in Request : WF_vars(ChildStep(r))
    /\ WF_vars(LeaseExpires) /\ WF_vars(OutsideEnds)
    /\ WF_vars(Tick)

FairSpec == Spec /\ Fairness
-----------------------------------------------------------------------------
RequestRecord ==
    [type : RequestType \cup {None}, valid : BOOLEAN, state : RequestState, cancel : BOOLEAN,
     rev : Nat, age : 0..(StaleAfter + 1), code : ResultCode \cup {None}]

RunRecord ==
    [exists : BOOLEAN, status : TerminalRun \cup {"CREATED", "RUNNING"}, started : BOOLEAN,
     hold : BOOLEAN, lifecycle : {"ACTIVE", "ARCHIVED"},
     owner : Request \cup {None, Outsider}, fresh : BOOLEAN]

ChildRecord ==
    [ph : {"none", "spawned", "running", "exited"}, beats : 0..MaxBeats,
     kind : ChildKind \cup {None}, code : ChildCode \cup {None}]

PollerPhase ==
    {"idle", "accepted", "recover", "stale", "claimed", "review", "child", "final", "put",
     "reget", "put2", "down"}

PollerRecord ==
    [pc : PollerPhase, todo : SUBSET [id : Request, rev : Nat, cancel : BOOLEAN],
     acc : SUBSET [id : Request, rev : Nat], cur : [id : Request \cup {0}, rev : Nat],
     seen : [owner : Request \cup {None, Outsider}, fresh : BOOLEAN],
     res : [state : {"DONE", "REJECTED"}, code : ResultCode \cup {None}], due : BOOLEAN]

\* The variables have their types.
TypeOK ==
    /\ req \in [Request -> RequestRecord]
    /\ run \in RunRecord
    /\ child \in [Request -> ChildRecord]
    /\ pol \in [Poller -> PollerRecord]
    /\ faults \in Nat /\ outside \in Nat
    /\ starts \in [Request -> Nat]
    /\ effect \in [Request -> {"none", "found", "prepared", "changed"}]
    /\ trouble \subseteq Request \cup {0} /\ withdrawn \subseteq Request

\* Whatever the pollers, the crashes and the lost answers, at most one child
\* is ever started for a request (claim, processClaimed, recoverStale: a stale
\* claim is closed, never served again).
ExecutedOnce == \A r \in Request : starts[r] <= 1

\* A cancellation that was stored while the request was REQUESTED is kept (by
\* the pollers; EditCancel unticks nothing): no child is ever started for it and
\* the request can only end as CANCELLED; and only such a request does
\* (cancelBeforeClaim against claim).
WithdrawnNeverRuns ==
    \A r \in Request :
        /\ r \in withdrawn => starts[r] = 0 /\ req[r].state \in {"REQUESTED", "CANCELLED"}
        /\ req[r].state = "CANCELLED" => r \in withdrawn

\* The result tells the truth: DONE means the operation was carried out, or was
\* found carried out; REJECTED with any code that does not admit to not knowing
\* means it was not: no node was started, no hold written, nothing archived,
\* though ensureRun may have created the Run or reset its Node States before it
\* failed (run-network's catch, reviewRequest, classify*).
ResultIsTruthful ==
    \A r \in Request :
        /\ req[r].state = "DONE" => effect[r] \in {"changed", "found"}
        /\ req[r].state = "REJECTED" /\ req[r].code \notin UncertainCode =>
              effect[r] \in {"none", "prepared"}

\* A request is given up as STALE only if its claimant lost a call, died,
\* stalled or had its record edited: heartbeats on time keep a claim, however
\* long the child takes (withHeartbeat against recoverStale).
HealthyClaimSurvives ==
    \A r \in Request : req[r].code = "STALE" => r \in trouble

\* A request that ended never waits again, and CANCELLED is never overwritten.
EndedStaysEnded ==
    [][\A r \in Request :
          /\ req[r].state \in TerminalState => req'[r].state \in TerminalState
          /\ req[r].state = "CANCELLED" => req'[r] = req[r]]_vars

\* The state table of the request lifecycle: results are written to ACCEPTED
\* requests only, so a DONE or REJECTED stands.
TerminalIsFinal ==
    [][\A r \in Request : req[r].state \in TerminalState => req'[r] = req[r]]_vars

\* Every request about an existing Run is settled, in spite of crashes, lost
\* answers and withdrawn claims. (A stale START whose Run does not exist is
\* left to an operator.)
RequestsSettle ==
    \A r \in Request :
        (req[r].state # "ABSENT" /\ req[r].type # "START" /\ run.exists)
            ~> req[r].state \in TerminalState
-----------------------------------------------------------------------------
(* The request app as its users see it. *)

\* What a record says of its request.
Stage(rec) ==
    CASE rec.state = "ABSENT" -> "absent"
      [] rec.state = "REQUESTED" -> IF rec.cancel THEN "withdrawn" ELSE "waiting"
      [] rec.state = "CANCELLED" -> "cancelled"
      [] rec.state = "ACCEPTED" -> "taken"
      [] rec.state = "DONE" -> "done"
      [] rec.state = "REJECTED" -> IF rec.code \in UncertainCode THEN "unsure" ELSE "refused"

\* How far the operation of a request has come, its child ended or not.
Work(r) ==
    IF effect[r] # "none" THEN effect[r]
    ELSE CASE child[r].ph = "none" -> "idle"
           [] child[r].ph = "exited" -> "nothing"
           [] OTHER -> "begun"

Service == INSTANCE RequestService
    WITH stage <- [r \in Request |-> Stage(req[r])],
         work <- [r \in Request |-> Work(r)]

\* Pollers that claim, crash and recover amount to one service: a request is
\* started once at most and only while it has no answer that is certain, what
\* is withdrawn is not taken, and an answer tells what was done, whoever
\* writes or rewrites it (pollRequests, claim, recoverStale, writeResult).
ImplementsService == Service!ServiceSpec
=============================================================================
