--------------------------- MODULE RequestService ---------------------------
(***************************************************************************)
(* What the request app promises to those who write requests into it,      *)
(* without records, revisions, pollers, heartbeats or crashes.  A request  *)
(* waits; it may be withdrawn, and is then cancelled and nothing else.     *)
(* One that is taken is carried out at most once, or found carried out.    *)
(* Its answer tells what happened.  Only an answer that admits to not      *)
(* knowing may come before the work, or replace another answer at any      *)
(* time.                                                                   *)
(***************************************************************************)
EXTENDS Integers

CONSTANTS Request

VARIABLES
    stage,      \* of each request
    work,       \* how far its operation has come
    starts      \* how often its operation was started

serviceVars == <<stage, work, starts>>

ServiceInit ==
    /\ stage = [r \in Request |-> "absent"]
    /\ work = [r \in Request |-> "idle"]
    /\ starts = [r \in Request |-> 0]

Move(r, from, to) ==
    /\ stage[r] = from /\ stage' = [stage EXCEPT ![r] = to]
    /\ UNCHANGED <<work, starts>>

Ask(r) == Move(r, "absent", "waiting")
Withdraw(r) == Move(r, "waiting", "withdrawn")
Cancel(r) == Move(r, "withdrawn", "cancelled")
Decline(r) == Move(r, "waiting", "refused")
Take(r) == Move(r, "waiting", "taken")

\* The operation goes on only while no answer is known.
Progress(r, from, to) ==
    /\ stage[r] \in {"taken", "unsure"}
    /\ work[r] = from /\ work' = [work EXCEPT ![r] = to]
    /\ UNCHANGED stage

Begin(r) == Progress(r, "idle", "begun") /\ starts' = [starts EXCEPT ![r] = @ + 1]
Find(r) == Progress(r, "idle", "found") /\ UNCHANGED starts
Finish(r) ==
    /\ \E w \in {"changed", "found", "prepared", "nothing"} : Progress(r, "begun", w)
    /\ UNCHANGED starts

Truthful(answer, w) ==
    \/ answer = "done" /\ w \in {"changed", "found"}
    \/ answer = "refused" /\ w \in {"idle", "prepared", "nothing"}
    \/ answer = "unsure"

Answer(r) ==
    \E answer \in {"done", "refused", "unsure"} :
        /\ Truthful(answer, work[r])
        /\ \E from \in {"taken", "done", "refused", "unsure"} : Move(r, from, answer)

ServiceNext ==
    \E r \in Request :
        \/ Ask(r) \/ Withdraw(r) \/ Cancel(r) \/ Decline(r) \/ Take(r)
        \/ Begin(r) \/ Find(r) \/ Finish(r) \/ Answer(r)

\* The case that nothing changes comes first for TLC, as in NetworkWorkflow.
ServiceSpec == ServiceInit /\ [][UNCHANGED serviceVars \/ ServiceNext]_serviceVars
=============================================================================
