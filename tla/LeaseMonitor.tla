---------------------------- MODULE LeaseMonitor ----------------------------
(***************************************************************************)
(* The LeaseMonitor of one process (persistence/network-lock.ts): when a   *)
(* failing heartbeat ends HELD.  NetworkLock leaves that moment open; here *)
(* the failure counter, the remaining lease and the timer are explicit,    *)
(* and the heartbeat itself is only its outcome: renewed, fence lost or    *)
(* lock unavailable.                                                       *)
(***************************************************************************)
EXTENDS Integers

CONSTANTS
    LeaseDuration,      \* leaseDurationSec
    HeartbeatInterval,  \* heartbeatIntervalSec
    SafetyMargin,       \* remainingLeaseSafetySec, by default the interval
    FailureThreshold,   \* consecutiveFailureThreshold
    MaxLatency,         \* a heartbeat is answered within this time
    Preparation,        \* time from acquire to monitor.start, without heartbeats
    MaxTime             \* bound: the clock stops here

\* validateMonitorConfig, the default margin, and a network that answers a
\* heartbeat well before a whole lease has passed.
ASSUME MonitorAssumption ==
    /\ LeaseDuration \in Nat \ {0}
    /\ HeartbeatInterval \in Nat \ {0}
    /\ HeartbeatInterval < LeaseDuration
    /\ SafetyMargin \in Nat /\ SafetyMargin >= HeartbeatInterval
    /\ FailureThreshold \in Nat \ {0}
    /\ MaxLatency \in Nat /\ MaxLatency + HeartbeatInterval < LeaseDuration
    /\ Preparation \in Nat
    /\ MaxTime \in Nat

VARIABLES
    now,        \* the clock
    state,      \* LeaseMonitorState
    failures,   \* consecutive failed ticks
    expires,    \* reference.leaseExpiresAt
    due,        \* when the interval timer fires next
    inFlight,   \* "none", a "tick" or a "confirm"
    startedAt,  \* when the heartbeat in flight was started
    ticks       \* "none" or "some": a tick has completed since monitor.start

vars == <<now, state, failures, expires, due, inFlight, startedAt, ticks>>

TypeOK ==
    /\ now \in Nat
    /\ state \in {"HELD", "LEASE_UNCERTAIN", "FINAL_WRITE_CONFIRMED"}
    /\ failures \in Nat
    /\ expires \in Nat
    /\ due \in Nat
    /\ inFlight \in {"none", "tick", "confirm"}
    /\ startedAt \in Nat
    /\ ticks \in {"none", "some"}

\* The lease was taken at time 0; the monitor starts after Preparation.
Init ==
    /\ now = Preparation
    /\ state = "HELD"
    /\ failures = 0
    /\ expires = LeaseDuration
    /\ due = Preparation + HeartbeatInterval
    /\ inFlight = "none"
    /\ startedAt = 0
    /\ ticks = "none"

RemainingLease == expires - now

\* setInterval fires: tick() joins a heartbeat in flight or starts one, which
\* outside HELD returns at once.
TimerFires ==
    /\ now = due
    /\ due' = due + HeartbeatInterval
    /\ IF inFlight = "none" /\ state = "HELD"
       THEN inFlight' = "tick" /\ startedAt' = now
       ELSE UNCHANGED <<inFlight, startedAt>>
    /\ UNCHANGED <<now, state, failures, expires, ticks>>

\* The scheduler ticks before a write (confirmOrdinaryWrite).
TickByScheduler ==
    /\ inFlight = "none" /\ state = "HELD"
    /\ inFlight' = "tick" /\ startedAt' = now
    /\ UNCHANGED <<now, state, failures, expires, due, ticks>>


\* The heartbeat carries the time `at` at which its PUT was built.
Renewed(at) == expires' = at + LeaseDuration

TickSucceeds(at) ==
    /\ inFlight = "tick"
    /\ Renewed(at)
    /\ failures' = 0
    /\ inFlight' = "none" /\ ticks' = "some"
    /\ UNCHANGED <<now, state, due, startedAt>>


\* Faulty variant: only the failure counter ends HELD.
TickFailsCounterOnly(fenceLost) ==
    /\ inFlight = "tick"
    /\ failures' = failures + 1
    /\ state' = IF state = "HELD" /\ (fenceLost \/ failures + 1 >= FailureThreshold)
                THEN "LEASE_UNCERTAIN" ELSE state
    /\ inFlight' = "none" /\ ticks' = "some"
    /\ UNCHANGED <<now, expires, due, startedAt>>

TickFails(fenceLost) ==
    /\ inFlight = "tick"
    /\ failures' = failures + 1
    /\ state' = IF state = "HELD"
                   /\ \/ fenceLost
                      \/ failures + 1 >= FailureThreshold
                      \/ RemainingLease <= SafetyMargin
                THEN "LEASE_UNCERTAIN" ELSE state
    /\ inFlight' = "none" /\ ticks' = "some"
    /\ UNCHANGED <<now, expires, due, startedAt>>

MarkControlPlaneUnreachable ==
    /\ state # "LEASE_UNCERTAIN"
    /\ state' = "LEASE_UNCERTAIN"
    /\ UNCHANGED <<now, failures, expires, due, inFlight, startedAt, ticks>>

ConfirmLeaseForFinalWrite ==
    /\ inFlight = "none" /\ state = "LEASE_UNCERTAIN"
    /\ inFlight' = "confirm" /\ startedAt' = now
    /\ UNCHANGED <<now, state, failures, expires, due, ticks>>


\* Faulty variant: the lease is confirmed without the renewal.
ConfirmsWithoutRenewal(at) ==
    /\ inFlight = "confirm"
    /\ state' = "FINAL_WRITE_CONFIRMED"
    /\ inFlight' = "none"
    /\ UNCHANGED <<now, failures, expires, due, startedAt, ticks>>

ConfirmSucceeds(at) ==
    /\ inFlight = "confirm"
    /\ Renewed(at)
    /\ state' = "FINAL_WRITE_CONFIRMED"
    /\ inFlight' = "none"
    /\ UNCHANGED <<now, failures, due, startedAt, ticks>>

ConfirmFails ==
    /\ inFlight = "confirm"
    /\ inFlight' = "none"
    /\ UNCHANGED <<now, state, failures, expires, due, startedAt, ticks>>

\* Time passes: the timer is punctual and no heartbeat outlasts MaxLatency.
Advance ==
    /\ now < MaxTime
    /\ now < due
    /\ inFlight = "none" \/ now < startedAt + MaxLatency
    /\ now' = now + 1
    /\ UNCHANGED <<state, failures, expires, due, inFlight, startedAt, ticks>>

Next ==
    \/ TimerFires \/ TickByScheduler
    \/ \E at \in startedAt..now : TickSucceeds(at) \/ ConfirmSucceeds(at)
    \/ \E fenceLost \in BOOLEAN : TickFails(fenceLost)
    \/ MarkControlPlaneUnreachable
    \/ ConfirmLeaseForFinalWrite \/ ConfirmFails
    \/ Advance

Spec == Init /\ [][Next]_vars

-----------------------------------------------------------------------------
(* Properties *)

\* As long as new nodes may start (HELD) and no heartbeat is in flight, the
\* lease the process counts on has not run out: the two thresholds of
\* performTick put the process in drain mode at least one timer period before
\* the expiry, whatever fails.  Before the first tick nothing is claimed: the
\* preparation of the Run takes no heartbeats.
HeldWithinLease ==
    state = "HELD" /\ ticks = "some" /\ inFlight = "none" => now < expires

\* The results of a drained process are written only after a renewal made
\* since the drain began, and the renewed lease covers the time of the
\* confirmation (confirmLeaseForFinalWrite).
ConfirmedByRenewal ==
    [][state' = "FINAL_WRITE_CONFIRMED" /\ state # "FINAL_WRITE_CONFIRMED"
          => /\ state = "LEASE_UNCERTAIN"
             /\ now < expires']_vars

(* What the proof of HeldWithinLease needs beside it. *)

\* The timer never lies more than one period ahead.
TimerAhead == now <= due /\ due <= now + HeartbeatInterval

\* A heartbeat in flight is at most MaxLatency old; one that confirms a final
\* write runs outside HELD.
HeartbeatYoung ==
    /\ inFlight # "none" => startedAt <= now /\ now <= startedAt + MaxLatency
    /\ inFlight = "confirm" => state # "HELD"

\* While HELD the next tick comes before the lease runs out.
TickBeforeExpiry ==
    state = "HELD" /\ ticks = "some" /\ inFlight = "none" => due < expires

IInv == TypeOK /\ TimerAhead /\ HeartbeatYoung /\ TickBeforeExpiry
=============================================================================
