------------------------- MODULE LeaseMonitorProofs -------------------------
(* Proofs about the lease monitor, for every lease duration, heartbeat     *)
(* interval, margin, threshold and latency that MonitorAssumption admits.  *)
EXTENDS LeaseMonitor, TLAPS

\* The invariant holds when the monitor starts.
LEMMA InitIInv == Init => IInv
  BY MonitorAssumption
  DEF Init, IInv, TypeOK, TimerAhead, HeartbeatYoung, TickBeforeExpiry

\* Every operation of the monitor preserves the invariant.
LEMMA NextIInv == IInv /\ [Next]_vars => IInv'
  <1> SUFFICES ASSUME IInv, [Next]_vars PROVE IInv'
    OBVIOUS
  <1> USE MonitorAssumption
      DEF IInv, TypeOK, TimerAhead, HeartbeatYoung, TickBeforeExpiry
  <1>1. CASE TimerFires
    BY <1>1 DEF TimerFires
  <1>2. CASE TickByScheduler
    BY <1>2 DEF TickByScheduler
  <1>3. ASSUME NEW at \in startedAt..now, TickSucceeds(at) PROVE IInv'
    <2>1. at \in Nat /\ at >= startedAt
      OBVIOUS
    <2>2. inFlight' = "none" /\ state' = state /\ expires' = at + LeaseDuration
      BY <1>3 DEF TickSucceeds, Renewed
    <2>3. due < expires'
      \* the PUT is at most MaxLatency old, and that leaves a timer period
      BY <1>3, <2>1, <2>2 DEF TickSucceeds
    <2>4. QED
      BY <1>3, <2>1, <2>2, <2>3 DEF TickSucceeds, Renewed
  <1>4. ASSUME NEW at \in startedAt..now, ConfirmSucceeds(at) PROVE IInv'
    <2>1. at \in Nat
      OBVIOUS
    <2>2. QED
      BY <1>4, <2>1 DEF ConfirmSucceeds, Renewed
  <1>5. ASSUME NEW fenceLost \in BOOLEAN, TickFails(fenceLost) PROVE IInv'
    <2>1. state' = "HELD" => expires - now > SafetyMargin
      BY <1>5 DEF TickFails, RemainingLease
    <2>2. state' = "HELD" => due < expires
      BY <2>1
    <2>3. state' \in {state, "LEASE_UNCERTAIN"}
      BY <1>5 DEF TickFails
    <2>4. QED
      BY <1>5, <2>2, <2>3 DEF TickFails
  <1>6. CASE MarkControlPlaneUnreachable
    BY <1>6 DEF MarkControlPlaneUnreachable
  <1>7. CASE ConfirmLeaseForFinalWrite
    BY <1>7 DEF ConfirmLeaseForFinalWrite
  <1>8. CASE ConfirmFails
    BY <1>8 DEF ConfirmFails
  <1>9. CASE Advance
    BY <1>9 DEF Advance
  <1>10. CASE UNCHANGED vars
    BY <1>10 DEF vars
  <1>11. QED
    BY <1>1, <1>2, <1>3, <1>4, <1>5, <1>6, <1>7, <1>8, <1>9, <1>10 DEF Next

\* The inductive invariant of the monitor: its variables keep their types, the
\* timer is at most one period ahead, and in HELD it fires before the expiry.
THEOREM Invariance == Spec => []IInv
  BY InitIInv, NextIInv, PTL DEF Spec

\* The state, the clock, the expiry and the failure count keep their types.
THEOREM MonitorTypes == Spec => []TypeOK
  <1>1. IInv => TypeOK
    BY DEF IInv
  <1>2. QED
    BY <1>1, Invariance, PTL

\* performTick ends HELD early enough: in HELD, between ticks, the lease the
\* process counts on has not run out.
THEOREM HeldSafe == Spec => []HeldWithinLease
  <1>1. IInv => HeldWithinLease
    BY DEF IInv, TypeOK, TimerAhead, TickBeforeExpiry, HeldWithinLease
  <1>2. QED
    BY <1>1, Invariance, PTL

\* confirmLeaseForFinalWrite lets results be written only out of drain mode
\* and under a lease renewed by that very call.
THEOREM FinalWriteConfirmed == Spec => ConfirmedByRenewal
  <1> DEFINE Renewal == state' = "FINAL_WRITE_CONFIRMED"
                          /\ state # "FINAL_WRITE_CONFIRMED"
                          => state = "LEASE_UNCERTAIN" /\ now < expires'
  <1>1. IInv /\ [Next]_vars => [Renewal]_vars
    <2> SUFFICES ASSUME IInv, Next, state' = "FINAL_WRITE_CONFIRMED",
                        state # "FINAL_WRITE_CONFIRMED"
                 PROVE  state = "LEASE_UNCERTAIN" /\ now < expires'
      BY DEF vars
    <2>1. PICK at \in startedAt..now : ConfirmSucceeds(at)
      BY DEF Next, TimerFires, TickByScheduler, TickSucceeds, TickFails,
             MarkControlPlaneUnreachable, ConfirmLeaseForFinalWrite,
             ConfirmFails, Advance
    <2>2. at \in Nat /\ at >= startedAt /\ now <= startedAt + MaxLatency
      BY <2>1 DEF IInv, TypeOK, HeartbeatYoung, ConfirmSucceeds
    <2>3. now < expires'
      BY <2>1, <2>2, MonitorAssumption
      DEF ConfirmSucceeds, Renewed, IInv, TypeOK
    <2>4. state = "LEASE_UNCERTAIN"
      BY <2>1 DEF IInv, TypeOK, HeartbeatYoung, ConfirmSucceeds
    <2>5. QED
      BY <2>3, <2>4
  <1>2. QED
    BY <1>1, Invariance, PTL DEF Spec, ConfirmedByRenewal
=============================================================================
