-------------------------- MODULE ArchiveRunProofs --------------------------
(***************************************************************************)
(* Proofs about archive-run, for any number of calls and of faults.        *)
(*                                                                         *)
(* The inductive invariant says of every call what its place in archiveRun *)
(* and its outcome tell about the Run, the lock and the audits (CallOK),   *)
(* and of the calls together that the lock lets one of them audit          *)
(* (AuditExcludes).                                                        *)
(***************************************************************************)
EXTENDS ArchiveRun, TLAPS

Call == [pc : Phase, rev : Nat, ambiguous : BOOLEAN, conflict : BOOLEAN, out : Outcome]

\* A call that has not written anything yet, not even on the wire.
BeforeWrite == {"acquire", "read", "hold", "tick", "write"}

\* A call that has read the Run under the lock and not come to the audit.
Working == {"hold", "tick", "write", "reread", "tickAgain", "rewrite", "final", "tickAudit"}

AuditPhase == {"audit", "auditReread", "auditAgain"}

Auditing(c) == c \in audits \/ arc[c].pc \in AuditPhase
Closable == run.status \in {"FAILED", "CANCELLED"}

\* The lock is taken by the step that leaves "acquire", and an outcome is the
\* last thing a call comes to.
PlaceOK(c) ==
    /\ lock = c => arc[c].pc # "acquire"
    /\ arc[c].pc \notin {"finish", "ended", "dead"} => Out(c) = NoOutcome
    /\ arc[c].pc \in {"finish", "ended"} => Out(c).outcome # None

\* Before its first write, and after one that met a conflict, nothing of a call
\* has been written or is on the way.
NothingWritten(c) ==
    arc[c].pc \in BeforeWrite \/ (arc[c].pc = "reread" /\ arc[c].conflict) =>
        by # c /\ \A w \in wire : w.c # c

\* Who goes on to the audit, or says so, knows that the Run is archived.
ArchivedKnown(c) ==
    arc[c].pc \in {"tickAudit"} \cup AuditPhase
        \/ Out(c).outcome \in {"ARCHIVED", "ALREADY_ARCHIVED"}
        \/ c \in audits
    => run.lifecycle = "ARCHIVED"

\* A call that is refused, or has read the Run before its second write, has
\* changed nothing but by a write that came late; one that says somebody else
\* did has changed nothing at all.
OutcomeOK(c) ==
    /\ Out(c).outcome = "ALREADY_ARCHIVED" => by # c
    /\ Out(c).outcome = "REJECTED" \/ arc[c].pc = "tickAgain" => by # c \/ c \in late

AuditRecorded(c) ==
    /\ Out(c).audit = "RECORDED" => c \in audits
    /\ Out(c).outcome = "ARCHIVED" => Out(c).audit \in {"RECORDED", "PENDING"}

\* A call that says it has released the lock does not have it, but for one that
\* took it by a failed acquire, which reports a refusal.
ReleasedOK(c) == Out(c).lock_released /\ Out(c).outcome # "REJECTED" => lock # c

\* The revision a call carries is the Run's only while the Run has the status
\* that was looked at; and under the lock nobody else changes it.
StatusOK(c) ==
    /\ arc[c].rev <= run.rev
    /\ arc[c].pc \in {"hold", "tick", "write", "rewrite"} /\ arc[c].rev = run.rev => Closable
    /\ arc[c].pc \in {"hold", "tick", "write", "reread", "tickAgain"} /\ lock = c => Closable

CallOK(c) ==
    /\ PlaceOK(c) /\ NothingWritten(c) /\ ArchivedKnown(c) /\ OutcomeOK(c)
    /\ AuditRecorded(c) /\ ReleasedOK(c) /\ StatusOK(c)

\* The same for a write that was given up.
WireOK == \A w \in wire : w.rev <= run.rev /\ (w.rev = run.rev => Closable)

\* The history variable names an archiver as soon as the Run is archived.
ArchivedBySomebody == run.lifecycle = "ARCHIVED" <=> by # None

\* A call that audits has ticked under the lock after the Run was archived; any
\* other call at work has lost the lock, and passes no tick any more.
AuditExcludes ==
    \A c, d \in Archiver : c # d /\ Auditing(c) =>
        ~Auditing(d) /\ ~(lock = d /\ arc[d].pc \in Working)

IInv ==
    /\ TypeOK /\ ArchivedBySomebody /\ WireOK /\ AuditExcludes
    /\ \A c \in Archiver : CallOK(c)
-----------------------------------------------------------------------------
\* A step of one call leaves the others where they are.
Moved(c) == arc' \in [Archiver -> Call] /\ \A d \in Archiver \ {c} : arc'[d] = arc[d]

\* The calls are records with these fields.
LEMMA ArcType == TypeOK => arc \in [Archiver -> Call]
  BY DEF TypeOK, Call

\* A step of one call changes that call only.
LEMMA CallMoves ==
  ASSUME TypeOK, NEW c \in Archiver, NEW e \in Call, arc' = [arc EXCEPT ![c] = e]
  PROVE  Moved(c) /\ arc'[c] = e
  BY ArcType DEF Moved

\* Goto changes the place and nothing else.
LEMMA GotoMoves ==
  ASSUME TypeOK, NEW c \in Archiver, NEW p \in Phase, Goto(c, p)
  PROVE  /\ Moved(c) /\ arc'[c].pc = p /\ arc'[c].rev = arc[c].rev
         /\ arc'[c].ambiguous = arc[c].ambiguous /\ arc'[c].conflict = arc[c].conflict
         /\ arc'[c].out = arc[c].out
  <1>1. arc[c] \in Call
    BY ArcType
  <1>2. [arc[c] EXCEPT !.pc = p] \in Call
    BY <1>1 DEF Call
  <1>3. arc' = [arc EXCEPT ![c] = [arc[c] EXCEPT !.pc = p]]
    BY DEF Goto
  <1>4. Moved(c) /\ arc'[c] = [arc[c] EXCEPT !.pc = p]
    BY <1>2, <1>3, CallMoves
  <1>5. QED
    BY <1>1, <1>4 DEF Call

\* Result goes to "finish" with an outcome, the lock not released.
LEMMA ResultMoves ==
  ASSUME TypeOK, NEW c \in Archiver,
         NEW o \in {None, "ARCHIVED", "ALREADY_ARCHIVED", "UNCONFIRMED", "REJECTED"},
         NEW a \in {None, "RECORDED", "PENDING"}, NEW k \in ArchiveCode \cup {None},
         Result(c, o, a, k)
  PROVE  /\ Moved(c) /\ arc'[c].pc = "finish" /\ arc'[c].rev = arc[c].rev
         /\ arc'[c].out.outcome = o /\ arc'[c].out.audit = a
         /\ arc'[c].out.lock_released = FALSE
  <1> DEFINE out == [outcome |-> o, audit |-> a, lock_released |-> FALSE, code |-> k]
  <1>1. arc[c] \in Call /\ out \in Outcome
    BY ArcType DEF Outcome
  <1>2. [arc[c] EXCEPT !.pc = "finish", !.out = out] \in Call
    BY <1>1 DEF Call, Phase
  <1>3. arc' = [arc EXCEPT ![c] = [arc[c] EXCEPT !.pc = "finish", !.out = out]]
    BY DEF Result
  <1>4. Moved(c) /\ arc'[c] = [arc[c] EXCEPT !.pc = "finish", !.out = out]
    BY <1>2, <1>3, CallMoves
  <1>5. QED
    BY <1>1, <1>4 DEF Call

\* A step that changes one call's own record keeps the invariant if it keeps
\* what the invariant says of that call, and the call does not begin to audit
\* or to work.
LEMMA QuietStep ==
  ASSUME IInv, NEW c \in Archiver, Moved(c), CallOK(c)', faults' \in Nat,
         UNCHANGED <<run, lock, wire, audits, by, late>>,
         Auditing(c)' => \/ Auditing(c)
                         \/ \A d \in Archiver : d # c => ~Auditing(d) /\ lock # d,
         arc'[c].pc \in Working => arc[c].pc \in Working \/ lock # c
                                   \/ \A d \in Archiver : d # c => ~Auditing(d)
  PROVE  IInv'
  <1>1. TypeOK'
    BY DEF IInv, TypeOK, Moved, Call
  <1>2. ArchivedBySomebody' /\ WireOK'
    BY DEF IInv, ArchivedBySomebody, WireOK, Closable
  <1>3. ASSUME NEW d \in Archiver, d # c PROVE CallOK(d)'
    <2>1. arc'[d] = arc[d] /\ CallOK(d)
      BY <1>3 DEF Moved, IInv
    <2>2. QED
      BY <2>1 DEF CallOK, PlaceOK, NothingWritten, ArchivedKnown, OutcomeOK, AuditRecorded,
                  ReleasedOK, StatusOK, Closable, Out
  <1>4. AuditExcludes'
    BY DEF IInv, AuditExcludes, Auditing, Moved
  <1>5. QED
    BY <1>1, <1>2, <1>3, <1>4 DEF IInv

\* A step that ends in a result keeps the invariant if the result is true.
LEMMA ResultStep ==
  ASSUME IInv, NEW c \in Archiver, faults' \in Nat,
         UNCHANGED <<run, lock, wire, audits, by, late>>,
         NEW o \in {"ARCHIVED", "ALREADY_ARCHIVED", "UNCONFIRMED", "REJECTED"},
         NEW a \in {None, "RECORDED", "PENDING"}, NEW k \in ArchiveCode \cup {None},
         Result(c, o, a, k),
         o \in {"ARCHIVED", "ALREADY_ARCHIVED"} => run.lifecycle = "ARCHIVED",
         o = "ALREADY_ARCHIVED" => by # c,
         o = "REJECTED" => by # c \/ c \in late,
         a = "RECORDED" => c \in audits,
         o = "ARCHIVED" => a \in {"RECORDED", "PENDING"}
  PROVE  IInv'
  <1>1. /\ Moved(c) /\ arc'[c].pc = "finish" /\ arc'[c].rev = arc[c].rev
        /\ arc'[c].out.outcome = o /\ arc'[c].out.audit = a
        /\ arc'[c].out.lock_released = FALSE
    <2>1. TypeOK
      BY DEF IInv
    <2>2. o \in {None, "ARCHIVED", "ALREADY_ARCHIVED", "UNCONFIRMED", "REJECTED"}
      OBVIOUS
    <2>3. QED
      BY <2>1, <2>2, ResultMoves
  <1>2. CallOK(c)
    BY DEF IInv
  <1>3. PlaceOK(c)' /\ NothingWritten(c)' /\ ReleasedOK(c)' /\ StatusOK(c)'
    BY <1>1, <1>2, ArchiveAssumption DEF CallOK, PlaceOK, NothingWritten, ReleasedOK, StatusOK, Closable, Out,
                      BeforeWrite
  <1>4. ArchivedKnown(c)' /\ OutcomeOK(c)' /\ AuditRecorded(c)'
    BY <1>1, <1>2 DEF CallOK, ArchivedKnown, OutcomeOK, AuditRecorded, Out, AuditPhase
  <1>5. QED
    BY <1>1, <1>3, <1>4, QuietStep DEF CallOK, Auditing, AuditPhase, Working

\* A step to another place keeps the invariant if it keeps what that place says.
LEMMA GotoStep ==
  ASSUME IInv, NEW c \in Archiver, faults' \in Nat,
         UNCHANGED <<run, lock, wire, audits, by, late>>,
         NEW p \in Phase \ {"acquire", "read", "hold", "reread", "tickAgain", "finish", "ended"},
         Goto(c, p),
         p \in {"tick", "write"} => arc[c].pc \in {"hold", "tick"},
         p \in Working => arc[c].pc \in Working,
         p = "rewrite" /\ arc[c].rev = run.rev => Closable,
         p \in {"tickAudit"} \cup AuditPhase => run.lifecycle = "ARCHIVED",
         p \in AuditPhase => \/ arc[c].pc \in AuditPhase
                             \/ \A d \in Archiver : d # c => ~Auditing(d) /\ lock # d,
         p # "dead" =>
             arc[c].pc \notin {"finish", "ended", "dead"}
  PROVE  IInv'
  <1>1. /\ Moved(c) /\ arc'[c].pc = p /\ arc'[c].rev = arc[c].rev
        /\ arc'[c].conflict = arc[c].conflict /\ arc'[c].out = arc[c].out
    BY GotoMoves DEF IInv
  <1>2. CallOK(c)
    BY DEF IInv
  <1>3. PlaceOK(c)' /\ NothingWritten(c)' /\ ReleasedOK(c)' /\ StatusOK(c)'
    BY <1>1, <1>2 DEF CallOK, PlaceOK, NothingWritten, ReleasedOK, StatusOK, Closable, Out,
                      BeforeWrite
  <1>4. ArchivedKnown(c)' /\ OutcomeOK(c)' /\ AuditRecorded(c)'
    BY <1>1, <1>2 DEF CallOK, ArchivedKnown, OutcomeOK, AuditRecorded, Out, AuditPhase
  <1>5. QED
    BY <1>1, <1>3, <1>4, QuietStep DEF CallOK, Auditing, AuditPhase, Working
-----------------------------------------------------------------------------
\* A fault is taken from those that are left.
LEMMA Faults == TypeOK => (Fault => faults' \in Nat) /\ (NoFault => faults' \in Nat)
  BY DEF TypeOK, Fault, NoFault

\* A call ends REJECTED.
LEMMA Refused ==
  ASSUME IInv, NEW c \in Archiver, faults' \in Nat,
         UNCHANGED <<run, lock, wire, audits, by, late>>,
         NEW k \in ArchiveCode \cup {None}, Result(c, "REJECTED", None, k), by # c \/ c \in late
  PROVE  IInv'
  BY ResultStep, ArchiveAssumption

\* A call ends without knowing whether its write took place.
LEMMA Unconfirmed ==
  ASSUME IInv, NEW c \in Archiver, faults' \in Nat,
         UNCHANGED <<run, lock, wire, audits, by, late>>,
         NEW k \in ArchiveCode \cup {None}, Result(c, "UNCONFIRMED", None, k)
  PROVE  IInv'
  BY ResultStep, ArchiveAssumption

\* A call ends ALREADY_ARCHIVED.
LEMMA Already ==
  ASSUME IInv, NEW c \in Archiver, faults' \in Nat,
         UNCHANGED <<run, lock, wire, audits, by, late>>,
         Result(c, "ALREADY_ARCHIVED", None, None), by # c, run.lifecycle = "ARCHIVED"
  PROVE  IInv'
  BY ResultStep, ArchiveAssumption

\* The step of ReadRun that lets the call through: nobody audits a Run that is
\* not archived.
LEMMA ReadRunKeeps ==
  ASSUME IInv, NEW c \in Archiver, ReadRun(c)
  PROVE  IInv'
  <1>1. arc[c].pc = "read" /\ CallOK(c) /\ TypeOK
    BY DEF ReadRun, At, IInv
  <1>2. by # c
    BY <1>1 DEF CallOK, NothingWritten, BeforeWrite
  <1>3. UNCHANGED <<run, lock, wire, audits, by, late>> /\ faults' \in Nat
    BY <1>1, Faults DEF ReadRun
  <1>4. CASE \E k \in ArchiveCode \cup {None} : Result(c, "REJECTED", None, k)
    BY <1>2, <1>3, <1>4, Refused
  <1>5. CASE run.lifecycle = "ARCHIVED" /\ Result(c, "ALREADY_ARCHIVED", None, None)
    BY <1>2, <1>3, <1>5, Already
  <1>6. CASE /\ run.lifecycle # "ARCHIVED" /\ Closable
             /\ arc' = [arc EXCEPT ![c] = [@ EXCEPT !.pc = "hold", !.rev = run.rev]]
    <2> DEFINE e == [arc[c] EXCEPT !.pc = "hold", !.rev = run.rev]
    <2>1. arc[c] \in Call
      BY <1>1, ArcType
    <2>2. e \in Call
      BY <1>1, <2>1 DEF Call, Phase, TypeOK
    <2>3. Moved(c) /\ arc'[c] = e
      BY <1>1, <1>6, <2>2, CallMoves
    <2>4. arc'[c].pc = "hold" /\ arc'[c].rev = run.rev /\ arc'[c].out = arc[c].out
      BY <2>1, <2>3 DEF Call
    <2>5. run.rev \in Nat
      BY <1>1 DEF TypeOK
    <2>6. PlaceOK(c)' /\ NothingWritten(c)' /\ ReleasedOK(c)' /\ StatusOK(c)'
      BY <1>1, <1>3, <1>6, <2>4, <2>5
      DEF CallOK, PlaceOK, NothingWritten, ReleasedOK, StatusOK, Closable, Out, BeforeWrite
    <2>7. ArchivedKnown(c)' /\ OutcomeOK(c)' /\ AuditRecorded(c)'
      BY <1>1, <1>3, <2>4 DEF CallOK, ArchivedKnown, OutcomeOK, AuditRecorded, Out, AuditPhase
    <2>8. \A d \in Archiver : ~Auditing(d)
      BY <1>6 DEF IInv, CallOK, ArchivedKnown, Auditing
    <2>9. QED
      BY <1>3, <2>3, <2>4, <2>6, <2>7, <2>8, QuietStep
      DEF CallOK, Auditing, AuditPhase, Working
  <1>7. QED
    BY <1>1, <1>4, <1>5, <1>6, ArchiveAssumption DEF ReadRun, Closable, TypeOK, TerminalRun, ArchiveCode

\* The stop request is read under the lock.
LEMMA ReadHoldKeeps ==
  ASSUME IInv, NEW c \in Archiver, ReadHold(c)
  PROVE  IInv'
  <1>1. arc[c].pc = "hold" /\ CallOK(c) /\ TypeOK
    BY DEF ReadHold, At, IInv
  <1>2. by # c
    BY <1>1 DEF CallOK, NothingWritten, BeforeWrite
  <1>3. UNCHANGED <<run, lock, wire, audits, by, late>> /\ faults' \in Nat
    BY <1>1, Faults DEF ReadHold
  <1>4. CASE \E k \in ArchiveCode : Result(c, "REJECTED", None, k)
    BY <1>2, <1>3, <1>4, Refused
  <1>5. CASE Goto(c, "tick")
    BY <1>1, <1>3, <1>5, GotoStep DEF Phase, Working, AuditPhase
  <1>6. QED
    BY <1>4, <1>5 DEF ReadHold, ArchiveCode

\* A tick is followed by the next phase only under the call's own lock.
LEMMA TickKeeps ==
  ASSUME IInv, NEW c \in Archiver
  PROVE  TickBeforeArchive(c) \/ TickBeforeRetry(c) \/ TickBeforeAudit(c) => IInv'
  <1>1. CallOK(c) /\ TypeOK
    BY DEF IInv
  <1>3. CASE TickBeforeArchive(c)
    <2>1. /\ arc[c].pc = "tick"
          /\ UNCHANGED <<run, lock, wire, audits, by, late>> /\ faults' \in Nat
          /\ (lock = c /\ Goto(c, "write")) \/ Interrupted(c)
      BY <1>1, <1>3, Faults DEF TickBeforeArchive, At, Tick
    <2>2. by # c
      BY <1>1, <2>1 DEF CallOK, NothingWritten, BeforeWrite
    <2>3. CASE Interrupted(c)
      BY <2>1, <2>2, <2>3, Refused DEF Interrupted, ArchiveCode
    <2>4. CASE Goto(c, "write")
      BY <1>1, <2>1, <2>4, GotoStep DEF Phase, Working, AuditPhase
    <2>5. QED
      BY <2>1, <2>3, <2>4
  <1>4. CASE TickBeforeRetry(c)
    <2>1. /\ arc[c].pc = "tickAgain"
          /\ UNCHANGED <<run, lock, wire, audits, by, late>> /\ faults' \in Nat
          /\ (lock = c /\ Goto(c, "rewrite")) \/ Interrupted(c)
      BY <1>1, <1>4, Faults DEF TickBeforeRetry, At, Tick
    <2>2. by # c \/ c \in late
      BY <1>1, <2>1 DEF CallOK, OutcomeOK
    <2>3. CASE Interrupted(c)
      BY <2>1, <2>2, <2>3, Refused DEF Interrupted, ArchiveCode
    <2>4. CASE lock = c /\ Goto(c, "rewrite")
      <3>1. Closable
        BY <1>1, <2>1, <2>4 DEF CallOK, StatusOK
      <3>2. QED
        BY <2>1, <2>4, <3>1, GotoStep DEF Phase, Working, AuditPhase
    <2>5. QED
      BY <2>1, <2>3, <2>4
  <1>5. CASE TickBeforeAudit(c)
    <2> DEFINE lost == Result(c, "ARCHIVED", "PENDING", "LEASE_INTERRUPTED_AFTER_ARCHIVE")
    <2>1. /\ arc[c].pc = "tickAudit"
          /\ UNCHANGED <<run, lock, wire, audits, by, late>> /\ faults' \in Nat
          /\ (lock = c /\ Goto(c, "audit")) \/ lost
      BY <1>1, <1>5, Faults DEF TickBeforeAudit, At, Tick
    <2>2. run.lifecycle = "ARCHIVED"
      BY <1>1, <2>1 DEF CallOK, ArchivedKnown
    <2>3. CASE lost
      BY <2>1, <2>2, <2>3, ResultStep DEF ArchiveCode
    <2>4. CASE lock = c /\ Goto(c, "audit")
      <3>1. \A d \in Archiver : d # c => ~Auditing(d) /\ lock # d
        BY <2>1, <2>4 DEF IInv, AuditExcludes, Working
      <3>2. QED
        BY <2>1, <2>2, <2>4, <3>1, GotoStep DEF Phase, Working, AuditPhase
    <2>5. QED
      BY <2>1, <2>3, <2>4
  <1>6. QED
    BY <1>3, <1>4, <1>5

\* The Run is read again after an ambiguous write.
LEMMA RereadKeeps ==
  ASSUME IInv, NEW c \in Archiver, Reread(c)
  PROVE  IInv'
  <1>1. arc[c].pc = "reread" /\ CallOK(c) /\ TypeOK
    BY DEF Reread, At, IInv
  <1>2. run.lifecycle # "ARCHIVED" \/ arc[c].conflict => by # c
    BY <1>1, ArchiveAssumption DEF CallOK, NothingWritten, IInv, ArchivedBySomebody
  <1>3. UNCHANGED <<run, lock, wire, audits, by, late>> /\ faults' \in Nat
    BY <1>1, Faults DEF Reread
  <1>4. CASE /\ run.lifecycle = "ARCHIVED" /\ arc[c].conflict
             /\ Result(c, "ALREADY_ARCHIVED", None, None)
    BY <1>2, <1>3, <1>4, Already
  <1>5. CASE run.lifecycle = "ARCHIVED" /\ Goto(c, "tickAudit")
    BY <1>1, <1>3, <1>5, GotoStep DEF Phase, Working, AuditPhase
  <1>6. CASE Result(c, "UNCONFIRMED", None, "ARCHIVE_UNCONFIRMED")
    BY <1>3, <1>6, Unconfirmed DEF ArchiveCode
  <1>7. CASE /\ run.lifecycle # "ARCHIVED"
             /\ Result(c, "REJECTED", None, "ARCHIVE_WRITE_FAILED")
    BY <1>2, <1>3, <1>7, Refused DEF ArchiveCode
  <1>8. CASE /\ run.lifecycle # "ARCHIVED"
             /\ arc' = [arc EXCEPT ![c] = [@ EXCEPT !.pc = "tickAgain", !.rev = run.rev]]
    <2> DEFINE e == [arc[c] EXCEPT !.pc = "tickAgain", !.rev = run.rev]
    <2>1. arc[c] \in Call
      BY <1>1, ArcType
    <2>2. e \in Call
      BY <1>1, <2>1 DEF Call, Phase, TypeOK
    <2>3. Moved(c) /\ arc'[c] = e
      BY <1>1, <1>8, <2>2, CallMoves
    <2>4. arc'[c].pc = "tickAgain" /\ arc'[c].rev = run.rev /\ arc'[c].out = arc[c].out
      BY <2>1, <2>3 DEF Call
    <2>5. run.rev \in Nat
      BY <1>1 DEF TypeOK
    <2>6. PlaceOK(c)' /\ NothingWritten(c)' /\ ReleasedOK(c)' /\ StatusOK(c)'
      BY <1>1, <1>3, <2>4, <2>5
      DEF CallOK, PlaceOK, NothingWritten, ReleasedOK, StatusOK, Closable, Out, BeforeWrite
    <2>7. ArchivedKnown(c)' /\ OutcomeOK(c)' /\ AuditRecorded(c)'
      BY <1>1, <1>2, <1>3, <1>8, <2>4
      DEF CallOK, ArchivedKnown, OutcomeOK, AuditRecorded, Out, AuditPhase
    <2>8. QED
      BY <1>1, <1>3, <2>3, <2>4, <2>6, <2>7, QuietStep
      DEF CallOK, Auditing, AuditPhase, Working
  <1>9. QED
    BY <1>4, <1>5, <1>6, <1>7, <1>8 DEF Reread

\* The Run is read again after the second write.
LEMMA FinalReadKeeps ==
  ASSUME IInv, NEW c \in Archiver, FinalRead(c)
  PROVE  IInv'
  <1>1. arc[c].pc = "final" /\ CallOK(c) /\ TypeOK
    BY DEF FinalRead, At, IInv
  <1>2. run.lifecycle # "ARCHIVED" => by # c
    BY ArchiveAssumption DEF IInv, ArchivedBySomebody
  <1>3. UNCHANGED <<run, lock, wire, audits, by, late>> /\ faults' \in Nat
    BY <1>1, Faults DEF FinalRead
  <1>4. CASE run.lifecycle = "ARCHIVED" /\ Goto(c, "tickAudit")
    BY <1>1, <1>3, <1>4, GotoStep DEF Phase, Working, AuditPhase
  <1>5. CASE Result(c, "UNCONFIRMED", None, "ARCHIVE_UNCONFIRMED")
    BY <1>3, <1>5, Unconfirmed DEF ArchiveCode
  <1>6. CASE /\ run.lifecycle # "ARCHIVED"
             /\ Result(c, "REJECTED", None, "ARCHIVE_WRITE_FAILED")
    BY <1>2, <1>3, <1>6, Refused DEF ArchiveCode
  <1>7. QED
    BY <1>4, <1>5, <1>6 DEF FinalRead

\* The audit is looked up after an ambiguous append.
LEMMA RereadAuditKeeps ==
  ASSUME IInv, NEW c \in Archiver, RereadAudit(c)
  PROVE  IInv'
  <1>1. arc[c].pc = "auditReread" /\ CallOK(c) /\ TypeOK
    BY DEF RereadAudit, At, IInv
  <1>2. run.lifecycle = "ARCHIVED"
    BY <1>1 DEF CallOK, ArchivedKnown, AuditPhase
  <1>3. UNCHANGED <<run, lock, wire, audits, by, late>> /\ faults' \in Nat
    BY <1>1, Faults DEF RereadAudit
  <1>4. CASE c \in audits /\ Recorded(c)
    BY <1>2, <1>3, <1>4, ResultStep DEF Recorded
  <1>5. CASE Goto(c, "auditAgain")
    BY <1>1, <1>2, <1>3, <1>5, GotoStep DEF Phase, Working, AuditPhase
  <1>6. CASE AuditPending(c)
    BY <1>2, <1>3, <1>6, ResultStep DEF AuditPending, ArchiveCode
  <1>7. QED
    BY <1>4, <1>5, <1>6 DEF RereadAudit

\* A call dies.
LEMMA DieKeeps ==
  ASSUME IInv, NEW c \in Archiver, Die(c)
  PROVE  IInv'
  <1>1. UNCHANGED <<run, lock, wire, audits, by, late>> /\ faults' \in Nat /\ Goto(c, "dead")
    BY Faults DEF Die, IInv
  <1>2. QED
    BY <1>1, GotoStep DEF Phase, Working, AuditPhase
-----------------------------------------------------------------------------
\* A step by which a call takes or releases the lock for itself.
LEMMA LockStep ==
  ASSUME IInv, NEW c \in Archiver, Moved(c), CallOK(c)', faults' \in Nat,
         UNCHANGED <<run, wire, audits, by, late>>,
         lock' = lock \/ (lock = None /\ lock' = c) \/ (lock = c /\ lock' = None),
         arc'[c].pc \notin Working \cup AuditPhase
  PROVE  IInv'
  <1>1. TypeOK'
    BY DEF IInv, TypeOK, Moved, Call
  <1>2. ArchivedBySomebody' /\ WireOK'
    BY DEF IInv, ArchivedBySomebody, WireOK, Closable
  <1>3. ASSUME NEW d \in Archiver, d # c PROVE CallOK(d)'
    <2>1. arc'[d] = arc[d] /\ CallOK(d) /\ (lock' = d => lock = d)
      BY <1>3, ArchiveAssumption DEF Moved, IInv
    <2>2. QED
      BY <2>1 DEF CallOK, PlaceOK, NothingWritten, ArchivedKnown, OutcomeOK, AuditRecorded,
                  ReleasedOK, StatusOK, Closable, Out
  <1>4. AuditExcludes'
    <2>1. \A d \in Archiver : d # c => (lock' = d => lock = d)
      BY ArchiveAssumption
    <2>2. QED
      BY <2>1 DEF IInv, AuditExcludes, Auditing, Moved
  <1>5. QED
    BY <1>1, <1>2, <1>3, <1>4 DEF IInv

\* acquire: a refusal that took the lock all the same is REJECTED.
LEMMA AcquireKeeps ==
  ASSUME IInv, NEW c \in Archiver, Acquire(c)
  PROVE  IInv'
  <1>1. arc[c].pc = "acquire" /\ CallOK(c) /\ TypeOK
    BY DEF Acquire, At, IInv
  <1>2. /\ UNCHANGED <<run, wire, audits, by, late>> /\ faults' \in Nat
        /\ lock' = lock \/ (lock = None /\ lock' = c)
    BY <1>1, Faults DEF Acquire
  <1>3. arc[c] \in Call
    BY <1>1, ArcType
  <1>4. CASE Goto(c, "read")
    <2>1. /\ Moved(c) /\ arc'[c].pc = "read" /\ arc'[c].rev = arc[c].rev
          /\ arc'[c].out = arc[c].out
      BY <1>1, <1>4, GotoMoves DEF Phase
    <2>2. PlaceOK(c)' /\ NothingWritten(c)' /\ ReleasedOK(c)' /\ StatusOK(c)'
      BY <1>1, <1>2, <2>1 DEF CallOK, PlaceOK, NothingWritten, ReleasedOK, StatusOK, Closable,
                              Out, NoOutcome, BeforeWrite
    <2>3. ArchivedKnown(c)' /\ OutcomeOK(c)' /\ AuditRecorded(c)'
      BY <1>1, <1>2, <2>1 DEF CallOK, ArchivedKnown, OutcomeOK, AuditRecorded, Out, AuditPhase
    <2>4. QED
      BY <1>2, <2>1, <2>2, <2>3, LockStep DEF CallOK, Working, AuditPhase
  <1>5. ASSUME NEW code \in ArchiveCode,
               arc' = [arc EXCEPT ![c] = [@ EXCEPT !.pc = "ended",
                          !.out = [outcome |-> "REJECTED", audit |-> None,
                                   lock_released |-> TRUE, code |-> code]]]
        PROVE  IInv'
    <2> DEFINE out == [outcome |-> "REJECTED", audit |-> None, lock_released |-> TRUE,
                       code |-> code]
               e == [arc[c] EXCEPT !.pc = "ended", !.out = out]
    <2>1. out \in Outcome
      BY DEF Outcome
    <2>2. e \in Call
      BY <1>3, <2>1 DEF Call, Phase
    <2>3. Moved(c) /\ arc'[c] = e
      BY <1>1, <1>5, <2>2, CallMoves
    <2>4. /\ arc'[c].pc = "ended" /\ arc'[c].rev = arc[c].rev
          /\ arc'[c].out.outcome = "REJECTED" /\ arc'[c].out.audit = None
      BY <1>3, <2>3 DEF Call
    <2>5. PlaceOK(c)' /\ NothingWritten(c)' /\ ReleasedOK(c)' /\ StatusOK(c)'
      BY <1>1, <1>2, <2>4, ArchiveAssumption DEF CallOK, PlaceOK, NothingWritten, ReleasedOK, StatusOK, Closable,
                              Out, BeforeWrite
    <2>6. ArchivedKnown(c)' /\ OutcomeOK(c)' /\ AuditRecorded(c)'
      BY <1>1, <1>2, <2>4, ArchiveAssumption
      DEF CallOK, ArchivedKnown, OutcomeOK, AuditRecorded, NothingWritten, BeforeWrite, Out,
          AuditPhase
    <2>7. QED
      BY <1>2, <2>3, <2>4, <2>5, <2>6, LockStep DEF CallOK, Working, AuditPhase
  <1>6. QED
    BY <1>4, <1>5 DEF Acquire, ArchiveCode

\* finish: the lock is said to be released only when it is.
LEMMA FinishKeeps ==
  ASSUME IInv, NEW c \in Archiver, Finish(c)
  PROVE  IInv'
  <1>1. arc[c].pc = "finish" /\ CallOK(c) /\ TypeOK
    BY DEF Finish, At, IInv
  <1>2. /\ UNCHANGED <<run, wire, audits, by, late>> /\ faults' \in Nat
        /\ lock' = lock \/ (lock = c /\ lock' = None)
    BY <1>1, Faults DEF Finish
  <1>3. arc[c] \in Call
    BY <1>1, ArcType
  <1>4. ASSUME NEW r \in BOOLEAN, r => lock' # c,
               arc' = [arc EXCEPT ![c] = [@ EXCEPT !.pc = "ended", !.out.lock_released = r]]
        PROVE  IInv'
    <2> DEFINE e == [arc[c] EXCEPT !.pc = "ended", !.out.lock_released = r]
    <2>1. e.pc = "ended" /\ e.rev = arc[c].rev
          /\ e.out = [arc[c].out EXCEPT !.lock_released = r]
      BY <1>3 DEF Call
    <2>2. e \in Call
      BY <1>3 DEF Call, Phase, Outcome
    <2>3. Moved(c) /\ arc'[c] = e
      BY <1>1, <1>4, <2>2, CallMoves
    <2>4. /\ arc'[c].pc = "ended" /\ arc'[c].rev = arc[c].rev
          /\ arc'[c].out.outcome = arc[c].out.outcome /\ arc'[c].out.audit = arc[c].out.audit
          /\ arc'[c].out.lock_released = r
      BY <1>3, <2>1, <2>3 DEF Call, Outcome
    <2>5. PlaceOK(c)' /\ NothingWritten(c)' /\ ReleasedOK(c)' /\ StatusOK(c)'
      BY <1>1, <1>2, <1>4, <2>4 DEF CallOK, PlaceOK, NothingWritten, ReleasedOK, StatusOK,
                              Closable, Out, BeforeWrite
    <2>6. ArchivedKnown(c)' /\ OutcomeOK(c)' /\ AuditRecorded(c)'
      BY <1>1, <1>2, <2>4
      DEF CallOK, ArchivedKnown, OutcomeOK, AuditRecorded, Out, AuditPhase
    <2>7. QED
      BY <1>2, <2>3, <2>4, <2>5, <2>6, LockStep DEF CallOK, Working, AuditPhase
  <1>5. QED
    <2>1. None # c
      BY ArchiveAssumption
    <2>2. QED
      BY <1>4, <2>1 DEF Finish

\* A step of a call that audits may add its audit.
LEMMA AuditStep ==
  ASSUME IInv, NEW c \in Archiver, Moved(c), CallOK(c)', faults' \in Nat,
         UNCHANGED <<run, lock, wire, by, late>>,
         audits' = audits \/ audits' = audits \cup {c},
         arc[c].pc \in AuditPhase, arc'[c].pc \notin Working
  PROVE  IInv'
  <1>1. TypeOK'
    BY DEF IInv, TypeOK, Moved, Call
  <1>2. ArchivedBySomebody' /\ WireOK'
    BY DEF IInv, ArchivedBySomebody, WireOK, Closable
  <1>3. ASSUME NEW d \in Archiver, d # c PROVE CallOK(d)'
    <2>1. arc'[d] = arc[d] /\ CallOK(d) /\ (d \in audits' <=> d \in audits)
      BY <1>3 DEF Moved, IInv
    <2>2. QED
      BY <2>1 DEF CallOK, PlaceOK, NothingWritten, ArchivedKnown, OutcomeOK, AuditRecorded,
                  ReleasedOK, StatusOK, Closable, Out
  <1>4. AuditExcludes'
    BY DEF IInv, AuditExcludes, Auditing, Moved
  <1>5. QED
    BY <1>1, <1>2, <1>3, <1>4 DEF IInv

\* appendOperationAudit, the first time and again.
LEMMA AppendKeeps ==
  ASSUME IInv, NEW c \in Archiver, AppendAudit(c) \/ AppendAuditAgain(c)
  PROVE  IInv'
  <1>1. arc[c].pc \in AuditPhase /\ CallOK(c) /\ TypeOK
    BY DEF AppendAudit, AppendAuditAgain, At, IInv, AuditPhase
  <1>2. /\ UNCHANGED <<run, lock, wire, by, late>> /\ faults' \in Nat
        /\ audits' = audits \/ audits' = audits \cup {c}
    BY <1>1, Faults DEF AppendAudit, AppendAuditAgain
  <1>3. run.lifecycle = "ARCHIVED"
    BY <1>1 DEF CallOK, ArchivedKnown
  <1>4. ASSUME NEW a \in {"RECORDED", "PENDING"}, NEW k \in ArchiveCode \cup {None},
               Result(c, "ARCHIVED", a, k), a = "RECORDED" => c \in audits'
        PROVE  IInv'
    <2>1. /\ Moved(c) /\ arc'[c].pc = "finish" /\ arc'[c].rev = arc[c].rev
          /\ arc'[c].out.outcome = "ARCHIVED" /\ arc'[c].out.audit = a
          /\ arc'[c].out.lock_released = FALSE
      BY <1>1, <1>4, ResultMoves
    <2>2. PlaceOK(c)' /\ NothingWritten(c)' /\ ReleasedOK(c)' /\ StatusOK(c)'
      BY <1>1, <1>2, <2>1, ArchiveAssumption
      DEF CallOK, PlaceOK, NothingWritten, ReleasedOK, StatusOK, Closable, Out, BeforeWrite
    <2>3. ArchivedKnown(c)' /\ OutcomeOK(c)' /\ AuditRecorded(c)'
      BY <1>1, <1>2, <1>3, <1>4, <2>1
      DEF CallOK, ArchivedKnown, OutcomeOK, AuditRecorded, Out, AuditPhase
    <2>4. QED
      BY <1>1, <1>2, <2>1, <2>2, <2>3, AuditStep DEF CallOK, Working
  <1>5. CASE Goto(c, "auditReread")
    <2>1. /\ Moved(c) /\ arc'[c].pc = "auditReread" /\ arc'[c].rev = arc[c].rev
          /\ arc'[c].out = arc[c].out
      BY <1>1, <1>5, GotoMoves DEF Phase
    <2>2. PlaceOK(c)' /\ NothingWritten(c)' /\ ReleasedOK(c)' /\ StatusOK(c)'
      BY <1>1, <1>2, <2>1 DEF CallOK, PlaceOK, NothingWritten, ReleasedOK, StatusOK, Closable,
                              Out, NoOutcome, BeforeWrite, AuditPhase
    <2>3. ArchivedKnown(c)' /\ OutcomeOK(c)' /\ AuditRecorded(c)'
      BY <1>1, <1>2, <1>3, <2>1
      DEF CallOK, ArchivedKnown, OutcomeOK, AuditRecorded, Out, AuditPhase
    <2>4. QED
      BY <1>1, <1>2, <2>1, <2>2, <2>3, AuditStep DEF CallOK, Working
  <1>6. QED
    BY <1>2, <1>4, <1>5 DEF AppendAudit, AppendAuditAgain, Recorded, AuditPending, ArchiveCode
-----------------------------------------------------------------------------
\* The PUT of one call, in time or late: it raises the revision, so that no
\* other call's write can follow.
LEMMA ArchivedStep ==
  ASSUME IInv, NEW c \in Archiver, Moved(c), CallOK(c)', faults' \in Nat,
         NEW rev, Archived(c, rev), wire' \subseteq wire, UNCHANGED <<lock, audits>>,
         late' = late \/ late' = late \cup {c},
         arc'[c].pc \in Working => arc[c].pc \in Working,
         arc'[c].pc \in AuditPhase => arc[c].pc \in AuditPhase
  PROVE  IInv'
  <1>1. /\ run.rev \in Nat /\ run'.rev = run.rev + 1 /\ run'.status = run.status
        /\ run'.lifecycle = "ARCHIVED"
        /\ run' \in [status : TerminalRun \cup {"RUNNING"}, lifecycle : {"ACTIVE", "ARCHIVED"},
                     hold : BOOLEAN, rev : Nat]
    <2>1. run' = [run EXCEPT !.lifecycle = "ARCHIVED", !.rev = run.rev + 1]
      BY DEF Archived
    <2>2. run \in [status : TerminalRun \cup {"RUNNING"}, lifecycle : {"ACTIVE", "ARCHIVED"},
                   hold : BOOLEAN, rev : Nat]
      BY DEF IInv, TypeOK
    <2>3. run.rev \in Nat /\ run.rev + 1 \in Nat
      BY <2>2
    <2>4. QED
      BY ONLY <2>1, <2>2, <2>3
  <1>2. by' = IF run.lifecycle = "ARCHIVED" THEN by ELSE c
    BY DEF Archived
  <1>3. TypeOK'
    BY <1>1, <1>2 DEF IInv, TypeOK, Moved, Call
  <1>4. ArchivedBySomebody' /\ WireOK'
    <2>1. ArchivedBySomebody'
      BY <1>1, <1>2, ArchiveAssumption DEF IInv, ArchivedBySomebody
    <2>2. \A w \in wire : w.rev \in Nat /\ w.rev <= run.rev
      BY DEF IInv, WireOK, TypeOK
    <2>3. WireOK'
      BY <1>1, <2>2 DEF WireOK
    <2>4. QED
      BY <2>1, <2>3
  <1>5. ASSUME NEW d \in Archiver, d # c PROVE CallOK(d)'
    <2>1. arc'[d] = arc[d] /\ CallOK(d) /\ (by' = d => by = d) /\ arc[d].rev \in Nat
      BY <1>2, <1>5, ArcType DEF Moved, IInv, Call
    <2>2. PlaceOK(d)' /\ NothingWritten(d)' /\ ArchivedKnown(d)' /\ ReleasedOK(d)'
      BY <1>1, <2>1 DEF CallOK, PlaceOK, NothingWritten, ArchivedKnown, ReleasedOK, Out
    <2>3. OutcomeOK(d)' /\ AuditRecorded(d)'
      BY <2>1 DEF CallOK, OutcomeOK, AuditRecorded, Out
    <2>4. StatusOK(d)'
      BY <1>1, <2>1 DEF CallOK, StatusOK, Closable
    <2>5. QED
      BY <2>2, <2>3, <2>4 DEF CallOK
  <1>6. AuditExcludes'
    BY DEF IInv, AuditExcludes, Auditing, Moved
  <1>7. QED
    BY <1>3, <1>4, <1>5, <1>6 DEF IInv

\* A write that was given up is on the wire with the revision the call knows.
LEMMA WireStep ==
  ASSUME IInv, NEW c \in Archiver, Moved(c), CallOK(c)', faults' \in Nat,
         wire' = wire \cup {[c |-> c, rev |-> arc[c].rev]},
         UNCHANGED <<run, lock, audits, by, late>>,
         arc[c].pc \in {"write", "rewrite"},
         arc'[c].pc \in Working
  PROVE  IInv'
  <1>1. CallOK(c) /\ arc[c].rev \in Nat /\ TypeOK
    BY ArcType DEF IInv, Call
  <1>2. TypeOK'
    BY <1>1 DEF TypeOK, Moved, Call
  <1>3. ArchivedBySomebody' /\ WireOK'
    BY <1>1 DEF IInv, ArchivedBySomebody, WireOK, Closable, CallOK, StatusOK
  <1>4. ASSUME NEW d \in Archiver, d # c PROVE CallOK(d)'
    <2>1. arc'[d] = arc[d] /\ CallOK(d)
      BY <1>4 DEF Moved, IInv
    <2>2. NothingWritten(d)'
      BY <1>4, <2>1 DEF CallOK, NothingWritten
    <2>3. QED
      BY <2>1, <2>2 DEF CallOK, PlaceOK, ArchivedKnown, OutcomeOK, AuditRecorded,
                  ReleasedOK, StatusOK, Closable, Out
  <1>5. AuditExcludes'
    BY DEF IInv, AuditExcludes, Auditing, Moved, Working, AuditPhase
  <1>6. QED
    BY <1>2, <1>3, <1>4, <1>5 DEF IInv

\* What the first and the second write have in common: the call goes on to the
\* audit after a write that was answered, to a reading otherwise.
LEMMA WriteStep ==
  ASSUME IInv, NEW c \in Archiver, Moved(c), arc'[c].out = arc[c].out,
         arc'[c].rev = arc[c].rev, faults' \in Nat,
         arc[c].pc \in {"write", "rewrite"},
         arc'[c].pc \in {"tickAudit", "reread", "final"},
         arc'[c].pc = "reread" => arc[c].pc = "write",
         UNCHANGED <<lock, audits, late>>,
         \/ /\ Archived(c, arc[c].rev) /\ wire' = wire
            /\ arc'[c].pc = "reread" => ~arc'[c].conflict
         \/ UNCHANGED <<run, by, wire>> /\ arc'[c].pc # "tickAudit"
         \/ /\ wire' = wire \cup {[c |-> c, rev |-> arc[c].rev]} /\ UNCHANGED <<run, by>>
            /\ arc'[c].pc = "reread" => ~arc'[c].conflict
            /\ arc'[c].pc # "tickAudit"
  PROVE  IInv'
  <1>1. CallOK(c) /\ arc[c].rev \in Nat /\ TypeOK /\ run.rev \in Nat
    BY ArcType DEF IInv, Call, TypeOK
  <1>2. Out(c) = NoOutcome /\ Out(c)' = NoOutcome
    BY <1>1 DEF CallOK, PlaceOK, Out
  <1>3. PlaceOK(c)'
    BY <1>1, <1>2 DEF PlaceOK
  <1>4. AuditRecorded(c)' /\ ReleasedOK(c)' /\ OutcomeOK(c)'
    BY <1>2, ArchiveAssumption DEF AuditRecorded, ReleasedOK, OutcomeOK, NoOutcome
  <1>5. CASE /\ Archived(c, arc[c].rev) /\ wire' = wire
             /\ arc'[c].pc = "reread" => ~arc'[c].conflict
    <2>1. run'.rev = run.rev + 1 /\ run'.status = run.status /\ run'.lifecycle = "ARCHIVED"
      BY <1>1, <1>5 DEF Archived, TypeOK
    <2>2. Closable
      BY <1>1, <1>5 DEF CallOK, StatusOK, Archived
    <2>3. NothingWritten(c)' /\ ArchivedKnown(c)' /\ StatusOK(c)'
      BY <1>1, <1>5, <2>1, <2>2
      DEF NothingWritten, BeforeWrite, ArchivedKnown, CallOK, StatusOK, Closable
    <2>4. QED
      BY <1>3, <1>4, <1>5, <2>3, ArchivedStep DEF CallOK, Working, AuditPhase
  <1>6. CASE UNCHANGED <<run, by, wire>> /\ arc'[c].pc # "tickAudit"
    <2>1. NothingWritten(c)' /\ ArchivedKnown(c)' /\ StatusOK(c)'
      BY <1>1, <1>2, <1>6
      DEF NothingWritten, BeforeWrite, ArchivedKnown, CallOK, StatusOK, Closable, AuditPhase, Out
    <2>2. QED
      BY <1>3, <1>4, <1>6, <2>1, QuietStep DEF CallOK, Working, AuditPhase, Auditing
  <1>7. CASE /\ wire' = wire \cup {[c |-> c, rev |-> arc[c].rev]} /\ UNCHANGED <<run, by>>
             /\ arc'[c].pc = "reread" => ~arc'[c].conflict
             /\ arc'[c].pc # "tickAudit"
    <2>1. NothingWritten(c)' /\ ArchivedKnown(c)' /\ StatusOK(c)'
      BY <1>1, <1>2, <1>7
      DEF NothingWritten, BeforeWrite, ArchivedKnown, CallOK, StatusOK, Closable, AuditPhase, Out
    <2>2. QED
      BY <1>3, <1>4, <1>7, <2>1, WireStep DEF CallOK, Working
  <1>8. QED
    BY <1>5, <1>6, <1>7

\* The first write, carried out, lost or late.
LEMMA WriteArchiveKeeps ==
  ASSUME IInv, NEW c \in Archiver, WriteArchive(c)
  PROVE  IInv'
  <1> DEFINE reread(amb, con) ==
               arc' = [arc EXCEPT ![c] = [@ EXCEPT !.pc = "reread", !.ambiguous = amb,
                                                   !.conflict = con]]
  <1>1. arc[c].pc = "write" /\ TypeOK /\ faults' \in Nat /\ arc[c] \in Call
    BY Faults, ArcType DEF WriteArchive, ArchiveWrite, At, IInv
  <1>2. ASSUME NEW amb \in BOOLEAN, NEW con \in BOOLEAN, reread(amb, con)
        PROVE  /\ Moved(c) /\ arc'[c].pc = "reread" /\ arc'[c].rev = arc[c].rev
               /\ arc'[c].out = arc[c].out /\ arc'[c].conflict = con
    <2> DEFINE e == [arc[c] EXCEPT !.pc = "reread", !.ambiguous = amb, !.conflict = con]
    <2>1. e \in Call
      BY <1>1 DEF Call, Phase
    <2>2. Moved(c) /\ arc'[c] = e
      BY <1>1, <1>2, <2>1, CallMoves
    <2>3. QED
      BY <1>1, <2>2 DEF Call
  <1>3. Goto(c, "tickAudit") => /\ Moved(c) /\ arc'[c].pc = "tickAudit"
                                /\ arc'[c].rev = arc[c].rev /\ arc'[c].out = arc[c].out
    BY <1>1, GotoMoves DEF Phase
  <1>4. UNCHANGED <<lock, audits, late>>
    BY DEF WriteArchive
  <1>5. CASE Archived(c, arc[c].rev) /\ Goto(c, "tickAudit") /\ wire' = wire
    BY <1>1, <1>3, <1>4, <1>5, WriteStep
  <1>6. CASE (reread(FALSE, TRUE) \/ reread(FALSE, FALSE)) /\ UNCHANGED <<run, by, wire>>
    BY <1>1, <1>2, <1>4, <1>6, WriteStep
  <1>7. CASE /\ reread(TRUE, FALSE)
             /\ \/ Archived(c, arc[c].rev) /\ UNCHANGED wire
                \/ UNCHANGED <<run, by, wire>>
                \/ wire' = wire \cup {[c |-> c, rev |-> arc[c].rev]} /\ UNCHANGED <<run, by>>
    BY <1>1, <1>2, <1>4, <1>7, WriteStep
  <1>8. QED
    BY <1>5, <1>6, <1>7 DEF WriteArchive, ArchiveWrite

\* The second write, on the revision read again.
LEMMA RewriteArchiveKeeps ==
  ASSUME IInv, NEW c \in Archiver, RewriteArchive(c)
  PROVE  IInv'
  <1>1. arc[c].pc = "rewrite" /\ TypeOK /\ faults' \in Nat
    BY Faults DEF RewriteArchive, ArchiveWrite, At, IInv
  <1>2. ASSUME NEW p \in {"tickAudit", "final"}, Goto(c, p)
        PROVE  /\ Moved(c) /\ arc'[c].pc = p
               /\ arc'[c].rev = arc[c].rev /\ arc'[c].out = arc[c].out
    BY <1>1, <1>2, GotoMoves DEF Phase
  <1>3. UNCHANGED <<lock, audits, late>>
    BY DEF RewriteArchive
  <1>4. CASE Archived(c, arc[c].rev) /\ Goto(c, "tickAudit") /\ wire' = wire
    BY <1>1, <1>2, <1>3, <1>4, WriteStep
  <1>5. CASE /\ Goto(c, "final")
             /\ \/ Archived(c, arc[c].rev) /\ UNCHANGED wire
                \/ UNCHANGED <<run, by, wire>>
                \/ wire' = wire \cup {[c |-> c, rev |-> arc[c].rev]} /\ UNCHANGED <<run, by>>
    BY <1>1, <1>2, <1>3, <1>5, WriteStep
  <1>6. QED
    BY <1>4, <1>5 DEF RewriteArchive, ArchiveWrite

\* A write that comes late is the work of its call, whatever that call has
\* reported by then.
LEMMA LateArrivalKeeps ==
  ASSUME IInv, LateArrival
  PROVE  IInv'
  <1>1. PICK w \in wire :
            /\ wire' = wire \ {w}
            /\ IF run.rev = w.rev
               THEN Archived(w.c, w.rev) /\ late' = late \cup {w.c}
               ELSE UNCHANGED <<run, by, late>>
            /\ UNCHANGED <<lock, arc, audits, faults>>
    BY DEF LateArrival
  <1> DEFINE c == w.c
  <1>2. c \in Archiver /\ CallOK(c) /\ TypeOK /\ faults' \in Nat
    BY <1>1 DEF IInv, TypeOK
  <1>3. Moved(c)
    BY <1>1, <1>2, ArcType DEF Moved
  <1>4. CASE run.rev = w.rev
    <2>1. /\ run'.rev = run.rev + 1 /\ run'.status = run.status /\ run'.lifecycle = "ARCHIVED"
          /\ run.rev \in Nat
      BY <1>1, <1>2, <1>4 DEF Archived, TypeOK
    <2>2. by' = by \/ run.lifecycle # "ARCHIVED"
      BY <1>1, <1>4 DEF Archived
    <2>3. c \in late' /\ arc[c].rev \in Nat
      BY <1>1, <1>2, <1>4, ArcType DEF Call
    <2>4. PlaceOK(c)' /\ ArchivedKnown(c)' /\ AuditRecorded(c)' /\ ReleasedOK(c)'
      BY <1>1, <1>2, <2>1
      DEF CallOK, PlaceOK, ArchivedKnown, AuditRecorded, ReleasedOK, Out
    <2>5. NothingWritten(c)'
      BY <1>1, <1>2 DEF CallOK, NothingWritten
    <2>6. OutcomeOK(c)'
      BY <1>1, <1>2, <2>2, <2>3 DEF CallOK, OutcomeOK, ArchivedKnown, Out
    <2>7. StatusOK(c)'
      BY <1>1, <1>2, <2>1, <2>3 DEF CallOK, StatusOK, Closable
    <2>8. CallOK(c)'
      BY <2>4, <2>5, <2>6, <2>7 DEF CallOK
    <2>9. QED
      BY <1>1, <1>2, <1>3, <1>4, <2>8, ArchivedStep
  <1>5. CASE run.rev # w.rev
    <2>1. ASSUME NEW d \in Archiver PROVE CallOK(d)'
      BY <1>1, <1>5, <2>1
      DEF IInv, CallOK, PlaceOK, NothingWritten, ArchivedKnown, OutcomeOK, AuditRecorded,
          ReleasedOK, StatusOK, Closable, Out
    <2>2. QED
      BY <1>1, <1>5, <2>1
      DEF IInv, TypeOK, ArchivedBySomebody, WireOK, AuditExcludes, Auditing, Closable
  <1>6. QED
    BY <1>4, <1>5

\* force-unlock-network, an invocation that resumes the Run and comes to its
\* end, and a hold that is set or released.
LEMMA OthersKeep ==
  ASSUME IInv, ForceUnlock \/ Resume \/ ResumeEnds \/ ChangeHold
  PROVE  IInv'
  <1>1. TypeOK /\ arc \in [Archiver -> Call] /\ run.rev \in Nat
    BY ArcType DEF IInv, TypeOK
  <1>2. UNCHANGED <<arc, wire, audits, by, late>> /\ faults' \in Nat
    BY <1>1, Faults DEF ForceUnlock, Resume, ResumeEnds, ChangeHold, TypeOK
  <1>3. \A d \in Archiver : lock' = d => lock = d
    BY ArchiveAssumption DEF ForceUnlock, Resume, ResumeEnds, ChangeHold
  <1>4. CASE run' = run
    <2>1. ASSUME NEW d \in Archiver PROVE CallOK(d)'
      BY <1>2, <1>3, <1>4, <2>1
      DEF IInv, CallOK, PlaceOK, NothingWritten, ArchivedKnown, OutcomeOK, AuditRecorded,
          ReleasedOK, StatusOK, Closable, Out
    <2>2. lock' \in Archiver \cup {Resumer, None}
      BY <1>1 DEF ForceUnlock, Resume, ResumeEnds, ChangeHold, TypeOK
    <2>3. QED
      BY <1>2, <1>3, <1>4, <2>1, <2>2
      DEF IInv, TypeOK, ArchivedBySomebody, WireOK, AuditExcludes, Auditing, Closable
  <1>5. CASE Resume \/ ResumeEnds
    <2>1. /\ run' \in [status : TerminalRun \cup {"RUNNING"}, lifecycle : {"ACTIVE", "ARCHIVED"},
                      hold : BOOLEAN, rev : Nat]
          /\ run'.rev = run.rev + 1 /\ run'.lifecycle = run.lifecycle
      <3>1. PICK s \in {"FAILED", "SUCCESS", "RUNNING"} :
                run' = [run EXCEPT !.status = s, !.rev = run.rev + 1]
        BY <1>5 DEF Resume, ResumeEnds
      <3>2. run \in [status : TerminalRun \cup {"RUNNING"}, lifecycle : {"ACTIVE", "ARCHIVED"},
                     hold : BOOLEAN, rev : Nat]
        BY <1>1 DEF TypeOK
      <3>3. s \in TerminalRun \cup {"RUNNING"}
        BY DEF TerminalRun
      <3>4. run'.rev = run.rev + 1 /\ run'.lifecycle = run.lifecycle
        BY <3>1, <3>2
      <3>5. run' \in [status : TerminalRun \cup {"RUNNING"}, lifecycle : {"ACTIVE", "ARCHIVED"},
                      hold : BOOLEAN, rev : Nat]
        <4>1. run.rev + 1 \in Nat
          BY <3>2
        <4> DEFINE n == run.rev + 1
        <4>2. n \in Nat /\ run' = [run EXCEPT !.status = s, !.rev = n]
          BY <3>1, <4>1
        <4> HIDE DEF n
        <4>3. QED
          BY <3>2, <3>3, <4>2
      <3>6. QED
        BY <3>4, <3>5
    <2>2. lock' \in {Resumer, None} /\ \A d \in Archiver : lock' # d
      BY <1>5, ArchiveAssumption DEF Resume, ResumeEnds
    <2>3. ASSUME NEW d \in Archiver PROVE CallOK(d)'
      <3>1. CallOK(d) /\ arc[d].rev \in Nat
        BY <1>1, <2>3 DEF IInv, Call
      <3>2. PlaceOK(d)' /\ NothingWritten(d)' /\ ArchivedKnown(d)' /\ OutcomeOK(d)'
            /\ AuditRecorded(d)' /\ ReleasedOK(d)'
        BY <1>2, <2>1, <2>2, <3>1
        DEF CallOK, PlaceOK, NothingWritten, ArchivedKnown, OutcomeOK, AuditRecorded,
            ReleasedOK, Out
      <3>3. StatusOK(d)'
        BY <1>1, <1>2, <2>1, <2>2, <3>1 DEF CallOK, StatusOK
      <3>4. QED
        BY <3>2, <3>3 DEF CallOK
    <2>4. \A w \in wire : w.rev \in Nat /\ w.rev <= run.rev
      BY DEF IInv, WireOK, TypeOK
    <2>5. TypeOK' /\ ArchivedBySomebody' /\ AuditExcludes'
      BY <1>2, <2>1, <2>2
      DEF IInv, TypeOK, ArchivedBySomebody, AuditExcludes, Auditing
    <2>6. WireOK'
      BY <1>1, <1>2, <2>1, <2>4 DEF WireOK
    <2>7. QED
      BY <2>3, <2>5, <2>6 DEF IInv
  <1>6. CASE ChangeHold
    <2>1. /\ run' \in [status : TerminalRun \cup {"RUNNING"}, lifecycle : {"ACTIVE", "ARCHIVED"},
                      hold : BOOLEAN, rev : Nat]
          /\ run'.rev = run.rev /\ run'.lifecycle = run.lifecycle /\ run'.status = run.status
          /\ lock' = lock
      BY <1>1, <1>6 DEF ChangeHold, TypeOK
    <2>2. ASSUME NEW d \in Archiver PROVE CallOK(d)'
      BY <1>2, <2>1, <2>2
      DEF IInv, CallOK, PlaceOK, NothingWritten, ArchivedKnown, OutcomeOK, AuditRecorded,
          ReleasedOK, StatusOK, Closable, Out
    <2>3. QED
      BY <1>2, <2>1, <2>2
      DEF IInv, TypeOK, ArchivedBySomebody, WireOK, AuditExcludes, Auditing, Closable
  <1>7. QED
    BY <1>4, <1>5, <1>6 DEF ForceUnlock
-----------------------------------------------------------------------------
\* No call has begun.
LEMMA InitIInv == Init => IInv
  <1> SUFFICES ASSUME Init PROVE IInv
    OBVIOUS
  <1>1. NoOutcome \in Outcome
    BY DEF NoOutcome, Outcome
  <1>2. TypeOK
    BY <1>1, ArchiveAssumption DEF Init, TypeOK, Phase, TerminalRun
  <1>3. ASSUME NEW c \in Archiver PROVE CallOK(c)
    <2>1. /\ arc[c].pc = "acquire" /\ arc[c].rev = 0 /\ arc[c].out = NoOutcome
          /\ by # c /\ wire = {} /\ audits = {} /\ lock # c /\ run.rev = 1
      BY <1>3, ArchiveAssumption DEF Init
    <2>2. QED
      BY <2>1, ArchiveAssumption
      DEF CallOK, PlaceOK, NothingWritten, ArchivedKnown, OutcomeOK, AuditRecorded,
          ReleasedOK, StatusOK, Out, NoOutcome, AuditPhase
  <1>4. ArchivedBySomebody /\ WireOK /\ AuditExcludes
    BY DEF Init, ArchivedBySomebody, WireOK, AuditExcludes, Auditing, AuditPhase
  <1>5. QED
    BY <1>2, <1>3, <1>4 DEF IInv

\* IInv is inductive.
LEMMA NextIInv == IInv /\ [Next]_vars => IInv'
  <1> SUFFICES ASSUME IInv, [Next]_vars PROVE IInv'
    OBVIOUS
  <1>1. ASSUME NEW c \in Archiver, Step(c) PROVE IInv'
    BY <1>1, AcquireKeeps, ReadRunKeeps, ReadHoldKeeps, TickKeeps, WriteArchiveKeeps,
       RereadKeeps, RewriteArchiveKeeps, FinalReadKeeps, AppendKeeps, RereadAuditKeeps,
       FinishKeeps DEF Step
  <1>2. ASSUME NEW c \in Archiver, Die(c) PROVE IInv'
    BY <1>2, DieKeeps
  <1>3. CASE LateArrival
    BY <1>3, LateArrivalKeeps
  <1>4. CASE ForceUnlock \/ Resume \/ ResumeEnds \/ ChangeHold
    BY <1>4, OthersKeep
  <1>5. CASE UNCHANGED vars
    <2>1. ASSUME NEW d \in Archiver PROVE CallOK(d)'
      BY <1>5, <2>1
      DEF IInv, CallOK, PlaceOK, NothingWritten, ArchivedKnown, OutcomeOK, AuditRecorded,
          ReleasedOK, StatusOK, Closable, Out, vars
    <2>2. QED
      BY <1>5, <2>1
      DEF IInv, TypeOK, ArchivedBySomebody, WireOK, AuditExcludes, Auditing, Closable, vars
  <1>6. QED
    BY <1>1, <1>2, <1>3, <1>4, <1>5 DEF Next

\* The inductive invariant holds of every reachable state.
THEOREM Invariance == Spec => []IInv
  BY InitIInv, NextIInv, PTL DEF Spec

\* The variables of archive-run keep their types.
THEOREM ArchiveTypes == Spec => []TypeOK
  <1>1. IInv => TypeOK
    BY DEF IInv
  <1>2. QED
    BY <1>1, Invariance, PTL

\* What archive-run reports is true, whatever was lost or came late
\* (archiveRun's outcome, adjudicated by getRun after a write that failed).
THEOREM OutcomesAreTruthful == Spec => []OutcomeTruthful
  <1>1. IInv => OutcomeTruthful
    BY DEF IInv, CallOK, ArchivedKnown, OutcomeOK, OutcomeTruthful
  <1>2. QED
    BY <1>1, Invariance, PTL

\* An archiving is audited once at most and never before it is a fact: the tick
\* before appendOperationAudit lets one call through.
THEOREM AuditedOnce == Spec => []AuditOnce
  <1>1. IInv => AuditOnce
    <2> SUFFICES ASSUME IInv PROVE AuditOnce
      OBVIOUS
    <2>1. audits \subseteq Archiver
      BY DEF IInv, TypeOK
    <2>2. \A c \in audits : Auditing(c) /\ run.lifecycle = "ARCHIVED"
      BY <2>1 DEF IInv, CallOK, ArchivedKnown, Auditing
    <2>3. \A c, d \in audits : c = d
      BY <2>1, <2>2 DEF IInv, AuditExcludes
    <2>4. QED
      BY <2>2, <2>3 DEF AuditOnce
  <1>2. QED
    BY <1>1, Invariance, PTL

\* Exit code 0 leaves nothing to do, and the poller reports RUN_ARCHIVED for
\* nothing less (expectedArchiveExitCode, classifyArchiveRun).
THEOREM ExitZeroClean == Spec => []ExitZeroIsClean
  <1>1. IInv => ExitZeroIsClean
    <2> SUFFICES ASSUME IInv, NEW c \in Archiver, Ended(c)
                 PROVE  /\ ExitCode(c) = 0 => /\ run.lifecycle = "ARCHIVED" /\ lock # c
                                              /\ by = c => c \in audits
                        /\ ClassifyArchiveOutput(Out(c)) = Done("RUN_ARCHIVED") => ExitCode(c) = 0
      BY DEF ExitZeroIsClean
    <2>1. CallOK(c) /\ Out(c) \in Outcome
      BY ArcType DEF IInv, Call, Out
    <2>2. ASSUME ExitCode(c) = 0
          PROVE  run.lifecycle = "ARCHIVED" /\ lock # c /\ (by = c => c \in audits)
      <3>1. /\ Out(c).lock_released
            /\ \/ Out(c).outcome = "ARCHIVED" /\ Out(c).audit = "RECORDED"
               \/ Out(c).outcome = "ALREADY_ARCHIVED"
        BY <2>2 DEF ExitCode, ExpectedArchiveExitCode
      <3>2. QED
        BY <2>1, <3>1 DEF CallOK, ArchivedKnown, OutcomeOK, AuditRecorded, ReleasedOK
    <2>3. ASSUME ClassifyArchiveOutput(Out(c)) = Done("RUN_ARCHIVED")
          PROVE  ExitCode(c) = 0
      <3>1. CASE Out(c).outcome = "ARCHIVED"
        <4>1. Out(c).audit = "RECORDED" \/ Out(c).audit = "PENDING"
          BY <2>1, <3>1 DEF CallOK, AuditRecorded
        <4>2. Out(c).audit # "PENDING" /\ Out(c).lock_released
          BY <2>3, <3>1, <4>1 DEF ClassifyArchiveOutput, Done
        <4>3. QED
          BY <3>1, <4>1, <4>2 DEF ExitCode, ExpectedArchiveExitCode
      <3>2. CASE Out(c).outcome # "ARCHIVED"
        <4>1. Out(c).outcome \in {"ALREADY_ARCHIVED", "UNCONFIRMED", "REJECTED"}
          BY <2>1, <3>2 DEF Outcome, CallOK, PlaceOK, Ended
        <4>2. CASE Out(c).outcome = "ALREADY_ARCHIVED"
          BY <2>3, <4>2 DEF ClassifyArchiveOutput, Done
        <4>3. CASE Out(c).outcome = "UNCONFIRMED"
          BY <2>3, <4>3 DEF ClassifyArchiveOutput, Done, Rejected
        <4>4. CASE Out(c).outcome = "REJECTED"
          BY <2>3, <4>4 DEF ClassifyArchiveOutput, Done, Rejected
        <4>5. QED
          BY <4>1, <4>2, <4>3, <4>4
      <3>3. QED
        BY <3>1, <3>2
    <2>4. QED
      BY <2>2, <2>3
  <1>2. QED
    BY <1>1, Invariance, PTL

\* The lifecycle changes by an archiving write only, and that finds the Run
\* closable; the status by an invocation that resumes the Run only.
LEMMA LifecycleStep ==
  ASSUME IInv, Next, run.lifecycle # run'.lifecycle
  PROVE  Closable
  <1>1. TypeOK
    BY DEF IInv
  <1>2. ASSUME NEW c \in Archiver, WriteArchive(c) \/ RewriteArchive(c)
        PROVE  Closable
    <2>1. arc[c].pc \in {"write", "rewrite"} /\ CallOK(c)
      BY <1>2 DEF WriteArchive, RewriteArchive, At, IInv
    <2>2. run.rev = arc[c].rev
      BY <1>2 DEF WriteArchive, RewriteArchive, ArchiveWrite, Archived
    <2>3. QED
      BY <2>1, <2>2 DEF CallOK, StatusOK
  <1>3. ASSUME NEW c \in Archiver, Step(c), ~WriteArchive(c), ~RewriteArchive(c)
        PROVE  FALSE
    BY <1>3 DEF Step, Acquire, ReadRun, ReadHold, TickBeforeArchive, Reread, TickBeforeRetry,
                FinalRead, TickBeforeAudit, Tick, AppendAudit, RereadAudit, AppendAuditAgain,
                Finish
  <1>4. ASSUME NEW c \in Archiver, Die(c) PROVE FALSE
    BY <1>4 DEF Die
  <1>5. CASE LateArrival
    BY <1>5 DEF LateArrival, IInv, WireOK, Archived
  <1>6. CASE ForceUnlock \/ Resume \/ ResumeEnds \/ ChangeHold
    BY <1>1, <1>6 DEF ForceUnlock, Resume, ResumeEnds, ChangeHold, TypeOK
  <1>7. QED
    BY <1>2, <1>3, <1>4, <1>5, <1>6 DEF Next

\* Only a resume changes the status of the Run, and no step undoes an archive.
LEMMA StatusStep ==
  ASSUME TypeOK, Next, ~Resume, ~ResumeEnds
  PROVE  /\ run'.status = run.status
         /\ lock = Resumer => lock' = Resumer
         /\ lock' = Resumer => lock = Resumer
         /\ run'.lifecycle = run.lifecycle \/ run'.lifecycle = "ARCHIVED"
  <1>1. ASSUME NEW c \in Archiver, Step(c), ~WriteArchive(c), ~RewriteArchive(c)
        PROVE  run' = run /\ (lock' = lock \/ (lock = None /\ lock' = c)
                                          \/ (lock = c /\ lock' = None))
    BY <1>1 DEF Step, Acquire, ReadRun, ReadHold, TickBeforeArchive, Reread, TickBeforeRetry,
                FinalRead, TickBeforeAudit, Tick, AppendAudit, RereadAudit, AppendAuditAgain,
                Finish
  <1>2. ASSUME NEW c, NEW rev, Archived(c, rev)
        PROVE  run'.status = run.status /\ run'.lifecycle = "ARCHIVED"
    BY <1>2 DEF Archived, TypeOK
  <1>3. ASSUME NEW c \in Archiver, WriteArchive(c) \/ RewriteArchive(c)
        PROVE  /\ run'.status = run.status /\ lock' = lock
               /\ run'.lifecycle = run.lifecycle \/ run'.lifecycle = "ARCHIVED"
    BY <1>2, <1>3 DEF WriteArchive, RewriteArchive, ArchiveWrite
  <1>4. ASSUME NEW c \in Archiver, Die(c) PROVE run' = run /\ lock' = lock
    BY <1>4 DEF Die
  <1>5. CASE LateArrival
    BY <1>2, <1>5 DEF LateArrival
  <1>6. CASE ForceUnlock \/ ChangeHold
    BY <1>6, ArchiveAssumption DEF ForceUnlock, ChangeHold, TypeOK
  <1>7. QED
    BY <1>1, <1>3, <1>4, <1>5, <1>6, ArchiveAssumption DEF Next

\* Only a finished Run is archived: the revision guards the first write and a
\* write that comes late, the tick guards the second.
THEOREM ArchivesFinishedRuns == Spec => ArchivesFinishedRunsOnly
  <1>1. IInv /\ [Next]_vars => [run.lifecycle # run'.lifecycle
                                => run.status \in {"FAILED", "CANCELLED"}]_vars
    BY LifecycleStep DEF Closable
  <1>2. QED
    BY <1>1, Invariance, PTL DEF Spec, ArchivesFinishedRunsOnly

\* The Run an invocation has resumed is RUNNING and ACTIVE to its end.
ResumedIsActive == lock = Resumer => run.lifecycle = "ACTIVE" /\ run.status = "RUNNING"

\* An archived Run keeps its status: ensureRun does not resume it, and archiveRun
\* does not archive a Run under an invocation that holds the lock.
THEOREM ArchivedStaysArchived == Spec => ArchivedIsNotResumed
  <1>1. Init => ResumedIsActive
    BY ArchiveAssumption DEF Init, ResumedIsActive
  <1>2. ASSUME IInv, ResumedIsActive, [Next]_vars
        PROVE  /\ ResumedIsActive'
               /\ run.lifecycle = "ARCHIVED" =>
                     run'.status = run.status /\ run'.lifecycle = "ARCHIVED"
    <2>1. TypeOK
      BY <1>2 DEF IInv
    <2>2. CASE Resume
      BY <2>1, <2>2 DEF Resume, ResumedIsActive, TypeOK
    <2>3. CASE ResumeEnds
      BY <1>2, <2>3, ArchiveAssumption DEF ResumeEnds, ResumedIsActive
    <2>4. CASE Next /\ ~Resume /\ ~ResumeEnds
      <3>1. /\ run'.status = run.status /\ (lock' = Resumer => lock = Resumer)
            /\ run'.lifecycle = run.lifecycle \/ run'.lifecycle = "ARCHIVED"
        BY <2>1, <2>4, StatusStep
      <3>2. run.lifecycle # run'.lifecycle => run.status # "RUNNING"
        BY <1>2, <2>4, LifecycleStep DEF Closable
      <3>3. QED
        BY <1>2, <3>1, <3>2 DEF ResumedIsActive
    <2>5. CASE UNCHANGED vars
      BY <1>2, <2>5 DEF vars, ResumedIsActive
    <2>6. QED
      BY <1>2, <2>2, <2>3, <2>4, <2>5
  <1>3. QED
    BY <1>1, <1>2, Invariance, PTL DEF Spec, ArchivedIsNotResumed
=============================================================================
