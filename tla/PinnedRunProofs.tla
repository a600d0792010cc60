-------------------------- MODULE PinnedRunProofs --------------------------
(***************************************************************************)
(* Proofs about what a Run executes, for any number of invocations, edits, *)
(* repairs and faults, and any contents of the input.                      *)
(*                                                                         *)
(* The inductive invariant says what the Run pins and what an invocation   *)
(* has seen of the files so far (RunOK, ProfileOK, SqlOK), what a job was  *)
(* given and has done (JobOK), what the record of its attempt says of it   *)
(* (AttemptOK), where the attempt at work stands (WorkOK) and, while       *)
(* nobody has repaired the Run, that all its attempts are bound to the     *)
(* same bytes (PinOK).                                                     *)
(***************************************************************************)
EXTENDS PinnedRun, SequenceTheorems, WellFoundedInduction, TLAPS

WorldRecord == [net : Version, sql : Version, prof : Version, file : Content \cup {None}]
RunRecord == [exists : BOOLEAN, net : Version, sql : Version, seen : Version,
              prof : Version, states : Version \cup {None}]
UsedRecord == [starts : 0..MaxInvocations, repairs : 0..MaxRepairs, edits : 0..MaxEdits,
               faults : 0..MaxFaults]
NodeStatus == {"none", "WAITING"} \cup AttemptStatus
AttemptRecord == [status : AttemptStatus, base : Content \cup {None},
                  started : BOOLEAN, code : Code]
JobPhase == {"none", "launchFailed", "spawned", "executing", "ended"}
JobRecord == [phase : JobPhase, mode : Modes, net : Version, sql : Version, prof : Version,
              began : Version, want : Content \cup {None}, read : Content \cup {None},
              end : Ends \cup {None}, unkilled : BOOLEAN]

\* The places of an invocation: before there is a Run, before its attempt, and
\* at its attempt.
BeforeRun == {"describe", "network", "sql", "inspect", "again"}
BeforeAttempt == BeforeRun \cup {"check", "states", "verify", "schedule", "prepare", "attempt"}
AtAttempt == {"inputs", "baseline", "started", "spawn", "wait", "forced", "classify"}
Place == {"idle"} \cup BeforeAttempt \cup AtAttempt

\* The Node State is known to be that of the Run.
Ready == {"verify", "schedule", "prepare", "attempt"} \cup AtAttempt

InvRecord == [pc : Place, mode : Modes, def : Version, began : Version, prof : Version,
              net : Version, sql : Version, seen : Version, known : Seq(AttemptRecord),
              file : Content \cup {None}, forced : BOOLEAN]

Types ==
    /\ world \in WorldRecord /\ run \in RunRecord /\ node \in NodeStatus
    /\ attempts \in Seq(AttemptRecord) /\ proc \in [Attempt -> JobRecord]
    /\ inv \in InvRecord /\ used \in UsedRecord

\* An edit makes at most one new version, and an invocation one attempt.
Bounds ==
    /\ world.net <= used.edits /\ world.sql <= used.edits /\ world.prof <= used.edits
    /\ Last <= used.starts
    /\ inv.pc \in BeforeAttempt => Last < used.starts

RunOK ==
    /\ ~run.exists => inv.pc \in BeforeRun \cup {"idle"} /\ Last = 0
    /\ inv.pc \in BeforeRun => ~run.exists
    /\ run.exists => run.sql = run.seen
    /\ Last > 0 \/ inv.pc \in Ready => run.states # None
    /\ inv.pc \in Ready /\ inv.mode # "NEW" => run.states = run.net
    /\ inv.pc = "check" => inv.mode # "NEW"
    /\ inv.mode = "NEW" /\ inv.pc \in BeforeAttempt => Last = 0
    /\ inv.mode = "NEW" /\ inv.pc \in AtAttempt => Last = 1

ProfileOK ==
    /\ inv.began <= world.prof
    /\ inv.pc \in {"network", "sql", "inspect", "again"} =>
          inv.began <= inv.prof /\ inv.prof <= world.prof
    /\ inv.pc \in {"states"} \cup Ready => world.prof = run.prof \/ world.prof > inv.began

SqlOK ==
    /\ inv.pc \in {"inspect", "again"} => inv.sql <= world.sql
    /\ inv.pc = "again" => inv.sql <= inv.seen /\ inv.seen <= world.sql

JobOK(k) ==
    /\ k > Last \/ proc[k].phase = "none" => proc[k] = NoProc
    /\ proc[k].phase \in {"launchFailed", "spawned"} => proc[k].read = None
    /\ proc[k].phase = "executing" => proc[k].read = proc[k].want
    /\ proc[k].phase = "ended" <=> proc[k].end # None
    /\ proc[k].end \in {"refused", "conflict"} => proc[k].read = None
    /\ proc[k].end \in Outcomes => proc[k].read = proc[k].want
    /\ proc[k].read \in {None, proc[k].want}
    /\ proc[k].phase # "none" =>
          /\ proc[k].want \in Content
          /\ proc[k].sql = run.sql
          /\ proc[k].mode # "NEW" => proc[k].net = run.net /\ run.states = run.net
          /\ proc[k].began <= world.prof
          /\ world.prof = run.prof \/ world.prof > proc[k].began
    /\ proc[k].read # None => proc[k].prof = run.prof \/ proc[k].prof > proc[k].began

\* "PREPARE_FAILED": the job has not run SQL, and is not on the way to, unless its
\* kill failed.
AttemptOK(k) ==
    /\ proc[k].phase # "none" =>
          \/ attempts[k].base = proc[k].want
          \/ attempts[k].status = "UNKNOWN" /\ attempts[k].base = None
    /\ attempts[k].status = "RUNNING" => attempts[k].code = "PENDING"
    /\ attempts[k].status = "SUCCESS" => attempts[k].code = "RESULT"
    /\ attempts[k].code = "RESULT" /\ attempts[k].status \in Outcomes
          => proc[k].end = attempts[k].status
    /\ attempts[k].code = "PREPARE_FAILED" /\ ~proc[k].unkilled
          => proc[k].phase # "spawned" /\ proc[k].read = None

WorkOK ==
    /\ node = "RUNNING" => Last > 0 /\ attempts[Last].status = "RUNNING"
    /\ inv.pc \in AtAttempt => node = "RUNNING"
    /\ inv.pc \in {"inputs", "baseline", "started", "spawn"} => proc[Last] = NoProc
    /\ inv.pc = "inputs" => attempts[Last].base = None
    /\ inv.pc \in {"baseline", "started", "spawn"} => inv.file \in Content
    /\ inv.pc \in {"started", "spawn"} => attempts[Last].base = inv.file
    /\ inv.pc \in {"spawn", "wait", "forced", "classify"} => attempts[Last].started
    /\ inv.pc \in {"wait", "forced", "classify"} => proc[Last].phase # "none"
    /\ inv.pc = "forced" => inv.forced
    /\ inv.pc = "classify" /\ ~inv.forced => proc[Last].phase \in {"launchFailed", "ended"}

\* What the scheduler knows of the earlier attempts is what is on record.
KnownOK ==
    /\ inv.pc \in {"prepare", "attempt"} => inv.known = attempts \/ node = "UNKNOWN"
    /\ inv.pc = "attempt" => node = "WAITING"
    /\ inv.pc = "inputs" => /\ Len(inv.known) = Last - 1
                            /\ \A j \in 1..(Last - 1) : inv.known[j] = attempts[j]

\* The bytes attempt k is bound to, in its record or by what its job was given.
Bytes(k) == {attempts[k].base, proc[k].want} \ {None}

PinOK ==
    /\ inv.mode # "RERUN_FROM"
    /\ Last > 0 /\ node \in {"WAITING", "FAILED", "CANCELLED"}
          => attempts[Last].status \in {"FAILED", "CANCELLED"}
    /\ \A k \in 1..Last : attempts[k].status = "UNKNOWN" => k = Last /\ node = "UNKNOWN"
    /\ inv.pc = "inputs" /\ Last > 1 => attempts[Last - 1].status \in {"FAILED", "CANCELLED"}
    /\ \A j, k \in 1..Last : \A x \in Bytes(j), y \in Bytes(k) : x = y
    /\ inv.pc = "baseline" => \A k \in 1..Last : Bytes(k) \subseteq {inv.file}

IInv ==
    /\ Types /\ Bounds /\ RunOK /\ ProfileOK /\ SqlOK /\ WorkOK /\ KnownOK
    /\ \A k \in Attempt : JobOK(k)
    /\ \A k \in 1..Last : AttemptOK(k)
    /\ used.repairs = 0 => PinOK

-----------------------------------------------------------------------------
(* Facts about the data *)

\* A set of places in a sequence has a last one.
LEMMA LastOne ==
  ASSUME NEW n \in Nat, NEW S \in SUBSET (1..n), S # {}
  PROVE  \E k \in S : \A l \in S : l <= k
  <1> DEFINE T == {n - k : k \in S}
             R == {ss \in Nat \X Nat : ss[1] < ss[2]}
  <1>1. IsWellFoundedOn(R, Nat)
    BY NatLessThanWellFounded DEF OpToRel
  <1>2. T \subseteq Nat /\ T # {}
    <2>1. PICK k \in S : TRUE
      OBVIOUS
    <2>2. n - k \in T
      OBVIOUS
    <2>3. ASSUME NEW x \in T PROVE x \in Nat
      OBVIOUS
    <2>4. QED
      BY <2>2, <2>3
  <1>3. \A x, y \in Nat : <<y, x>> \in R <=> y < x
    OBVIOUS
  <1> HIDE DEF R
  <1>4. PICK x \in T : \A y \in T : ~ (<<y, x>> \in R)
    <2> HIDE DEF T
    <2>1. QED
      BY <1>1, <1>2, WFMin
  <1>5. PICK k \in S : x = n - k
    BY <1>4
  <1>6. ASSUME NEW l \in S PROVE l <= k
    <2>1. n - l \in T
      OBVIOUS
    <2>2. ~(n - l < n - k)
      BY <2>1, <1>2, <1>3, <1>4, <1>5
    <2>3. QED
      BY <2>2
  <1>7. QED
    BY <1>6

\* A consistent result of the codes a job leaves has the status and the exit
\* code of KNOWN_RESULTS.
LEMMA ConsistentTells ==
  ASSUME NEW r, Consistent(r)
  PROVE  /\ r.code = "OK" => r.status = "SUCCESS" /\ r.exit = 0
         /\ r.code = "SQL_ERROR" => r.status = "FAILED" /\ r.exit = 1
         /\ r.code = "CANCELLED" => r.status = "CANCELLED" /\ r.exit = 3
         /\ r.code = "LOCK_CONFLICT" => r.status = "FAILED" /\ r.exit = 5
  <1>1. ASSUME NEW k \in KnownResults, k[1] = r.code
        PROVE  <<r.code, r.status, r.exit>> \in KnownResults
    BY <1>1 DEF Consistent
  <1>2. CASE r.code = "OK"
    <2>1. <<"OK", "SUCCESS", 0>> \in KnownResults
      BY DEF KnownResults
    <2>2. <<"OK", r.status, r.exit>> \in KnownResults
      BY <1>1, <1>2, <2>1
    <2>3. QED
      BY <1>2, <2>2 DEF KnownResults
  <1>3. CASE r.code = "SQL_ERROR"
    <2>1. <<"SQL_ERROR", "FAILED", 1>> \in KnownResults
      BY DEF KnownResults
    <2>2. <<"SQL_ERROR", r.status, r.exit>> \in KnownResults
      BY <1>1, <1>3, <2>1
    <2>3. QED
      BY <1>3, <2>2 DEF KnownResults
  <1>4. CASE r.code = "CANCELLED"
    <2>1. <<"CANCELLED", "CANCELLED", 3>> \in KnownResults
      BY DEF KnownResults
    <2>2. <<"CANCELLED", r.status, r.exit>> \in KnownResults
      BY <1>1, <1>4, <2>1
    <2>3. QED
      BY <1>4, <2>2 DEF KnownResults
  <1>5. CASE r.code = "LOCK_CONFLICT"
    <2>1. <<"LOCK_CONFLICT", "FAILED", 5>> \in KnownResults
      BY DEF KnownResults
    <2>2. <<"LOCK_CONFLICT", r.status, r.exit>> \in KnownResults
      BY <1>1, <1>5, <2>1
    <2>3. QED
      BY <1>5, <2>2 DEF KnownResults
  <1>6. QED
    BY <1>2, <1>3, <1>4, <1>5

\* A result that is in the file.
Complete(r) ==
    r = [file |-> r.file, shape |-> r.shape, echo |-> r.echo, status |-> r.status,
         code |-> r.code, exit |-> r.exit, started |-> r.started, inputs |-> r.inputs,
         outputs |-> r.outputs]

\* What can be found in the place of a result keeps its code or pretends
\* success, and its receipts get no better.
LEMMA DefectiveTells ==
  ASSUME NEW r, Complete(r), NEW file \in {r} \cup Defective(r)
  PROVE  \/ file = NoFile
         \/ file.code \in {r.code, "OK"} /\ file.inputs \in {r.inputs, "other"}
  BY DEF Complete, Defective

\* classifyResult with the checks of the receipts.
LEMMA CheckedTells ==
  ASSUME NEW r, NEW exit,
         CheckedResult(r, exit, FALSE) \in Outcomes \cup {"LOCK_CONFLICT"}
  PROVE  /\ r.file /\ r.exit = exit /\ Consistent(r) /\ r.inputs = "match"
         /\ CheckedResult(r, exit, FALSE) =
               IF r.code = "LOCK_CONFLICT" THEN "LOCK_CONFLICT" ELSE r.status
  BY DEF CheckedResult, ClassifyResult, Outcomes

\* A valid result of a job that has ended by itself says how it ended, whatever
\* else could have been found in its place.
LEMMA ResultTells ==
  ASSUME NEW end \in Ends \cup {None}, NEW file \in Found(end), NEW result,
         result = CheckedResult(file, ExitOf(end), FALSE)
  PROVE  /\ result \in Outcomes => result = end
         /\ result = "LOCK_CONFLICT" => end = "conflict"
  <1> SUFFICES ASSUME result \in Outcomes \cup {"LOCK_CONFLICT"}
               PROVE  \/ result \in Outcomes /\ result = end
                      \/ result = "LOCK_CONFLICT" /\ end = "conflict"
    BY DEF Outcomes
  <1>1. /\ file.file /\ file.exit = ExitOf(end) /\ Consistent(file) /\ file.inputs = "match"
        /\ result = IF file.code = "LOCK_CONFLICT" THEN "LOCK_CONFLICT" ELSE file.status
    BY CheckedTells
  <1>2. file # NoFile
    BY <1>1 DEF NoFile
  <1>3. end \in Ends \ {"died"}
    BY <1>2 DEF Found
  <1>4. file \in {Honest(end)} \cup Defective(Honest(end)) /\ ExitOf(end) = Honest(end).exit
    BY <1>3 DEF Found, ExitOf
  <1>5. /\ file.code = "OK" => file.status = "SUCCESS" /\ file.exit = 0
        /\ file.code = "SQL_ERROR" => file.status = "FAILED" /\ file.exit = 1
        /\ file.code = "CANCELLED" => file.status = "CANCELLED" /\ file.exit = 3
        /\ file.code = "LOCK_CONFLICT" => file.status = "FAILED" /\ file.exit = 5
    BY <1>1, ConsistentTells
  <1>6. CASE end = "SUCCESS"
    <2>1. /\ Complete(Honest(end)) /\ Honest(end).code = "OK"
          /\ Honest(end).exit = 0 /\ Honest(end).inputs = "match"
      BY <1>6 DEF Honest, ResultFile, Complete
    <2>2. file.code = "OK"
      BY <1>2, <1>4, <2>1, DefectiveTells
    <2>3. QED
      BY <1>1, <1>5, <1>6, <2>2 DEF Outcomes
  <1>7. CASE end = "FAILED"
    <2>1. /\ Complete(Honest(end)) /\ Honest(end).code = "SQL_ERROR"
          /\ Honest(end).exit = 1 /\ Honest(end).inputs = "match"
      BY <1>7 DEF Honest, ResultFile, Complete
    <2>2. file.code \in {"SQL_ERROR", "OK"}
      BY <1>2, <1>4, <2>1, DefectiveTells
    <2>3. ExitOf(end) = 1
      BY <1>4, <2>1
    <2>4. file.code = "SQL_ERROR" /\ file.status = "FAILED"
      BY <1>1, <1>5, <2>2, <2>3
    <2>5. QED
      BY <1>1, <1>7, <2>4 DEF Outcomes
  <1>8. CASE end = "CANCELLED"
    <2>1. /\ Complete(Honest(end)) /\ Honest(end).code = "CANCELLED"
          /\ Honest(end).exit = 3 /\ Honest(end).inputs = "match"
      BY <1>8 DEF Honest, ResultFile, Complete
    <2>2. file.code \in {"CANCELLED", "OK"}
      BY <1>2, <1>4, <2>1, DefectiveTells
    <2>3. ExitOf(end) = 3
      BY <1>4, <2>1
    <2>4. file.code = "CANCELLED" /\ file.status = "CANCELLED"
      BY <1>1, <1>5, <2>2, <2>3
    <2>5. QED
      BY <1>1, <1>8, <2>4 DEF Outcomes
  <1>9. CASE end = "conflict"
    <2>1. /\ Complete(Honest(end)) /\ Honest(end).code = "LOCK_CONFLICT"
          /\ Honest(end).exit = 5 /\ Honest(end).inputs = "match"
      BY <1>9 DEF Honest, ResultFile, Complete
    <2>2. file.code \in {"LOCK_CONFLICT", "OK"}
      BY <1>2, <1>4, <2>1, DefectiveTells
    <2>3. ExitOf(end) = 5
      BY <1>4, <2>1
    <2>4. file.code = "LOCK_CONFLICT"
      BY <1>1, <1>5, <2>2, <2>3
    <2>5. QED
      BY <1>1, <1>9, <2>4
  <1>10. CASE end = "refused"
    <2>1. /\ Complete(Honest(end)) /\ Honest(end).code = "INPUT_FILE_MUTATED"
          /\ Honest(end).exit = 1 /\ Honest(end).inputs = "other"
      BY <1>10 DEF Honest, ResultFile, Complete
    <2>2. file.inputs = "other"
      BY <1>2, <1>4, <2>1, DefectiveTells
    <2>3. QED
      BY <1>1, <2>2
  <1>11. QED
    BY <1>3, <1>6, <1>7, <1>8, <1>9, <1>10 DEF Ends, Outcomes

-----------------------------------------------------------------------------
(* What a step leaves alone *)

\* The numbers the invariant compares.
LEMMA Numbers ==
  ASSUME Types
  PROVE  /\ MaxEdits \in Nat /\ MaxInvocations \in Nat /\ MaxRepairs \in Nat /\ MaxFaults \in Nat
         /\ Version \subseteq Nat /\ 0 \in Version /\ Last \in Nat
         /\ world.net \in Version /\ world.sql \in Version /\ world.prof \in Version
         /\ run.prof \in Version /\ inv.began \in Version /\ inv.prof \in Version
         /\ inv.sql \in Version /\ inv.seen \in Version
         /\ used.starts \in 0..MaxInvocations /\ used.repairs \in 0..MaxRepairs
         /\ used.edits \in 0..MaxEdits /\ used.faults \in 0..MaxFaults
         /\ \A k \in Attempt : /\ proc[k] \in JobRecord
                               /\ proc[k].prof \in Version /\ proc[k].began \in Version
  <1>1. /\ MaxEdits \in Nat /\ MaxInvocations \in Nat /\ MaxRepairs \in Nat /\ MaxFaults \in Nat
        /\ Version \subseteq Nat /\ 0 \in Version
    BY PinnedRunAssumption DEF Version
  <1>2. Last \in Nat
    BY LenProperties DEF Types, Last
  <1>3. world.net \in Version /\ world.sql \in Version /\ world.prof \in Version
    BY DEF Types, WorldRecord
  <1>4. run.prof \in Version
    BY DEF Types, RunRecord
  <1>5. /\ inv.began \in Version /\ inv.prof \in Version
        /\ inv.sql \in Version /\ inv.seen \in Version
    BY DEF Types, InvRecord
  <1>6. /\ used.starts \in 0..MaxInvocations /\ used.repairs \in 0..MaxRepairs
        /\ used.edits \in 0..MaxEdits /\ used.faults \in 0..MaxFaults
    BY DEF Types, UsedRecord
  <1>7. \A k \in Attempt : /\ proc[k] \in JobRecord
                           /\ proc[k].prof \in Version /\ proc[k].began \in Version
    BY DEF Types, JobRecord
  <1>8. QED
    BY <1>1, <1>2, <1>3, <1>4, <1>5, <1>6, <1>7

\* The attempts on record have a job each.
LEMMA Places ==
  ASSUME Types, Bounds
  PROVE  Last \in Nat /\ 1..Last \subseteq Attempt
  BY Numbers DEF Bounds, Attempt

\* A job that does not move, while the files of others may and attempts may be
\* added.
LEMMA JobKept ==
  ASSUME Types, Types', NEW k \in Attempt, JobOK(k), proc'[k] = proc[k],
         Last' >= Last, world'.prof >= world.prof, run' = run \/ Last = 0
  PROVE  JobOK(k)'
  <1>1. /\ Version \subseteq Nat /\ world.prof \in Version /\ world'.prof \in Version
        /\ run.prof \in Version /\ proc[k].began \in Version /\ Last \in Nat /\ Last' \in Nat
        /\ k \in Nat \ {0}
    <2>1. /\ Version \subseteq Nat /\ world.prof \in Version /\ run.prof \in Version
          /\ proc[k].began \in Version /\ Last \in Nat /\ k \in Nat \ {0}
      BY Numbers DEF Attempt
    <2>2. world'.prof \in Version
      BY DEF Types, WorldRecord
    <2>3. Last' \in Nat
      BY LenProperties DEF Types, Last
    <2>4. QED
      BY <2>1, <2>2, <2>3
  <1>2. CASE run' = run
    <2>1. k > Last' => k > Last
      BY <1>1
    <2>2. proc[k].phase # "none" =>
            /\ proc[k].began <= world'.prof
            /\ world'.prof = run.prof \/ world'.prof > proc[k].began
      <3>1. world.prof \in Nat /\ world'.prof \in Nat /\ proc[k].began \in Nat
        BY <1>1
      <3>2. proc[k].phase # "none" =>
              /\ proc[k].began <= world.prof
              /\ world.prof = run.prof \/ world.prof > proc[k].began
        BY DEF JobOK
      <3>3. QED
        BY <3>1, <3>2
    <2>3. QED
      BY <1>2, <2>1, <2>2 DEF JobOK
  <1>3. CASE Last = 0
    BY <1>1, <1>3 DEF JobOK, NoProc
  <1>4. QED
    BY <1>2, <1>3

\* The record of an attempt stays, and so does its job.
LEMMA AttemptKept ==
  ASSUME NEW k, AttemptOK(k), attempts'[k] = attempts[k], proc'[k] = proc[k]
  PROVE  AttemptOK(k)'
  BY DEF AttemptOK

Files == <<world, run, node, attempts, proc>>

UsedKept ==
    /\ used' \in UsedRecord
    /\ used'.starts = used.starts /\ used'.edits = used.edits /\ used'.repairs = used.repairs

\* A fault is counted, or nothing is.
LEMMA FaultCounts ==
  ASSUME Types, Fault \/ UNCHANGED used
  PROVE  UsedKept
  <1>1. CASE UNCHANGED used
    BY <1>1 DEF Types, UsedKept
  <1>2. CASE Fault
    <2>1. used \in UsedRecord /\ used.faults + 1 \in 0..MaxFaults
      <3>1. used \in UsedRecord
        BY DEF Types
      <3>2. used.faults \in 0..MaxFaults /\ MaxFaults \in Nat /\ used.faults < MaxFaults
        BY <1>2, Numbers DEF Fault
      <3>3. QED
        BY <3>1, <3>2
    <2>2. used' = [used EXCEPT !.faults = used.faults + 1]
      BY <1>2 DEF Fault
    <2>3. QED
      BY <2>1, <2>2 DEF UsedKept, UsedRecord
  <1>3. QED
    BY <1>1, <1>2

\* The record of an invocation that has ended.
LEMMA IdleInv ==
  ASSUME Types
  PROVE  /\ Idle \in InvRecord /\ Idle.pc = "idle" /\ Idle.mode = "NEW" /\ Idle.began = 0
  <1>1. <<>> \in Seq(AttemptRecord) /\ 0 \in Version
    BY Numbers
  <1>2. QED
    BY <1>1 DEF Idle, InvRecord, Place, Modes

\* The invocation goes on to another place.
LEMMA GotoInv ==
  ASSUME Types, NEW p \in Place, Goto(p)
  PROVE  /\ inv' \in InvRecord /\ inv'.pc = p /\ inv'.mode = inv.mode /\ inv'.def = inv.def
         /\ inv'.began = inv.began /\ inv'.prof = inv.prof /\ inv'.net = inv.net
         /\ inv'.sql = inv.sql /\ inv'.seen = inv.seen /\ inv'.known = inv.known
         /\ inv'.file = inv.file /\ inv'.forced = inv.forced
  BY DEF Types, Goto, InvRecord

\* A step of an invocation that changes nothing else.
LEMMA InvStep ==
  ASSUME IInv, UNCHANGED Files, UsedKept, inv' \in InvRecord,
         inv'.pc \in BeforeAttempt => Last < used.starts,
         RunOK', ProfileOK', SqlOK', WorkOK', KnownOK', used.repairs = 0 => PinOK'
  PROVE  IInv'
  <1>1. Types'
    BY DEF IInv, Types, Files, UsedKept
  <1>2. Bounds'
    BY DEF IInv, Bounds, Files, UsedKept, Last
  <1>3. \A k \in Attempt : JobOK(k)'
    BY DEF IInv, JobOK, Files, Last
  <1>4. \A k \in 1..Last' : AttemptOK(k)'
    BY DEF IInv, AttemptOK, Files, Last
  <1>5. QED
    BY <1>1, <1>2, <1>3, <1>4 DEF IInv, UsedKept

\* The invocation ends, or dies, and leaves everything as it is.
LEMMA EndStep ==
  ASSUME IInv, UNCHANGED Files, UsedKept, EndInvocation
  PROVE  IInv'
  <1>1. /\ inv' \in InvRecord /\ inv'.pc = "idle" /\ inv'.mode = "NEW" /\ inv'.began = 0
    BY IdleInv DEF EndInvocation, IInv
  <1>2. 0 <= world.prof /\ Last' = Last
    BY Numbers DEF IInv, Files, Last
  <1>3. RunOK'
    BY <1>1, <1>2 DEF IInv, RunOK, Files, Ready, AtAttempt, BeforeAttempt, BeforeRun
  <1>4. ProfileOK' /\ SqlOK'
    BY <1>1, <1>2 DEF Files, ProfileOK, SqlOK, Ready, AtAttempt
  <1>5. WorkOK' /\ KnownOK'
    BY <1>1, <1>2 DEF IInv, Files, WorkOK, KnownOK, AtAttempt
  <1>6. ASSUME used.repairs = 0 PROVE PinOK'
    <2>1. PinOK
      BY <1>6 DEF IInv
    <2>3. QED
      BY <1>1, <1>2, <2>1 DEF Files, PinOK, Bytes
  <1>7. QED
    BY <1>1, <1>3, <1>4, <1>5, <1>6, InvStep DEF BeforeAttempt, BeforeRun

\* What the attempts are bound to is not touched by a step of an invocation that
\* is not about to write a baseline.
LEMMA PinStays ==
  ASSUME IInv, used.repairs = 0, UNCHANGED <<node, attempts, proc>>,
         inv'.mode # "RERUN_FROM", inv'.pc \notin {"inputs", "baseline"}
  PROVE  PinOK'
  <1>1. PinOK /\ Last' = Last
    BY DEF IInv, Last
  <1>2. \A k \in 1..Last : Bytes(k)' = Bytes(k)
    BY DEF Bytes
  <1>3. \A j, k \in 1..Last' : \A x \in Bytes(j)', y \in Bytes(k)' : x = y
    BY <1>1, <1>2 DEF PinOK
  <1>4. /\ Last' > 0 /\ node' \in {"WAITING", "FAILED", "CANCELLED"}
              => attempts'[Last'].status \in {"FAILED", "CANCELLED"}
        /\ \A k \in 1..Last' :
              attempts'[k].status = "UNKNOWN" => k = Last' /\ node' = "UNKNOWN"
    BY <1>1 DEF PinOK
  <1>5. QED
    BY <1>3, <1>4 DEF PinOK

-----------------------------------------------------------------------------
(* ensureRun *)

\* DescribeProfile, ReadNetwork, ReadSql and InspectJob, the reads before there
\* is a Run.
LEMMA ReadsKeep ==
  ASSUME IInv, DescribeProfile \/ ReadNetwork \/ ReadSql \/ InspectJob
  PROVE  IInv'
  <1>1. /\ UNCHANGED Files /\ UNCHANGED used /\ UsedKept
        /\ Types /\ Bounds /\ RunOK /\ ProfileOK /\ SqlOK /\ WorkOK /\ Last' = Last
    BY FaultCounts DEF IInv, DescribeProfile, ReadNetwork, ReadSql, InspectJob, Files, Last
  <1>2. /\ inv \in InvRecord /\ world.net \in Version /\ world.sql \in Version
        /\ world.prof \in Version
    BY <1>1, Numbers DEF Types
  <1>3. /\ inv' \in InvRecord /\ inv'.mode = inv.mode /\ inv'.began = inv.began
        /\ inv.pc \in BeforeRun
        /\ \/ inv.pc = "describe" /\ inv'.pc = "network" /\ inv'.prof = world.prof
           \/ inv.pc = "network" /\ inv'.pc = "sql" /\ inv'.prof = inv.prof
           \/ inv.pc = "sql" /\ inv'.pc = "inspect" /\ inv'.prof = inv.prof
              /\ inv'.sql = world.sql
           \/ inv.pc = "inspect" /\ inv'.pc = "again" /\ inv'.prof = inv.prof
              /\ inv'.sql = inv.sql /\ inv'.seen = world.sql
    <2>1. CASE DescribeProfile
      BY <1>2, <2>1 DEF DescribeProfile, InvRecord, Place, BeforeAttempt, BeforeRun
    <2>2. CASE ReadNetwork
      BY <1>2, <2>2 DEF ReadNetwork, InvRecord, Place, BeforeAttempt, BeforeRun
    <2>3. CASE ReadSql
      BY <1>2, <2>3 DEF ReadSql, InvRecord, Place, BeforeAttempt, BeforeRun
    <2>4. CASE InspectJob
      BY <1>2, <2>4 DEF InspectJob, InvRecord, Place, BeforeAttempt, BeforeRun
    <2>5. QED
      BY <2>1, <2>2, <2>3, <2>4
  <1>4. inv'.pc \in BeforeRun
    BY <1>3 DEF BeforeRun
  <1>5. RunOK'
    BY <1>1, <1>3, <1>4 DEF RunOK, Files, Ready, AtAttempt, BeforeAttempt, BeforeRun
  <1>6. ProfileOK'
    BY <1>1, <1>2, <1>3, Numbers DEF ProfileOK, Files, Ready, AtAttempt
  <1>7. SqlOK'
    BY <1>1, <1>2, <1>3, Numbers DEF SqlOK, Files
  <1>8. WorkOK' /\ KnownOK'
    BY <1>1, <1>3 DEF WorkOK, KnownOK, Files, AtAttempt
  <1>9. used.repairs = 0 => PinOK'
    <2>1. used.repairs = 0 => inv.mode # "RERUN_FROM"
      BY DEF IInv, PinOK
    <2>2. QED
      BY <1>1, <1>3, <1>4, <2>1, PinStays DEF Files, BeforeRun
  <1>10. QED
    BY <1>1, <1>3, <1>4, <1>5, <1>6, <1>7, <1>8, <1>9, InvStep DEF Bounds, BeforeAttempt

\* ensureRun starts.
LEMMA StartKeeps ==
  ASSUME IInv, NEW m \in Modes, Start(m)
  PROVE  IInv'
  <1>1. /\ UNCHANGED Files /\ Types /\ Bounds /\ RunOK /\ inv.pc = "idle" /\ Last' = Last
        /\ used.starts < MaxInvocations /\ (m = "RERUN_FROM" => used.repairs < MaxRepairs)
    BY DEF IInv, Start, Files, Last
  <1>2. /\ used' \in UsedRecord /\ used'.starts = used.starts + 1 /\ used'.edits = used.edits
        /\ used'.repairs = IF m = "RERUN_FROM" THEN used.repairs + 1 ELSE used.repairs
    <2>1. used \in UsedRecord /\ used.starts + 1 \in 0..MaxInvocations
      <3>1. used \in UsedRecord
        BY <1>1 DEF Types
      <3>2. used.starts \in 0..MaxInvocations /\ MaxInvocations \in Nat
        BY <1>1, Numbers
      <3>3. QED
        BY <1>1, <3>1, <3>2
    <2>2. PICK r \in 0..MaxRepairs :
            r = IF m = "RERUN_FROM" THEN used.repairs + 1 ELSE used.repairs
      BY <1>1, Numbers
    <2>3. used' = [used EXCEPT !.starts = used.starts + 1, !.repairs = r]
      BY <2>2 DEF Start
    <2>4. QED
      BY <2>1, <2>2, <2>3 DEF UsedRecord
  <1>3. \/ inv' = Idle
        \/ /\ ~run.exists /\ m # "RERUN_FROM"
           /\ inv' = [Idle EXCEPT !.pc = "describe", !.mode = "NEW", !.def = world.net,
                                  !.began = world.prof]
        \/ /\ run.exists /\ m # "NEW"
           /\ inv' = [Idle EXCEPT !.pc = "check", !.mode = m, !.def = world.net,
                                  !.began = world.prof]
    BY DEF Start, FindRun
  <1>4. /\ inv' \in InvRecord /\ inv'.began <= world.prof
        /\ \/ inv'.pc = "idle" /\ inv'.mode = "NEW"
           \/ inv'.pc = "describe" /\ ~run.exists /\ inv'.mode = "NEW"
           \/ inv'.pc = "check" /\ run.exists /\ inv'.mode # "NEW" /\ inv'.mode = m
    <2>1. /\ Idle \in InvRecord /\ Idle.pc = "idle" /\ Idle.mode = "NEW" /\ Idle.began = 0
          /\ 0 <= world.prof /\ world.prof <= world.prof
          /\ world.prof \in Version /\ world.net \in Version
      BY <1>1, IdleInv, Numbers
    <2> HIDE DEF Idle
    <2>2. QED
      BY <1>3, <2>1 DEF InvRecord, Place, BeforeAttempt, BeforeRun, Modes
  <1>5. Types'
    BY <1>1, <1>2, <1>4 DEF Types, Files
  <1>6. Bounds'
    BY <1>1, <1>2, <1>4, Numbers DEF Bounds, Files
  <1>7. RunOK'
    BY <1>1, <1>4 DEF RunOK, Files, Ready, AtAttempt, BeforeAttempt, BeforeRun
  <1>8. ProfileOK' /\ SqlOK'
    BY <1>1, <1>4 DEF ProfileOK, SqlOK, Files, Ready, AtAttempt
  <1>9. WorkOK' /\ KnownOK'
    BY <1>1, <1>4 DEF IInv, WorkOK, KnownOK, Files, AtAttempt
  <1>10. \A k \in Attempt : JobOK(k)'
    BY <1>1 DEF IInv, JobOK, Files
  <1>11. \A k \in 1..Last' : AttemptOK(k)'
    BY <1>1 DEF IInv, AttemptOK, Files
  <1>12. ASSUME used'.repairs = 0 PROVE PinOK'
    <2>1. used.repairs = 0 /\ m # "RERUN_FROM"
      BY <1>1, <1>2, <1>12, Numbers
    <2>2. QED
      BY <1>1, <1>4, <2>1, PinStays DEF Files
  <1>13. QED
    BY <1>5, <1>6, <1>7, <1>8, <1>9, <1>10, <1>11, <1>12 DEF IInv

\* The SQL is read again and, if it has not changed, the Run is created.
LEMMA ReadSqlAgainKeeps ==
  ASSUME IInv, ReadSqlAgain
  PROVE  IInv'
  <1>1. /\ Types /\ Bounds /\ RunOK /\ ProfileOK /\ SqlOK /\ WorkOK /\ inv.pc = "again"
        /\ UNCHANGED <<world, node, attempts, proc, used>> /\ Last' = Last
        /\ UsedKept
    BY FaultCounts DEF IInv, ReadSqlAgain, Last
  <1>2. CASE EndInvocation /\ UNCHANGED run
    BY <1>1, <1>2, EndStep DEF Files
  <1>3. CASE world.sql = inv.sql /\ CreateRun
    <2>1. ~run.exists /\ Last = 0 /\ node # "RUNNING"
      BY <1>1 DEF RunOK, WorkOK, BeforeRun
    <2>2. /\ run' \in RunRecord /\ run'.exists /\ run'.sql = inv.sql /\ run'.seen = inv.seen
          /\ run'.prof = inv.prof
      <3>1. NoRun \in RunRecord
        BY <1>1, Numbers DEF NoRun, RunRecord
      <3>2. inv \in InvRecord
        BY <1>1 DEF Types
      <3>3. inv.net \in Version /\ inv.sql \in Version /\ inv.seen \in Version
            /\ inv.prof \in Version
        BY <3>2 DEF InvRecord
      <3>4. run' = [NoRun EXCEPT !.net = inv.net, !.sql = inv.sql, !.seen = inv.seen,
                                 !.exists = TRUE, !.prof = inv.prof]
        BY <1>3 DEF CreateRun, Bundle, NoRun
      <3>5. QED
        BY <3>1, <3>3, <3>4 DEF RunRecord
    <2>3. /\ inv' \in InvRecord /\ inv'.pc = "states" /\ inv'.mode = "NEW"
          /\ inv'.began = inv.began
      <3>1. Idle \in InvRecord /\ Idle.mode = "NEW"
        BY <1>1, IdleInv
      <3>2. inv.def \in Version /\ inv.began \in Version
        BY <1>1 DEF Types, InvRecord
      <3> HIDE DEF Idle
      <3>3. QED
        BY <1>3, <3>1, <3>2 DEF CreateRun, InvRecord, Place, BeforeAttempt
    <2>4. inv.sql = inv.seen
      BY <1>1, <1>3, Numbers DEF SqlOK
    <2>5. Types'
      BY <1>1, <2>2, <2>3 DEF Types
    <2>6. Bounds'
      BY <1>1, <2>3 DEF Bounds, BeforeAttempt, BeforeRun
    <2>7. RunOK'
      BY <1>1, <2>1, <2>2, <2>3, <2>4 DEF RunOK, Ready, AtAttempt, BeforeAttempt, BeforeRun
    <2>8. ProfileOK' /\ SqlOK'
      BY <1>1, <2>2, <2>3, Numbers DEF ProfileOK, SqlOK
    <2>9. WorkOK' /\ KnownOK'
      BY <1>1, <2>1, <2>3 DEF WorkOK, KnownOK, AtAttempt
    <2>10. ASSUME NEW k \in Attempt PROVE JobOK(k)'
      <3>1. Last' >= Last /\ world'.prof >= world.prof
        BY <1>1, Numbers
      <3>2. QED
        BY <1>1, <2>1, <2>5, <3>1, JobKept DEF IInv
    <2>11. \A k \in 1..Last' : AttemptOK(k)'
      BY <1>1, <2>1
    <2>12. used.repairs = 0 => PinOK'
      BY <1>1, <2>3, PinStays
    <2>13. QED
      BY <1>1, <2>5, <2>6, <2>7, <2>8, <2>9, <2>10, <2>11, <2>12 DEF IInv
  <1>4. QED
    BY <1>2, <1>3 DEF ReadSqlAgain

\* assertStoredProfile.
LEMMA CheckProfileKeeps ==
  ASSUME IInv, CheckProfile
  PROVE  IInv'
  <1>1. /\ UNCHANGED Files /\ UNCHANGED used /\ UsedKept /\ inv.pc = "check"
        /\ Types /\ Bounds /\ RunOK /\ ProfileOK /\ SqlOK /\ WorkOK /\ Last' = Last
    BY FaultCounts DEF IInv, CheckProfile, Files, Last
  <1>2. CASE EndInvocation
    BY <1>1, <1>2, EndStep
  <1>3. CASE world.prof = run.prof /\ Goto("states")
    <2>1. /\ inv' \in InvRecord /\ inv'.pc = "states" /\ inv'.mode = inv.mode
          /\ inv'.began = inv.began
      BY <1>1, <1>3, GotoInv DEF Place, BeforeAttempt
    <2>2. RunOK'
      BY <1>1, <2>1 DEF RunOK, Files, Ready, AtAttempt, BeforeAttempt, BeforeRun
    <2>3. ProfileOK' /\ SqlOK'
      BY <1>1, <1>3, <2>1 DEF ProfileOK, SqlOK, Files
    <2>4. WorkOK' /\ KnownOK'
      BY <1>1, <2>1 DEF WorkOK, KnownOK, Files, AtAttempt
    <2>5. used.repairs = 0 => PinOK'
      <3>1. used.repairs = 0 => inv.mode # "RERUN_FROM"
        BY DEF IInv, PinOK
      <3>2. QED
        BY <1>1, <2>1, <3>1, PinStays DEF Files
    <2>6. QED
      BY <1>1, <2>1, <2>2, <2>3, <2>4, <2>5, InvStep DEF Bounds, BeforeAttempt
  <1>4. QED
    BY <1>2, <1>3 DEF CheckProfile, EndInvocation, Goto

\* The Node State is created, or compared with the definition.
LEMMA EnsureNodeStatesKeeps ==
  ASSUME IInv, EnsureNodeStates
  PROVE  IInv'
  <1>1. /\ UNCHANGED <<world, attempts, proc, used>> /\ UsedKept /\ inv.pc = "states"
        /\ Types /\ Bounds /\ RunOK /\ ProfileOK /\ SqlOK /\ WorkOK /\ Last' = Last
    BY FaultCounts DEF IInv, EnsureNodeStates, Last
  <1>2. run.exists
    BY <1>1 DEF RunOK, BeforeRun
  <1>3. used.repairs = 0 => inv.mode # "RERUN_FROM"
    BY DEF IInv, PinOK
  <1>4. CASE run.states = None
    <2>1. PICK p \in {"schedule", "verify"} : Goto(p)
      BY <1>4 DEF EnsureNodeStates
    <2>2. /\ inv' \in InvRecord /\ inv'.pc \in {"schedule", "verify"} /\ inv'.mode = inv.mode
          /\ inv'.began = inv.began
      BY <1>1, <2>1, GotoInv DEF Place, BeforeAttempt
    <2>3. Last = 0
      BY <1>1, <1>4, Numbers DEF RunOK
    <2>4. PICK v \in Version : /\ run' = [run EXCEPT !.states = v]
                               /\ inv.mode # "NEW" => v = run.net
      BY <1>1, <1>4 DEF EnsureNodeStates, Types, InvRecord, RunRecord
    <2>5. /\ run' \in RunRecord /\ run'.exists /\ run'.net = run.net /\ run'.sql = run.sql
          /\ run'.seen = run.seen /\ run'.prof = run.prof /\ run'.states = v
          /\ v # None /\ node' = "WAITING"
      BY <1>1, <1>2, <1>4, <2>4, Numbers, PinnedRunAssumption
         DEF Types, RunRecord, EnsureNodeStates
    <2>6. Types'
      BY <1>1, <2>2, <2>5 DEF Types, NodeStatus
    <2>7. Bounds'
      BY <1>1, <2>2 DEF Bounds, BeforeAttempt
    <2>8. RunOK'
      BY <1>1, <1>2, <2>2, <2>3, <2>4, <2>5
         DEF RunOK, Ready, AtAttempt, BeforeAttempt, BeforeRun
    <2>9. ProfileOK' /\ SqlOK'
      BY <1>1, <2>2, <2>5 DEF ProfileOK, SqlOK
    <2>10. WorkOK' /\ KnownOK'
      BY <2>2, <2>5 DEF WorkOK, KnownOK, AtAttempt
    <2>11. ASSUME NEW k \in Attempt PROVE JobOK(k)'
      <3>1. Last' >= Last /\ world'.prof >= world.prof
        BY <1>1, Numbers
      <3>2. QED
        BY <1>1, <2>3, <2>6, <3>1, JobKept DEF IInv
    <2>12. \A k \in 1..Last' : AttemptOK(k)'
      BY <1>1, <2>3
    <2>13. used.repairs = 0 => PinOK'
      BY <1>1, <1>3, <2>2, <2>3 DEF PinOK
    <2>14. QED
      BY <1>1, <2>6, <2>7, <2>8, <2>9, <2>10, <2>11, <2>12, <2>13 DEF IInv
  <1>5. CASE run.states # None /\ run.states # run.net
    BY <1>1, <1>5, EndStep DEF EnsureNodeStates, EndInvocation, Files
  <1>6. CASE run.states # None /\ run.states = run.net
    <2>1. UNCHANGED Files /\ Goto("verify")
      BY <1>1, <1>6 DEF EnsureNodeStates, Goto, Files
    <2>2. /\ inv' \in InvRecord /\ inv'.pc = "verify" /\ inv'.mode = inv.mode
          /\ inv'.began = inv.began
      BY <1>1, <2>1, GotoInv DEF Place, BeforeAttempt
    <2>3. RunOK'
      BY <1>1, <1>2, <1>6, <2>1, <2>2
         DEF RunOK, Files, Ready, AtAttempt, BeforeAttempt, BeforeRun
    <2>4. ProfileOK' /\ SqlOK'
      BY <1>1, <2>1, <2>2 DEF ProfileOK, SqlOK, Files
    <2>5. WorkOK' /\ KnownOK'
      BY <1>1, <2>1, <2>2 DEF WorkOK, KnownOK, Files, AtAttempt
    <2>6. used.repairs = 0 => PinOK'
      BY <1>1, <1>3, <2>1, <2>2, PinStays DEF Files
    <2>7. QED
      BY <1>1, <2>1, <2>2, <2>3, <2>4, <2>5, <2>6, InvStep DEF Bounds, BeforeAttempt
  <1>7. QED
    BY <1>4, <1>5, <1>6

\* The node is reset, and the invocation goes on: verifyExistingInputBaselines
\* with --rerun-from, and prepareResumeStates.
LEMMA ResetKeeps ==
  ASSUME IInv, NEW p \in {"schedule", "attempt"}, Goto(p),
         UNCHANGED <<world, run, attempts, proc, used>>,
         inv.pc \in {"verify", "prepare"}, node' \in {node, "WAITING"},
         p = "schedule" => inv.pc = "verify",
         p = "attempt" => inv.pc = "prepare" /\ node' = "WAITING" /\ node # "UNKNOWN",
         used.repairs = 0 => node' = node \/ node \in {"FAILED", "CANCELLED"}
  PROVE  IInv'
  <1>1. /\ Types /\ Bounds /\ RunOK /\ ProfileOK /\ SqlOK /\ WorkOK /\ KnownOK /\ Last' = Last
    BY DEF IInv, Last
  <1>2. /\ inv' \in InvRecord /\ inv'.pc = p /\ inv'.mode = inv.mode
        /\ inv'.began = inv.began /\ inv'.known = inv.known
    BY <1>1, GotoInv DEF Place, BeforeAttempt
  <1>3. Types'
    BY <1>1, <1>2 DEF Types, NodeStatus
  <1>4. Bounds'
    BY <1>1, <1>2 DEF Bounds, BeforeAttempt
  <1>5. RunOK'
    BY <1>1, <1>2 DEF RunOK, Ready, AtAttempt, BeforeAttempt, BeforeRun
  <1>6. ProfileOK' /\ SqlOK'
    BY <1>1, <1>2 DEF ProfileOK, SqlOK, Ready
  <1>7. WorkOK'
    BY <1>1, <1>2 DEF WorkOK, AtAttempt
  <1>8. KnownOK'
    BY <1>1, <1>2 DEF KnownOK
  <1>9. \A k \in Attempt : JobOK(k)'
    BY <1>1 DEF IInv, JobOK
  <1>10. \A k \in 1..Last' : AttemptOK(k)'
    BY <1>1 DEF IInv, AttemptOK
  <1>11. ASSUME used.repairs = 0 PROVE PinOK'
    <2>1. PinOK
      BY <1>11 DEF IInv
    <2>2. CASE node' = node
      BY <1>1, <1>2, <2>1, <2>2 DEF PinOK, Bytes
    <2>3. CASE node \in {"FAILED", "CANCELLED"}
      BY <1>1, <1>2, <2>1, <2>3 DEF PinOK, Bytes
    <2>4. QED
      BY <1>11, <2>2, <2>3
  <1>12. QED
    BY <1>3, <1>4, <1>5, <1>6, <1>7, <1>8, <1>9, <1>10, <1>11 DEF IInv

\* verifyExistingInputBaselines.
LEMMA VerifyBaselinesKeeps ==
  ASSUME IInv, VerifyBaselines
  PROVE  IInv'
  <1>1. /\ UNCHANGED <<world, run, attempts, proc, used>> /\ UsedKept /\ inv.pc = "verify"
    BY FaultCounts DEF IInv, VerifyBaselines
  <1>2. \/ EndInvocation /\ UNCHANGED node
        \/ /\ node' = IF inv.mode = "RERUN_FROM" THEN "WAITING" ELSE node
           /\ Goto("schedule")
    BY DEF VerifyBaselines
  <1>3. CASE EndInvocation /\ UNCHANGED node
    BY <1>1, <1>3, EndStep DEF Files
  <1>4. CASE /\ node' = IF inv.mode = "RERUN_FROM" THEN "WAITING" ELSE node
             /\ Goto("schedule")
    <2>1. used.repairs = 0 => inv.mode # "RERUN_FROM"
      BY DEF IInv, PinOK
    <2>2. PICK p \in {"schedule", "attempt"} : p = "schedule"
      OBVIOUS
    <2>3. QED
      BY <1>1, <1>4, <2>1, <2>2, ResetKeeps
  <1>5. QED
    BY <1>2, <1>3, <1>4

\* prepareResumeStates.
LEMMA PrepareResumeStatesKeeps ==
  ASSUME IInv, PrepareResumeStates
  PROVE  IInv'
  <1>1. /\ UNCHANGED <<world, run, attempts, proc, used>> /\ UsedKept /\ inv.pc = "prepare"
    BY FaultCounts DEF IInv, PrepareResumeStates
  <1>2. \/ EndInvocation /\ UNCHANGED node
        \/ node \in {"FAILED", "CANCELLED", "WAITING"} /\ node' = "WAITING" /\ Goto("attempt")
    BY DEF PrepareResumeStates
  <1>3. CASE EndInvocation /\ UNCHANGED node
    BY <1>1, <1>3, EndStep DEF Files
  <1>4. CASE node \in {"FAILED", "CANCELLED", "WAITING"} /\ node' = "WAITING" /\ Goto("attempt")
    <2>1. PICK p \in {"schedule", "attempt"} : p = "attempt"
      BY SMTT(30)
    <2>2. QED
      BY <1>1, <1>4, <2>1, ResetKeeps
  <1>5. QED
    BY <1>2, <1>3, <1>4

-----------------------------------------------------------------------------
(* The attempt at work *)

\* The record of the latest attempt is replaced.
LEMMA SetLast ==
  ASSUME Types, Last > 0, NEW r \in AttemptRecord, attempts' = [attempts EXCEPT ![Last] = r]
  PROVE  /\ attempts' \in Seq(AttemptRecord) /\ Last' = Last /\ attempts'[Last] = r
         /\ \A k \in 1..Last : k # Last => attempts'[k] = attempts[k]
  <1>1. Last \in 1..Len(attempts) /\ attempts \in Seq(AttemptRecord)
    BY Numbers DEF Types, Last
  <1>2. /\ attempts' \in Seq(AttemptRecord) /\ Len(attempts') = Len(attempts)
        /\ \A j \in 1..Len(attempts) : attempts'[j] = IF j = Last THEN r ELSE attempts[j]
    BY <1>1, ExceptSeq
  <1>3. QED
    BY <1>1, <1>2 DEF Last

\* The latest attempt, and its record.
LEMMA AtLast ==
  ASSUME Types, Bounds, WorkOK, node = "RUNNING"
  PROVE  /\ Last \in Nat /\ Last > 0 /\ Last \in Attempt /\ Last \in 1..Last
         /\ attempts[Last] \in AttemptRecord /\ attempts[Last].status = "RUNNING"
  <1>1. Last \in Nat /\ Last > 0 /\ attempts[Last].status = "RUNNING"
    BY Numbers DEF WorkOK
  <1>2. Last \in 1..Last /\ Last \in Attempt
    BY <1>1, Places
  <1>3. attempts[Last] \in AttemptRecord
    BY <1>2, ElementOfSeq DEF Types, Last
  <1>4. QED
    BY <1>1, <1>2, <1>3

\* The latest attempt is given its final status.
LEMMA EndAttempt ==
  ASSUME IInv, node = "RUNNING", NEW r \in AttemptRecord,
         attempts' = [attempts EXCEPT ![Last] = r], UNCHANGED <<world, run>>, UsedKept,
         \/ UNCHANGED proc
         \/ proc[Last].phase # "none" /\ proc' = [proc EXCEPT ![Last].unkilled = TRUE],
         node' \in NodeStatus \ {"RUNNING"}, inv' \in InvRecord,
         \/ EndInvocation
         \/ /\ inv.pc = "schedule" /\ inv'.pc = "prepare" /\ inv'.mode = inv.mode
            /\ inv'.began = inv.began
            /\ inv'.known = attempts' \/ node' = "UNKNOWN",
         r.base \in {attempts[Last].base, None}, AttemptOK(Last)',
         r.status = "UNKNOWN" => node' = "UNKNOWN",
         node' \in {"WAITING", "FAILED", "CANCELLED"} => r.status \in {"FAILED", "CANCELLED"}
  PROVE  IInv'
  <1>1. /\ Types /\ Bounds /\ RunOK /\ ProfileOK /\ WorkOK
        /\ Last \in Nat /\ Last > 0 /\ Last \in 1..Last /\ Last \in Attempt
    BY AtLast DEF IInv
  <1>2. /\ attempts' \in Seq(AttemptRecord) /\ Last' = Last /\ attempts'[Last] = r
        /\ \A k \in 1..Last : k # Last => attempts'[k] = attempts[k]
    BY <1>1, SetLast
  <1>15. /\ proc' \in [Attempt -> JobRecord]
         /\ \A k \in Attempt : k # Last => proc'[k] = proc[k]
         /\ \A k \in Attempt : UNCHANGED <<proc[k].phase, proc[k].mode, proc[k].net, proc[k].sql,
                                         proc[k].prof, proc[k].began, proc[k].want,
                                         proc[k].read, proc[k].end>>
         /\ proc[Last].phase # "none" \/ UNCHANGED proc
    <2>1. CASE UNCHANGED proc
      BY <1>1, <2>1 DEF Types
    <2>2. CASE proc[Last].phase # "none" /\ proc' = [proc EXCEPT ![Last].unkilled = TRUE]
      <3>1. proc[Last] \in JobRecord /\ proc \in [Attempt -> JobRecord]
        BY <1>1 DEF Types
      <3>2. PICK j : j = [proc[Last] EXCEPT !.unkilled = TRUE]
        OBVIOUS
      <3>3. /\ j \in JobRecord /\ j.phase = proc[Last].phase /\ j.mode = proc[Last].mode
            /\ j.net = proc[Last].net /\ j.sql = proc[Last].sql /\ j.prof = proc[Last].prof
            /\ j.began = proc[Last].began /\ j.want = proc[Last].want
            /\ j.read = proc[Last].read /\ j.end = proc[Last].end
        BY <3>1, <3>2 DEF JobRecord
      <3>4. proc' = [proc EXCEPT ![Last] = j]
        BY <2>2, <3>2
      <3>5. QED
        BY <1>1, <2>2, <3>1, <3>3, <3>4
    <2>3. QED
      BY <2>1, <2>2
  <1>3. /\ \/ inv'.pc = "idle" /\ inv'.mode = "NEW" /\ inv'.began = 0
           \/ /\ inv.pc = "schedule" /\ inv'.pc = "prepare" /\ inv'.mode = inv.mode
              /\ inv'.began = inv.began
    BY <1>1, IdleInv DEF EndInvocation
  <1>4. Types'
    BY <1>1, <1>2, <1>15 DEF Types, UsedKept
  <1>5. Bounds'
    BY <1>1, <1>2, <1>3 DEF Bounds, UsedKept, BeforeAttempt, BeforeRun
  <1>6. run.exists
    BY <1>1 DEF RunOK
  <1>7. RunOK'
    BY <1>1, <1>2, <1>3, <1>6 DEF RunOK, Ready, AtAttempt, BeforeAttempt, BeforeRun
  <1>8. ProfileOK' /\ SqlOK'
    BY <1>1, <1>3, Numbers DEF ProfileOK, SqlOK, Ready, AtAttempt
  <1>9. WorkOK'
    BY <1>3 DEF WorkOK, AtAttempt
  <1>10. KnownOK'
    BY <1>3, IdleInv, <1>1 DEF KnownOK, EndInvocation
  <1>11. ASSUME NEW k \in Attempt PROVE JobOK(k)'
    <2>1. CASE UNCHANGED proc
      BY <1>2, <2>1 DEF IInv, JobOK
    <2>2. CASE k # Last
      BY <1>2, <1>15, <2>2 DEF IInv, JobOK
    <2>3. CASE k = Last /\ proc[Last].phase # "none"
      <3>1. JobOK(Last)
        BY <1>1 DEF IInv
      <3>2. QED
        BY <1>1, <1>2, <1>15, <2>3, <3>1 DEF JobOK
    <2>4. QED
      BY <1>15, <2>1, <2>2, <2>3
  <1>12. \A k \in 1..Last' : AttemptOK(k)'
    <2>1. ASSUME NEW k \in 1..Last, k # Last PROVE AttemptOK(k)'
      BY <1>1, <1>2, <1>15, <2>1, AttemptKept, Places DEF IInv
    <2>2. QED
      BY <1>2, <2>1
  <1>13. ASSUME used.repairs = 0 PROVE PinOK'
    <2>1. PinOK
      BY <1>13 DEF IInv
    <2>2. \A k \in 1..Last : Bytes(k)' \subseteq Bytes(k)
      BY <1>1, <1>2, <1>15, Places DEF Bytes
    <2>3. \A j, k \in 1..Last' : \A x \in Bytes(j)', y \in Bytes(k)' : x = y
      BY <1>2, <2>1, <2>2 DEF PinOK
    <2>4. \A k \in 1..Last' : attempts'[k].status = "UNKNOWN" => k = Last' /\ node' = "UNKNOWN"
      BY <1>2, <2>1 DEF PinOK
    <2>5. inv'.mode # "RERUN_FROM" /\ inv'.pc \notin {"inputs", "baseline"}
      BY <1>3, <2>1 DEF PinOK
    <2>6. QED
      BY <1>2, <2>3, <2>4, <2>5 DEF PinOK
  <1>14. QED
    BY <1>4, <1>5, <1>7, <1>8, <1>9, <1>10, <1>11, <1>12, <1>13 DEF IInv, UsedKept

\* adjudicateOrphanRunningAttempts.
LEMMA AdjudicateKeeps ==
  ASSUME IInv, Adjudicate
  PROVE  IInv'
  <1>1. /\ Types /\ Bounds /\ RunOK /\ ProfileOK /\ SqlOK /\ WorkOK /\ inv.pc = "schedule"
        /\ UNCHANGED <<world, run, proc, used>> /\ UsedKept /\ inv \in InvRecord
    BY FaultCounts DEF IInv, Adjudicate, Types
  <1>2. CASE inv.mode # "NEW" /\ node = "RUNNING" /\ attempts[Last].status = "RUNNING"
    <2>1. /\ Last \in Nat /\ Last > 0 /\ Last \in Attempt /\ Last \in 1..Last
          /\ attempts[Last] \in AttemptRecord
      BY <1>1, <1>2, AtLast
    <2> DEFINE done(s) == [attempts[Last] EXCEPT !.status = s, !.code = "RESULT"]
               r(s) == IF s = "UNKNOWN" THEN [done(s) EXCEPT !.base = None] ELSE done(s)
    <2>2. PICK s \in JobLog(Last) :
            /\ attempts' = [attempts EXCEPT ![Last] = r(s)] /\ node' = s
            /\ inv' = [inv EXCEPT !.pc = "prepare", !.known = [attempts EXCEPT ![Last] = done(s)]]
      BY <1>2 DEF Adjudicate
    <2>3. /\ s \in Outcomes \cup {"UNKNOWN"}
          /\ s \in Outcomes => proc[Last].end = s
      BY DEF JobLog, Outcomes
    <2>4. /\ done(s) \in AttemptRecord /\ done(s).status = s /\ done(s).code = "RESULT"
          /\ done(s).base = attempts[Last].base
      <3>1. "RESULT" \in Code /\ s \in AttemptStatus
        BY <2>3 DEF AttemptStatus, Code
      <3>2. QED
        BY <2>1, <3>1 DEF AttemptRecord
    <2>5. /\ r(s) \in AttemptRecord /\ r(s).status = s /\ r(s).code = "RESULT"
          /\ r(s).base = IF s = "UNKNOWN" THEN None ELSE attempts[Last].base
      <3> HIDE DEF done
      <3>1. QED
        BY <2>4 DEF AttemptRecord
    <2>6. s # "UNKNOWN" => r(s) = done(s)
      OBVIOUS
    <2> HIDE DEF done, r
    <2>7. [attempts EXCEPT ![Last] = done(s)] \in Seq(AttemptRecord)
      BY <1>1, <2>1, <2>4, ExceptSeq DEF Types, Last
    <2>8. /\ inv' \in InvRecord /\ inv'.pc = "prepare" /\ inv'.mode = inv.mode
          /\ inv'.began = inv.began /\ inv'.known = [attempts EXCEPT ![Last] = done(s)]
      BY <1>1, <2>2, <2>7 DEF InvRecord, Place, BeforeAttempt
    <2>9. attempts'[Last] = r(s)
      BY <1>1, <2>1, <2>2, <2>5, SetLast
    <2>10. AttemptOK(Last)'
      <3>1. AttemptOK(Last) /\ Last' = Last
        BY <1>1, <2>1, <2>2, <2>5, SetLast DEF IInv
      <3>2. QED
        BY <1>1, <1>2, <2>3, <2>5, <2>9, <3>1 DEF AttemptOK, Outcomes
    <2>11. node' \in NodeStatus \ {"RUNNING"}
      BY <2>2, <2>3 DEF NodeStatus, AttemptStatus, Outcomes
    <2>12. inv'.known = attempts' \/ node' = "UNKNOWN"
      BY <2>2, <2>6, <2>8
    <2>13. PICK q \in AttemptRecord : q = r(s)
      BY <2>5
    <2>14. /\ attempts' = [attempts EXCEPT ![Last] = q]
           /\ q.base \in {attempts[Last].base, None}
           /\ q.status = "UNKNOWN" => node' = "UNKNOWN"
           /\ node' \in {"WAITING", "FAILED", "CANCELLED"} => q.status \in {"FAILED", "CANCELLED"}
      BY <2>2, <2>3, <2>5, <2>13 DEF Outcomes
    <2>15. QED
      BY <1>1, <1>2, <2>8, <2>10, <2>11, <2>12, <2>14, EndAttempt
  <1>3. CASE ~(inv.mode # "NEW" /\ node = "RUNNING" /\ attempts[Last].status = "RUNNING")
    <2>1. /\ UNCHANGED Files /\ Last' = Last
          /\ inv' = [inv EXCEPT !.pc = "prepare",
                                !.known = IF inv.mode = "NEW" THEN <<>> ELSE attempts]
      BY <1>1, <1>3 DEF Adjudicate, Files, Last
    <2>2. inv.mode = "NEW" => attempts = <<>>
      BY <1>1, EmptySeq DEF RunOK, BeforeAttempt, Types, Last
    <2>3. /\ inv' \in InvRecord /\ inv'.pc = "prepare" /\ inv'.mode = inv.mode
          /\ inv'.began = inv.began /\ inv'.known = attempts
      BY <1>1, <2>1, <2>2 DEF Types, InvRecord, Place, BeforeAttempt
    <2>4. RunOK'
      BY <1>1, <2>1, <2>3 DEF RunOK, Files, Ready, AtAttempt, BeforeAttempt, BeforeRun
    <2>5. ProfileOK' /\ SqlOK'
      BY <1>1, <2>1, <2>3 DEF ProfileOK, SqlOK, Files, Ready
    <2>6. WorkOK' /\ KnownOK'
      BY <1>1, <2>1, <2>3 DEF WorkOK, KnownOK, Files, AtAttempt
    <2>7. used.repairs = 0 => PinOK'
      <3>1. used.repairs = 0 => inv.mode # "RERUN_FROM"
        BY DEF IInv, PinOK
      <3>2. QED
        BY <1>1, <2>1, <2>3, <3>1, PinStays DEF Files
    <2>8. QED
      BY <1>1, <2>1, <2>3, <2>4, <2>5, <2>6, <2>7, InvStep, SMTT(30) DEF Bounds, BeforeAttempt
  <1>4. QED
    BY <1>2, <1>3, SMTT(30)

\* createAttempt.
LEMMA CreateAttemptKeeps ==
  ASSUME IInv, CreateAttempt
  PROVE  IInv'
  <1> DEFINE r == [status |-> "RUNNING", base |-> None, started |-> FALSE, code |-> "PENDING"]
  <1>1. /\ Types /\ Bounds /\ RunOK /\ ProfileOK /\ SqlOK /\ WorkOK /\ KnownOK
        /\ UNCHANGED <<world, run, proc, used>> /\ inv.pc = "attempt" /\ node' = "RUNNING"
        /\ attempts' = Append(attempts, r) /\ Last \in Nat /\ node = "WAITING"
    BY Numbers DEF IInv, CreateAttempt, KnownOK
  <1>2. r \in AttemptRecord
    BY DEF AttemptRecord, AttemptStatus, Code
  <1>3. /\ r.status = "RUNNING" /\ r.base = None /\ r.code = "PENDING"
    OBVIOUS
  <1> HIDE DEF r
  <1>17. PICK n \in Nat : n = Last + 1
    BY <1>1
  <1>4. /\ attempts' \in Seq(AttemptRecord) /\ Last' = n /\ attempts'[n] = r
        /\ \A k \in 1..Last : attempts'[k] = attempts[k]
    BY <1>1, <1>2, <1>17, AppendProperties DEF Types, Last
  <1>5. /\ inv' \in InvRecord /\ inv'.pc = "inputs" /\ inv'.mode = inv.mode
        /\ inv'.began = inv.began /\ inv'.known = attempts
    BY <1>1, GotoInv DEF CreateAttempt, KnownOK, Place, AtAttempt
  <1>6. Types'
    BY <1>1, <1>17, <1>4, <1>5 DEF Types, NodeStatus, AttemptStatus
  <1>7. Bounds' /\ n \in Attempt
    <2>1. Last < used.starts
      BY <1>1 DEF Bounds, BeforeAttempt
    <2>2. MaxInvocations \in Nat /\ used.starts \in 0..MaxInvocations
      BY <1>1, Numbers DEF Types, UsedRecord
    <2>3. n <= used.starts /\ n \in 1..MaxInvocations
      BY <1>1, <1>17, <2>1, <2>2
    <2>4. inv'.pc \notin BeforeAttempt
      BY <1>5 DEF BeforeAttempt, BeforeRun
    <2>5. QED
      BY <1>1, <1>4, <2>3, <2>4 DEF Bounds, Attempt
  <1>8. proc[n] = NoProc
    BY <1>1, <1>17, <1>7 DEF IInv, JobOK
  <1>9. RunOK'
    BY <1>1, <1>17, <1>4, <1>5 DEF RunOK, Ready, AtAttempt, BeforeAttempt, BeforeRun
  <1>10. ProfileOK' /\ SqlOK'
    BY <1>1, <1>5 DEF ProfileOK, SqlOK, Ready, AtAttempt
  <1>11. WorkOK'
    BY <1>1, <1>17, <1>3, <1>4, <1>5, <1>8 DEF WorkOK, AtAttempt
  <1>12. KnownOK'
    BY <1>1, <1>17, <1>4, <1>5 DEF KnownOK, Last
  <1>13. ASSUME NEW k \in Attempt PROVE JobOK(k)'
    <2>1. Last' >= Last /\ world'.prof >= world.prof
      BY <1>1, <1>17, <1>4, Numbers
    <2>2. QED
      BY <1>1, <1>6, <2>1, JobKept DEF IInv
  <1>14. \A k \in 1..Last' : AttemptOK(k)'
    <2>1. AttemptOK(n)'
      BY <1>1, <1>17, <1>3, <1>4, <1>8 DEF AttemptOK, NoProc
    <2>2. ASSUME NEW k \in 1..Last PROVE AttemptOK(k)'
      BY <1>1, <1>17, <1>4, <2>2, AttemptKept DEF IInv
    <2>3. QED
      BY <1>1, <1>17, <1>4, <2>1, <2>2
  <1>15. ASSUME used.repairs = 0 PROVE PinOK'
    <2>1. PinOK
      BY <1>15 DEF IInv
    <2>2. Bytes(n)' = {}
      BY <1>1, <1>17, <1>3, <1>4, <1>8 DEF Bytes, NoProc
    <2>3. \A k \in 1..Last : Bytes(k)' = Bytes(k)
      BY <1>1, <1>17, <1>4 DEF Bytes
    <2>4. \A j, k \in 1..Last' : \A x \in Bytes(j)', y \in Bytes(k)' : x = y
      <3>1. Last \in Nat /\ n = Last + 1
        BY <1>1, <1>17
      <3>2. \A k \in 1..n : k = n \/ k \in 1..Last
        BY <3>1
      <3>3. ASSUME NEW k \in 1..n, Bytes(k)' # {} PROVE k \in 1..Last
        BY <2>2, <3>2, <3>3
      <3>4. \A j, k \in 1..Last : \A x \in Bytes(j), y \in Bytes(k) : x = y
        BY <2>1 DEF PinOK
      <3>5. ASSUME NEW j \in 1..n, NEW k \in 1..n, NEW x \in Bytes(j)', NEW y \in Bytes(k)'
            PROVE  x = y
        BY <2>3, <3>3, <3>4
      <3>6. QED
        BY <1>4, <3>5
    <2>5. ASSUME NEW k \in 1..n PROVE attempts'[k].status # "UNKNOWN"
      <3>1. CASE k = n
        BY <1>3, <1>4, <3>1
      <3>2. CASE k \in 1..Last
        BY <1>1, <1>4, <2>1, <3>2 DEF PinOK
      <3>3. k = n \/ k \in 1..Last
        <4>1. Last \in Nat /\ n = Last + 1
          BY <1>1, <1>17
        <4>2. QED
          BY <4>1
      <3>4. QED
        BY <3>1, <3>2, <3>3
    <2>6. n > 1 => attempts'[n - 1].status \in {"FAILED", "CANCELLED"}
      <3>1. SUFFICES ASSUME n > 1 PROVE attempts'[n - 1].status \in {"FAILED", "CANCELLED"}
        OBVIOUS
      <3>2. n - 1 = Last /\ Last > 0 /\ Last \in 1..Last
        BY <1>1, <1>17, <3>1
      <3>3. attempts[Last].status \in {"FAILED", "CANCELLED"}
        BY <1>1, <2>1, <3>2 DEF PinOK
      <3>4. QED
        BY <1>4, <3>2, <3>3
    <2>7. inv'.mode # "RERUN_FROM"
      BY <1>5, <2>1 DEF PinOK
    <2>8. QED
      BY <1>1, <1>4, <1>5, <2>4, <2>5, <2>6, <2>7 DEF PinOK
  <1>16. QED
    BY <1>1, <1>6, <1>7, <1>9, <1>10, <1>11, <1>12, <1>13, <1>14, <1>15 DEF IInv

\* A baseline that agrees with those on record is one of them, if there is one.
LEMMA BaselineFound ==
  ASSUME NEW as \in Seq(AttemptRecord), NEW c, SameBaseline(as, c),
         NEW j \in 1..Len(as), as[j].base # None
  PROVE  \E k \in 1..Len(as) : as[k].base # None /\ as[k].base = c
  <1> DEFINE with == {k \in 1..Len(as) : as[k].base # None}
  <1>1. Len(as) \in Nat
    BY LenProperties
  <1>2. with \in SUBSET (1..Len(as)) /\ with # {}
    OBVIOUS
  <1>3. LatestBaseline(as) = as[CHOOSE k \in with : \A l \in with : l <= k].base
    BY <1>2 DEF LatestBaseline
  <1>4. \A k \in with : k \in 1..Len(as) /\ as[k].base # None
    OBVIOUS
  <1> HIDE DEF with
  <1>5. \E k \in with : \A l \in with : l <= k
    BY <1>1, <1>2, LastOne
  <1>6. PICK k \in with : k = CHOOSE m \in with : \A l \in with : l <= m
    BY <1>5
  <1>7. as[k].base \in {None, c}
    BY <1>3, <1>6 DEF SameBaseline
  <1>8. QED
    BY <1>4, <1>7

\* finalizeIoPathFailure.
LEMMA PathFailureKeeps ==
  ASSUME IInv, inv.pc = "inputs", NEW code \in Code \ {"RESULT", "PREPARE_FAILED"},
         FinalizeIoPathFailure(code), UNCHANGED <<world, run, proc>>, UsedKept
  PROVE  IInv'
  <1>1. /\ Types /\ Bounds /\ WorkOK /\ node = "RUNNING" /\ proc[Last] = NoProc
    BY DEF IInv, WorkOK, AtAttempt
  <1>2. Last > 0 /\ Last \in 1..Last /\ attempts[Last] \in AttemptRecord
    BY <1>1, AtLast
  <1> DEFINE r == [attempts[Last] EXCEPT !.status = "FAILED", !.base = None, !.code = code]
  <1>3. /\ r \in AttemptRecord /\ r.status = "FAILED" /\ r.base = None /\ r.code = code
    BY <1>2 DEF AttemptRecord, AttemptStatus, Outcomes
  <1>4. attempts' = [attempts EXCEPT ![Last] = r] /\ node' = "FAILED" /\ EndInvocation
    BY DEF FinalizeIoPathFailure
  <1> HIDE DEF r
  <1>5. attempts'[Last] = r /\ Last' = Last
    BY <1>1, <1>2, <1>3, <1>4, SetLast
  <1>6. AttemptOK(Last)'
    BY <1>1, <1>3, <1>5 DEF AttemptOK, NoProc
  <1>7. node' \in NodeStatus \ {"RUNNING"} /\ inv' \in InvRecord
    BY <1>1, <1>4, IdleInv DEF NodeStatus, AttemptStatus, Outcomes, EndInvocation
  <1>8. QED
    BY <1>1, <1>3, <1>4, <1>6, <1>7, EndAttempt

\* A path is rejected.
LEMMA PathRejectedKeeps ==
  ASSUME IInv, PathRejected
  PROVE  IInv'
  <1>1. PICK code \in Code \ {"RESULT", "PREPARE_FAILED"} : code = "PATH_REJECTED"
    BY DEF Code
  <1>2. UsedKept
    BY FaultCounts DEF IInv, PathRejected
  <1>3. QED
    BY <1>1, <1>2, PathFailureKeeps DEF PathRejected

\* What the input has to be, while nobody has repaired the Run: the comparison
\* with the attempts known covers all that the earlier attempts are bound to.
LEMMA InputIsBound ==
  ASSUME IInv, used.repairs = 0, inv.pc = "inputs", world.file # None,
         ~(ShouldCompare /\ ~SameBaseline(inv.known, world.file)), NEW k \in 1..Last
  PROVE  Bytes(k) \subseteq {world.file}
  <1>1. /\ Types /\ Bounds /\ RunOK /\ WorkOK /\ KnownOK /\ PinOK /\ Last \in Nat
        /\ inv \in InvRecord /\ inv.known \in Seq(AttemptRecord) /\ inv.mode \in Modes
    BY Numbers DEF IInv, Types, InvRecord
  <1>2. /\ proc[Last] = NoProc /\ attempts[Last].base = None /\ node = "RUNNING"
    BY <1>1 DEF WorkOK, AtAttempt
  <1>3. /\ Len(inv.known) = Last - 1 /\ \A j \in 1..(Last - 1) : inv.known[j] = attempts[j]
    BY <1>1 DEF KnownOK
  <1>4. CASE k = Last
    BY <1>2, <1>4 DEF Bytes, NoProc
  <1>5. CASE k # Last
    <2>1. Last > 1 /\ k \in 1..(Last - 1) /\ Last - 1 \in 1..(Last - 1)
      BY <1>1, <1>5
    <2>2. inv.mode = "RESUME"
      BY <1>1, <2>1 DEF RunOK, PinOK, Modes, AtAttempt
    <2>3. inv.known[Len(inv.known)].status \in {"FAILED", "CANCELLED"} /\ inv.known # <<>>
      <3>1. inv.known[Last - 1].status \in {"FAILED", "CANCELLED"}
        BY <1>1, <1>3, <2>1 DEF PinOK
      <3>2. Len(inv.known) # 0
        BY <1>1, <1>3, <2>1
      <3>3. QED
        BY <1>3, <3>1, <3>2
    <2>4. SameBaseline(inv.known, world.file)
      BY <2>2, <2>3 DEF ShouldCompare
    <2>5. ASSUME NEW j \in 1..(Last - 1)
          PROVE  Bytes(j) = {attempts[j].base} \ {None}
      <3>1. j \in 1..Last /\ j # Last /\ j \in Attempt
        BY <1>1, <2>5, Places
      <3>2. attempts[j].status # "UNKNOWN" /\ AttemptOK(j) /\ JobOK(j)
        BY <1>1, <3>1 DEF PinOK, IInv
      <3>3. CASE proc[j].phase = "none"
        BY <3>2, <3>3 DEF JobOK, NoProc, Bytes
      <3>4. CASE proc[j].phase # "none"
        BY <3>2, <3>4 DEF AttemptOK, Bytes
      <3>5. QED
        BY <3>3, <3>4
    <2>6. SUFFICES ASSUME attempts[k].base # None PROVE attempts[k].base = world.file
      BY <2>1, <2>5
    <2>7. PICK j \in 1..(Last - 1) : attempts[j].base # None /\ attempts[j].base = world.file
      <3>1. k \in 1..Len(inv.known) /\ inv.known[k].base # None
        BY <1>3, <2>1, <2>6
      <3>2. PICK j \in 1..Len(inv.known) :
              inv.known[j].base # None /\ inv.known[j].base = world.file
        BY <1>1, <2>4, <3>1, BaselineFound
      <3>3. QED
        BY <1>3, <3>2
    <2>8. attempts[j].base \in Bytes(j) /\ attempts[k].base \in Bytes(k) /\ j \in 1..Last
      BY <1>1, <2>1, <2>5, <2>6, <2>7
    <2>9. QED
      BY <1>1, <2>7, <2>8 DEF PinOK
  <1>6. QED
    BY <1>4, <1>5

\* resolveNodeInputs and the comparison with the earlier attempts.
LEMMA ResolveNodeInputsKeeps ==
  ASSUME IInv, ResolveNodeInputs
  PROVE  IInv'
  <1>1. /\ inv.pc = "inputs" /\ UNCHANGED <<world, run, proc, used>> /\ UsedKept
        /\ Types /\ Bounds /\ RunOK /\ ProfileOK /\ SqlOK /\ WorkOK
    BY FaultCounts DEF IInv, ResolveNodeInputs
  <1>2. CASE \/ FinalizeIoPathFailure("INPUT_FILE_MISSING")
             \/ FinalizeIoPathFailure("INPUT_FILE_MUTATED")
    <2>1. PICK code \in Code \ {"RESULT", "PREPARE_FAILED"} : FinalizeIoPathFailure(code)
      BY <1>2 DEF Code
    <2>2. QED
      BY <1>1, <2>1, PathFailureKeeps
  <1>3. CASE /\ world.file # None /\ ~(ShouldCompare /\ ~SameBaseline(inv.known, world.file))
             /\ inv' = [inv EXCEPT !.pc = "baseline", !.file = world.file, !.known = <<>>]
             /\ UNCHANGED <<attempts, node>>
    <2>1. UNCHANGED Files /\ Last' = Last
      BY <1>1, <1>3 DEF Files, Last
    <2>2. world.file \in Content
      BY <1>1, <1>3 DEF Types, WorldRecord
    <2>3. /\ inv' \in InvRecord /\ inv'.pc = "baseline" /\ inv'.mode = inv.mode
          /\ inv'.began = inv.began /\ inv'.file = world.file
      <3>1. <<>> \in Seq(AttemptRecord) /\ inv \in InvRecord
        BY <1>1 DEF Types
      <3>2. QED
        BY <1>3, <2>2, <3>1 DEF InvRecord, Place, AtAttempt
    <2>4. RunOK'
      BY <1>1, <2>1, <2>3 DEF RunOK, Files, Ready, AtAttempt, BeforeAttempt, BeforeRun
    <2>5. ProfileOK' /\ SqlOK'
      BY <1>1, <2>1, <2>3 DEF ProfileOK, SqlOK, Files, Ready, AtAttempt
    <2>6. WorkOK' /\ KnownOK'
      BY <1>1, <2>1, <2>2, <2>3 DEF WorkOK, KnownOK, Files, AtAttempt
    <2>7. ASSUME used.repairs = 0 PROVE PinOK'
      <3>1. PinOK
        BY <2>7 DEF IInv
      <3>2. \A k \in 1..Last : Bytes(k)' \subseteq {inv'.file}
        BY <1>1, <1>3, <2>1, <2>3, <2>7, InputIsBound DEF Bytes, Files
      <3>3. QED
        BY <2>1, <2>3, <3>1, <3>2 DEF PinOK, Files, Bytes
    <2>8. QED
      BY <1>1, <2>1, <2>3, <2>4, <2>5, <2>6, <2>7, InvStep DEF BeforeAttempt, BeforeRun
  <1>4. QED
    BY <1>2, <1>3 DEF ResolveNodeInputs

\* The latest attempt is noted to have a baseline, or to be started.
LEMMA NoteKeeps ==
  ASSUME IInv, inv.pc \in {"baseline", "started"}, NEW r \in AttemptRecord,
         attempts' = [attempts EXCEPT ![Last] = r], UNCHANGED <<world, run, node, proc>>,
         UsedKept, r.status = attempts[Last].status, r.code = attempts[Last].code,
         \/ r.base = attempts[Last].base
         \/ inv.pc = "baseline" /\ r.base = inv.file,
         \/ EndInvocation
         \/ inv.pc = "baseline" /\ Goto("started") /\ r.base = inv.file
         \/ inv.pc = "started" /\ Goto("spawn") /\ r.started
  PROVE  IInv'
  <1>1. /\ Types /\ Bounds /\ RunOK /\ ProfileOK /\ SqlOK /\ WorkOK /\ node = "RUNNING"
        /\ proc[Last] = NoProc /\ inv.file \in Content
    BY DEF IInv, WorkOK, AtAttempt
  <1>2. Last \in Nat /\ Last > 0 /\ Last \in 1..Last /\ Last \in Attempt
    BY <1>1, AtLast
  <1>3. /\ attempts' \in Seq(AttemptRecord) /\ Last' = Last /\ attempts'[Last] = r
        /\ \A k \in 1..Last : k # Last => attempts'[k] = attempts[k]
    BY <1>1, <1>2, SetLast
  <1>4. /\ inv' \in InvRecord
        /\ \/ inv'.pc = "idle" /\ inv'.mode = "NEW" /\ inv'.began = 0
           \/ /\ inv'.mode = inv.mode /\ inv'.began = inv.began /\ inv'.file = inv.file
              /\ \/ inv.pc = "baseline" /\ inv'.pc = "started" /\ r.base = inv.file
                 \/ inv.pc = "started" /\ inv'.pc = "spawn" /\ r.started
    <2>1. CASE EndInvocation
      BY <1>1, <2>1, IdleInv DEF EndInvocation
    <2>2. CASE inv.pc = "baseline" /\ Goto("started") /\ r.base = inv.file
      BY <1>1, <2>2, GotoInv DEF Place, AtAttempt
    <2>3. CASE inv.pc = "started" /\ Goto("spawn") /\ r.started
      BY <1>1, <2>3, GotoInv DEF Place, AtAttempt
    <2>4. QED
      BY <2>1, <2>2, <2>3
  <1>5. Types'
    BY <1>1, <1>3, <1>4 DEF Types, UsedKept
  <1>6. Bounds'
    BY <1>1, <1>3, <1>4 DEF Bounds, UsedKept, BeforeAttempt, BeforeRun
  <1>7. RunOK'
    BY <1>1, <1>2, <1>3, <1>4 DEF RunOK, Ready, AtAttempt, BeforeAttempt, BeforeRun
  <1>8. ProfileOK' /\ SqlOK'
    BY <1>1, <1>4, Numbers DEF ProfileOK, SqlOK, Ready, AtAttempt
  <1>9. WorkOK' /\ KnownOK'
    BY <1>1, <1>3, <1>4 DEF WorkOK, KnownOK, AtAttempt
  <1>10. \A k \in Attempt : JobOK(k)'
    BY <1>3 DEF IInv, JobOK
  <1>11. \A k \in 1..Last' : AttemptOK(k)'
    <2>1. AttemptOK(Last) /\ proc'[Last].phase = "none"
      BY <1>1, <1>2 DEF IInv, NoProc
    <2>2. AttemptOK(Last)'
      BY <1>3, <2>1 DEF AttemptOK
    <2>3. ASSUME NEW k \in 1..Last, k # Last PROVE AttemptOK(k)'
      BY <1>3, <2>3, AttemptKept DEF IInv
    <2>4. QED
      BY <1>3, <2>2, <2>3
  <1>12. ASSUME used.repairs = 0 PROVE PinOK'
    <2>1. PinOK
      BY <1>12 DEF IInv
    <2>2. \A j, k \in 1..Last : \A x \in Bytes(j)', y \in Bytes(k)' : x = y
      <3>1. CASE r.base = attempts[Last].base
        <4>1. \A k \in 1..Last : Bytes(k)' = Bytes(k)
          BY <1>3, <3>1 DEF Bytes
        <4>2. QED
          BY <2>1, <4>1 DEF PinOK
      <3>2. CASE inv.pc = "baseline" /\ r.base = inv.file
        <4>1. \A k \in 1..Last : Bytes(k) \subseteq {inv.file}
          BY <2>1, <3>2 DEF PinOK
        <4>2. \A k \in 1..Last : Bytes(k)' \subseteq {inv.file}
          BY <1>3, <3>2, <4>1 DEF Bytes
        <4>3. QED
          BY <4>2
      <3>3. QED
        BY <3>1, <3>2
    <2>3. \A k \in 1..Last : attempts'[k].status = attempts[k].status
      BY <1>3
    <2>4. QED
      BY <1>2, <1>3, <1>4, <2>1, <2>2, <2>3 DEF PinOK
  <1>13. QED
    BY <1>5, <1>6, <1>7, <1>8, <1>9, <1>10, <1>11, <1>12 DEF IInv, UsedKept

\* persistInputBaseline, confirmed or not, and setAttemptExecutionStarted.
LEMMA NotesKeep ==
  ASSUME IInv, PersistInputBaseline \/ BaselineUnconfirmed \/ SetAttemptExecutionStarted
  PROVE  IInv'
  <1>1. /\ Types /\ Bounds /\ WorkOK /\ inv.pc \in {"baseline", "started"} /\ node = "RUNNING"
        /\ inv.file \in Content /\ UNCHANGED <<world, run, node, proc>> /\ UsedKept
    BY FaultCounts DEF IInv, WorkOK, AtAttempt, PersistInputBaseline, BaselineUnconfirmed,
       SetAttemptExecutionStarted
  <1>2. Last > 0 /\ attempts[Last] \in AttemptRecord
    BY <1>1, AtLast
  <1> DEFINE b == [attempts[Last] EXCEPT !.base = inv.file]
             t == [attempts[Last] EXCEPT !.started = TRUE]
  <1>3. /\ b \in AttemptRecord /\ b.status = attempts[Last].status
        /\ b.code = attempts[Last].code /\ b.base = inv.file
        /\ t \in AttemptRecord /\ t.status = attempts[Last].status
        /\ t.code = attempts[Last].code /\ t.base = attempts[Last].base /\ t.started
    BY <1>1, <1>2 DEF AttemptRecord
  <1>4. CASE PersistInputBaseline
    <2>1. attempts' = [attempts EXCEPT ![Last] = b] /\ inv.pc = "baseline" /\ Goto("started")
      BY <1>4 DEF PersistInputBaseline
    <2> HIDE DEF b, t
    <2>2. PICK r \in AttemptRecord : r = b
      BY <1>3
    <2>3. QED
      BY <1>1, <1>3, <2>1, <2>2, NoteKeeps
  <1>5. CASE SetAttemptExecutionStarted
    <2>1. attempts' = [attempts EXCEPT ![Last] = t] /\ inv.pc = "started" /\ Goto("spawn")
      BY <1>5 DEF SetAttemptExecutionStarted
    <2> HIDE DEF b, t
    <2>2. PICK r \in AttemptRecord : r = t
      BY <1>3
    <2>3. QED
      BY <1>1, <1>3, <2>1, <2>2, NoteKeeps
  <1>6. CASE BaselineUnconfirmed /\ UNCHANGED attempts
    BY <1>1, <1>6, EndStep DEF BaselineUnconfirmed, Files
  <1>7. CASE BaselineUnconfirmed /\ attempts' = [attempts EXCEPT ![Last].base = inv.file]
    <2>1. attempts' = [attempts EXCEPT ![Last] = b] /\ inv.pc = "baseline" /\ EndInvocation
      BY <1>7 DEF BaselineUnconfirmed
    <2> HIDE DEF b, t
    <2>2. PICK r \in AttemptRecord : r = b
      BY <1>3
    <2>3. QED
      BY <1>1, <1>3, <2>1, <2>2, NoteKeeps
  <1>8. QED
    BY <1>4, <1>5, <1>6, <1>7 DEF BaselineUnconfirmed

\* The job is launched, or cannot be.
LEMMA SpawnKeeps ==
  ASSUME IInv, Spawn \/ SpawnFails
  PROVE  IInv'
  <1>1. /\ Types /\ Bounds /\ RunOK /\ ProfileOK /\ SqlOK /\ WorkOK /\ inv.pc = "spawn"
        /\ UNCHANGED <<world, run, node, attempts>> /\ UsedKept /\ Last' = Last
        /\ node = "RUNNING" /\ proc[Last] = NoProc /\ inv.file \in Content
        /\ attempts[Last].base = inv.file /\ attempts[Last].started /\ Goto("wait")
    BY FaultCounts DEF IInv, WorkOK, AtAttempt, Spawn, SpawnFails, Last
  <1>2. /\ Last \in Nat /\ Last > 0 /\ Last \in 1..Last /\ Last \in Attempt
        /\ attempts[Last].status = "RUNNING"
    BY <1>1, AtLast
  <1>3. /\ inv' \in InvRecord /\ inv'.pc = "wait" /\ inv'.mode = inv.mode
        /\ inv'.began = inv.began
    BY <1>1, GotoInv DEF Place, AtAttempt
  <1>4. PICK ph \in {"spawned", "launchFailed"} :
          proc' = [proc EXCEPT ![Last] = [Job EXCEPT !.phase = ph]]
    BY DEF Spawn, SpawnFails
  <1> DEFINE j == [Job EXCEPT !.phase = ph]
  <1>5. /\ j \in JobRecord /\ j.phase = ph /\ j.mode = inv.mode /\ j.net = run.net
        /\ j.sql = run.sql /\ j.began = inv.began /\ j.want = inv.file /\ j.read = None
        /\ j.end = None
    <2>1. run.net \in Version /\ run.sql \in Version
      BY <1>1 DEF Types, RunRecord
    <2>2. inv.mode \in Modes /\ inv.began \in Version /\ 0 \in Version
      BY <1>1, Numbers DEF Types, InvRecord
    <2>3. /\ Extracted \in JobRecord /\ Extracted.net = run.net /\ Extracted.sql = run.sql
          /\ Extracted.read = None /\ Extracted.end = None
      <3>1. /\ NoProc \in JobRecord /\ NoProc.read = None /\ NoProc.end = None
        BY <2>2 DEF NoProc, JobRecord, JobPhase, Modes
      <3> HIDE DEF NoProc
      <3>2. QED
        BY <2>1, <3>1 DEF Extracted, JobRecord
    <2>4. /\ Job \in JobRecord /\ Job.mode = inv.mode /\ Job.net = run.net
          /\ Job.sql = run.sql /\ Job.began = inv.began /\ Job.want = inv.file
          /\ Job.read = None /\ Job.end = None
      BY <1>1, <2>2, <2>3 DEF Job, JobRecord
    <2>5. QED
      BY <2>4 DEF JobRecord, JobPhase
  <1>6. proc' = [proc EXCEPT ![Last] = j]
    BY <1>4
  <1> HIDE DEF j
  <1>7. /\ proc' \in [Attempt -> JobRecord] /\ proc'[Last] = j
        /\ \A k \in Attempt : k # Last => proc'[k] = proc[k]
    BY <1>1, <1>2, <1>5, <1>6 DEF Types
  <1>8. Types'
    BY <1>1, <1>3, <1>7 DEF Types, UsedKept
  <1>9. Bounds'
    BY <1>1, <1>3 DEF Bounds, UsedKept, BeforeAttempt, BeforeRun
  <1>10. RunOK'
    BY <1>1, <1>3 DEF RunOK, Ready, AtAttempt, BeforeAttempt, BeforeRun
  <1>11. ProfileOK' /\ SqlOK'
    BY <1>1, <1>3 DEF ProfileOK, SqlOK, Ready, AtAttempt
  <1>12. WorkOK' /\ KnownOK'
    BY <1>1, <1>3, <1>5, <1>7 DEF WorkOK, KnownOK, AtAttempt
  <1>13. ASSUME NEW k \in Attempt PROVE JobOK(k)'
    <2>1. CASE k # Last
      <3>1. Last' >= Last /\ world'.prof >= world.prof
        BY <1>1, <1>2, Numbers
      <3>2. QED
        BY <1>1, <1>7, <1>8, <2>1, <3>1, JobKept DEF IInv
    <2>2. CASE k = Last
      <3>1. inv.mode # "NEW" => run.states = run.net
        BY <1>1 DEF RunOK, Ready, AtAttempt
      <3>2. /\ inv.began <= world.prof
            /\ world.prof = run.prof \/ world.prof > inv.began
        BY <1>1 DEF ProfileOK, Ready, AtAttempt
      <3>3. None \notin Ends
        BY PinnedRunAssumption
      <3>4. QED
        BY <1>1, <1>2, <1>5, <1>7, <2>2, <3>1, <3>2, <3>3 DEF JobOK, Ends
    <2>3. QED
      BY <2>1, <2>2
  <1>14. \A k \in 1..Last' : AttemptOK(k)'
    <2>1. AttemptOK(Last)
      BY <1>2 DEF IInv
    <2>2. AttemptOK(Last)'
      BY <1>1, <1>2, <1>5, <1>7, <2>1 DEF AttemptOK, Outcomes
    <2>3. ASSUME NEW k \in 1..Last, k # Last PROVE AttemptOK(k)'
      BY <1>1, <1>7, <2>3, AttemptKept, Places DEF IInv
    <2>4. QED
      BY <1>1, <2>2, <2>3
  <1>15. ASSUME used.repairs = 0 PROVE PinOK'
    <2>1. PinOK
      BY <1>15 DEF IInv
    <2>2. ASSUME NEW k \in 1..Last PROVE Bytes(k)' = Bytes(k)
      <3>1. k \in Attempt
        BY <1>1, Places
      <3>2. CASE k # Last
        BY <1>1, <1>7, <3>1, <3>2 DEF Bytes
      <3>3. CASE k = Last
        BY <1>1, <1>5, <1>7, <3>3 DEF Bytes, NoProc
      <3>4. QED
        BY <3>2, <3>3
    <2>3. QED
      BY <1>1, <1>3, <2>1, <2>2 DEF PinOK
  <1>16. QED
    BY <1>1, <1>8, <1>9, <1>10, <1>11, <1>12, <1>13, <1>14, <1>15 DEF IInv, UsedKept

\* The time is up, or the wait for the job is over.
LEMMA WaitKeeps ==
  ASSUME IInv, Timeout \/ ExitSeen
  PROVE  IInv'
  <1>1. /\ UNCHANGED Files /\ UNCHANGED used /\ UsedKept /\ inv.pc \in {"wait", "forced"}
        /\ Types /\ Bounds /\ RunOK /\ ProfileOK /\ SqlOK /\ WorkOK /\ Last' = Last
    BY FaultCounts DEF IInv, Timeout, ExitSeen, Files, Last
  <1>2. /\ inv' \in InvRecord /\ inv'.mode = inv.mode /\ inv'.began = inv.began
        /\ \/ inv'.pc = "forced" /\ inv'.forced
           \/ /\ inv'.pc = "classify" /\ inv'.forced = inv.forced
              /\ inv.pc = "forced" \/ proc[Last].phase \in {"launchFailed", "ended"}
    <2>1. CASE Timeout
      BY <1>1, <2>1 DEF Timeout, Types, InvRecord, Place, AtAttempt
    <2>2. CASE ExitSeen
      BY <1>1, <2>2, GotoInv DEF ExitSeen, Place, AtAttempt
    <2>3. QED
      BY <2>1, <2>2
  <1>3. RunOK'
    BY <1>1, <1>2 DEF RunOK, Files, Ready, AtAttempt, BeforeAttempt, BeforeRun
  <1>4. ProfileOK' /\ SqlOK'
    BY <1>1, <1>2 DEF ProfileOK, SqlOK, Files, Ready, AtAttempt
  <1>5. WorkOK' /\ KnownOK'
    BY <1>1, <1>2 DEF WorkOK, KnownOK, Files, AtAttempt
  <1>6. used.repairs = 0 => PinOK'
    <2>1. used.repairs = 0 => inv.mode # "RERUN_FROM"
      BY DEF IInv, PinOK
    <2>2. QED
      BY <1>1, <1>2, <2>1, PinStays DEF Files
  <1>7. QED
    BY <1>1, <1>2, <1>3, <1>4, <1>5, <1>6, InvStep DEF BeforeAttempt, BeforeRun

\* What a decision on the result of a job says, given how its launch went.
DecisionOK(d, result, ph) ==
    /\ d.status \in Outcomes \cup {"UNKNOWN"} /\ d.code \in Code
    /\ d.code = "RESULT" => d.status = result /\ result \in Outcomes
    /\ d.status = "SUCCESS" => d.code = "RESULT"
    /\ d.code = "PREPARE_FAILED" => result = "LOCK_CONFLICT" \/ ph = "launchFailed"
    /\ d.state \in {"WAITING", "UNKNOWN"} \cup Outcomes
    /\ d.status = "UNKNOWN" => d.state = "UNKNOWN"
    /\ d.state \in {"WAITING", "FAILED", "CANCELLED"} => d.status \in {"FAILED", "CANCELLED"}

\* The decision of execute: an outcome is the one the job had, PREPARE_FAILED
\* means that it was not launched or did not get its lock.
LEMMA DecisionTells ==
  ASSUME NEW result, NEW marker, NEW ph, NEW d,
         d = Decision(result, TRUE, marker, ph = "launchFailed")
  PROVE  DecisionOK(d, result, ph)
  <1>1. CASE result \in Outcomes
    <2>1. d = [status |-> result, code |-> "RESULT", state |-> result]
      BY <1>1 DEF Decision
    <2>2. d.status = result /\ d.code = "RESULT" /\ d.state = result
      BY ONLY <2>1
    <2>3. QED
      BY <1>1, <2>2 DEF DecisionOK, Code, Outcomes
  <1>2. CASE result \notin Outcomes /\ (result = "LOCK_CONFLICT" \/
               DecideMissingResult(TRUE, marker = "started", ph = "launchFailed" /\ marker # "error")
                  = "NOT_EXECUTED")
    <2>1. d = [status |-> "CANCELLED", code |-> "PREPARE_FAILED", state |-> "WAITING"]
      BY <1>2 DEF Decision
    <2>2. result = "LOCK_CONFLICT" \/ ph = "launchFailed"
      BY <1>2 DEF DecideMissingResult
    <2>3. d.status = "CANCELLED" /\ d.code = "PREPARE_FAILED" /\ d.state = "WAITING"
      BY ONLY <2>1
    <2>4. QED
      BY <2>2, <2>3 DEF DecisionOK, Code, Outcomes
  <1>3. CASE result \notin Outcomes /\ ~(result = "LOCK_CONFLICT" \/
               DecideMissingResult(TRUE, marker = "started", ph = "launchFailed" /\ marker # "error")
                  = "NOT_EXECUTED")
    <2>1. d = [status |-> "UNKNOWN", code |-> "NO_VALID_RESULT", state |-> "UNKNOWN"]
      BY <1>3 DEF Decision
    <2>2. d.status = "UNKNOWN" /\ d.code = "NO_VALID_RESULT" /\ d.state = "UNKNOWN"
      BY ONLY <2>1
    <2>3. QED
      BY <2>2 DEF DecisionOK, Code, Outcomes
  <1>4. QED
    BY <1>1, <1>2, <1>3

\* The result is classified and the attempt finalized.
LEMMA ClassifyKeeps ==
  ASSUME IInv, ClassifyAndFinalize
  PROVE  IInv'
  <1>1. /\ Types /\ Bounds /\ WorkOK /\ inv.pc = "classify" /\ node = "RUNNING"
        /\ attempts[Last].started /\ proc[Last].phase # "none"
        /\ ~inv.forced => proc[Last].phase \in {"launchFailed", "ended"}
        /\ UNCHANGED <<world, run, proc>> /\ UsedKept
    BY FaultCounts DEF IInv, WorkOK, AtAttempt, ClassifyAndFinalize
  <1>2. /\ Last \in Nat /\ Last > 0 /\ Last \in 1..Last /\ Last \in Attempt
        /\ attempts[Last] \in AttemptRecord /\ attempts[Last].status = "RUNNING"
    BY <1>1, AtLast
  <1>3. /\ JobOK(Last) /\ AttemptOK(Last) /\ proc[Last].end \in Ends \cup {None}
        /\ inv.forced \in BOOLEAN /\ attempts[Last].started = TRUE
    BY <1>1, <1>2 DEF IInv, Types, JobRecord, InvRecord, AttemptRecord
  <1>4. PICK file \in Found(proc[Last].end), marker \in {MarkerOf(Last), "error"} :
          LET d == Decision(CheckedResult(file, ExitOf(proc[Last].end), inv.forced),
                            attempts[Last].started, marker,
                            proc[Last].phase = "launchFailed")
          IN Finalize(d.status, d.state, d.code)
    BY DEF ClassifyAndFinalize
  <1> DEFINE result == CheckedResult(file, ExitOf(proc[Last].end), inv.forced)
             ph == proc[Last].phase
             d == Decision(result, TRUE, marker, ph = "launchFailed")
  <1>5. Finalize(d.status, d.state, d.code)
    BY <1>3, <1>4
  <1>6. /\ result \in Outcomes => result = proc[Last].end
        /\ result = "LOCK_CONFLICT" => proc[Last].end = "conflict"
    <2>1. CASE inv.forced = TRUE
      BY <2>1 DEF CheckedResult, Outcomes
    <2>2. CASE inv.forced = FALSE
      BY <1>3, <2>2, ResultTells
    <2>3. QED
      BY <1>3, <2>1, <2>2
  <1>7. ph = proc[Last].phase
    OBVIOUS
  <1> HIDE DEF result, ph
  <1>15. DecisionOK(d, result, ph)
    <2>1. d = Decision(result, TRUE, marker, ph = "launchFailed")
      OBVIOUS
    <2> HIDE DEF d
    <2>2. QED
      BY ONLY <2>1, DecisionTells
  <1> HIDE DEF d
  <1>8. /\ d.status \in Outcomes \cup {"UNKNOWN"} /\ d.code \in Code
        /\ d.code = "RESULT" => d.status = result /\ result \in Outcomes
        /\ d.status = "SUCCESS" => d.code = "RESULT"
        /\ d.code = "PREPARE_FAILED" => result = "LOCK_CONFLICT" \/ ph = "launchFailed"
        /\ d.state \in {"WAITING", "UNKNOWN"} \cup Outcomes
        /\ d.status = "UNKNOWN" => d.state = "UNKNOWN"
        /\ d.state \in {"WAITING", "FAILED", "CANCELLED"} => d.status \in {"FAILED", "CANCELLED"}
    BY <1>15 DEF DecisionOK
  <1> DEFINE r == [attempts[Last] EXCEPT !.status = d.status, !.code = d.code]
  <1>9. attempts' = [attempts EXCEPT ![Last] = r] /\ node' = d.state /\ EndInvocation
    BY <1>5 DEF Finalize
  <1>10. /\ r \in AttemptRecord /\ r.status = d.status /\ r.code = d.code
         /\ r.base = attempts[Last].base
    BY <1>2, <1>8 DEF AttemptRecord, AttemptStatus
  <1> HIDE DEF r
  <1>11. attempts'[Last] = r /\ Last' = Last
    BY <1>1, <1>2, <1>9, <1>10, SetLast
  <1>12. AttemptOK(Last)'
    <2>1. d.code = "PREPARE_FAILED"
             => proc[Last].phase # "spawned" /\ proc[Last].read = None
      BY <1>3, <1>6, <1>7, <1>8, PinnedRunAssumption DEF JobOK, Ends
    <2>2. attempts[Last].base = proc[Last].want
      BY <1>1, <1>2, <1>3 DEF AttemptOK
    <2>3. d.status # "RUNNING"
      BY <1>8 DEF Outcomes
    <2>4. d.code = "RESULT" => proc[Last].end = d.status
      BY <1>6, <1>8
    <2>5. QED
      BY <1>1, <1>8, <1>10, <1>11, <2>1, <2>2, <2>3, <2>4 DEF AttemptOK
  <1>13. node' \in NodeStatus \ {"RUNNING"} /\ inv' \in InvRecord
    BY <1>1, <1>8, <1>9, IdleInv DEF NodeStatus, AttemptStatus, Outcomes, EndInvocation
  <1>14. QED
    BY <1>1, <1>8, <1>9, <1>10, <1>12, <1>13, EndAttempt

\* The kill of the job fails: its attempt is given up as not launched.
LEMMA KillFailsKeeps ==
  ASSUME IInv, KillFails
  PROVE  IInv'
  <1>1. /\ Types /\ Bounds /\ WorkOK /\ node = "RUNNING" /\ attempts[Last].started
        /\ proc[Last].phase = "spawned" /\ UNCHANGED <<world, run>> /\ UsedKept
        /\ proc' = [proc EXCEPT ![Last].unkilled = TRUE]
    BY FaultCounts DEF IInv, WorkOK, AtAttempt, KillFails
  <1>2. /\ Last \in Nat /\ Last > 0 /\ Last \in 1..Last /\ Last \in Attempt
        /\ attempts[Last] \in AttemptRecord /\ attempts[Last].status = "RUNNING"
    BY <1>1, AtLast
  <1>3. /\ JobOK(Last) /\ AttemptOK(Last) /\ proc[Last].read = None
        /\ attempts[Last].started = TRUE
    BY <1>1, <1>2 DEF IInv, JobOK, AttemptRecord
  <1>4. Finalize("CANCELLED", "WAITING", "PREPARE_FAILED")
    <2>1. PICK d : /\ d = Decision(CheckedResult(NoFile, NoExit, FALSE), attempts[Last].started,
                                   MarkerOf(Last), TRUE)
                   /\ Finalize(d.status, d.state, d.code)
      BY DEF KillFails
    <2>2. CheckedResult(NoFile, NoExit, FALSE) = "NO_RESULT"
      BY DEF CheckedResult, ClassifyResult, NoFile
    <2>3. MarkerOf(Last) = "none"
      BY <1>3 DEF MarkerOf
    <2>4. d = Decision("NO_RESULT", TRUE, "none", TRUE)
      BY <1>3, <2>1, <2>2, <2>3
    <2>5. d = [status |-> "CANCELLED", code |-> "PREPARE_FAILED", state |-> "WAITING"]
      BY <2>4 DEF Decision, DecideMissingResult, Outcomes
    <2>6. d.status = "CANCELLED" /\ d.code = "PREPARE_FAILED" /\ d.state = "WAITING"
      BY ONLY <2>5
    <2>7. QED
      BY <2>1, <2>6
  <1> DEFINE r == [attempts[Last] EXCEPT !.status = "CANCELLED", !.code = "PREPARE_FAILED"]
  <1>5. attempts' = [attempts EXCEPT ![Last] = r] /\ node' = "WAITING" /\ EndInvocation
    BY <1>4 DEF Finalize
  <1>6. /\ r \in AttemptRecord /\ r.status = "CANCELLED" /\ r.code = "PREPARE_FAILED"
        /\ r.base = attempts[Last].base
    BY <1>2 DEF AttemptRecord, AttemptStatus, Code, Outcomes
  <1> HIDE DEF r
  <1>7. attempts'[Last] = r /\ Last' = Last
    BY <1>1, <1>2, <1>5, <1>6, SetLast
  <1>8. proc'[Last].unkilled = TRUE /\ proc'[Last].want = proc[Last].want
    BY <1>1, <1>2 DEF Types, JobRecord
  <1>9. AttemptOK(Last)'
    <2>1. attempts[Last].base = proc[Last].want
      BY <1>1, <1>2, <1>3 DEF AttemptOK
    <2>2. QED
      BY <1>6, <1>7, <1>8, <2>1 DEF AttemptOK
  <1>10. node' \in NodeStatus \ {"RUNNING"} /\ inv' \in InvRecord
    BY <1>1, <1>5, IdleInv DEF NodeStatus, EndInvocation
  <1>11. QED
    BY <1>1, <1>5, <1>6, <1>9, <1>10, EndAttempt

-----------------------------------------------------------------------------
(* The job and the others *)

\* A job begins, ends or dies.
LEMMA JobMoves ==
  ASSUME IInv, NEW k \in Attempt, NEW j \in JobRecord, proc' = [proc EXCEPT ![k] = j],
         UNCHANGED <<world, run, node, attempts, inv>>, UsedKept,
         proc[k].phase \in {"spawned", "executing"}, j.phase \in {"executing", "ended"},
         j.mode = proc[k].mode, j.net = proc[k].net, j.sql = proc[k].sql,
         j.began = proc[k].began, j.want = proc[k].want, j.unkilled = proc[k].unkilled, JobOK(k)'
  PROVE  IInv'
  <1>1. /\ Types /\ Bounds /\ RunOK /\ ProfileOK /\ SqlOK /\ WorkOK /\ KnownOK /\ Last' = Last
        /\ JobOK(k) /\ Last \in Nat
    BY Numbers DEF IInv, Last
  <1>2. /\ proc' \in [Attempt -> JobRecord] /\ proc'[k] = j
        /\ \A l \in Attempt : l # k => proc'[l] = proc[l]
    BY <1>1 DEF Types
  <1>3. /\ proc[k] # NoProc /\ k \in 1..Last /\ proc[k].want # None
        /\ proc[k].end = None
    BY <1>1, PinnedRunAssumption DEF JobOK, NoProc, Attempt
  <1>4. Types'
    BY <1>1, <1>2 DEF Types, UsedKept
  <1>5. Bounds'
    BY <1>1 DEF Bounds, UsedKept
  <1>6. RunOK'
    BY <1>1 DEF RunOK
  <1>7. ProfileOK' /\ SqlOK' /\ KnownOK'
    BY <1>1 DEF ProfileOK, SqlOK, KnownOK
  <1>8. WorkOK'
    <2>1. CASE k = Last
      BY <1>1, <1>2, <1>3, <2>1 DEF WorkOK
    <2>2. CASE k # Last /\ Last \in Attempt
      BY <1>1, <1>2, <2>2 DEF WorkOK
    <2>3. Last \in Attempt
      BY <1>1, <1>3, Places
    <2>4. QED
      BY <2>1, <2>2, <2>3
  <1>9. ASSUME NEW l \in Attempt PROVE JobOK(l)'
    <2>1. CASE l # k
      BY <1>1, <1>2, <2>1 DEF IInv, JobOK
    <2>2. QED
      BY <2>1
  <1>10. \A l \in 1..Last' : AttemptOK(l)'
    <2>1. AttemptOK(k)'
      <3>1. AttemptOK(k)
        BY <1>3 DEF IInv
      <3>2. attempts[k].code = "PREPARE_FAILED" => proc[k].unkilled
        BY <1>1, <1>3, <3>1 DEF AttemptOK, JobOK
      <3>3. ~(attempts[k].code = "RESULT" /\ attempts[k].status \in Outcomes)
        BY <1>3, <3>1, PinnedRunAssumption DEF AttemptOK, Ends
      <3>4. QED
        BY <1>2, <3>1, <3>2, <3>3 DEF AttemptOK
    <2>2. ASSUME NEW l \in 1..Last, l # k PROVE AttemptOK(l)'
      BY <1>1, <1>2, <2>2, AttemptKept, Places DEF IInv
    <2>3. QED
      BY <1>1, <2>1, <2>2
  <1>11. ASSUME used.repairs = 0 PROVE PinOK'
    <2>1. PinOK
      BY <1>11 DEF IInv
    <2>2. \A l \in 1..Last : Bytes(l)' = Bytes(l)
      BY <1>1, <1>2, Places DEF Bytes
    <2>3. QED
      BY <1>1, <2>1, <2>2 DEF PinOK
  <1>12. QED
    BY <1>4, <1>5, <1>6, <1>7, <1>8, <1>9, <1>10, <1>11 DEF IInv, UsedKept

\* The job reads its input and begins, or is refused.
LEMMA JobBeginsKeeps ==
  ASSUME IInv, NEW k \in Attempt, JobBegins(k)
  PROVE  IInv'
  <1>1. /\ Types /\ JobOK(k) /\ proc[k] \in JobRecord /\ proc[k].phase = "spawned"
        /\ UNCHANGED <<world, run, node, attempts, inv, used>> /\ UsedKept /\ Last' = Last
    BY Numbers, FaultCounts DEF IInv, JobBegins, Last
  <1>2. /\ proc[k].want \in Content /\ proc[k].want # None /\ proc[k].read = None
        /\ proc[k] # NoProc
    BY <1>1, PinnedRunAssumption DEF JobOK, NoProc
  <1>3. CASE /\ proc' = [proc EXCEPT ![k].phase = "executing", ![k].read = world.file,
                                     ![k].prof = world.prof]
             /\ world.file = proc[k].want
    <2> DEFINE j == [proc[k] EXCEPT !.phase = "executing", !.read = world.file,
                                    !.prof = world.prof]
    <2>1. proc' = [proc EXCEPT ![k] = j]
      BY <1>3
    <2>2. world.prof \in Version
      BY <1>1, Numbers
    <2>3. /\ j \in JobRecord /\ j.phase = "executing" /\ j.read = proc[k].want
          /\ j.prof = world.prof /\ j.end = proc[k].end /\ j.mode = proc[k].mode
          /\ j.net = proc[k].net /\ j.sql = proc[k].sql /\ j.began = proc[k].began
          /\ j.want = proc[k].want /\ j.unkilled = proc[k].unkilled
      BY <1>1, <1>2, <1>3, <2>2 DEF JobRecord, JobPhase
    <2> HIDE DEF j
    <2>4. proc'[k] = j
      BY <1>1, <2>1 DEF Types
    <2>5. JobOK(k)'
      BY <1>1, <1>2, <2>3, <2>4, PinnedRunAssumption DEF JobOK, Ends
    <2>6. QED
      BY <1>1, <2>1, <2>3, <2>5, JobMoves
  <1>4. ASSUME NEW e \in {"refused", "conflict"},
               proc' = [proc EXCEPT ![k].phase = "ended", ![k].end = e]
        PROVE  IInv'
    <2> DEFINE j == [proc[k] EXCEPT !.phase = "ended", !.end = e]
    <2>1. proc' = [proc EXCEPT ![k] = j]
      BY <1>4
    <2>2. /\ j \in JobRecord /\ j.phase = "ended" /\ j.read = None
          /\ j.prof = proc[k].prof /\ j.end = e /\ j.mode = proc[k].mode
          /\ j.net = proc[k].net /\ j.sql = proc[k].sql /\ j.began = proc[k].began
          /\ j.want = proc[k].want /\ j.unkilled = proc[k].unkilled
      BY <1>1, <1>2 DEF JobRecord, JobPhase, Ends
    <2> HIDE DEF j
    <2>3. proc'[k] = j
      BY <1>1, <2>1 DEF Types
    <2>4. JobOK(k)'
      BY <1>1, <1>2, <2>2, <2>3, PinnedRunAssumption DEF JobOK, Ends, Outcomes
    <2>5. QED
      BY <1>1, <2>1, <2>2, <2>4, JobMoves
  <1>5. QED
    BY <1>3, <1>4 DEF JobBegins

\* The job ends by itself, or dies.
LEMMA JobEndsKeeps ==
  ASSUME IInv, NEW k \in Attempt, JobDies(k) \/ \E o \in Outcomes : JobEnds(k, o)
  PROVE  IInv'
  <1>1. /\ Types /\ JobOK(k) /\ proc[k] \in JobRecord
        /\ proc[k].phase \in {"spawned", "executing"}
        /\ UNCHANGED <<world, run, node, attempts, inv>> /\ UsedKept /\ Last' = Last
    BY Numbers, FaultCounts DEF IInv, JobEnds, JobDies, Last
  <1>2. PICK e \in Outcomes \cup {"died"} :
          /\ proc' = [proc EXCEPT ![k].phase = "ended", ![k].end = e]
          /\ e \in Outcomes => proc[k].phase = "executing"
    BY DEF JobEnds, JobDies, Outcomes
  <1>3. /\ proc[k].want \in Content /\ proc[k].want # None /\ proc[k] # NoProc
    BY <1>1, PinnedRunAssumption DEF JobOK, NoProc
  <1> DEFINE j == [proc[k] EXCEPT !.phase = "ended", !.end = e]
  <1>4. proc' = [proc EXCEPT ![k] = j]
    BY <1>2
  <1>5. /\ j \in JobRecord /\ j.phase = "ended" /\ j.read = proc[k].read
        /\ j.prof = proc[k].prof /\ j.end = e /\ j.mode = proc[k].mode
        /\ j.net = proc[k].net /\ j.sql = proc[k].sql /\ j.began = proc[k].began
        /\ j.want = proc[k].want /\ j.unkilled = proc[k].unkilled
    BY <1>1 DEF JobRecord, JobPhase, Ends
  <1> HIDE DEF j
  <1>6. proc'[k] = j
    BY <1>1, <1>4 DEF Types
  <1>7. JobOK(k)'
    BY <1>1, <1>2, <1>3, <1>5, <1>6, PinnedRunAssumption DEF JobOK, Ends, Outcomes
  <1>8. QED
    BY <1>1, <1>4, <1>5, <1>7, JobMoves

\* Somebody replaces a file.
LEMMA EditKeeps ==
  ASSUME IInv, Edit
  PROVE  IInv'
  <1>1. /\ Types /\ Bounds /\ RunOK /\ ProfileOK /\ SqlOK /\ WorkOK /\ KnownOK /\ Last' = Last
        /\ UNCHANGED <<run, node, attempts, proc, inv>> /\ used.edits < MaxEdits
        /\ world \in WorldRecord /\ used \in UsedRecord
    BY DEF IInv, Edit, Last, Types
  <1>2. /\ used' \in UsedRecord /\ used'.edits = used.edits + 1
        /\ used'.starts = used.starts /\ used'.repairs = used.repairs
    <2>1. used.edits + 1 \in 0..MaxEdits
      BY <1>1, Numbers
    <2>2. used' = [used EXCEPT !.edits = used.edits + 1]
      BY DEF Edit
    <2>3. QED
      BY <1>1, <2>1, <2>2 DEF UsedRecord
  <1>3. world.net + 1 \in Version /\ world.sql + 1 \in Version /\ world.prof + 1 \in Version
    BY <1>1, Numbers DEF Bounds, Version
  <1>4. /\ world' \in WorldRecord
        /\ world'.net \in {world.net, world.net + 1}
        /\ world'.sql \in {world.sql, world.sql + 1}
        /\ world'.prof \in {world.prof, world.prof + 1}
    <2>1. \/ world' = [world EXCEPT !.net = world.net + 1]
          \/ world' = [world EXCEPT !.sql = world.sql + 1]
          \/ world' = [world EXCEPT !.prof = world.prof + 1]
          \/ \E c \in Content \cup {None} : world' = [world EXCEPT !.file = c]
      BY DEF Edit
    <2>2. QED
      BY <1>1, <1>3, <2>1 DEF WorldRecord
  <1>5. Types'
    BY <1>1, <1>2, <1>4 DEF Types
  <1>6. Bounds'
    BY <1>1, <1>2, <1>4, Numbers DEF Bounds
  <1>7. RunOK' /\ WorkOK' /\ KnownOK'
    BY <1>1 DEF RunOK, WorkOK, KnownOK
  <1>8. ProfileOK'
    BY <1>1, <1>4, Numbers DEF ProfileOK
  <1>9. SqlOK'
    BY <1>1, <1>4, Numbers DEF SqlOK
  <1>10. ASSUME NEW k \in Attempt PROVE JobOK(k)'
    <2>1. Last' >= Last /\ world'.prof >= world.prof
      BY <1>1, <1>4, Numbers
    <2>2. QED
      BY <1>1, <1>5, <2>1, JobKept DEF IInv
  <1>11. \A k \in 1..Last' : AttemptOK(k)'
    BY <1>1, AttemptKept DEF IInv
  <1>12. used.repairs = 0 => PinOK'
    BY <1>1 DEF IInv, PinOK, Bytes
  <1>13. QED
    BY <1>2, <1>5, <1>6, <1>7, <1>8, <1>9, <1>10, <1>11, <1>12 DEF IInv

\* resolve-node.
LEMMA ResolveNodeKeeps ==
  ASSUME IInv, NEW o \in Outcomes, ResolveNode(o)
  PROVE  IInv'
  <1>1. /\ Types /\ Bounds /\ RunOK /\ ProfileOK /\ SqlOK /\ WorkOK /\ Last' = Last
        /\ UNCHANGED <<world, run, attempts, proc, inv>> /\ used.repairs < MaxRepairs
        /\ used \in UsedRecord /\ inv.pc = "idle" /\ node' = o
    BY DEF IInv, ResolveNode, Last, Types
  <1>2. /\ used' \in UsedRecord /\ used'.edits = used.edits
        /\ used'.starts = used.starts /\ used'.repairs # 0
    <2>1. used.repairs + 1 \in 0..MaxRepairs /\ used.repairs + 1 # 0
      BY <1>1, Numbers
    <2>2. used' = [used EXCEPT !.repairs = used.repairs + 1]
      BY DEF ResolveNode
    <2>3. QED
      BY <1>1, <2>1, <2>2 DEF UsedRecord
  <1>3. Types'
    BY <1>1, <1>2 DEF Types, NodeStatus, AttemptStatus
  <1>4. Bounds'
    BY <1>1, <1>2 DEF Bounds
  <1>5. RunOK' /\ ProfileOK' /\ SqlOK'
    BY <1>1 DEF RunOK, ProfileOK, SqlOK
  <1>6. WorkOK' /\ KnownOK'
    BY <1>1 DEF WorkOK, KnownOK, AtAttempt, Outcomes
  <1>7. \A k \in Attempt : JobOK(k)'
    BY <1>1 DEF IInv, JobOK
  <1>8. \A k \in 1..Last' : AttemptOK(k)'
    BY <1>1, AttemptKept DEF IInv
  <1>9. QED
    BY <1>2, <1>3, <1>4, <1>5, <1>6, <1>7, <1>8 DEF IInv

-----------------------------------------------------------------------------
(* The theorems *)

\* Every step keeps the invariant.
LEMMA NextKeeps ==
  ASSUME IInv, [Next]_vars
  PROVE  IInv'
  <1>1. CASE EnsureRun
    <2>1. CASE ToolRefuses
      BY <2>1, EndStep, FaultCounts DEF ToolRefuses, Files, IInv
    <2>2. CASE BundleRefused
      BY <2>2, EndStep, FaultCounts DEF BundleRefused, Files, IInv
    <2>3. QED
      BY <1>1, <2>1, <2>2, StartKeeps, ReadsKeep, ReadSqlAgainKeeps, CheckProfileKeeps,
         EnsureNodeStatesKeeps, VerifyBaselinesKeeps DEF EnsureRun
  <1>2. CASE Scheduler
    BY <1>2, AdjudicateKeeps, PrepareResumeStatesKeeps, CreateAttemptKeeps,
       ResolveNodeInputsKeeps, PathRejectedKeeps, NotesKeep DEF Scheduler
  <1>3. CASE Executor
    BY <1>3, NotesKeep, SpawnKeeps, WaitKeeps, ClassifyKeeps, KillFailsKeeps DEF Executor
  <1>4. CASE JobStep
    BY <1>4, JobBeginsKeeps, JobEndsKeeps DEF JobStep
  <1>5. CASE Others
    <2>1. CASE Crash
      BY <2>1, EndStep, FaultCounts DEF Crash, Files, IInv
    <2>2. QED
      BY <1>5, <2>1, EditKeeps, ResolveNodeKeeps DEF Others
  <1>6. CASE UNCHANGED vars
    <2>1. /\ UNCHANGED Files /\ UNCHANGED inv /\ UsedKept /\ inv' \in InvRecord /\ Last' = Last
      BY <1>6, FaultCounts DEF vars, Files, IInv, Types, Last
    <2>2. RunOK' /\ ProfileOK' /\ SqlOK'
      BY <2>1 DEF IInv, RunOK, ProfileOK, SqlOK, Files
    <2>3. WorkOK' /\ KnownOK'
      BY <2>1 DEF IInv, WorkOK, KnownOK, Files
    <2>4. used.repairs = 0 => PinOK'
      BY <2>1 DEF IInv, PinOK, Bytes, Files
    <2>5. inv'.pc \in BeforeAttempt => Last < used.starts
      BY <2>1 DEF IInv, Bounds
    <2>6. QED
      BY <2>1, <2>2, <2>3, <2>4, <2>5, InvStep
  <1>7. QED
    BY <1>1, <1>2, <1>3, <1>4, <1>5, <1>6 DEF Next

\* The invariant holds before the first invocation.
LEMMA InitOK ==
  ASSUME Init
  PROVE  IInv
  <1>1. /\ MaxEdits \in Nat /\ MaxInvocations \in Nat \ {0} /\ MaxRepairs \in Nat
        /\ MaxFaults \in Nat /\ 0 \in Version
    BY PinnedRunAssumption DEF Version
  <1>2. /\ attempts = <<>> /\ Last = 0 /\ attempts \in Seq(AttemptRecord)
    BY DEF Init, Last
  <1>3. /\ world \in WorldRecord /\ world.net = 0 /\ world.sql = 0 /\ world.prof = 0
    <2>1. PICK c \in Content : world = [net |-> 0, sql |-> 0, prof |-> 0, file |-> c]
      <3>1. (CHOOSE c \in Content : TRUE) \in Content
        BY PinnedRunAssumption
      <3>2. QED
        BY <3>1 DEF Init
    <2>2. QED
      BY <1>1, <2>1 DEF WorldRecord
  <1>4. run \in RunRecord /\ ~run.exists
    BY <1>1 DEF Init, NoRun, RunRecord
  <1>5. proc \in [Attempt -> JobRecord] /\ \A k \in Attempt : proc[k] = NoProc
    <2>1. NoProc \in JobRecord
      BY <1>1 DEF NoProc, JobRecord, JobPhase, Modes
    <2>2. QED
      BY <2>1 DEF Init
  <1>6. inv \in InvRecord /\ inv.pc = "idle" /\ inv.mode = "NEW" /\ inv.began = 0
    BY <1>1 DEF Init, Idle, InvRecord, Place, Modes
  <1>7. used \in UsedRecord /\ used.starts = 0 /\ used.edits = 0
    BY <1>1 DEF Init, UsedRecord
  <1>8. node = "none"
    BY DEF Init
  <1>9. Types
    BY <1>2, <1>3, <1>4, <1>5, <1>6, <1>7, <1>8 DEF Types, NodeStatus
  <1>10. Bounds
    BY <1>2, <1>3, <1>6, <1>7 DEF Bounds, BeforeAttempt, BeforeRun
  <1>11. RunOK
    BY <1>2, <1>4, <1>6 DEF RunOK, BeforeAttempt, BeforeRun, AtAttempt, Ready
  <1>12. ProfileOK /\ SqlOK
    BY <1>3, <1>6 DEF ProfileOK, SqlOK, Ready, AtAttempt
  <1>13. WorkOK /\ KnownOK
    BY <1>6, <1>8 DEF WorkOK, KnownOK, AtAttempt
  <1>14. \A k \in Attempt : JobOK(k)
    BY <1>5, PinnedRunAssumption DEF JobOK, NoProc, Ends, Outcomes
  <1>15. PinOK
    BY <1>2, <1>6 DEF PinOK
  <1>16. QED
    BY <1>2, <1>9, <1>10, <1>11, <1>12, <1>13, <1>14, <1>15 DEF IInv

\* The inductive invariant holds in every reachable state, for every number of
\* invocations, repairs, edits and faults.
THEOREM PinnedInvariant == Spec => []IInv
  <1>1. Init => IInv
    BY InitOK
  <1>2. IInv /\ [Next]_vars => IInv'
    BY NextKeeps
  <1>3. QED
    BY <1>1, <1>2, PTL DEF Spec

\* Every variable has its type: there are never more attempts than invocations,
\* nor more versions of a file than edits.
THEOREM PinnedTypes == Spec => []TypeOK
  <1>1. IInv => TypeOK
    <2> SUFFICES ASSUME IInv PROVE TypeOK
      OBVIOUS
    <2>1. Types /\ Bounds /\ WorkOK
      BY DEF IInv
    <2>2. Len(attempts) <= MaxInvocations
      BY <2>1, Numbers DEF Bounds, Last
    <2>3. node = "RUNNING" => Len(attempts) > 0
      BY <2>1 DEF WorkOK, Last
    <2>4. inv.mode \in Modes /\ inv.forced \in BOOLEAN /\ inv.file \in Content \cup {None}
          /\ {inv.def, inv.began, inv.prof, inv.net, inv.sql, inv.seen} \subseteq Version
      BY <2>1 DEF Types, InvRecord
    <2>5. inv.pc \in Place
      BY <2>1 DEF Types, InvRecord
    <2>6. QED
      BY <2>1, <2>2, <2>3, <2>4, <2>5 DEF TypeOK, Types, WorldRecord, RunRecord, NodeStatus,
         AttemptRecord, JobRecord, JobPhase, UsedRecord, Place, BeforeAttempt, BeforeRun, AtAttempt
  <1>2. QED
    BY <1>1, PinnedInvariant, PTL

\* A job executes the SQL that was inspected for the Run and, in a later
\* invocation, the definition its Node State was made from, however often the
\* files are replaced while createNewRun reads them.
THEOREM PinnedRunsAsPinned == Spec => []RunsAsPinned
  <1>1. IInv => RunsAsPinned
    <2> SUFFICES ASSUME IInv, NEW k \in Attempt, Executed(k)
                 PROVE  /\ proc[k].sql = run.seen
                        /\ proc[k].mode # "NEW" => proc[k].net = run.states
      BY DEF RunsAsPinned
    <2>1. JobOK(k) /\ RunOK /\ Last \in Nat /\ k \in Nat \ {0}
      BY Numbers DEF IInv, Attempt
    <2>2. proc[k].phase # "none" /\ k <= Last
      BY <2>1 DEF JobOK, Executed, NoProc
    <2>3. run.exists
      BY <2>1, <2>2 DEF RunOK
    <2>4. QED
      BY <2>1, <2>2, <2>3 DEF JobOK, RunOK
  <1>2. QED
    BY <1>1, PinnedInvariant, PTL

\* A job runs under the profile of the Run, or one that was put in place after
\* its invocation began: assertStoredProfile misses no earlier change.
THEOREM PinnedProfile == Spec => []ProfilePinned
  <1>1. IInv => ProfilePinned
    BY DEF IInv, JobOK, ProfilePinned, Executed
  <1>2. QED
    BY <1>1, PinnedInvariant, PTL

\* All jobs that ran SQL read the same bytes, over any number of crashes,
\* resumes and replaced files, as long as nobody has repaired the Run.
THEOREM PinnedInputs == Spec => []InputsPinned
  <1>1. IInv => InputsPinned
    <2> SUFFICES ASSUME IInv, used.repairs = 0, NEW j \in Attempt, NEW k \in Attempt,
                        Executed(j), Executed(k)
                 PROVE  proc[j].read = proc[k].read
      BY DEF InputsPinned
    <2>1. Last \in Nat /\ PinOK
      BY Numbers DEF IInv
    <2>2. ASSUME NEW l \in Attempt, Executed(l)
          PROVE  l \in 1..Last /\ proc[l].read \in Bytes(l)
      <3>1. JobOK(l) /\ l \in Nat \ {0}
        BY DEF IInv, Attempt
      <3>2. proc[l].read = proc[l].want /\ proc[l].want # None /\ proc[l] # NoProc
        BY <2>2, <3>1 DEF JobOK, Executed, NoProc
      <3>3. QED
        BY <2>1, <3>1, <3>2 DEF JobOK, Bytes
    <2>3. QED
      BY <2>1, <2>2 DEF PinOK
  <1>2. QED
    BY <1>1, PinnedInvariant, PTL

\* While an attempt is RUNNING, its job has read nothing but the bytes its record
\* names: a crash finds the baseline on record.
THEOREM PinnedBaseline == Spec => []BaselineBeforeExecution
  <1>1. IInv => BaselineBeforeExecution
    <2> SUFFICES ASSUME IInv, NEW k \in 1..Last, attempts[k].status = "RUNNING", Executed(k)
                 PROVE  attempts[k].base = proc[k].read
      BY DEF BaselineBeforeExecution
    <2>1. JobOK(k) /\ AttemptOK(k)
      BY Places DEF IInv
    <2>2. proc[k].read = proc[k].want /\ proc[k].phase # "none"
      BY <2>1 DEF JobOK, Executed, NoProc
    <2>3. QED
      BY <2>1, <2>2 DEF AttemptOK
  <1>2. QED
    BY <1>1, PinnedInvariant, PTL

\* An attempt is recorded with an outcome only if its job ended so, with SUCCESS
\* only on the input on record, and as PREPARE_FAILED only if its job ran no SQL, or
\* could not be killed.
THEOREM PinnedResult == Spec => []ResultIsTruthful
  <1>1. IInv => ResultIsTruthful
    <2> SUFFICES ASSUME IInv, NEW k \in 1..Last
                 PROVE  /\ attempts[k].code = "RESULT" /\ attempts[k].status \in Outcomes
                              => proc[k].end = attempts[k].status
                        /\ attempts[k].status = "SUCCESS" => attempts[k].base = proc[k].read
                        /\ attempts[k].code = "PREPARE_FAILED" => ~Executed(k) \/ proc[k].unkilled
      BY DEF ResultIsTruthful
    <2>1. JobOK(k) /\ AttemptOK(k)
      BY Places DEF IInv
    <2>2. ASSUME attempts[k].status = "SUCCESS" PROVE attempts[k].base = proc[k].read
      <3>1. proc[k].end = "SUCCESS"
        BY <2>1, <2>2 DEF AttemptOK, Outcomes
      <3>2. proc[k].read = proc[k].want /\ proc[k].phase # "none"
        BY <2>1, <3>1, PinnedRunAssumption DEF JobOK, Outcomes, Ends
      <3>3. QED
        BY <2>1, <2>2, <3>2 DEF AttemptOK
    <2>3. QED
      BY <2>1, <2>2 DEF AttemptOK, Executed
  <1>2. QED
    BY <1>1, PinnedInvariant, PTL
=============================================================================
