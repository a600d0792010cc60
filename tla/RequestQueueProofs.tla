------------------------- MODULE RequestQueueProofs -------------------------
(***************************************************************************)
(* Proofs about the request queue, for any number of requests, pollers and *)
(* faults and any threshold.                                               *)
(***************************************************************************)
EXTENDS RequestQueue, TLAPS

\* A poller that has claimed a request, and one that writes a result.
Unstarted == {"claimed", "review"}
Holding == Unstarted \cup {"child"}
Ending == {"final", "put", "reget", "put2"}

Serves(p, r) == pol[p].pc \in Holding \cup Ending /\ pol[p].cur.id = r

\* Served by its claimant, not by the recovery of stale claims.
Claimant(p) == pol[p].pc \in Holding \/ (pol[p].pc \in Ending /\ pol[p].res.code # "STALE")

\* A request that has left REQUESTED by a claim or a refusal, for good.
Served(r) == req[r].state \in {"ACCEPTED", "DONE", "REJECTED"}

\* REJECTED with a code that says the operation did not take place.
Certain(res) == res.state = "REJECTED" /\ res.code \notin UncertainCode

\* The operation was not carried out, and no child is left that could.
Quiet(r) == effect[r] \in {"none", "prepared"} /\ child[r].ph \in {"none", "exited"}

\* An envelope of the list still matches its record only if that is REQUESTED.
ListedOK(t) ==
    /\ req[t.id].state # "ABSENT" /\ t.rev <= req[t.id].rev
    /\ t.rev = req[t.id].rev => req[t.id].state = "REQUESTED" /\ t.cancel = req[t.id].cancel

\* A claimant that has started no child finds the request untouched; a result
\* that is about to be written is true.
PollerOK(p) ==
    LET r == pol[p].cur.id
    IN  /\ \A t \in pol[p].todo : ListedOK(t)
        /\ \A a \in pol[p].acc : Served(a.id)
        /\ pol[p].pc \in Holding \cup Ending => r \in Request /\ Served(r)
        /\ pol[p].pc \in Unstarted =>
              starts[r] = 0 /\ child[r].ph = "none" /\ effect[r] = "none" /\ ~Certain(req[r])
        /\ pol[p].pc \in Ending =>
              /\ pol[p].res.state = "DONE" => effect[r] \in {"changed", "found"}
              /\ Certain(pol[p].res) => Quiet(r)

\* The reports of an operation that was carried out, or found carried out.
DoneKind == {"NOOP", "exit0", "ARCHIVED", "ALREADY_ARCHIVED", "invoked"}

\* What a child has done so far.
ChildOK(r) ==
    /\ child[r].ph = "spawned" => effect[r] = "none"
    /\ child[r].ph = "running" => effect[r] = "changed"
    /\ child[r].ph = "exited" =>
          /\ child[r].kind \in ChildKind
          /\ child[r].kind \in DoneKind => effect[r] \in {"changed", "found"}
          /\ child[r].kind \in {"REJECTED", "spawn"} => effect[r] \in {"none", "prepared"}

WithdrawnOK(r) ==
    /\ r \in withdrawn => req[r].cancel /\ req[r].state \in {"REQUESTED", "CANCELLED"}
    /\ req[r].state = "REQUESTED" /\ req[r].cancel => r \in withdrawn
    /\ req[r].state = "CANCELLED" => r \in withdrawn
    /\ req[r].state = "ABSENT" => ~req[r].cancel

RequestOK(r) ==
    /\ ~Served(r) => starts[r] = 0 /\ child[r].ph = "none" /\ effect[r] = "none"
    /\ starts[r] <= 1 /\ (req[r].state # "ABSENT" => req[r].type \in RequestType)
    /\ ChildOK(r) /\ WithdrawnOK(r)
    /\ req[r].state = "DONE" => effect[r] \in {"changed", "found"}
    /\ Certain(req[r]) => Quiet(r)

\* A request has one claimant.
OneClaimant ==
    \A p, q \in Poller : p # q /\ Claimant(p) /\ Claimant(q) => pol[p].cur.id # pol[q].cur.id

\* What a poller writes at the end.
Result == [state : {"DONE", "REJECTED"}, code : ResultCode \cup {None}]

IInv ==
    /\ TypeOK /\ OneClaimant
    /\ \A p \in Poller : PollerOK(p)
    /\ \A r \in Request : RequestOK(r)
-----------------------------------------------------------------------------
(* What a step does to a request and to a poller that does not take it.     *)

\* A record goes forward: a write raises its revision, a request that was
\* served stays so, and what was done is not undone.
Forward(r) ==
    /\ req[r].state # "ABSENT" =>
          /\ req'[r].state # "ABSENT" /\ req[r].rev <= req'[r].rev
          /\ req'[r].rev = req[r].rev =>
                req'[r].state = req[r].state /\ req'[r].cancel = req[r].cancel
    /\ Served(r) => req'[r].state \in {"ACCEPTED", "DONE", "REJECTED"}
    /\ effect[r] \in {"changed", "found"} => effect'[r] \in {"changed", "found"}

Stays(p) ==
    /\ pol'[p].pc = pol[p].pc /\ pol'[p].todo = pol[p].todo /\ pol'[p].acc = pol[p].acc
    /\ pol'[p].cur = pol[p].cur /\ pol'[p].res = pol[p].res

\* What the step must leave alone for a poller that serves r.
LeavesAlone(p, r) ==
    /\ pol[p].pc \in Unstarted =>
          /\ starts'[r] = 0 /\ child'[r].ph = "none" /\ effect'[r] = "none"
          /\ ~Certain(req'[r])
    /\ pol[p].pc \in Ending /\ Certain(pol[p].res) =>
          effect'[r] \in {"none", "prepared"} /\ child'[r].ph \in {"none", "exited"}

\* The fields of a poller.
LEMMA PollerTypes ==
  ASSUME TypeOK, NEW p \in Poller
  PROVE  /\ pol[p] \in PollerRecord
         /\ \A t \in pol[p].todo : t.id \in Request /\ t.rev \in Nat /\ t.cancel \in BOOLEAN
                                   /\ t \in [id : Request, rev : Nat, cancel : BOOLEAN]
         /\ \A a \in pol[p].acc : a.id \in Request /\ a.rev \in Nat
                                  /\ a \in [id : Request, rev : Nat]
         /\ pol[p].cur \in [id : Request \cup {0}, rev : Nat]
         /\ pol[p].res \in [state : {"DONE", "REJECTED"}, code : ResultCode \cup {None}]
         /\ pol[p].pc \in PollerPhase
  <1>1. pol[p] \in PollerRecord
    BY DEF TypeOK
  <1>2. QED
    BY <1>1 DEF PollerRecord

\* A poller that takes no step keeps what it knows.
LEMMA PollerKept ==
  ASSUME TypeOK, NEW p \in Poller, PollerOK(p), Stays(p), \A r \in Request : Forward(r),
         LeavesAlone(p, pol[p].cur.id), \A r \in Request : req'[r].rev \in Nat /\ req[r].rev \in Nat
  PROVE  PollerOK(p)'
  <1> DEFINE r == pol[p].cur.id
  <1>1. ASSUME NEW t \in pol[p].todo PROVE ListedOK(t)'
    <2>1. t.id \in Request /\ t.rev \in Nat /\ ListedOK(t)
      BY <1>1, PollerTypes DEF PollerOK
    <2>2. Forward(t.id) /\ req'[t.id].rev \in Nat /\ req[t.id].rev \in Nat
      BY <2>1
    <2>3. QED
      BY <2>1, <2>2 DEF ListedOK, Forward
  <1>2. \A a \in pol[p].acc : Served(a.id)'
    BY PollerTypes DEF PollerOK, Forward, Served
  <1>3. pol[p].pc \in Holding \cup Ending =>
            r \in Request /\ req'[r].state \in {"ACCEPTED", "DONE", "REJECTED"}
    BY DEF PollerOK, Forward, Served
  <1>4. pol[p].pc \in Unstarted =>
          starts'[r] = 0 /\ child'[r].ph = "none" /\ effect'[r] = "none" /\ ~Certain(req'[r])
    BY DEF LeavesAlone
  <1>5. pol[p].pc \in Ending =>
              /\ pol[p].res.state = "DONE" => effect'[r] \in {"changed", "found"}
              /\ Certain(pol[p].res) =>
                    effect'[r] \in {"none", "prepared"} /\ child'[r].ph \in {"none", "exited"}
    BY <1>3 DEF LeavesAlone, PollerOK, Forward
  <1>6. QED
    BY <1>1, <1>2, <1>3, <1>4, <1>5 DEF PollerOK, Stays, Served, Certain, Quiet, ListedOK

\* A step of one poller leaves the others where they are.
Moved(p) == pol' \in [Poller -> PollerRecord] /\ \A q \in Poller \ {p} : pol'[q] = pol[q]

\* A step of one poller changes that poller only.
LEMMA PollerMoves ==
  ASSUME TypeOK, NEW p \in Poller, NEW e \in PollerRecord, pol' = [pol EXCEPT ![p] = e]
  PROVE  Moved(p) /\ pol'[p] = e
  BY DEF TypeOK, Moved

\* putRecordById: the revision is raised by one.
LEMMA PutMoves ==
  ASSUME TypeOK, NEW r \in Request, NEW rec \in RequestRecord, Put(r, rec)
  PROVE  /\ req' \in [Request -> RequestRecord]
         /\ \A q \in Request \ {r} : req'[q] = req[q]
         /\ req'[r].rev = rec.rev + 1 /\ req'[r].state = rec.state /\ req'[r].code = rec.code
         /\ req'[r].cancel = rec.cancel /\ req'[r].type = rec.type
         /\ req'[r].age = rec.age
  <1> DEFINE n == rec.rev + 1
             e == [rec EXCEPT !.rev = n]
  <1>1. n \in Nat
    BY DEF RequestRecord
  <1>2. req' = [req EXCEPT ![r] = e]
    BY DEF Put
  <1> HIDE DEF n
  <1>3. e \in RequestRecord /\ e.rev = n /\ e.state = rec.state /\ e.code = rec.code
        /\ e.cancel = rec.cancel /\ e.type = rec.type /\ e.age = rec.age
    BY <1>1 DEF RequestRecord
  <1>4. req \in [Request -> RequestRecord]
    BY DEF TypeOK
  <1> HIDE DEF e
  <1>5. req'[r] = e /\ req' \in [Request -> RequestRecord]
        /\ \A q \in Request \ {r} : req'[q] = req[q]
    BY <1>2, <1>3, <1>4
  <1>6. QED
    BY <1>3, <1>5 DEF n

\* A child that lives on, but for its count of heartbeats.
ChildrenStay ==
    /\ child' \in [Request -> ChildRecord]
    /\ \A r \in Request : child'[r].ph = child[r].ph /\ child'[r].kind = child[r].kind

\* The poller remains the claimant it was, or claims a request nobody serves.
ClaimKept(p) ==
    pol'[p].pc \in Holding \/ (pol'[p].pc \in Ending /\ pol'[p].res.code # "STALE") =>
        \/ Claimant(p) /\ pol'[p].cur.id = pol[p].cur.id
        \/ pol'[p].cur.id \in Request /\ ~Served(pol'[p].cur.id)

\* A step that claims nothing leaves one claimant per request.
LEMMA ClaimantsStay ==
  ASSUME IInv, NEW p \in Poller, Moved(p), ClaimKept(p)
  PROVE  OneClaimant'
  <1>1. \A q \in Poller : Claimant(q) => Served(pol[q].cur.id)
    BY DEF IInv, PollerOK, Claimant
  <1>2. \A q \in Poller \ {p} : pol'[q] = pol[q]
    BY DEF Moved
  <1>3. \A q \in Poller : q # p /\ Claimant(p)' /\ Claimant(q)' => pol'[p].cur.id # pol'[q].cur.id
    BY <1>1, <1>2 DEF IInv, OneClaimant, ClaimKept, Claimant
  <1>4. QED
    BY <1>2, <1>3 DEF IInv, OneClaimant, Claimant

\* RequestOK looks at the type, the state, the flag and the code of a record only.
LEMMA RequestKept ==
  ASSUME NEW r \in Request, RequestOK(r), req'[r].state = req[r].state,
         req'[r].cancel = req[r].cancel, req'[r].code = req[r].code,
         req'[r].type = req[r].type,
         starts'[r] = starts[r], effect'[r] = effect[r], child'[r].ph = child[r].ph,
         child'[r].kind = child[r].kind, r \in withdrawn' <=> r \in withdrawn
  PROVE  RequestOK(r)'
  BY DEF RequestOK, ChildOK, WithdrawnOK, Served, Certain, Quiet

\* A step of a poller that writes no record.
LEMMA PollStep ==
  ASSUME IInv, NEW p \in Poller, Moved(p), PollerOK(p)', ClaimKept(p), ChildrenStay,
         UNCHANGED <<req, run, outside, starts, effect, withdrawn>>,
         faults' \in Nat, trouble' \subseteq Request \cup {0}
  PROVE  IInv'
  <1>1. TypeOK'
    BY DEF IInv, TypeOK, Moved, ChildrenStay
  <1>2. OneClaimant'
    BY ClaimantsStay
  <1>3. \A r \in Request : RequestOK(r)'
    BY RequestKept DEF IInv, ChildrenStay
  <1>4. ASSUME NEW q \in Poller, q # p PROVE PollerOK(q)'
    <2>1. PollerOK(q) /\ Stays(q) /\ TypeOK
      BY <1>4 DEF IInv, Moved, Stays
    <2>2. \A r \in Request : Forward(r) /\ req'[r].rev \in Nat /\ req[r].rev \in Nat
      BY <2>1 DEF Forward, Served, TypeOK, RequestRecord
    <2>3. LeavesAlone(q, pol[q].cur.id)
      BY <2>1 DEF LeavesAlone, PollerOK, ChildrenStay, Certain, Quiet, Holding
    <2>4. QED
      BY <2>1, <2>2, <2>3, PollerKept
  <1>5. QED
    BY <1>1, <1>2, <1>3, <1>4 DEF IInv

\* A step of a poller that writes the record of r.
LEMMA PutStep ==
  ASSUME IInv, NEW p \in Poller, Moved(p), PollerOK(p)', ClaimKept(p), ChildrenStay,
         NEW r \in Request,
         req' \in [Request -> RequestRecord],
         \A q \in Request \ {r} : req'[q] = req[q],
         req[r].state # "ABSENT", req'[r].state # "ABSENT", req'[r].rev = req[r].rev + 1,
         Served(r) => req'[r].state \in {"ACCEPTED", "DONE", "REJECTED"},
         RequestOK(r)',
         Certain(req'[r]) => \A q \in Poller : q # p /\ pol[q].pc \in Unstarted
                                               => pol[q].cur.id # r,
         UNCHANGED <<run, outside, starts, effect, withdrawn>>,
         faults' \in Nat, trouble' \subseteq Request \cup {0}
  PROVE  IInv'
  <1>1. TypeOK'
    BY DEF IInv, TypeOK, Moved, ChildrenStay
  <1>2. OneClaimant'
    BY ClaimantsStay
  <1>3. \A q \in Request : RequestOK(q)'
    <2>1. ASSUME NEW q \in Request, q # r PROVE RequestOK(q)'
      <3>1. req'[q] = req[q] /\ RequestOK(q)
        BY <2>1 DEF IInv
      <3>2. QED
        BY <3>1, RequestKept DEF ChildrenStay
    <2>2. QED
      BY <2>1
  <1>4. ASSUME NEW q \in Poller, q # p PROVE PollerOK(q)'
    <2>1. PollerOK(q) /\ Stays(q) /\ TypeOK
      BY <1>4 DEF IInv, Moved, Stays
    <2>2. \A x \in Request : req'[x].rev \in Nat /\ req[x].rev \in Nat
      BY <2>1 DEF TypeOK, RequestRecord
    <2>3. \A x \in Request : Forward(x)
      <3>1. Forward(r)
        BY <2>2 DEF Forward
      <3>2. \A x \in Request \ {r} : Forward(x)
        BY <2>2 DEF Forward, Served
      <3>3. QED
        BY <3>1, <3>2
    <2>4. LeavesAlone(q, pol[q].cur.id)
      <3>1. CASE pol[q].pc \in Unstarted
        <4>1. pol[q].cur.id \in Request /\ ~Certain(req[pol[q].cur.id])
              /\ starts[pol[q].cur.id] = 0 /\ child[pol[q].cur.id].ph = "none"
              /\ effect[pol[q].cur.id] = "none" /\ pol[q].pc \notin Ending
          BY <2>1, <3>1 DEF PollerOK, Unstarted, Holding, Ending
        <4>2. ~Certain(req'[pol[q].cur.id])
          BY <1>4, <3>1, <4>1
        <4>3. QED
          BY <4>1, <4>2 DEF LeavesAlone, ChildrenStay
      <3>2. CASE pol[q].pc \notin Unstarted
        BY <2>1, <3>2 DEF LeavesAlone, PollerOK, ChildrenStay, Quiet
      <3>3. QED
        BY <3>1, <3>2
    <2>5. QED
      BY <2>1, <2>2, <2>3, <2>4, PollerKept
  <1>5. QED
    BY <1>1, <1>2, <1>3, <1>4 DEF IInv

\* A step of the child of r, or one that ends it.
LEMMA ChildMoves ==
  ASSUME IInv, NEW r \in Request, child[r].ph # "none",
         child' \in [Request -> ChildRecord], \A q \in Request \ {r} : child'[q] = child[q],
         effect' \in [Request -> {"none", "found", "prepared", "changed"}],
         \A q \in Request \ {r} : effect'[q] = effect[q],
         effect[r] \in {"changed", "found"} => effect'[r] \in {"changed", "found"},
         Quiet(r) => Quiet(r)', RequestOK(r)',
         UNCHANGED <<req, pol, outside, starts, withdrawn>>,
         run' \in RunRecord, faults' \in Nat, trouble' \subseteq Request \cup {0}
  PROVE  IInv'
  <1>1. TypeOK' /\ TypeOK
    BY DEF IInv, TypeOK
  <1>2. OneClaimant'
    BY DEF IInv, OneClaimant, Claimant
  <1>3. \A q \in Request : RequestOK(q)'
    BY RequestKept DEF IInv
  <1>4. ASSUME NEW q \in Poller PROVE PollerOK(q)'
    <2>1. PollerOK(q) /\ Stays(q)
      BY <1>4 DEF IInv, Stays
    <2>2. \A x \in Request : Forward(x) /\ req'[x].rev \in Nat /\ req[x].rev \in Nat
      BY <1>1 DEF Forward, Served, TypeOK, RequestRecord
    <2>3. LeavesAlone(q, pol[q].cur.id)
      BY <2>1 DEF LeavesAlone, PollerOK, Certain, Quiet, Holding
    <2>4. QED
      BY <1>1, <2>1, <2>2, <2>3, PollerKept
  <1>5. QED
    BY <1>1, <1>2, <1>3, <1>4 DEF IInv
-----------------------------------------------------------------------------
(* The steps of a poller that write nothing.                                *)

\* The fault counter.
LEMMA Faults == TypeOK => (Fault => faults' \in Nat) /\ (NoFault => faults' \in Nat)
  BY DEF TypeOK, Fault, NoFault

\* A poller that serves no request any more, or not yet.
LEMMA RestStep ==
  ASSUME IInv, NEW p \in Poller, Moved(p), pol'[p].pc \notin Holding \cup Ending,
         \A t \in pol'[p].todo : ListedOK(t), \A a \in pol'[p].acc : Served(a.id),
         UNCHANGED <<req, run, child, outside, starts, effect, withdrawn>>,
         faults' \in Nat, trouble' \subseteq Request \cup {0}
  PROVE  IInv'
  <1>1. PollerOK(p)'
    BY DEF PollerOK, ListedOK, Served, Holding, Ending
  <1>2. ClaimKept(p)
    BY DEF ClaimKept
  <1>3. ChildrenStay
    BY DEF ChildrenStay, IInv, TypeOK
  <1>4. QED
    BY <1>1, <1>2, <1>3, PollStep

\* A poller that goes on with the result it has.
LEMMA EndingStep ==
  ASSUME IInv, NEW p \in Poller, Moved(p), pol[p].pc \in Ending, pol'[p].pc \in Ending,
         pol'[p].todo = pol[p].todo, pol'[p].acc = pol[p].acc,
         pol'[p].cur.id = pol[p].cur.id, pol'[p].res = pol[p].res,
         UNCHANGED <<req, run, child, outside, starts, effect, withdrawn>>,
         faults' \in Nat, trouble' \subseteq Request \cup {0}
  PROVE  IInv'
  <1>1. PollerOK(p)
    BY DEF IInv
  <1>2. PollerOK(p)'
    BY <1>1 DEF PollerOK, ListedOK, Served, Holding, Unstarted, Ending, Certain, Quiet
  <1>3. ClaimKept(p)
    BY DEF ClaimKept, Claimant, Holding, Unstarted, Ending
  <1>4. ChildrenStay
    BY DEF ChildrenStay, IInv, TypeOK
  <1>5. QED
    BY <1>2, <1>3, <1>4, PollStep

\* A claimant that comes to a result, or to its child's end.
LEMMA ResultStep ==
  ASSUME IInv, NEW p \in Poller, Moved(p), pol[p].pc \in Holding, pol'[p].pc \in Ending,
         pol'[p].todo = pol[p].todo, pol'[p].acc = pol[p].acc,
         pol'[p].cur.id = pol[p].cur.id,
         pol'[p].res.state = "DONE" => effect[pol[p].cur.id] \in {"changed", "found"},
         Certain(pol'[p].res) => Quiet(pol[p].cur.id),
         UNCHANGED <<req, run, child, outside, starts, effect, withdrawn>>,
         faults' \in Nat, trouble' \subseteq Request \cup {0}
  PROVE  IInv'
  <1>1. PollerOK(p)
    BY DEF IInv
  <1>2. PollerOK(p)'
    BY <1>1 DEF PollerOK, ListedOK, Served, Holding, Unstarted, Ending, Certain, Quiet
  <1>3. ClaimKept(p)
    BY DEF ClaimKept, Claimant, Holding, Unstarted, Ending
  <1>4. ChildrenStay
    BY DEF ChildrenStay, IInv, TypeOK
  <1>5. QED
    BY <1>2, <1>3, <1>4, PollStep

\* The end of a poll.
Idle == [pc |-> "idle", todo |-> {}, acc |-> {}, cur |-> NoCur, seen |-> NoLock,
         res |-> NoResult, due |-> FALSE]

\* A poller between two polls.
LEMMA IdleType == Idle \in PollerRecord
  BY DEF Idle, PollerRecord, PollerPhase, NoCur, NoLock, NoResult

\* A poll ends and the poller forgets its lists.
LEMMA PollEndsMoves ==
  ASSUME TypeOK, NEW p \in Poller, pol' = PollEnds(p)
  PROVE  Moved(p) /\ pol'[p].pc = "idle" /\ pol'[p].todo = {} /\ pol'[p].acc = {}
  <1>1. pol' = [pol EXCEPT ![p] = Idle]
    BY DEF PollEnds, Idle
  <1>2. Moved(p) /\ pol'[p] = Idle
    BY <1>1, IdleType, PollerMoves
  <1>3. QED
    BY <1>2 DEF Idle

\* A poller goes on with its list.
LEMMA ProceedMoves ==
  ASSUME TypeOK, NEW p \in Poller, Proceed(p)
  PROVE  Moved(p) /\ pol'[p].pc = "recover" /\ pol'[p].todo = pol[p].todo
         /\ pol'[p].acc = pol[p].acc
  <1> DEFINE e == [pol[p] EXCEPT !.pc = "recover", !.cur = NoCur, !.res = NoResult, !.due = FALSE]
  <1>1. pol[p] \in PollerRecord
    BY PollerTypes
  <1>2. NoCur \in [id : Request \cup {0}, rev : Nat]
        /\ NoResult \in [state : {"DONE", "REJECTED"}, code : ResultCode \cup {None}]
    BY DEF NoCur, NoResult
  <1>3. e \in PollerRecord /\ e.pc = "recover" /\ e.todo = pol[p].todo /\ e.acc = pol[p].acc
    BY <1>1, <1>2 DEF PollerRecord, PollerPhase
  <1>4. pol' = [pol EXCEPT ![p] = e]
    BY DEF Proceed
  <1>5. QED
    BY <1>3, <1>4, PollerMoves

\* A poller moves to another phase.
LEMMA GotoMoves ==
  ASSUME TypeOK, NEW p \in Poller, NEW pc \in PollerPhase, Goto(p, pc)
  PROVE  /\ Moved(p) /\ pol'[p].pc = pc /\ pol'[p].todo = pol[p].todo
         /\ pol'[p].acc = pol[p].acc /\ pol'[p].cur = pol[p].cur /\ pol'[p].res = pol[p].res
         /\ pol'[p].due = pol[p].due
  <1> DEFINE e == [pol[p] EXCEPT !.pc = pc]
  <1>1. pol[p] \in PollerRecord
    BY PollerTypes
  <1>2. e \in PollerRecord /\ e.pc = pc /\ e.todo = pol[p].todo /\ e.acc = pol[p].acc
        /\ e.cur = pol[p].cur /\ e.res = pol[p].res /\ e.due = pol[p].due
    BY <1>1 DEF PollerRecord
  <1>3. pol' = [pol EXCEPT ![p] = e]
    BY DEF Goto
  <1>4. QED
    BY <1>2, <1>3, PollerMoves

\* A poller reads the lock.
LEMMA SeeMoves ==
  ASSUME TypeOK, NEW p \in Poller, NEW pc \in PollerPhase, See(p, pc)
  PROVE  /\ Moved(p) /\ pol'[p].pc = pc /\ pol'[p].todo = pol[p].todo
         /\ pol'[p].acc = pol[p].acc /\ pol'[p].cur = pol[p].cur /\ pol'[p].res = pol[p].res
         /\ pol'[p].due = pol[p].due
  <1> DEFINE l == [owner |-> run.owner, fresh |-> run.fresh]
             e == [pol[p] EXCEPT !.pc = pc, !.seen = l]
  <1>1. pol[p] \in PollerRecord
    BY PollerTypes
  <1>2. l \in [owner : Request \cup {None, Outsider}, fresh : BOOLEAN]
    BY DEF TypeOK, RunRecord
  <1>3. pol' = [pol EXCEPT ![p] = e]
    BY DEF See
  <1> HIDE DEF l
  <1>4. e \in PollerRecord /\ e.pc = pc /\ e.todo = pol[p].todo /\ e.acc = pol[p].acc
        /\ e.cur = pol[p].cur /\ e.res = pol[p].res /\ e.due = pol[p].due
    BY <1>1, <1>2 DEF PollerRecord
  <1>5. QED
    BY <1>3, <1>4, PollerMoves

\* The poller reads its record again and goes on with that revision.
LEMMA RevMoves ==
  ASSUME TypeOK, NEW p \in Poller, NEW pc \in PollerPhase, NEW rev \in Nat,
         pol' = [pol EXCEPT ![p] = [@ EXCEPT !.pc = pc, !.cur.rev = rev]]
  PROVE  /\ Moved(p) /\ pol'[p].pc = pc /\ pol'[p].todo = pol[p].todo
         /\ pol'[p].acc = pol[p].acc /\ pol'[p].res = pol[p].res /\ pol'[p].due = pol[p].due
         /\ pol'[p].cur.id = pol[p].cur.id /\ pol'[p].cur.rev = rev
  <1> DEFINE cur == [pol[p].cur EXCEPT !.rev = rev]
             e == [pol[p] EXCEPT !.pc = pc, !.cur = cur]
  <1>1. pol[p] \in PollerRecord /\ pol[p].cur \in [id : Request \cup {0}, rev : Nat]
    BY PollerTypes
  <1>2. cur \in [id : Request \cup {0}, rev : Nat] /\ cur.id = pol[p].cur.id /\ cur.rev = rev
    BY <1>1
  <1>3. pol' = [pol EXCEPT ![p] = e]
    BY <1>1 DEF PollerRecord
  <1> HIDE DEF cur
  <1>4. e \in PollerRecord /\ e.pc = pc /\ e.todo = pol[p].todo /\ e.acc = pol[p].acc
        /\ e.cur = cur /\ e.res = pol[p].res /\ e.due = pol[p].due
    BY <1>1, <1>2 DEF PollerRecord
  <1>5. QED
    BY <1>2, <1>3, <1>4, PollerMoves

\* withHeartbeat: the timer is set again.
LEMMA BeatMoves ==
  ASSUME TypeOK, NEW p \in Poller, NEW rev \in Nat,
         pol' = [pol EXCEPT ![p] = [@ EXCEPT !.due = FALSE, !.cur.rev = rev]]
  PROVE  /\ Moved(p) /\ pol'[p].pc = pol[p].pc /\ pol'[p].todo = pol[p].todo
         /\ pol'[p].acc = pol[p].acc /\ pol'[p].res = pol[p].res /\ pol'[p].due = FALSE
         /\ pol'[p].cur.id = pol[p].cur.id /\ pol'[p].cur.rev = rev
  <1> DEFINE cur == [pol[p].cur EXCEPT !.rev = rev]
             e == [pol[p] EXCEPT !.due = FALSE, !.cur = cur]
  <1>1. pol[p] \in PollerRecord /\ pol[p].cur \in [id : Request \cup {0}, rev : Nat]
    BY PollerTypes
  <1>2. cur \in [id : Request \cup {0}, rev : Nat] /\ cur.id = pol[p].cur.id /\ cur.rev = rev
    BY <1>1
  <1>3. pol' = [pol EXCEPT ![p] = e]
    BY <1>1 DEF PollerRecord
  <1> HIDE DEF cur
  <1>4. e \in PollerRecord /\ e.pc = pol[p].pc /\ e.todo = pol[p].todo /\ e.acc = pol[p].acc
        /\ e.cur = cur /\ e.res = pol[p].res /\ e.due = FALSE
    BY <1>1, <1>2 DEF PollerRecord
  <1>5. QED
    BY <1>2, <1>3, <1>4, PollerMoves

\* The poller takes a child's result.
LEMMA ReportMoves ==
  ASSUME TypeOK, NEW p \in Poller, NEW res \in Result,
         pol' = [pol EXCEPT ![p] = [@ EXCEPT !.pc = "final", !.due = FALSE, !.res = res]]
  PROVE  /\ Moved(p) /\ pol'[p].pc = "final" /\ pol'[p].todo = pol[p].todo
         /\ pol'[p].acc = pol[p].acc /\ pol'[p].cur = pol[p].cur /\ pol'[p].res = res
         /\ pol'[p].due = FALSE
  <1> DEFINE e == [pol[p] EXCEPT !.pc = "final", !.due = FALSE, !.res = res]
  <1>1. pol[p] \in PollerRecord
    BY PollerTypes
  <1>2. e \in PollerRecord /\ e.pc = "final" /\ e.todo = pol[p].todo /\ e.acc = pol[p].acc
        /\ e.cur = pol[p].cur /\ e.res = res /\ e.due = FALSE
    BY <1>1 DEF PollerRecord, PollerPhase, Result
  <1>3. pol' = [pol EXCEPT ![p] = e]
    OBVIOUS
  <1>4. QED
    BY <1>2, <1>3, PollerMoves

\* The poller has claimed a request of its list.
LEMMA ClaimMoves ==
  ASSUME TypeOK, NEW p \in Poller, NEW t, t.id \in Request, t.rev \in Nat,
         pol' = [pol EXCEPT ![p] = [@ EXCEPT !.pc = "claimed", !.todo = Rest(p, t), !.due = FALSE,
                                             !.cur = [id |-> t.id, rev |-> t.rev + 1]]]
  PROVE  /\ Moved(p) /\ pol'[p].pc = "claimed" /\ pol'[p].todo \subseteq pol[p].todo
         /\ pol'[p].acc = pol[p].acc /\ pol'[p].due = FALSE
         /\ pol'[p].cur.id = t.id /\ pol'[p].cur.rev = t.rev + 1
  <1> DEFINE b == Rest(p, t)
             n == t.rev + 1
             cur == [id |-> t.id, rev |-> n]
             e == [pol[p] EXCEPT !.pc = "claimed", !.todo = b, !.due = FALSE, !.cur = cur]
  <1>1. pol[p] \in PollerRecord
    BY PollerTypes
  <1>2. b \in SUBSET [id : Request, rev : Nat, cancel : BOOLEAN] /\ b \subseteq pol[p].todo
    BY <1>1 DEF PollerRecord, Rest
  <1>3. n \in Nat /\ n = t.rev + 1
    OBVIOUS
  <1>4. pol' = [pol EXCEPT ![p] = e]
    OBVIOUS
  <1> HIDE DEF b, n
  <1>5. cur \in [id : Request \cup {0}, rev : Nat] /\ cur.id = t.id /\ cur.rev = n
    BY <1>3
  <1> HIDE DEF cur
  <1>6. e \in PollerRecord /\ e.pc = "claimed" /\ e.todo = b /\ e.acc = pol[p].acc
        /\ e.cur = cur /\ e.due = FALSE
    BY <1>1, <1>2, <1>5 DEF PollerRecord, PollerPhase
  <1>7. Moved(p) /\ pol'[p] = e
    BY <1>4, <1>6, PollerMoves
  <1> HIDE DEF e
  <1>8. QED
    BY <1>2, <1>3, <1>5, <1>6, <1>7

\* listRequested reads envelopes.
LEMMA ListRequestedKeeps ==
  ASSUME IInv, NEW p \in Poller, ListRequested(p)
  PROVE  IInv'
  <1> DEFINE open == {r \in Request : req[r].state = "REQUESTED"}
             todo == {[id |-> r, rev |-> req[r].rev, cancel |-> req[r].cancel] :
                      r \in First(open, Earlier)}
             e == [pol[p] EXCEPT !.pc = "accepted", !.todo = todo]
  <1>1. TypeOK /\ PollerOK(p) /\ pol[p] \in PollerRecord
    BY PollerTypes DEF IInv
  <1>2. \A r \in First(open, Earlier) : r \in Request /\ req[r].state = "REQUESTED"
    BY DEF First
  <1>3. \A r \in Request : req[r].rev \in Nat /\ req[r].cancel \in BOOLEAN
    BY <1>1 DEF TypeOK, RequestRecord
  <1>4. ASSUME NEW t \in todo
        PROVE  t \in [id : Request, rev : Nat, cancel : BOOLEAN] /\ ListedOK(t)
    <2>1. PICK r \in First(open, Earlier) :
              t = [id |-> r, rev |-> req[r].rev, cancel |-> req[r].cancel]
      BY <1>4
    <2>2. r \in Request /\ req[r].state = "REQUESTED" /\ req[r].rev \in Nat
          /\ req[r].cancel \in BOOLEAN
      BY <1>2, <1>3
    <2>3. QED
      BY <2>1, <2>2 DEF ListedOK
  <1>5. todo \in SUBSET [id : Request, rev : Nat, cancel : BOOLEAN]
        /\ \A t \in todo : ListedOK(t)
    BY <1>4
  <1>6. pol' = [pol EXCEPT ![p] = e]
        /\ UNCHANGED <<req, run, child, faults, outside, starts, effect, trouble, withdrawn>>
    BY DEF ListRequested
  <1> HIDE DEF todo
  <1>7. e \in PollerRecord /\ e.pc = "accepted" /\ e.todo = todo /\ e.acc = pol[p].acc
    BY <1>1, <1>5 DEF PollerRecord, PollerPhase
  <1>8. Moved(p) /\ pol'[p] = e
    BY <1>1, <1>6, <1>7, PollerMoves
  <1> HIDE DEF e
  <1>9. \A a \in pol'[p].acc : Served(a.id)
    BY <1>1, <1>7, <1>8 DEF PollerOK
  <1>10. faults' \in Nat /\ trouble' \subseteq Request \cup {0}
    BY <1>1, <1>6 DEF TypeOK
  <1>11. QED
    BY <1>5, <1>6, <1>7, <1>8, <1>9, <1>10, RestStep DEF Holding, Unstarted, Ending

\* listAccepted reads claims.
LEMMA ListAcceptedKeeps ==
  ASSUME IInv, NEW p \in Poller, ListAccepted(p)
  PROVE  IInv'
  <1> DEFINE open == {r \in Request : req[r].state = "ACCEPTED"}
             stale == {r \in First(open, Older) : req[r].age > StaleAfter}
             acc == {[id |-> r, rev |-> req[r].rev] : r \in stale}
             e == [pol[p] EXCEPT !.pc = "recover", !.acc = acc]
  <1>1. TypeOK /\ PollerOK(p) /\ pol[p] \in PollerRecord
    BY PollerTypes DEF IInv
  <1>2. \A r \in stale : r \in Request /\ req[r].state = "ACCEPTED"
    BY DEF First
  <1>3. ASSUME NEW a \in acc PROVE a \in [id : Request, rev : Nat] /\ Served(a.id)
    <2>1. PICK r \in stale : a = [id |-> r, rev |-> req[r].rev]
      BY <1>3
    <2>2. r \in Request /\ req[r].state = "ACCEPTED" /\ req[r].rev \in Nat
      BY <1>1, <1>2 DEF TypeOK, RequestRecord
    <2>3. QED
      BY <2>1, <2>2 DEF Served
  <1>4. acc \in SUBSET [id : Request, rev : Nat] /\ \A a \in acc : Served(a.id)
    BY <1>3
  <1>5. /\ pol' = [pol EXCEPT ![p] = e] \/ pol' = PollEnds(p)
        /\ UNCHANGED <<req, run, child, outside, starts, effect, trouble, withdrawn>>
        /\ faults' \in Nat /\ trouble' \subseteq Request \cup {0}
    BY <1>1, Faults DEF ListAccepted, TypeOK
  <1>6. CASE pol' = PollEnds(p)
    <2>1. Moved(p) /\ pol'[p].pc = "idle" /\ pol'[p].todo = {} /\ pol'[p].acc = {}
      BY <1>1, <1>6, PollEndsMoves
    <2>2. QED
      BY <1>5, <2>1, RestStep DEF Holding, Unstarted, Ending
  <1>7. CASE pol' = [pol EXCEPT ![p] = e]
    <2> HIDE DEF acc
    <2>1. e \in PollerRecord /\ e.pc = "recover" /\ e.todo = pol[p].todo /\ e.acc = acc
      BY <1>1, <1>4 DEF PollerRecord, PollerPhase
    <2>2. Moved(p) /\ pol'[p] = e
      BY <1>1, <1>7, <2>1, PollerMoves
    <2> HIDE DEF e
    <2>3. \A t \in pol'[p].todo : ListedOK(t)
      BY <1>1, <2>1, <2>2 DEF PollerOK
    <2>4. QED
      BY <1>4, <1>5, <2>1, <2>2, <2>3, RestStep DEF Holding, Unstarted, Ending
  <1>8. QED
    BY <1>5, <1>6, <1>7

\* A candidate of the list of stale claims is passed over.
LEMMA PassOverMoves ==
  ASSUME IInv, NEW p \in Poller, PassOver(p)
  PROVE  /\ Moved(p) /\ pol'[p].pc = "recover" /\ pol'[p].todo = pol[p].todo
         /\ pol'[p].acc \subseteq pol[p].acc
  <1>1. PICK a \in pol[p].acc :
            pol' = [pol EXCEPT ![p] = [@ EXCEPT !.pc = "recover", !.acc = pol[p].acc \ {a}, !.seen = NoLock]]
    BY DEF PassOver
  <1> DEFINE b == pol[p].acc \ {a}
             e == [pol[p] EXCEPT !.pc = "recover", !.acc = b, !.seen = NoLock]
  <1>2. TypeOK /\ pol[p] \in PollerRecord
    BY PollerTypes DEF IInv
  <1>3. pol' = [pol EXCEPT ![p] = e]
    BY <1>1
  <1>4. b \in SUBSET [id : Request, rev : Nat] /\ b \subseteq pol[p].acc
    BY <1>2 DEF PollerRecord
  <1>5. NoLock \in [owner : Request \cup {None, Outsider}, fresh : BOOLEAN]
    BY DEF NoLock
  <1> HIDE DEF b
  <1>6. e \in PollerRecord /\ e.pc = "recover" /\ e.todo = pol[p].todo /\ e.acc = b
    BY <1>2, <1>4, <1>5 DEF PollerRecord, PollerPhase
  <1>7. QED
    BY <1>2, <1>3, <1>4, <1>6, PollerMoves

\* The lock is read before a stale claim is given up.
LEMMA ReadStaleLockKeeps ==
  ASSUME IInv, NEW p \in Poller, ReadStaleLock(p)
  PROVE  IInv'
  <1>1. TypeOK /\ PollerOK(p)
    BY DEF IInv
  <1>2. /\ UNCHANGED <<req, run, child, outside, starts, effect, trouble, withdrawn>>
        /\ faults' \in Nat /\ trouble' \subseteq Request \cup {0}
    BY <1>1, Faults DEF ReadStaleLock, TypeOK
  <1>3. CASE See(p, "stale")
    <2>1. Moved(p) /\ pol'[p].pc = "stale" /\ pol'[p].todo = pol[p].todo
          /\ pol'[p].acc = pol[p].acc
      BY <1>1, <1>3, SeeMoves DEF PollerPhase
    <2>2. QED
      BY <1>1, <1>2, <2>1, RestStep DEF Holding, Unstarted, Ending, PollerOK
  <1>4. CASE PassOver(p)
    BY <1>1, <1>2, <1>4, PassOverMoves, RestStep DEF Holding, Unstarted, Ending, PollerOK
  <1>5. QED
    BY <1>3, <1>4 DEF ReadStaleLock

\* A stale claim is given up with a result that admits to not knowing.
LEMMA RecoverStaleKeeps ==
  ASSUME IInv, NEW p \in Poller, RecoverStale(p)
  PROVE  IInv'
  <1>1. TypeOK /\ PollerOK(p) /\ pol[p] \in PollerRecord
    BY PollerTypes DEF IInv
  <1>2. /\ UNCHANGED <<req, run, child, outside, starts, effect, trouble, withdrawn>>
        /\ faults' \in Nat /\ trouble' \subseteq Request \cup {0}
    BY <1>1, Faults DEF RecoverStale, TypeOK
  <1>3. CASE PassOver(p)
    BY <1>1, <1>2, <1>3, PassOverMoves, RestStep DEF Holding, Unstarted, Ending, PollerOK
  <1>4. ASSUME NEW a \in pol[p].acc,
               pol' = [pol EXCEPT ![p] = [@ EXCEPT !.pc = "put", !.acc = pol[p].acc \ {a}, !.cur = a,
                                                  !.res = Rejected("STALE"), !.seen = NoLock]]
        PROVE  IInv'
    <2> DEFINE b == pol[p].acc \ {a}
               res == Rejected("STALE")
               e == [pol[p] EXCEPT !.pc = "put", !.acc = b, !.cur = a, !.res = res, !.seen = NoLock]
    <2>1. pol' = [pol EXCEPT ![p] = e]
      BY <1>4
    <2>2. b \in SUBSET [id : Request, rev : Nat] /\ b \subseteq pol[p].acc
      BY <1>1 DEF PollerRecord
    <2>3. NoLock \in [owner : Request \cup {None, Outsider}, fresh : BOOLEAN]
      BY DEF NoLock
    <2>4. a \in [id : Request \cup {0}, rev : Nat] /\ a.id \in Request /\ Served(a.id)
      BY <1>1, <1>4, PollerTypes DEF PollerOK
    <2>5. /\ res \in [state : {"DONE", "REJECTED"}, code : ResultCode \cup {None}]
          /\ res.state = "REJECTED" /\ res.code = "STALE" /\ ~Certain(res)
      BY DEF Rejected, ResultCode, UncertainCode, Certain
    <2> HIDE DEF b, res
    <2>6. e \in PollerRecord /\ e.pc = "put" /\ e.todo = pol[p].todo /\ e.acc = b
          /\ e.cur = a /\ e.res = res
      BY <1>1, <2>2, <2>3, <2>4, <2>5 DEF PollerRecord, PollerPhase
    <2>7. Moved(p) /\ pol'[p] = e
      BY <1>1, <2>1, <2>6, PollerMoves
    <2> HIDE DEF e
    <2>8. PollerOK(p)'
      BY <1>1, <1>2, <2>2, <2>4, <2>5, <2>6, <2>7
      DEF PollerOK, ListedOK, Served, Holding, Unstarted, Ending, Certain
    <2>9. ClaimKept(p)
      BY <2>5, <2>6, <2>7 DEF ClaimKept, Holding, Unstarted
    <2>10. ChildrenStay
      BY <1>1, <1>2 DEF ChildrenStay, TypeOK
    <2>11. QED
      BY <1>2, <2>7, <2>8, <2>9, <2>10, PollStep
  <1>5. QED
    BY <1>3, <1>4 DEF RecoverStale

\* A poll ends.
LEMMA PollEndsKeeps ==
  ASSUME IInv, NEW p \in Poller, EndPoll(p) \/ Crash(p) \/ Restart(p)
  PROVE  IInv'
  <1>1. TypeOK /\ PollerOK(p)
    BY DEF IInv
  <1>2. pol[p].cur.id \in Request \cup {0}
    BY <1>1, PollerTypes
  <1>3. /\ UNCHANGED <<req, run, child, outside, starts, effect, withdrawn>>
        /\ faults' \in Nat /\ trouble' \subseteq Request \cup {0}
    BY <1>1, <1>2, Faults DEF EndPoll, Crash, Restart, TypeOK
  <1>4. CASE EndPoll(p)
    <2>1. Moved(p) /\ pol'[p].pc = "idle" /\ pol'[p].todo = {} /\ pol'[p].acc = {}
      BY <1>1, <1>4, PollEndsMoves DEF EndPoll
    <2>2. QED
      BY <1>3, <2>1, RestStep DEF Holding, Unstarted, Ending
  <1>5. CASE Crash(p)
    <2> DEFINE e == [Idle EXCEPT !.pc = "down"]
    <2>1. pol \in [Poller -> PollerRecord] /\ Idle \in PollerRecord
      BY <1>1, IdleType DEF TypeOK
    <2>2. pol' = [[pol EXCEPT ![p] = Idle] EXCEPT ![p].pc = "down"]
      BY <1>5 DEF Crash, PollEnds, Idle
    <2>3. pol' = [pol EXCEPT ![p] = e]
      BY <2>1, <2>2
    <2>4. e \in PollerRecord /\ e.pc = "down" /\ e.todo = {} /\ e.acc = {}
      BY DEF Idle, PollerRecord, PollerPhase, NoCur, NoLock, NoResult
    <2>5. Moved(p) /\ pol'[p] = e
      BY <1>1, <2>3, <2>4, PollerMoves
    <2> HIDE DEF e
    <2>6. QED
      BY <1>3, <2>4, <2>5, RestStep DEF Holding, Unstarted, Ending
  <1>6. CASE Restart(p)
    <2>1. Moved(p) /\ pol'[p].pc = "idle" /\ pol'[p].todo = pol[p].todo
          /\ pol'[p].acc = pol[p].acc
      BY <1>1, <1>6, GotoMoves DEF Restart, PollerPhase
    <2>2. QED
      BY <1>1, <1>3, <2>1, RestStep DEF Holding, Unstarted, Ending, PollerOK
  <1>7. QED
    BY <1>4, <1>5, <1>6

\* The status report before a claimed request is carried out.
LEMMA ReadStatusLockKeeps ==
  ASSUME IInv, NEW p \in Poller, ReadStatusLock(p)
  PROVE  IInv'
  <1>1. TypeOK /\ PollerOK(p) /\ pol[p].pc = "claimed"
    BY DEF IInv, ReadStatusLock
  <1>2. /\ UNCHANGED <<req, run, child, outside, starts, effect, withdrawn>>
        /\ faults' \in Nat /\ trouble' \subseteq Request \cup {0}
    BY <1>1 DEF ReadStatusLock, TypeOK
  <1>3. Moved(p) /\ pol'[p].pc = "review" /\ pol'[p].todo = pol[p].todo
        /\ pol'[p].acc = pol[p].acc /\ pol'[p].cur = pol[p].cur
    BY <1>1, SeeMoves DEF ReadStatusLock, PollerPhase
  <1>4. PollerOK(p)'
    BY <1>1, <1>2, <1>3
    DEF PollerOK, ListedOK, Served, Holding, Unstarted, Ending, Certain
  <1>5. ClaimKept(p)
    BY <1>1, <1>3 DEF ClaimKept, Claimant, Holding, Unstarted
  <1>6. ChildrenStay
    BY <1>1, <1>2 DEF ChildrenStay, TypeOK
  <1>7. QED
    BY <1>2, <1>3, <1>4, <1>5, <1>6, PollStep

\* finalizeResult and the second reading of writeResult.
LEMMA FinalizeKeeps ==
  ASSUME IInv, NEW p \in Poller, FinalizeResult(p) \/ RereadResult(p)
  PROVE  IInv'
  <1>1. TypeOK /\ PollerOK(p) /\ pol[p].pc \in Ending /\ pol[p] \in PollerRecord
    BY PollerTypes DEF IInv, FinalizeResult, RereadResult, Ending
  <1>2. pol[p].cur.id \in Request /\ req[pol[p].cur.id].rev \in Nat
    BY <1>1 DEF PollerOK, TypeOK, RequestRecord
  <1>3. /\ UNCHANGED <<req, run, child, outside, starts, effect, withdrawn>>
        /\ faults' \in Nat /\ trouble' \subseteq Request \cup {0}
    BY <1>1, <1>2, Faults DEF FinalizeResult, RereadResult, TypeOK
  <1>4. CASE Proceed(p)
    BY <1>1, <1>3, <1>4, ProceedMoves, RestStep DEF Holding, Unstarted, Ending, PollerOK
  <1>5. ASSUME NEW pc \in {"put", "put2"}, NEW rev \in Nat,
               pol' = [pol EXCEPT ![p] = [@ EXCEPT !.pc = pc, !.cur.rev = rev]]
        PROVE  IInv'
    <2>1. /\ Moved(p) /\ pol'[p].pc = pc /\ pol'[p].todo = pol[p].todo
          /\ pol'[p].acc = pol[p].acc /\ pol'[p].res = pol[p].res
          /\ pol'[p].cur.id = pol[p].cur.id
      BY <1>1, <1>5, RevMoves DEF PollerPhase
    <2>2. QED
      BY <1>1, <1>3, <1>5, <2>1, EndingStep DEF Ending
  <1>6. QED
    BY <1>2, <1>4, <1>5 DEF FinalizeResult, RereadResult
-----------------------------------------------------------------------------
(* The children's reports.                                                  *)

\* classifyRunNetworkResult, classifyCancelResult and classifyArchiveRun say
\* DONE for no other report, and REJECTED with a certain code only for one that
\* says so itself or for a process that never was.
LEMMA ClassifyTruth ==
  ASSUME NEW type, NEW k \in ChildKind \cup {"failed"}, NEW code \in ChildCode \cup {None}
  PROVE  /\ Classify(type, [kind |-> k, code |-> code]) \in Result
         /\ Classify(type, [kind |-> k, code |-> code]).code # "STALE"
         /\ Classify(type, [kind |-> k, code |-> code]).state = "DONE" => k \in DoneKind
         /\ Certain(Classify(type, [kind |-> k, code |-> code])) => k \in {"REJECTED", "spawn"}
  <1> DEFINE report == [kind |-> k, code |-> code]
             Good(res) == /\ res \in Result /\ res.code # "STALE"
                          /\ res.state = "DONE" => k \in DoneKind
                          /\ Certain(res) => k \in {"REJECTED", "spawn"}
  <1>1. code # "STALE" /\ code \in ResultCode \cup {None}
    BY QueueAssumption DEF ChildCode, ResultCode, UncertainCode
  <1>2. Good(ClassifyRunNetwork(type, report))
    BY <1>1 DEF ClassifyRunNetwork, Done, Rejected, Result, DoneKind, Certain, ResultCode,
                UncertainCode, ChildCode
  <1>3. Good(ClassifyCancel(type, report))
    BY <1>1 DEF ClassifyCancel, Done, Rejected, Result, DoneKind, Certain, ResultCode,
                UncertainCode
  <1>4. Good(ClassifyArchive(report))
    BY <1>1 DEF ClassifyArchive, Done, Rejected, Result, DoneKind, Certain, ResultCode,
                UncertainCode, ChildKind
  <1>5. Good(Rejected("CHILD_EXECUTION_FAILED"))
    BY DEF Rejected, Result, Certain, ResultCode, UncertainCode
  <1>6. Good(Classify(type, report))
    BY <1>2, <1>3, <1>4, <1>5 DEF Classify
  <1>7. QED
    BY <1>6

\* The report of a child becomes a result.
LEMMA ChildDoneKeeps ==
  ASSUME IInv, NEW p \in Poller, ChildDone(p)
  PROVE  IInv'
  <1> DEFINE r == pol[p].cur.id
             code == child[r].code
  <1>1. TypeOK /\ PollerOK(p) /\ pol[p].pc = "child" /\ pol[p] \in PollerRecord
        /\ child[r].ph = "exited"
    BY PollerTypes DEF IInv, ChildDone
  <1>2. r \in Request /\ RequestOK(r)
    BY <1>1 DEF PollerOK, Holding, IInv
  <1>3. child[r] \in ChildRecord
    BY <1>1, <1>2 DEF TypeOK
  <1>4. code \in ChildCode \cup {None}
    BY <1>3 DEF ChildRecord
  <1>5. /\ UNCHANGED <<req, run, child, outside, starts, effect, withdrawn>>
        /\ faults' \in Nat /\ trouble' \subseteq Request \cup {0}
    BY <1>1, Faults DEF ChildDone, TypeOK
  <1>6. ASSUME NEW k \in {child[r].kind, "failed"},
               pol' = [pol EXCEPT ![p] = [@ EXCEPT !.pc = "final", !.due = FALSE,
                         !.res = Classify(req[r].type, [kind |-> k, code |-> child[r].code])]]
        PROVE  IInv'
    <2> DEFINE res == Classify(req[r].type, [kind |-> k, code |-> child[r].code])
    <2>1. k \in ChildKind \cup {"failed"}
      BY <1>1, <1>2, <1>6 DEF RequestOK, ChildOK
    <2>2. /\ res \in Result /\ (res.state = "DONE" => k \in DoneKind)
          /\ (Certain(res) => k \in {"REJECTED", "spawn"})
      BY <1>4, <2>1, ClassifyTruth
    <2>3. res.state = "DONE" => effect[r] \in {"changed", "found"}
      BY <1>1, <1>2, <2>2 DEF RequestOK, ChildOK, DoneKind
    <2>4. Certain(res) => Quiet(r)
      BY <1>1, <1>2, <2>2 DEF RequestOK, ChildOK, Quiet
    <2>5. pol' = [pol EXCEPT ![p] = [@ EXCEPT !.pc = "final", !.due = FALSE, !.res = res]]
      BY <1>6
    <2> HIDE DEF res
    <2>6. /\ Moved(p) /\ pol'[p].pc = "final" /\ pol'[p].todo = pol[p].todo
          /\ pol'[p].acc = pol[p].acc /\ pol'[p].cur = pol[p].cur /\ pol'[p].res = res
      BY <1>1, <2>2, <2>5, ReportMoves
    <2>8. pol'[p].pc \in Ending /\ pol[p].pc \in Holding
      BY <1>1, <2>6 DEF Ending, Holding
    <2>9. QED
      BY <1>5, <2>3, <2>4, <2>6, <2>8, ResultStep
  <1>7. QED
    BY <1>6 DEF ChildDone

\* Exit writes down how the child ended.
LEMMA ExitMoves ==
  ASSUME TypeOK, NEW r \in Request, NEW k \in ChildKind, NEW code \in ChildCode \cup {None},
         Exit(r, k, code)
  PROVE  /\ child' \in [Request -> ChildRecord] /\ \A q \in Request \ {r} : child'[q] = child[q]
         /\ child'[r].ph = "exited" /\ child'[r].kind = k
  <1> DEFINE e == [ph |-> "exited", beats |-> 0, kind |-> k, code |-> code]
  <1>1. child[r] \in ChildRecord /\ child \in [Request -> ChildRecord]
    BY DEF TypeOK
  <1>2. e \in ChildRecord /\ e.ph = "exited" /\ e.kind = k
    BY <1>1, QueueAssumption DEF ChildRecord
  <1>3. child' = [child EXCEPT ![r] = e]
    BY DEF Exit
  <1> HIDE DEF e
  <1>4. QED
    BY <1>1, <1>2, <1>3

\* A child that could not be started changed nothing.
LEMMA SpawnFailsKeeps ==
  ASSUME IInv, NEW p \in Poller, SpawnFails(p)
  PROVE  IInv'
  <1>1. TypeOK /\ PollerOK(p) /\ pol[p].pc = "child"
    BY DEF IInv, SpawnFails
  <1>2. PICK r \in Request : r = pol[p].cur.id
    BY <1>1 DEF PollerOK, Holding
  <1>3. RequestOK(r) /\ child[r].ph = "spawned"
    BY <1>2 DEF IInv, SpawnFails
  <1>4. /\ UNCHANGED <<req, run, pol, outside, starts, effect, trouble, withdrawn>>
        /\ faults' \in Nat /\ trouble' \subseteq Request \cup {0} /\ run' \in RunRecord
        /\ effect' \in [Request -> {"none", "found", "prepared", "changed"}]
    BY <1>1, Faults DEF SpawnFails, TypeOK
  <1>5. Exit(r, "spawn", None)
    BY <1>2 DEF SpawnFails
  <1>6. /\ child' \in [Request -> ChildRecord] /\ \A q \in Request \ {r} : child'[q] = child[q]
        /\ child'[r].ph = "exited" /\ child'[r].kind = "spawn"
    BY <1>1, <1>5, ExitMoves DEF ChildKind
  <1>7. RequestOK(r)' /\ (Quiet(r) => Quiet(r)')
    BY <1>3, <1>4, <1>6
    DEF RequestOK, ChildOK, WithdrawnOK, Served, Certain, Quiet, ChildKind, DoneKind
  <1>8. QED
    BY <1>3, <1>4, <1>6, <1>7, ChildMoves

\* What run-network does, given what ensureRun says before it writes.
RunNetworkStep(r, refusal) ==
    \/ /\ NoFault /\ Exit(r, "NOOP", refusal) /\ Effect(r, "found") /\ UNCHANGED run
    \/ /\ NoFault /\ Exit(r, RunNetworkReport(FALSE, TRUE), refusal)
       /\ UNCHANGED <<run, effect>>
    \/ /\ LetGo(r, run) /\ Exit(r, RunNetworkReport(FALSE, TRUE), "ENSURE_RUN_FAILED")
       /\ UNCHANGED effect
    \/ /\ \E left \in Prepared : LetGo(r, left)
       /\ Exit(r, RunNetworkReport(FALSE, TRUE), "ENSURE_RUN_FAILED")
       /\ Effect(r, "prepared")
    \/ /\ NoFault /\ child' = [child EXCEPT ![r].ph = "running"]
       /\ run' = [run EXCEPT !.exists = TRUE, !.status = "RUNNING",
                             !.started = TRUE, !.owner = r, !.fresh = TRUE]
       /\ Effect(r, "changed")

\* What ensureRun leaves of a Run is a Run, with or without the lock.
LEMMA PreparedTypes == ASSUME run \in RunRecord PROVE Prepared \subseteq RunRecord
  <1>1. [run EXCEPT !.exists = TRUE] \in RunRecord
    BY DEF RunRecord
  <1>2. ASSUME NEW s \in {"RUNNING", "FAILED", "SUCCESS"}
        PROVE  [run EXCEPT !.status = s] \in RunRecord
    BY DEF RunRecord, TerminalRun
  <1>3. QED
    BY <1>1, <1>2 DEF Prepared

LEMMA LetGoTypes ==
  ASSUME TypeOK, NEW r \in Request, NEW left \in RunRecord, LetGo(r, left)
  PROVE  faults' \in Nat /\ run' \in RunRecord
  <1>1. [left EXCEPT !.owner = r, !.fresh = TRUE] \in RunRecord
    BY DEF RunRecord
  <1>2. QED
    BY <1>1, Faults DEF LetGo

\* The child acts on the Run: what it reports is what it did.
LEMMA ChildActsKeeps ==
  ASSUME IInv, NEW r \in Request, ChildActs(r)
  PROVE  IInv'
  <1>1. TypeOK /\ RequestOK(r) /\ child[r].ph = "spawned" /\ effect[r] = "none"
    BY DEF IInv, ChildActs, RequestOK, ChildOK
  <1>2. UNCHANGED <<req, pol, outside, starts, trouble, withdrawn>>
        /\ trouble' \subseteq Request \cup {0}
    BY <1>1 DEF ChildActs, TypeOK
  <1>3. ASSUME NEW w \in {"none", "found", "prepared", "changed"},
               effect' = [effect EXCEPT ![r] = w] \/ (effect' = effect /\ w = "none"),
               faults' \in Nat, run' \in RunRecord,
               child' \in [Request -> ChildRecord],
               \A q \in Request \ {r} : child'[q] = child[q],
               \/ child'[r].ph = "running" /\ w = "changed"
               \/ /\ child'[r].ph = "exited" /\ child'[r].kind \in ChildKind
                  /\ child'[r].kind \in DoneKind => w \in {"changed", "found"}
                  /\ child'[r].kind \in {"REJECTED", "spawn"} => w \in {"none", "prepared"}
        PROVE  IInv'
    <2>1. effect' \in [Request -> {"none", "found", "prepared", "changed"}] /\ effect'[r] = w
          /\ \A q \in Request \ {r} : effect'[q] = effect[q]
      BY <1>1, <1>3 DEF TypeOK
    <2>2. Served(r) /\ ~Certain(req[r]) /\ ~Quiet(r)
      BY <1>1 DEF RequestOK, Quiet
    <2>3. req[r].state # "DONE"
      BY <1>1 DEF RequestOK
    <2>4. RequestOK(r)'
      BY <1>1, <1>2, <1>3, <2>1, <2>2, <2>3
      DEF RequestOK, ChildOK, WithdrawnOK, Served, Certain, Quiet
    <2>5. QED
      BY <1>1, <1>2, <1>3, <2>1, <2>2, <2>4, ChildMoves
  <1>4. ASSUME NEW w \in {"none", "found", "prepared", "changed"},
               NEW k \in ChildKind, NEW code \in ChildCode \cup {None}, Exit(r, k, code),
               k \in DoneKind => w \in {"changed", "found"}, k \in {"REJECTED", "spawn"} => w \in {"none", "prepared"},
               effect' = [effect EXCEPT ![r] = w] \/ (effect' = effect /\ w = "none"),
               faults' \in Nat, run' \in RunRecord
        PROVE  IInv'
    <2>1. /\ child' \in [Request -> ChildRecord]
          /\ \A q \in Request \ {r} : child'[q] = child[q]
          /\ child'[r].ph = "exited" /\ child'[r].kind = k
      BY <1>1, <1>4, ExitMoves
    <2>2. QED
      BY <1>3, <1>4, <2>1
  <1>5. CASE ChildRunNetwork(r)
    <2> DEFINE refusal(from) == RunNetworkRefusal(req[r].type, from)
    <2>1. PICK from \in BOOLEAN : RunNetworkStep(r, refusal(from))
      BY <1>5 DEF ChildRunNetwork, RunNetworkStep
    <2>2. refusal(from) \in ChildCode \cup {None} /\ run \in RunRecord
      BY <1>1 DEF RunNetworkRefusal, ChildCode, TypeOK
    <2> HIDE DEF refusal
    <2>3. "REJECTED" \in ChildKind \ DoneKind /\ "ENSURE_RUN_FAILED" \in ChildCode
      BY DEF ChildKind, ChildCode, DoneKind
    <2>4. RunNetworkReport(FALSE, TRUE) = "REJECTED"
      BY DEF RunNetworkReport
    <2>5. CASE NoFault /\ Exit(r, "NOOP", refusal(from)) /\ Effect(r, "found") /\ UNCHANGED run
      BY <1>1, <1>4, <2>2, <2>5, Faults DEF Effect, ChildKind, DoneKind
    <2>6. CASE NoFault /\ Exit(r, "REJECTED", refusal(from)) /\ UNCHANGED <<run, effect>>
      BY <1>1, <1>4, <2>2, <2>3, <2>6, Faults
    <2>7. CASE /\ LetGo(r, run) /\ Exit(r, "REJECTED", "ENSURE_RUN_FAILED")
               /\ UNCHANGED effect
      <3>1. faults' \in Nat /\ run' \in RunRecord
        BY <1>1, <2>2, <2>7, LetGoTypes
      <3>2. QED
        BY <1>4, <2>3, <2>7, <3>1
    <2>8. CASE /\ \E left \in Prepared : LetGo(r, left)
               /\ Exit(r, "REJECTED", "ENSURE_RUN_FAILED") /\ Effect(r, "prepared")
      <3>1. faults' \in Nat /\ run' \in RunRecord
        BY <1>1, <2>2, <2>8, LetGoTypes, PreparedTypes
      <3>2. effect' = [effect EXCEPT ![r] = "prepared"]
        BY <2>8 DEF Effect
      <3>3. QED
        BY <1>4, <2>3, <2>8, <3>1, <3>2
    <2>9. CASE /\ NoFault /\ child' = [child EXCEPT ![r].ph = "running"]
               /\ run' = [run EXCEPT !.exists = TRUE, !.status = "RUNNING",
                                     !.started = TRUE, !.owner = r, !.fresh = TRUE]
               /\ Effect(r, "changed")
      <3>1. run' \in RunRecord /\ faults' \in Nat
        BY <1>1, <2>2, <2>9, Faults DEF RunRecord
      <3>2. child[r] \in ChildRecord /\ child \in [Request -> ChildRecord]
        BY <1>1 DEF TypeOK
      <3>3. /\ child' \in [Request -> ChildRecord] /\ child'[r].ph = "running"
            /\ \A q \in Request \ {r} : child'[q] = child[q]
        BY <2>9, <3>2 DEF ChildRecord
      <3>4. effect' = [effect EXCEPT ![r] = "changed"]
        BY <2>9 DEF Effect
      <3>5. QED
        BY <1>3, <3>1, <3>3, <3>4
    <2>10. QED
      BY <2>1, <2>4, <2>5, <2>6, <2>7, <2>8, <2>9 DEF RunNetworkStep
  <1>6. CASE ChildCancelRun(r)
    <2>1. faults' \in Nat /\ run \in RunRecord
      BY <1>1, <1>6, Faults DEF ChildCancelRun, TypeOK
    <2>2. CASE Exit(r, "exit0", None) /\ Effect(r, "found") /\ UNCHANGED run
      BY <1>4, <2>1, <2>2 DEF Effect, ChildKind, DoneKind
    <2>3. CASE Exit(r, "exit1", None) /\ UNCHANGED <<run, effect>>
      BY <1>4, <2>1, <2>3 DEF ChildKind, DoneKind
    <2>4. CASE /\ Exit(r, "exit0", None) /\ Effect(r, "changed")
               /\ run' = [run EXCEPT !.hold = (req[r].type = "STOP")]
      <3>1. run' \in RunRecord
        BY <2>1, <2>4 DEF RunRecord
      <3>2. QED
        BY <1>4, <2>1, <2>4, <3>1 DEF Effect, ChildKind, DoneKind
    <2>5. QED
      BY <1>6, <2>2, <2>3, <2>4 DEF ChildCancelRun
  <1>7. CASE ChildArchiveRun(r)
    <2> DEFINE refusal == IF run.owner # None THEN Rejected("LOCK_CONFLICT") ELSE ReviewClose(run)
    <2>1. faults' \in Nat /\ run \in RunRecord
      BY <1>1, <1>7, Faults DEF ChildArchiveRun, TypeOK
    <2>2. CASE /\ Exit(r, "ARCHIVED", "RUN_ARCHIVED") /\ Effect(r, "changed")
               /\ run' = [run EXCEPT !.lifecycle = "ARCHIVED"]
      <3>1. run' \in RunRecord
        BY <2>1, <2>2 DEF RunRecord
      <3>2. QED
        BY <1>4, <2>1, <2>2, <3>1 DEF Effect, ChildKind, ChildCode, DoneKind
    <2>3. CASE /\ Exit(r, "ALREADY_ARCHIVED", "RUN_ALREADY_ARCHIVED")
               /\ Effect(r, "found") /\ UNCHANGED run
      BY <1>4, <2>1, <2>3 DEF Effect, ChildKind, ChildCode, DoneKind
    <2>4. CASE refusal # None /\ Exit(r, "REJECTED", refusal.code) /\ UNCHANGED <<run, effect>>
      <3>1. refusal.code \in ChildCode
        BY <2>4 DEF ReviewClose, Rejected, Done, ChildCode
      <3>2. QED
        BY <1>4, <2>1, <2>4, <3>1 DEF ChildKind, DoneKind
    <2>5. QED
      BY <1>7, <2>2, <2>3, <2>4 DEF ChildArchiveRun
  <1>8. QED
    BY <1>5, <1>6, <1>7 DEF ChildActs

\* The child's own end, and its death: an invocation has changed the Run, and
\* a death is not a report of anything.
LEMMA ChildEndsKeeps ==
  ASSUME IInv, NEW r \in Request, ChildEnds(r) \/ ChildDies(r)
  PROVE  IInv'
  <1>1. TypeOK /\ RequestOK(r) /\ child[r].ph \in {"spawned", "running"}
    BY DEF IInv, ChildEnds, ChildDies
  <1>2. PICK k \in {"invoked", "garbled"} :
            /\ \E code \in ChildCode \cup {None} : Exit(r, k, code)
            /\ k = "invoked" => child[r].ph = "running"
    BY DEF ChildEnds, ChildDies, ChildCode, RunNetworkReport
  <1>3. /\ child' \in [Request -> ChildRecord] /\ \A q \in Request \ {r} : child'[q] = child[q]
        /\ child'[r].ph = "exited" /\ child'[r].kind = k
    BY <1>1, <1>2, ExitMoves DEF ChildKind
  <1>4. /\ UNCHANGED <<req, pol, outside, starts, withdrawn>>
        /\ trouble' \subseteq Request \cup {0}
    BY <1>1 DEF ChildEnds, ChildDies, TypeOK
  <1>5. run' \in RunRecord /\ faults' \in Nat
    <2>1. run \in RunRecord
      BY <1>1 DEF TypeOK
    <2>2. CASE ChildEnds(r)
      <3>1. PICK s \in {"SUCCESS", "FAILED", "RUNNING"} :
               LetGo(r, [run EXCEPT !.status = s, !.owner = None, !.fresh = FALSE])
        BY <2>2 DEF ChildEnds
      <3>2. [run EXCEPT !.status = s, !.owner = None, !.fresh = FALSE] \in RunRecord
        BY <2>1 DEF RunRecord, TerminalRun
      <3>3. QED
        BY <1>1, <3>1, <3>2, LetGoTypes
    <2>3. CASE ChildDies(r)
      <3>1. ASSUME NEW left \in Prepared PROVE [left EXCEPT !.owner = r, !.fresh = TRUE] \in RunRecord
        BY <2>1, PreparedTypes DEF RunRecord
      <3>2. QED
        BY <1>1, <2>1, <2>3, <3>1, Faults DEF ChildDies
    <2>4. QED
      BY <2>2, <2>3
  <1>6. \/ UNCHANGED effect
        \/ /\ effect' = [effect EXCEPT ![r] = "prepared"]
           /\ child[r].ph = "spawned" /\ k = "garbled"
    <2>1. CASE ChildEnds(r)
      BY <2>1 DEF ChildEnds
    <2>2. CASE ChildDies(r)
      <3>1. k = "garbled"
        BY <1>3, <2>2, ExitMoves, <1>1 DEF ChildDies, ChildKind
      <3>2. QED
        BY <2>2, <3>1 DEF ChildDies, Effect
    <2>3. QED
      BY <2>1, <2>2
  <1>7. /\ effect' \in [Request -> {"none", "found", "prepared", "changed"}]
        /\ \A q \in Request \ {r} : effect'[q] = effect[q]
        /\ effect'[r] = effect[r] \/ (effect'[r] = "prepared" /\ effect[r] = "none" /\ k = "garbled")
    BY <1>1, <1>6 DEF TypeOK, RequestOK, ChildOK
  <1>8. RequestOK(r)' /\ (Quiet(r) => Quiet(r)')
    BY <1>1, <1>2, <1>3, <1>4, <1>7
    DEF RequestOK, ChildOK, WithdrawnOK, Served, Certain, Quiet, ChildKind, DoneKind
  <1>9. QED
    BY <1>1, <1>3, <1>4, <1>5, <1>7, <1>8, ChildMoves
-----------------------------------------------------------------------------
(* The steps that write a record.                                           *)

\* A write that goes forward keeps what a poller has listed.
LEMMA ListsKept ==
  ASSUME TypeOK, NEW p \in Poller, PollerOK(p), NEW r \in Request,
         req' \in [Request -> RequestRecord], \A q \in Request \ {r} : req'[q] = req[q],
         req[r].state # "ABSENT", req'[r].state # "ABSENT", req'[r].rev = req[r].rev + 1,
         Served(r) => req'[r].state \in {"ACCEPTED", "DONE", "REJECTED"}
  PROVE  /\ \A t \in pol[p].todo : ListedOK(t)'
         /\ \A a \in pol[p].acc : Served(a.id)'
  <1>1. ASSUME NEW t \in pol[p].todo PROVE ListedOK(t)'
    <2>1. t.id \in Request /\ t.rev \in Nat /\ ListedOK(t) /\ req[t.id].rev \in Nat
      BY <1>1, PollerTypes DEF PollerOK, TypeOK, RequestRecord
    <2>2. CASE t.id = r
      BY <2>1, <2>2 DEF ListedOK
    <2>3. CASE t.id # r
      BY <2>1, <2>3 DEF ListedOK
    <2>4. QED
      BY <2>2, <2>3
  <1>2. \A a \in pol[p].acc : Served(a.id)'
    BY PollerTypes DEF PollerOK, Served
  <1>3. QED
    BY <1>1, <1>2

\* A heartbeat touches the age and the revision alone.
LEMMA HeartbeatKeeps ==
  ASSUME IInv, NEW p \in Poller, Heartbeat(p)
  PROVE  IInv'
  <1>1. TypeOK /\ PollerOK(p) /\ pol[p] \in PollerRecord /\ pol[p].pc = "child"
    BY PollerTypes DEF IInv, Heartbeat
  <1>2. PICK r \in Request : r = pol[p].cur.id
    BY <1>1 DEF PollerOK, Holding
  <1>3. Served(r) /\ RequestOK(r) /\ req[r] \in RequestRecord /\ child[r] \in ChildRecord
        /\ child[r].beats < MaxBeats
    BY <1>1, <1>2 DEF PollerOK, Holding, IInv, TypeOK, Heartbeat
  <1>4. /\ UNCHANGED <<run, outside, starts, effect, withdrawn>>
        /\ faults' \in Nat /\ trouble' \subseteq Request \cup {0}
    BY <1>1, <1>2, Faults DEF Heartbeat, TypeOK
  <1>5. ChildrenStay
    <2> DEFINE n == child[r].beats + 1
               e == [child[r] EXCEPT !.beats = n]
    <2>1. n \in 0..MaxBeats
      BY <1>3, QueueAssumption DEF ChildRecord
    <2>2. child' = [child EXCEPT ![r] = e]
      BY <1>2 DEF Heartbeat
    <2> HIDE DEF n
    <2>3. e \in ChildRecord /\ e.ph = child[r].ph /\ e.kind = child[r].kind
      BY <1>3, <2>1 DEF ChildRecord
    <2> HIDE DEF e
    <2>4. QED
      BY <1>1, <2>2, <2>3 DEF ChildrenStay, TypeOK
  <1>6. PICK v \in {pol[p].cur.rev, pol[p].cur.rev + 1} :
            pol' = [pol EXCEPT ![p] = [@ EXCEPT !.due = FALSE, !.cur.rev = v]]
    BY DEF Heartbeat
  <1>7. /\ Moved(p) /\ pol'[p].pc = "child" /\ pol'[p].todo = pol[p].todo
        /\ pol'[p].acc = pol[p].acc /\ pol'[p].cur.id = r
    <2>1. v \in Nat
      BY <1>1, <1>6 DEF PollerRecord
    <2>2. QED
      BY <1>1, <1>2, <1>6, <2>1, BeatMoves
  <1>8. ClaimKept(p)
    BY <1>1, <1>2, <1>7 DEF ClaimKept, Claimant, Holding
  <1>9. CASE UNCHANGED req
    <2>1. PollerOK(p)'
      BY <1>1, <1>2, <1>3, <1>7, <1>9 DEF PollerOK, ListedOK, Served, Holding, Unstarted, Ending
    <2>2. QED
      BY <1>4, <1>5, <1>7, <1>8, <1>9, <2>1, PollStep
  <1>10. CASE Put(r, [req[r] EXCEPT !.age = 0])
    <2> DEFINE rec == [req[r] EXCEPT !.age = 0]
    <2>1. rec \in RequestRecord /\ rec.rev = req[r].rev /\ rec.state = req[r].state
          /\ rec.code = req[r].code /\ rec.cancel = req[r].cancel /\ rec.type = req[r].type
      BY <1>3, QueueAssumption DEF RequestRecord
    <2>10. Put(r, rec)
      BY <1>10
    <2> HIDE DEF rec
    <2>2. /\ req' \in [Request -> RequestRecord]
          /\ \A q \in Request \ {r} : req'[q] = req[q]
          /\ req'[r].rev = req[r].rev + 1 /\ req'[r].state = req[r].state
          /\ req'[r].code = req[r].code /\ req'[r].cancel = req[r].cancel
          /\ req'[r].type = req[r].type
      BY <1>1, <2>1, <2>10, PutMoves
    <2>3. (\A t \in pol[p].todo : ListedOK(t)') /\ (\A a \in pol[p].acc : Served(a.id)')
      BY <1>1, <1>3, <2>2, ListsKept DEF Served
    <2>5. PollerOK(p)'
      BY <1>3, <1>7, <2>2, <2>3 DEF PollerOK, Served, Unstarted, Ending
    <2>6. RequestOK(r)'
      BY <1>3, <1>4, <1>5, <2>2, RequestKept DEF ChildrenStay
    <2>7. ~Certain(req[r]) \/ \A q \in Poller : q # p /\ pol[q].pc \in Unstarted => pol[q].cur.id # r
      BY <1>1, <1>2 DEF IInv, OneClaimant, Claimant, Holding
    <2>8. Certain(req'[r]) => \A q \in Poller : q # p /\ pol[q].pc \in Unstarted => pol[q].cur.id # r
      BY <2>2, <2>7 DEF Certain
    <2>9. QED
      BY <1>3, <1>4, <1>5, <1>7, <1>8, <2>2, <2>5, <2>6, <2>8, PutStep DEF Served
  <1>11. QED
    BY <1>2, <1>9, <1>10 DEF Heartbeat, LostPut

\* What a settled record says.
LEMMA SettledMoves ==
  ASSUME TypeOK, NEW r \in Request, NEW res,
         res.state \in RequestState, res.code \in ResultCode \cup {None},
         Put(r, Settled(r, res))
  PROVE  /\ req' \in [Request -> RequestRecord]
         /\ \A q \in Request \ {r} : req'[q] = req[q]
         /\ req'[r].rev = req[r].rev + 1 /\ req'[r].state = res.state /\ req'[r].code = res.code
         /\ req'[r].cancel = req[r].cancel /\ req'[r].type = req[r].type
  <1> DEFINE rec == Settled(r, res)
  <1>1. req[r] \in RequestRecord
    BY DEF TypeOK
  <1>2. /\ rec \in RequestRecord /\ rec.state = res.state /\ rec.code = res.code
        /\ rec.rev = req[r].rev /\ rec.cancel = req[r].cancel /\ rec.type = req[r].type
    BY <1>1 DEF RequestRecord, Settled
  <1>3. Put(r, rec)
    OBVIOUS
  <1> HIDE DEF rec
  <1>4. QED
    BY <1>2, <1>3, PutMoves

\* writeResult: the result of the poller is written to the request it serves.
LEMMA SettleStep ==
  ASSUME IInv, NEW p \in Poller, pol[p].pc \in Ending, NEW r \in Request, r = pol[p].cur.id,
         Put(r, Settled(r, pol[p].res)), Proceed(p),
         UNCHANGED <<run, child, outside, starts, effect, withdrawn>>,
         faults' \in Nat, trouble' \subseteq Request \cup {0}
  PROVE  IInv'
  <1> DEFINE res == pol[p].res
  <1>1. TypeOK /\ PollerOK(p) /\ RequestOK(r) /\ Served(r)
    BY DEF IInv, PollerOK
  <1>2. res.state \in {"DONE", "REJECTED"} /\ res.code \in ResultCode \cup {None}
    BY <1>1, PollerTypes
  <1>3. /\ req' \in [Request -> RequestRecord]
        /\ \A q \in Request \ {r} : req'[q] = req[q]
        /\ req'[r].rev = req[r].rev + 1 /\ req'[r].state = res.state /\ req'[r].code = res.code
        /\ req'[r].cancel = req[r].cancel /\ req'[r].type = req[r].type
    BY <1>1, <1>2, SettledMoves DEF RequestState
  <1>4. /\ Moved(p) /\ pol'[p].pc = "recover" /\ pol'[p].todo = pol[p].todo
        /\ pol'[p].acc = pol[p].acc
    BY <1>1, ProceedMoves
  <1>5. req[r].state # "ABSENT" /\ req'[r].state \in {"ACCEPTED", "DONE", "REJECTED"}
    BY <1>1, <1>2, <1>3 DEF Served
  <1>6. (\A t \in pol[p].todo : ListedOK(t)') /\ (\A a \in pol[p].acc : Served(a.id)')
    BY <1>1, <1>3, <1>5, ListsKept
  <1>7. PollerOK(p)'
    BY <1>4, <1>6 DEF PollerOK, Holding, Unstarted, Ending
  <1>8. ClaimKept(p) /\ ChildrenStay
    BY <1>1, <1>4 DEF ClaimKept, Holding, Unstarted, Ending, ChildrenStay, TypeOK
  <1>9. RequestOK(r)'
    <2>1. /\ res.state = "DONE" => effect[r] \in {"changed", "found"}
          /\ Certain(res) => Quiet(r)
      BY <1>1 DEF PollerOK
    <2>2. r \notin withdrawn
      BY <1>1 DEF RequestOK, WithdrawnOK, Served
    <2>3. WithdrawnOK(r)'
      BY <1>2, <1>3, <2>2 DEF WithdrawnOK
    <2>4. Served(r)' /\ ChildOK(r)' /\ req'[r].type \in RequestType /\ starts'[r] <= 1
      BY <1>1, <1>3, <1>5 DEF Served, RequestOK, ChildOK
    <2>5. (req'[r].state = "DONE" => effect'[r] \in {"changed", "found"}) /\ (Certain(req'[r]) => Quiet(r)')
      BY <1>3, <2>1 DEF Certain, Quiet
    <2>6. QED
      BY <2>3, <2>4, <2>5 DEF RequestOK, Certain
  <1>10. Certain(req'[r]) => \A q \in Poller : q # p /\ pol[q].pc \in Unstarted => pol[q].cur.id # r
    <2>1. Certain(req'[r]) => Claimant(p)
      BY <1>3 DEF Certain, Claimant, UncertainCode
    <2>2. \A q \in Poller : pol[q].pc \in Unstarted => Claimant(q)
      BY DEF Claimant, Holding
    <2>3. QED
      BY <2>1, <2>2 DEF IInv, OneClaimant
  <1>11. QED
    BY <1>3, <1>4, <1>5, <1>7, <1>8, <1>9, <1>10, PutStep

\* finalize writes a result over the revision read.
LEMMA WriteResultKeeps ==
  ASSUME IInv, NEW p \in Poller, WriteResult(p) \/ RewriteResult(p)
  PROVE  IInv'
  <1>1. TypeOK /\ PollerOK(p) /\ pol[p].pc \in Ending
    BY DEF IInv, WriteResult, RewriteResult, Ending
  <1>2. PICK r \in Request : r = pol[p].cur.id
    BY <1>1 DEF PollerOK
  <1>3. /\ UNCHANGED <<run, child, outside, starts, effect, withdrawn>>
        /\ faults' \in Nat /\ trouble' \subseteq Request \cup {0}
    BY <1>1, <1>2, Faults DEF WriteResult, RewriteResult, TypeOK
  <1>4. CASE Put(r, Settled(r, pol[p].res)) /\ Proceed(p)
    BY <1>1, <1>2, <1>3, <1>4, SettleStep
  <1>5. CASE UNCHANGED req /\ Proceed(p)
    BY <1>1, <1>3, <1>5, ProceedMoves, RestStep DEF Holding, Unstarted, Ending, PollerOK
  <1>6. CASE UNCHANGED req /\ Goto(p, "reget")
    BY <1>1, <1>3, <1>6, GotoMoves, EndingStep DEF Ending, PollerPhase
  <1>7. QED
    BY <1>2, <1>4, <1>5, <1>6 DEF WriteResult, RewriteResult, LostPut

\* A listed request whose record has not moved is REQUESTED and untouched.
LEMMA FreshIsRequested ==
  ASSUME IInv, NEW p \in Poller, NEW t \in Listed(p), Fresh(t)
  PROVE  /\ t.id \in Request /\ req[t.id].state = "REQUESTED" /\ t.cancel = req[t.id].cancel
         /\ RequestOK(t.id) /\ ~Served(t.id)
         /\ starts[t.id] = 0 /\ child[t.id].ph = "none" /\ effect[t.id] = "none"
         /\ \A q \in Poller : pol[q].pc \in Holding => pol[q].cur.id # t.id
  <1>1. t.id \in Request /\ ListedOK(t)
    BY PollerTypes DEF IInv, PollerOK, Listed
  <1>2. req[t.id].state = "REQUESTED" /\ t.cancel = req[t.id].cancel
    BY <1>1 DEF ListedOK, Fresh
  <1>3. ~Served(t.id) /\ RequestOK(t.id)
    BY <1>1, <1>2 DEF Served, IInv
  <1>4. \A q \in Poller : pol[q].pc \in Holding => pol[q].cur.id # t.id
    BY <1>3 DEF IInv, PollerOK
  <1>5. QED
    BY <1>1, <1>2, <1>3, <1>4 DEF RequestOK

\* The poller takes a request off its list.
LEMMA RestMoves ==
  ASSUME TypeOK, NEW p \in Poller, NEW t, pol[p].pc = "recover",
         pol' = [pol EXCEPT ![p].todo = Rest(p, t)]
  PROVE  /\ Moved(p) /\ pol'[p].pc = "recover" /\ pol'[p].todo \subseteq pol[p].todo
         /\ pol'[p].acc = pol[p].acc
  <1> DEFINE b == Rest(p, t)
             e == [pol[p] EXCEPT !.todo = b]
  <1>1. pol[p] \in PollerRecord
    BY PollerTypes
  <1>2. b \in SUBSET [id : Request, rev : Nat, cancel : BOOLEAN] /\ b \subseteq pol[p].todo
    BY <1>1 DEF PollerRecord, Rest
  <1>3. pol' = [pol EXCEPT ![p] = e]
    OBVIOUS
  <1> HIDE DEF b
  <1>4. e \in PollerRecord /\ e.pc = pol[p].pc /\ e.todo = b /\ e.acc = pol[p].acc
    BY <1>1, <1>2 DEF PollerRecord
  <1>5. QED
    BY <1>2, <1>3, <1>4, PollerMoves

\* The poller writes a record that was REQUESTED and goes on with its list, or
\* becomes the claimant.
LEMMA ServeStep ==
  ASSUME IInv, NEW p \in Poller, Moved(p), NEW r \in Request,
         pol'[p].todo \subseteq pol[p].todo, pol'[p].acc \subseteq pol[p].acc,
         req[r].state = "REQUESTED", req' \in [Request -> RequestRecord],
         \A q \in Request \ {r} : req'[q] = req[q],
         req'[r].rev = req[r].rev + 1, req'[r].type = req[r].type,
         \/ /\ req'[r].state = "CANCELLED" /\ r \in withdrawn /\ req'[r].cancel
            /\ pol'[p].pc \notin Holding \cup Ending
         \/ /\ req'[r].state = "REJECTED" /\ r \notin withdrawn
            /\ pol'[p].pc \notin Holding \cup Ending
         \/ /\ req'[r].state = "ACCEPTED" /\ r \notin withdrawn
            /\ pol'[p].pc \notin Holding \cup Ending
               \/ (pol'[p].pc = "claimed" /\ pol'[p].cur.id = r),
         UNCHANGED <<run, child, outside, starts, effect, withdrawn>>,
         faults' \in Nat, trouble' \subseteq Request \cup {0}
  PROVE  IInv'
  <1>1. TypeOK /\ PollerOK(p) /\ RequestOK(r) /\ ~Served(r) /\ req'[r].state # "ABSENT"
    BY DEF IInv, Served
  <1>2. starts[r] = 0 /\ child[r].ph = "none" /\ effect[r] = "none" /\ Quiet(r)
    BY <1>1 DEF RequestOK, Quiet
  <1>3. (\A t \in pol[p].todo : ListedOK(t)') /\ (\A a \in pol[p].acc : Served(a.id)')
    BY <1>1, ListsKept
  <1>4. PollerOK(p)'
    <2>1. (\A t \in pol'[p].todo : ListedOK(t)') /\ (\A a \in pol'[p].acc : Served(a.id)')
      BY <1>3
    <2>2. CASE pol'[p].pc \notin Holding \cup Ending
      BY <2>1, <2>2 DEF PollerOK, Holding
    <2>3. CASE req'[r].state = "ACCEPTED" /\ pol'[p].pc = "claimed" /\ pol'[p].cur.id = r
      BY <1>2, <2>1, <2>3 DEF PollerOK, Served, Certain, Ending
    <2>4. QED
      BY <2>2, <2>3
  <1>5. ClaimKept(p) /\ ChildrenStay
    BY <1>1 DEF ClaimKept, Holding, Unstarted, Ending, ChildrenStay, TypeOK
  <1>6. RequestOK(r)'
    BY <1>1, <1>2 DEF RequestOK, ChildOK, WithdrawnOK, Served, Certain, Quiet
  <1>7. \A q \in Poller : q # p /\ pol[q].pc \in Unstarted => pol[q].cur.id # r
    BY <1>1 DEF IInv, PollerOK, Holding
  <1>8. QED
    BY <1>1, <1>4, <1>5, <1>6, <1>7, PutStep

\* A request is refused or cancelled without a claim.
LEMMA SettleUnclaimedKeeps ==
  ASSUME IInv, NEW p \in Poller, SettleUnclaimed(p)
  PROVE  IInv'
  <1> DEFINE Res(t) == IF t.cancel
                       THEN [state |-> "CANCELLED", code |-> "CANCELLED_BY_REQUESTER"]
                       ELSE Rejected("REQUEST_INVALID")
  <1>1. PICK t \in Listed(p) :
          /\ pol[p].pc = "recover"
          /\ \/ /\ Fresh(t) /\ Put(t.id, Settled(t.id, Res(t)))
                /\ pol' = [pol EXCEPT ![p].todo = Rest(p, t)] \/ pol' = PollEnds(p)
             \/ /\ UNCHANGED req
                /\ pol' = [pol EXCEPT ![p].todo = Rest(p, t)] \/ pol' = PollEnds(p)
    BY DEF SettleUnclaimed, LostPut, Serving
  <1>2. TypeOK /\ PollerOK(p)
    BY DEF IInv
  <1>3. /\ UNCHANGED <<run, child, outside, starts, effect, withdrawn>>
        /\ faults' \in Nat /\ trouble' \subseteq Request \cup {0}
    BY <1>2, Faults DEF SettleUnclaimed, TypeOK
  <1>4. /\ Moved(p) /\ pol'[p].pc \in {"recover", "idle"}
        /\ pol'[p].todo \subseteq pol[p].todo /\ pol'[p].acc \subseteq pol[p].acc
    BY <1>1, <1>2, RestMoves, PollEndsMoves
  <1>5. pol'[p].pc \notin Holding \cup Ending
    BY <1>4 DEF Holding, Unstarted, Ending
  <1>6. CASE UNCHANGED req
    BY <1>2, <1>3, <1>4, <1>5, <1>6, RestStep DEF PollerOK
  <1>7. CASE Fresh(t) /\ Put(t.id, Settled(t.id, Res(t)))
    <2>1. PICK r \in Request : r = t.id
      BY <1>7, FreshIsRequested
    <2>2. req[r].state = "REQUESTED" /\ t.cancel = req[r].cancel /\ RequestOK(r)
      BY <1>7, <2>1, FreshIsRequested
    <2>3. PICK res : res = Res(t)
      OBVIOUS
    <2>4. /\ res.state = (IF t.cancel THEN "CANCELLED" ELSE "REJECTED")
          /\ res.state \in RequestState /\ res.code \in ResultCode \cup {None}
      BY <2>3 DEF Rejected, RequestState, ResultCode
    <2>5. Put(r, Settled(r, res))
      BY <1>7, <2>1, <2>3
    <2>6. /\ req' \in [Request -> RequestRecord]
          /\ \A q \in Request \ {r} : req'[q] = req[q]
          /\ req'[r].rev = req[r].rev + 1 /\ req'[r].state = res.state
          /\ req'[r].cancel = req[r].cancel /\ req'[r].type = req[r].type
      BY <1>2, <2>4, <2>5, SettledMoves
    <2>7. IF t.cancel THEN r \in withdrawn /\ req'[r].cancel ELSE r \notin withdrawn
      BY <2>2, <2>6 DEF RequestOK, WithdrawnOK
    <2>8. QED
      BY <1>3, <1>4, <1>5, <2>2, <2>4, <2>6, <2>7, ServeStep
  <1>8. QED
    BY <1>1, <1>6, <1>7

\* A claim is a compare-and-set on the listed revision.
LEMMA ClaimKeeps ==
  ASSUME IInv, NEW p \in Poller, Claim(p)
  PROVE  IInv'
  <1>1. PICK t \in Listed(p) :
          /\ pol[p].pc = "recover" /\ ~t.cancel
          /\ \/ /\ Fresh(t) /\ Put(t.id, [req[t.id] EXCEPT !.state = "ACCEPTED", !.age = 0])
                /\ \/ pol' = PollEnds(p)
                   \/ pol' = [pol EXCEPT ![p] =
                        [@ EXCEPT !.pc = "claimed", !.todo = Rest(p, t), !.due = FALSE,
                                  !.cur = [id |-> t.id, rev |-> t.rev + 1]]]
             \/ /\ UNCHANGED req
                /\ pol' = [pol EXCEPT ![p].todo = Rest(p, t)] \/ pol' = PollEnds(p)
          /\ trouble' = trouble \/ trouble' = trouble \cup {t.id}
    BY DEF Claim, LostPut, Serving
  <1>2. TypeOK /\ PollerOK(p) /\ t.id \in Request /\ t.rev \in Nat
    BY PollerTypes DEF IInv, Listed
  <1>3. /\ UNCHANGED <<run, child, outside, starts, effect, withdrawn>>
        /\ faults' \in Nat /\ trouble' \subseteq Request \cup {0}
    BY <1>1, <1>2, Faults DEF Claim, TypeOK
  <1>4. CASE UNCHANGED req /\ (pol' = [pol EXCEPT ![p].todo = Rest(p, t)] \/ pol' = PollEnds(p))
    <2>1. /\ Moved(p) /\ pol'[p].pc \in {"recover", "idle"}
          /\ pol'[p].todo \subseteq pol[p].todo /\ pol'[p].acc \subseteq pol[p].acc
      BY <1>1, <1>2, <1>4, RestMoves, PollEndsMoves
    <2>2. QED
      BY <1>2, <1>3, <1>4, <2>1, RestStep DEF PollerOK, Holding, Unstarted, Ending
  <1>5. CASE /\ Fresh(t) /\ Put(t.id, [req[t.id] EXCEPT !.state = "ACCEPTED", !.age = 0])
             /\ \/ pol' = PollEnds(p)
                \/ pol' = [pol EXCEPT ![p] =
                     [@ EXCEPT !.pc = "claimed", !.todo = Rest(p, t), !.due = FALSE,
                               !.cur = [id |-> t.id, rev |-> t.rev + 1]]]
    <2>1. PICK r \in Request : r = t.id
      BY <1>2
    <2>2. req[r].state = "REQUESTED" /\ t.cancel = req[r].cancel /\ RequestOK(r)
          /\ req[r] \in RequestRecord
      BY <1>2, <1>5, <2>1, FreshIsRequested DEF TypeOK
    <2>3. r \notin withdrawn
      BY <1>1, <2>2 DEF RequestOK, WithdrawnOK
    <2>4. /\ req' \in [Request -> RequestRecord]
          /\ \A q \in Request \ {r} : req'[q] = req[q]
          /\ req'[r].rev = req[r].rev + 1 /\ req'[r].state = "ACCEPTED"
          /\ req'[r].type = req[r].type
      <3> DEFINE rec == [req[r] EXCEPT !.state = "ACCEPTED", !.age = 0]
      <3>4. 0 \in 0..(StaleAfter + 1) /\ "ACCEPTED" \in RequestState
        BY QueueAssumption DEF RequestState
      <3>1. rec \in RequestRecord /\ rec.rev = req[r].rev /\ rec.state = "ACCEPTED"
            /\ rec.type = req[r].type
        BY <2>2, <3>4 DEF RequestRecord
      <3>2. Put(r, rec)
        BY <1>5, <2>1
      <3> HIDE DEF rec
      <3>3. QED
        BY <1>2, <3>1, <3>2, PutMoves
    <2>5. CASE pol' = PollEnds(p)
      <3>1. /\ Moved(p) /\ pol'[p].pc = "idle"
            /\ pol'[p].todo \subseteq pol[p].todo /\ pol'[p].acc \subseteq pol[p].acc
        BY <1>2, <2>5, PollEndsMoves
      <3>2. pol'[p].pc \notin Holding \cup Ending
        BY <3>1 DEF Holding, Unstarted, Ending
      <3>3. QED
        BY <1>3, <2>2, <2>3, <2>4, <3>1, <3>2, ServeStep
    <2>6. CASE pol' = [pol EXCEPT ![p] =
                  [@ EXCEPT !.pc = "claimed", !.todo = Rest(p, t), !.due = FALSE,
                            !.cur = [id |-> t.id, rev |-> t.rev + 1]]]
      <3>1. /\ Moved(p) /\ pol'[p].pc = "claimed" /\ pol'[p].cur.id = r
            /\ pol'[p].todo \subseteq pol[p].todo /\ pol'[p].acc \subseteq pol[p].acc
        BY <1>2, <2>1, <2>6, ClaimMoves
      <3>2. QED
        BY <1>3, <2>2, <2>3, <2>4, <3>1, ServeStep
    <2>7. QED
      BY <1>5, <2>5, <2>6
  <1>6. QED
    BY <1>1, <1>4, <1>5
-----------------------------------------------------------------------------
(* processClaimed.                                                          *)

\* A claimant that has started nothing acts for its request.
LEMMA StartStep ==
  ASSUME IInv, NEW p \in Poller, Moved(p), PollerOK(p)', ClaimKept(p),
         pol[p].pc \in Unstarted, NEW r \in Request, r = pol[p].cur.id,
         child' \in [Request -> ChildRecord], \A q \in Request \ {r} : child'[q] = child[q],
         effect' \in [Request -> {"none", "found", "prepared", "changed"}],
         \A q \in Request \ {r} : effect'[q] = effect[q],
         starts' \in [Request -> Nat], \A q \in Request \ {r} : starts'[q] = starts[q],
         RequestOK(r)', UNCHANGED <<req, run, outside, trouble, withdrawn>>, faults' \in Nat
  PROVE  IInv'
  <1>1. TypeOK' /\ TypeOK
    BY DEF IInv, TypeOK, Moved
  <1>2. OneClaimant'
    BY ClaimantsStay
  <1>3. \A q \in Request : RequestOK(q)'
    BY RequestKept DEF IInv
  <1>4. ASSUME NEW q \in Poller, q # p PROVE PollerOK(q)'
    <2>1. PollerOK(q) /\ Stays(q) /\ PollerOK(p)
      BY <1>4 DEF IInv, Moved, Stays
    <2>2. effect[r] = "none"
      BY <2>1 DEF PollerOK
    <2>3. \A x \in Request : Forward(x) /\ req'[x].rev \in Nat /\ req[x].rev \in Nat
      BY <1>1, <2>2 DEF Forward, Served, TypeOK, RequestRecord
    <2>4. Claimant(p)
      BY DEF Claimant, Holding
    <2>5. Claimant(q) => pol[q].cur.id # r
      BY <1>4, <2>4 DEF IInv, OneClaimant
    <2>6. pol[q].pc \in Unstarted \/ (pol[q].pc \in Ending /\ Certain(pol[q].res)) => Claimant(q)
      BY DEF Claimant, Holding, Certain, UncertainCode
    <2>7. LeavesAlone(q, pol[q].cur.id)
      BY <2>1, <2>5, <2>6 DEF LeavesAlone, PollerOK, Quiet, Holding
    <2>8. QED
      BY <1>1, <2>1, <2>3, <2>7, PollerKept
  <1>5. QED
    BY <1>1, <1>2, <1>3, <1>4 DEF IInv

\* reviewRequest and the checks of a START return a result or nothing.
LEMMA ReviewType ==
  ASSUME NEW p, NEW r, req[r].type \in RequestType, NEW res \in Review(p, r)
  PROVE  res = None \/ (res \in Result /\ res.code # "STALE")
  <1> DEFINE Good(x) == x = None \/ (x \in Result /\ x.code # "STALE")
  <1>1. \A run_ : Good(ReviewRerun(run_)) /\ Good(ReviewStop(run_)) /\ Good(ReviewClose(run_))
    BY DEF ReviewRerun, ReviewStop, ReviewClose, Rejected, Done, Result, ResultCode, ChildCode
  <1>2. Good(ReviewRequest(req[r].type, Status(p)))
    BY <1>1 DEF ReviewRequest, RequestType, Rejected, Result, ResultCode, ChildCode
  <1>3. \A x \in StartRefusals \cup PrepareStartRequest : Good(x)
    BY DEF StartRefusals, PrepareStartRequest, Rejected, Result, ResultCode
  <1>4. Good(Rejected("REQUESTED_BY_INVALID")) /\ Good(Rejected("RUN_NOT_FOUND"))
    BY DEF Rejected, Result, ResultCode
  <1>5. QED
    BY <1>2, <1>3, <1>4 DEF Review

\* A claimant decides its request without a child.
LEMMA DecideMoves ==
  ASSUME TypeOK, NEW p \in Poller, NEW res \in Result,
         pol' = [pol EXCEPT ![p] = [@ EXCEPT !.pc = "final", !.res = res, !.seen = NoLock]]
  PROVE  /\ Moved(p) /\ pol'[p].pc = "final" /\ pol'[p].todo = pol[p].todo
         /\ pol'[p].acc = pol[p].acc /\ pol'[p].cur = pol[p].cur /\ pol'[p].res = res
         /\ pol'[p].due = pol[p].due
  <1> DEFINE e == [pol[p] EXCEPT !.pc = "final", !.res = res, !.seen = NoLock]
  <1>1. pol[p] \in PollerRecord
    BY PollerTypes
  <1>2. NoLock \in [owner : Request \cup {None, Outsider}, fresh : BOOLEAN]
    BY DEF NoLock
  <1>3. e \in PollerRecord /\ e.pc = "final" /\ e.todo = pol[p].todo /\ e.acc = pol[p].acc
        /\ e.cur = pol[p].cur /\ e.res = res /\ e.due = pol[p].due
    BY <1>1, <1>2 DEF PollerRecord, PollerPhase, Result
  <1>4. pol' = [pol EXCEPT ![p] = e]
    OBVIOUS
  <1>5. QED
    BY <1>3, <1>4, PollerMoves

\* A child is started.
LEMMA SpawnMoves ==
  ASSUME TypeOK, NEW p \in Poller,
         pol' = [pol EXCEPT ![p] = [@ EXCEPT !.pc = "child", !.due = FALSE, !.seen = NoLock]]
  PROVE  /\ Moved(p) /\ pol'[p].pc = "child" /\ pol'[p].todo = pol[p].todo
         /\ pol'[p].acc = pol[p].acc /\ pol'[p].cur = pol[p].cur /\ pol'[p].due = FALSE
  <1> DEFINE e == [pol[p] EXCEPT !.pc = "child", !.due = FALSE, !.seen = NoLock]
  <1>1. pol[p] \in PollerRecord
    BY PollerTypes
  <1>2. NoLock \in [owner : Request \cup {None, Outsider}, fresh : BOOLEAN]
    BY DEF NoLock
  <1>3. e \in PollerRecord /\ e.pc = "child" /\ e.todo = pol[p].todo /\ e.acc = pol[p].acc
        /\ e.cur = pol[p].cur /\ e.due = FALSE
    BY <1>1, <1>2 DEF PollerRecord, PollerPhase
  <1>4. pol' = [pol EXCEPT ![p] = e]
    OBVIOUS
  <1>5. QED
    BY <1>3, <1>4, PollerMoves

\* A claimed request is reviewed and carried out.
LEMMA ProcessClaimedKeeps ==
  ASSUME IInv, NEW p \in Poller, ProcessClaimed(p)
  PROVE  IInv'
  <1>1. TypeOK /\ PollerOK(p) /\ pol[p].pc \in Unstarted
    BY DEF IInv, ProcessClaimed, Unstarted
  <1>2. PICK r \in Request : r = pol[p].cur.id
    BY <1>1 DEF PollerOK, Holding
  <1>3. /\ Served(r) /\ RequestOK(r) /\ starts[r] = 0 /\ child[r].ph = "none"
        /\ effect[r] = "none" /\ ~Certain(req[r]) /\ Quiet(r)
    BY <1>1, <1>2 DEF PollerOK, Holding, IInv, Quiet
  <1>4. req[r].type \in RequestType /\ req[r].state # "DONE"
    BY <1>3 DEF RequestOK, Served
  <1>5. UNCHANGED <<req, run, trouble, outside, withdrawn>> /\ faults' \in Nat
        /\ trouble' \subseteq Request \cup {0}
    BY <1>1, Faults DEF ProcessClaimed, TypeOK
  <1>6. ASSUME NEW res \in Result, UNCHANGED <<child, starts>>,
               pol' = [pol EXCEPT ![p] = [@ EXCEPT !.pc = "final", !.res = res, !.seen = NoLock]],
               IF res.state = "DONE" THEN Effect(r, "found") ELSE UNCHANGED effect
        PROVE  IInv'
    <2>1. /\ Moved(p) /\ pol'[p].pc = "final" /\ pol'[p].todo = pol[p].todo
          /\ pol'[p].acc = pol[p].acc /\ pol'[p].cur = pol[p].cur /\ pol'[p].res = res
      BY <1>1, <1>6, DecideMoves
    <2>2. CASE UNCHANGED effect /\ res.state # "DONE"
      BY <1>1, <1>2, <1>3, <1>5, <1>6, <2>1, <2>2, ResultStep DEF Ending, Holding
    <2>3. CASE effect' = [effect EXCEPT ![r] = "found"] /\ res.state = "DONE"
      <3>1. /\ effect' \in [Request -> {"none", "found", "prepared", "changed"}] /\ effect'[r] = "found"
            /\ \A q \in Request \ {r} : effect'[q] = effect[q]
        BY <1>1, <2>3 DEF TypeOK
      <3>2. PollerOK(p)'
        BY <1>1, <1>2, <1>3, <1>5, <1>6, <2>1, <2>3, <3>1
        DEF PollerOK, ListedOK, Served, Holding, Unstarted, Ending, Certain
      <3>3. ClaimKept(p)
        BY <1>1, <2>1 DEF ClaimKept, Claimant, Holding
      <3>4. RequestOK(r)'
        BY <1>3, <1>4, <1>5, <1>6, <3>1
        DEF RequestOK, ChildOK, WithdrawnOK, Served, Certain
      <3>5. child \in [Request -> ChildRecord] /\ starts \in [Request -> Nat]
        BY <1>1 DEF TypeOK
      <3>6. QED
        BY <1>1, <1>2, <1>5, <1>6, <2>1, <3>1, <3>2, <3>3, <3>4, <3>5, StartStep
    <2>4. QED
      BY <1>6, <2>2, <2>3 DEF Effect
  <1>7. CASE /\ child' = [child EXCEPT ![r].ph = "spawned"]
             /\ starts' = [starts EXCEPT ![r] = starts[r] + 1]
             /\ pol' = [pol EXCEPT ![p] = [@ EXCEPT !.pc = "child", !.due = FALSE, !.seen = NoLock]]
             /\ UNCHANGED effect
    <2>1. /\ Moved(p) /\ pol'[p].pc = "child" /\ pol'[p].todo = pol[p].todo
          /\ pol'[p].acc = pol[p].acc /\ pol'[p].cur = pol[p].cur
      BY <1>1, <1>7, SpawnMoves
    <2>2. child[r] \in ChildRecord /\ child \in [Request -> ChildRecord]
          /\ starts \in [Request -> Nat] /\ effect \in [Request -> {"none", "found", "prepared", "changed"}]
      BY <1>1 DEF TypeOK
    <2>3. /\ child' \in [Request -> ChildRecord] /\ child'[r].ph = "spawned"
          /\ \A q \in Request \ {r} : child'[q] = child[q]
      BY <1>7, <2>2 DEF ChildRecord
    <2>4. /\ starts' \in [Request -> Nat] /\ starts'[r] = 1
          /\ \A q \in Request \ {r} : starts'[q] = starts[q]
      BY <1>3, <1>7, <2>2
    <2>5. PollerOK(p)'
      BY <1>1, <1>2, <1>3, <1>5, <2>1
      DEF PollerOK, ListedOK, Served, Holding, Unstarted, Ending
    <2>6. ClaimKept(p)
      BY <1>1, <2>1 DEF ClaimKept, Claimant, Holding
    <2>7. RequestOK(r)'
      BY <1>3, <1>4, <1>5, <1>7, <2>3, <2>4
      DEF RequestOK, ChildOK, WithdrawnOK, Served, Certain
    <2>8. QED
      BY <1>1, <1>2, <1>5, <1>7, <2>1, <2>2, <2>3, <2>4, <2>5, <2>6, <2>7, StartStep
  <1>8. CASE \E res \in Review(p, r) \ {None} :
               /\ pol' = [pol EXCEPT ![p] = [@ EXCEPT !.pc = "final", !.res = res, !.seen = NoLock]]
               /\ IF res.state = "DONE" THEN Effect(r, "found") ELSE UNCHANGED effect
               /\ UNCHANGED <<child, starts>>
    <2>1. PICK res \in Review(p, r) \ {None} :
               /\ pol' = [pol EXCEPT ![p] = [@ EXCEPT !.pc = "final", !.res = res, !.seen = NoLock]]
               /\ IF res.state = "DONE" THEN Effect(r, "found") ELSE UNCHANGED effect
               /\ UNCHANGED <<child, starts>>
      BY <1>8
    <2>2. res \in Result
      BY <1>4, <2>1, ReviewType
    <2>3. QED
      BY <1>6, <2>1, <2>2
  <1>9. CASE /\ pol' = [pol EXCEPT ![p] = [@ EXCEPT !.pc = "final",
                          !.res = Rejected("STATUS_UNAVAILABLE"), !.seen = NoLock]]
             /\ UNCHANGED <<child, starts, effect>>
    <2>1. PICK res : res = Rejected("STATUS_UNAVAILABLE")
      OBVIOUS
    <2>2. res \in Result /\ res.state = "REJECTED"
      BY <2>1 DEF Rejected, Result, ResultCode
    <2>3. pol' = [pol EXCEPT ![p] = [@ EXCEPT !.pc = "final", !.res = res, !.seen = NoLock]]
      BY <1>9, <2>1
    <2>4. QED
      BY <1>6, <1>9, <2>2, <2>3
  <1>10. QED
    BY <1>2, <1>7, <1>8, <1>9 DEF ProcessClaimed
-----------------------------------------------------------------------------
(* The requesters, the Run's other visitors and time.                       *)

\* A request is posted, by hand or by the board.
LEMMA PostKeeps ==
  ASSUME IInv, NEW type \in RequestType, NEW valid \in BOOLEAN, Post(type, valid),
         UNCHANGED <<run, child, pol, faults, outside, starts, effect, trouble, withdrawn>>
  PROVE  IInv'
  <1>1. PICK r \in Request :
          /\ req[r].state = "ABSENT"
          /\ req' = [req EXCEPT ![r] = [@ EXCEPT !.type = type, !.valid = valid,
                                                 !.state = "REQUESTED", !.rev = 1]]
    BY DEF Post
  <1>2. TypeOK /\ RequestOK(r) /\ req[r] \in RequestRecord
    BY DEF IInv, TypeOK
  <1>3. UNCHANGED <<run, child, pol, faults, outside, starts, effect, trouble, withdrawn>>
    OBVIOUS
  <1> DEFINE e == [req[r] EXCEPT !.type = type, !.valid = valid, !.state = "REQUESTED", !.rev = 1]
  <1>4. type \in RequestType
    OBVIOUS
  <1>5. e \in RequestRecord /\ e.type = type /\ e.state = "REQUESTED" /\ e.cancel = req[r].cancel
    BY <1>2, <1>4 DEF RequestRecord, RequestState
  <1>6. req' = [req EXCEPT ![r] = e]
    BY <1>1
  <1> HIDE DEF e
  <1>7. /\ req' \in [Request -> RequestRecord] /\ req'[r] = e
        /\ \A q \in Request \ {r} : req'[q] = req[q]
    BY <1>2, <1>5, <1>6 DEF TypeOK
  <1>8. TypeOK' /\ OneClaimant'
    BY <1>2, <1>3, <1>7 DEF TypeOK, IInv, OneClaimant, Claimant
  <1>9. RequestOK(r)'
    BY <1>1, <1>2, <1>3, <1>4, <1>5, <1>7
    DEF RequestOK, ChildOK, WithdrawnOK, Served, Certain
  <1>10. \A q \in Request : RequestOK(q)'
    <2>1. ASSUME NEW q \in Request, q # r PROVE RequestOK(q)'
      <3>1. req'[q] = req[q] /\ RequestOK(q)
        BY <1>7, <2>1 DEF IInv
      <3>2. QED
        BY <1>3, <3>1, RequestKept
    <2>2. QED
      BY <1>9, <2>1
  <1>11. ASSUME NEW q \in Poller PROVE PollerOK(q)'
    <2>1. PollerOK(q) /\ Stays(q)
      BY <1>3, <1>11 DEF IInv, Stays
    <2>2. \A x \in Request : req'[x].rev \in Nat /\ req[x].rev \in Nat
      BY <1>2, <1>7 DEF TypeOK, RequestRecord
    <2>3. \A x \in Request : Forward(x)
      BY <1>1, <1>3, <1>7, <2>2 DEF Forward, Served
    <2>4. LeavesAlone(q, pol[q].cur.id)
      BY <1>1, <1>3, <1>7, <2>1 DEF LeavesAlone, PollerOK, Quiet, Holding, Served
    <2>5. QED
      BY <1>2, <2>1, <2>2, <2>3, <2>4, PollerKept
  <1>12. QED
    BY <1>8, <1>10, <1>11 DEF IInv

\* The flag of a request is set, in the app or by the board: a cancellation of a
\* REQUESTED request is noted.
LEMMA CancelFlagKeeps ==
  ASSUME IInv, NEW r \in Request, req[r].state \in {"REQUESTED", "ACCEPTED"},
         Put(r, [req[r] EXCEPT !.cancel = TRUE]),
         withdrawn' = IF req[r].state = "REQUESTED" THEN withdrawn \cup {r} ELSE withdrawn,
         UNCHANGED <<run, child, pol, faults, outside, starts, effect>>,
         trouble' \subseteq Request \cup {0}
  PROVE  IInv'
  <1> DEFINE rec == [req[r] EXCEPT !.cancel = TRUE]
  <1>1. TypeOK /\ RequestOK(r) /\ req[r] \in RequestRecord
        /\ req[r].state \in {"REQUESTED", "ACCEPTED"}
    BY DEF IInv, TypeOK
  <1>2. UNCHANGED <<run, child, pol, faults, outside, starts, effect>>
        /\ trouble' \subseteq Request \cup {0} /\ Put(r, rec)
        /\ withdrawn' = IF req[r].state = "REQUESTED" THEN withdrawn \cup {r} ELSE withdrawn
    OBVIOUS
  <1>3. rec \in RequestRecord /\ rec.state = req[r].state /\ rec.type = req[r].type
        /\ rec.cancel = TRUE /\ rec.rev = req[r].rev
    BY <1>1 DEF RequestRecord
  <1> HIDE DEF rec
  <1>4. /\ req' \in [Request -> RequestRecord]
        /\ \A q \in Request \ {r} : req'[q] = req[q]
        /\ req'[r].rev = req[r].rev + 1 /\ req'[r].state = req[r].state
        /\ req'[r].cancel = TRUE /\ req'[r].type = req[r].type
    BY <1>1, <1>2, <1>3, PutMoves
  <1>5. TypeOK' /\ OneClaimant'
    BY <1>1, <1>2, <1>4 DEF TypeOK, IInv, OneClaimant, Claimant
  <1>6. RequestOK(r)'
    BY <1>1, <1>2, <1>4 DEF RequestOK, ChildOK, WithdrawnOK, Served, Certain
  <1>7. \A q \in Request : RequestOK(q)'
    <2>1. ASSUME NEW q \in Request, q # r PROVE RequestOK(q)'
      <3>1. req'[q] = req[q] /\ RequestOK(q) /\ (q \in withdrawn' <=> q \in withdrawn)
        BY <1>2, <1>4, <2>1 DEF IInv
      <3>2. QED
        BY <1>2, <3>1, RequestKept
    <2>2. QED
      BY <1>6, <2>1
  <1>8. ASSUME NEW q \in Poller PROVE PollerOK(q)'
    <2>1. PollerOK(q) /\ Stays(q)
      BY <1>2, <1>8 DEF IInv, Stays
    <2>2. \A x \in Request : req'[x].rev \in Nat /\ req[x].rev \in Nat
      BY <1>1, <1>4 DEF TypeOK, RequestRecord
    <2>3. \A x \in Request : Forward(x)
      BY <1>1, <1>2, <1>4, <2>2 DEF Forward, Served
    <2>4. LeavesAlone(q, pol[q].cur.id)
      BY <1>1, <1>2, <1>4, <2>1 DEF LeavesAlone, PollerOK, Quiet, Holding, Served, Certain
    <2>5. QED
      BY <1>1, <2>1, <2>2, <2>3, <2>4, PollerKept
  <1>9. QED
    BY <1>5, <1>7, <1>8 DEF IInv

\* The two by hand.
LEMMA ByHandKeeps ==
  ASSUME IInv, PostByHand \/ \E r \in Request : EditCancel(r)
  PROVE  IInv'
  <1>1. CASE PostByHand
    BY <1>1, PostKeeps, QueueAssumption DEF PostByHand
  <1>2. ASSUME NEW r \in Request, EditCancel(r) PROVE IInv'
    <2>1. trouble' \subseteq Request \cup {0}
      BY <1>2 DEF EditCancel, IInv, TypeOK
    <2>2. QED
      BY <1>2, <2>1, CancelFlagKeeps DEF EditCancel
  <1>3. QED
    BY <1>1, <1>2

\* The steps that change the Run alone.
LEMMA RunKeeps ==
  ASSUME IInv, LeaseExpires \/ ForceUnlock \/ OutsideRun \/ OutsideEnds
  PROVE  IInv'
  <1>1. TypeOK
    BY DEF IInv
  <1>2. UNCHANGED <<req, child, pol, faults, starts, effect, trouble, withdrawn>>
    BY DEF LeaseExpires, ForceUnlock, OutsideRun, OutsideEnds
  <1>3. run' \in RunRecord /\ outside' \in Nat
    <2>1. run \in RunRecord /\ outside \in Nat
      BY <1>1 DEF TypeOK
    <2>2. CASE LeaseExpires \/ ForceUnlock
      BY <2>1, <2>2 DEF RunRecord, LeaseExpires, ForceUnlock
    <2>3. CASE OutsideRun
      <3>1. outside' \in Nat
        BY <2>1, <2>3 DEF OutsideRun
      <3>2. run' = [run EXCEPT !.status = "RUNNING", !.owner = Outsider, !.fresh = TRUE]
        BY <2>3 DEF OutsideRun
      <3>3. run' \in RunRecord
        BY <2>1, <3>2 DEF RunRecord
      <3>4. QED
        BY <3>1, <3>3
    <2>4. CASE OutsideEnds
      BY <2>1, <2>4 DEF RunRecord, OutsideEnds, TerminalRun
    <2>5. QED
      BY <2>2, <2>3, <2>4
  <1>4. TypeOK'
    BY <1>1, <1>2, <1>3 DEF TypeOK
  <1>5. QED
    BY <1>2, <1>4 DEF IInv, OneClaimant, Claimant, PollerOK, ListedOK, Served, Certain, Quiet,
                     RequestOK, ChildOK, WithdrawnOK

\* Time touches ages and timers alone.
LEMMA TickKeeps ==
  ASSUME IInv, Tick
  PROVE  IInv'
  <1>1. TypeOK
    BY DEF IInv
  <1>2. UNCHANGED <<run, child, outside, starts, effect, withdrawn>> /\ faults' \in Nat
    BY <1>1, Faults DEF Tick
  <1>3. ASSUME NEW r \in Request
        PROVE  /\ req'[r] \in RequestRecord /\ req'[r].state = req[r].state
               /\ req'[r].cancel = req[r].cancel /\ req'[r].code = req[r].code
               /\ req'[r].type = req[r].type /\ req'[r].rev = req[r].rev
    <2>1. req[r] \in RequestRecord
      BY <1>1 DEF TypeOK
    <2>2. CASE req[r].state = "ACCEPTED" /\ req[r].age <= StaleAfter
      <3> DEFINE n == req[r].age + 1
      <3>1. req'[r] = [req[r] EXCEPT !.age = n]
        BY <2>2 DEF Tick
      <3>2. n \in 0..(StaleAfter + 1)
        BY <2>1, <2>2, QueueAssumption DEF RequestRecord
      <3> HIDE DEF n
      <3>3. QED
        BY <2>1, <3>1, <3>2 DEF RequestRecord
    <2>3. CASE ~(req[r].state = "ACCEPTED" /\ req[r].age <= StaleAfter)
      BY <2>1, <2>3 DEF Tick
    <2>4. QED
      BY <2>2, <2>3
  <1>4. ASSUME NEW p \in Poller
        PROVE  pol'[p] \in PollerRecord /\ Stays(p)
    <2>1. pol[p] \in PollerRecord /\ pol'[p] = [pol[p] EXCEPT !.due = Busy(p)]
      BY <1>1, PollerTypes DEF Tick
    <2>2. Busy(p) \in BOOLEAN
      BY DEF Busy
    <2>3. QED
      BY <2>1, <2>2 DEF PollerRecord, Stays
  <1>5. req' \in [Request -> RequestRecord]
    BY <1>3 DEF Tick
  <1>6. pol' \in [Poller -> PollerRecord]
    BY <1>4 DEF Tick
  <1>7. trouble' \subseteq Request \cup {0}
    BY <1>1, PollerTypes DEF Tick, TypeOK
  <1>8. TypeOK'
    BY <1>1, <1>2, <1>5, <1>6, <1>7 DEF TypeOK
  <1>9. OneClaimant'
    BY <1>4 DEF IInv, OneClaimant, Claimant, Stays
  <1>10. \A r \in Request : RequestOK(r)'
    BY <1>2, <1>3, RequestKept DEF IInv
  <1>11. ASSUME NEW q \in Poller PROVE PollerOK(q)'
    <2>1. PollerOK(q) /\ Stays(q)
      BY <1>4 DEF IInv
    <2>2. \A x \in Request : Forward(x) /\ req'[x].rev \in Nat /\ req[x].rev \in Nat
      BY <1>1, <1>2, <1>3 DEF Forward, Served, TypeOK, RequestRecord
    <2>3. LeavesAlone(q, pol[q].cur.id)
      BY <1>2, <1>3, <2>1 DEF LeavesAlone, PollerOK, Quiet, Holding, Certain
    <2>4. QED
      BY <1>1, <2>1, <2>2, <2>3, PollerKept
  <1>12. QED
    BY <1>8, <1>9, <1>10, <1>11 DEF IInv
-----------------------------------------------------------------------------
(* The theorems.                                                            *)

\* No request exists.
LEMMA InitIInv == Init => IInv
  <1> SUFFICES ASSUME Init PROVE IInv
    OBVIOUS
  <1>1. TypeOK
    <2>1. req \in [Request -> RequestRecord]
      <3>1. 0 \in 0..(StaleAfter + 1) /\ "ABSENT" \in RequestState
        BY QueueAssumption DEF RequestState
      <3>2. QED
        BY <3>1 DEF Init, RequestRecord
    <2>2. run \in RunRecord
      <3>1. FreshRun \in RunRecord
        BY DEF FreshRun, RunRecord
      <3>2. FailedRun \in RunRecord
        BY <3>1 DEF FailedRun, RunRecord, TerminalRun
      <3>3. HeldRun \in RunRecord
        BY <3>2 DEF HeldRun, RunRecord
      <3>4. QED
        BY <3>1, <3>2, <3>3 DEF Init
    <2>3. child \in [Request -> ChildRecord]
      <3>1. 0 \in 0..MaxBeats
        BY QueueAssumption
      <3>2. QED
        BY <3>1 DEF Init, ChildRecord
    <2>4. pol \in [Poller -> PollerRecord]
      <3>1. pol = [p \in Poller |-> Idle]
        BY DEF Init, Idle
      <3>2. QED
        BY <3>1, IdleType
    <2>5. faults \in Nat /\ outside \in Nat
      BY QueueAssumption DEF Init
    <2>6. QED
      BY <2>1, <2>2, <2>3, <2>4, <2>5 DEF Init, TypeOK
  <1>2. \A p \in Poller : pol[p].pc = "idle" /\ pol[p].todo = {} /\ pol[p].acc = {}
    BY DEF Init
  <1>3. OneClaimant /\ \A p \in Poller : PollerOK(p)
    BY <1>2 DEF OneClaimant, Claimant, PollerOK, Holding, Unstarted, Ending
  <1>4. \A r \in Request : RequestOK(r)
    BY DEF Init, RequestOK, ChildOK, WithdrawnOK, Served, Certain
  <1>5. QED
    BY <1>1, <1>3, <1>4 DEF IInv

\* IInv is inductive.
LEMMA NextIInv == IInv /\ [Next]_vars => IInv'
  <1> SUFFICES ASSUME IInv, [Next]_vars PROVE IInv'
    OBVIOUS
  <1>1. CASE PostByHand
    BY <1>1, ByHandKeeps
  <1>2. ASSUME NEW r \in Request, EditCancel(r) \/ ChildStep(r) PROVE IInv'
    BY <1>2, ByHandKeeps, ChildActsKeeps, ChildEndsKeeps DEF ChildStep
  <1>3. ASSUME NEW p \in Poller, Poll(p) PROVE IInv'
    <2>1. CASE ListRequested(p) \/ ListAccepted(p) \/ ReadStaleLock(p) \/ RecoverStale(p)
      BY <2>1, ListRequestedKeeps, ListAcceptedKeeps, ReadStaleLockKeeps, RecoverStaleKeeps
    <2>2. CASE SettleUnclaimed(p) \/ Claim(p) \/ EndPoll(p)
      BY <2>2, SettleUnclaimedKeeps, ClaimKeeps, PollEndsKeeps
    <2>3. CASE ReadStatusLock(p) \/ ProcessClaimed(p) \/ Heartbeat(p)
      BY <2>3, ReadStatusLockKeeps, ProcessClaimedKeeps, HeartbeatKeeps
    <2>4. CASE ChildDone(p) \/ SpawnFails(p)
      BY <2>4, ChildDoneKeeps, SpawnFailsKeeps
    <2>5. CASE FinalizeResult(p) \/ WriteResult(p) \/ RereadResult(p) \/ RewriteResult(p)
      BY <2>5, FinalizeKeeps, WriteResultKeeps
    <2>6. QED
      BY <1>3, <2>1, <2>2, <2>3, <2>4, <2>5 DEF Poll
  <1>4. ASSUME NEW p \in Poller, Crash(p) \/ Restart(p) PROVE IInv'
    BY <1>4, PollEndsKeeps
  <1>5. CASE LeaseExpires \/ ForceUnlock \/ OutsideRun \/ OutsideEnds
    BY <1>5, RunKeeps
  <1>6. CASE Tick
    BY <1>6, TickKeeps
  <1>7. CASE UNCHANGED vars
    BY <1>7 DEF vars, IInv, TypeOK, OneClaimant, Claimant, PollerOK, ListedOK, Served, Certain,
                Quiet, RequestOK, ChildOK, WithdrawnOK
  <1>8. QED
    BY <1>1, <1>2, <1>3, <1>4, <1>5, <1>6, <1>7 DEF Next

\* IInv holds in every state: whoever claims a request is alone with it, and
\* what pollers are about to write is true of what was done.
THEOREM Invariance == Spec => []IInv
  BY InitIInv, NextIInv, PTL DEF Spec

\* Records, processes and pollers keep their types (kintone-request-store.ts).
THEOREM QueueTypes == Spec => []TypeOK
  <1>1. IInv => TypeOK
    BY DEF IInv
  <1>2. QED
    BY <1>1, Invariance, PTL

\* At most one child is ever started for a request, with any number of pollers,
\* crashes and lost answers (claim, processClaimed, recoverStale).
THEOREM StartedOnce == Spec => []ExecutedOnce
  <1>1. IInv => ExecutedOnce
    BY DEF IInv, RequestOK, ExecutedOnce
  <1>2. QED
    BY <1>1, Invariance, PTL

\* A request that was cancelled while REQUESTED starts nothing and ends
\* CANCELLED, and no other does (cancelBeforeClaim against claim).
THEOREM WithdrawalHolds == Spec => []WithdrawnNeverRuns
  <1>1. IInv => WithdrawnNeverRuns
    BY DEF IInv, RequestOK, WithdrawnOK, WithdrawnNeverRuns, Served
  <1>2. QED
    BY <1>1, Invariance, PTL

\* DONE means the operation was carried out or found carried out; REJECTED with
\* a code that does not admit to not knowing means it was not: no node was
\* started, no hold written, nothing archived, whatever ensureRun had prepared
\* when it failed (run-network's catch, reviewRequest, classifyRunNetworkResult,
\* classifyCancelResult, classifyArchiveRun, recoverStale).
THEOREM ResultsAreTruthful == Spec => []ResultIsTruthful
  <1>1. IInv => ResultIsTruthful
    BY DEF IInv, RequestOK, Certain, Quiet, ResultIsTruthful
  <1>2. QED
    BY <1>1, Invariance, PTL
-----------------------------------------------------------------------------
(* What no step may do to a request that has ended.                         *)

EndedKept(r) ==
    /\ req[r].state \in TerminalState => req'[r].state \in TerminalState
    /\ req[r].state = "CANCELLED" => req'[r] = req[r]

\* A write of one record.
LEMMA WriteKeepsEnded ==
  ASSUME NEW x \in Request, \A q \in Request \ {x} : req'[q] = req[q], EndedKept(x)
  PROVE  \A r \in Request : EndedKept(r)
  BY DEF EndedKept

\* A write that reopens no request keeps the ended ones ended.
LEMMA PutKeepsEnded ==
  ASSUME TypeOK, NEW x \in Request, NEW rec \in RequestRecord, Put(x, rec),
         req[x].state # "CANCELLED", req[x].state \in TerminalState => rec.state \in TerminalState
  PROVE  \A r \in Request : EndedKept(r)
  <1>1. (\A q \in Request \ {x} : req'[q] = req[q]) /\ req'[x].state = rec.state
    BY PutMoves
  <1>2. EndedKept(x)
    BY <1>1 DEF EndedKept
  <1>3. QED
    BY <1>1, <1>2, WriteKeepsEnded

\* The records a poller and a requester write, put into their type.
LEMMA WrittenTypes ==
  ASSUME TypeOK, NEW x \in Request
  PROVE  /\ [req[x] EXCEPT !.cancel = TRUE] \in RequestRecord
         /\ [req[x] EXCEPT !.cancel = TRUE].state = req[x].state
         /\ [req[x] EXCEPT !.age = 0] \in RequestRecord
         /\ [req[x] EXCEPT !.age = 0].state = req[x].state
         /\ [req[x] EXCEPT !.state = "ACCEPTED", !.age = 0] \in RequestRecord
  <1>1. req[x] \in RequestRecord /\ 0 \in 0..(StaleAfter + 1) /\ "ACCEPTED" \in RequestState
    BY QueueAssumption DEF TypeOK, RequestState
  <1>2. QED
    BY <1>1 DEF RequestRecord

\* No step reopens a request.
LEMMA StepKeepsEnded == IInv /\ [Next]_vars => \A r \in Request : EndedKept(r)
  <1> SUFFICES ASSUME IInv, [Next]_vars PROVE \A r \in Request : EndedKept(r)
    OBVIOUS
  <1>1. TypeOK
    BY DEF IInv
  <1>2. CASE UNCHANGED req
    BY <1>2 DEF EndedKept
  <1>3. CASE PostByHand
    <2>1. PICK x \in Request : /\ req[x].state = "ABSENT"
                               /\ \E e : req' = [req EXCEPT ![x] = e]
      BY <1>3 DEF PostByHand, Post
    <2>2. \A q \in Request \ {x} : req'[q] = req[q]
      BY <1>1, <2>1 DEF TypeOK
    <2>3. QED
      BY <2>1, <2>2, WriteKeepsEnded DEF EndedKept, TerminalState
  <1>4. ASSUME NEW x \in Request, EditCancel(x) PROVE \A r \in Request : EndedKept(r)
    <2>1. Put(x, [req[x] EXCEPT !.cancel = TRUE]) /\ req[x].state \in {"REQUESTED", "ACCEPTED"}
      BY <1>4 DEF EditCancel
    <2>2. QED
      BY <1>1, <2>1, WrittenTypes, PutKeepsEnded DEF TerminalState
  <1>5. ASSUME NEW p \in Poller, Heartbeat(p) PROVE \A r \in Request : EndedKept(r)
    <2>1. PICK x \in Request : x = pol[p].cur.id
      BY <1>5 DEF IInv, PollerOK, Heartbeat, Holding
    <2>2. Served(x)
      BY <1>5, <2>1 DEF IInv, PollerOK, Heartbeat, Holding
    <2>3. UNCHANGED req \/ Put(x, [req[x] EXCEPT !.age = 0])
      BY <1>5, <2>1 DEF Heartbeat, LostPut
    <2>4. QED
      BY <1>1, <1>2, <2>2, <2>3, WrittenTypes, PutKeepsEnded DEF Served
  <1>6. ASSUME NEW p \in Poller, WriteResult(p) \/ RewriteResult(p)
        PROVE  \A r \in Request : EndedKept(r)
    <2>1. PICK x \in Request : x = pol[p].cur.id
      BY <1>6 DEF IInv, PollerOK, WriteResult, RewriteResult, Ending
    <2>2. Served(x)
      BY <1>6, <2>1 DEF IInv, PollerOK, WriteResult, RewriteResult, Ending
    <2>3. UNCHANGED req \/ Put(x, Settled(x, pol[p].res))
      BY <1>6, <2>1 DEF WriteResult, RewriteResult, LostPut
    <2>4. pol[p].res.state \in {"DONE", "REJECTED"} /\ pol[p].res.code \in ResultCode \cup {None}
      BY <1>1, PollerTypes
    <2>5. CASE Put(x, Settled(x, pol[p].res))
      <3>1. (\A q \in Request \ {x} : req'[q] = req[q]) /\ req'[x].state = pol[p].res.state
        BY <1>1, <2>4, <2>5, SettledMoves DEF RequestState
      <3>2. QED
        BY <2>2, <2>4, <3>1, WriteKeepsEnded DEF EndedKept, Served, TerminalState
    <2>6. QED
      BY <1>2, <2>3, <2>5
  <1>7. ASSUME NEW p \in Poller, SettleUnclaimed(p) \/ Claim(p)
        PROVE  \A r \in Request : EndedKept(r)
    <2>1. PICK t \in Listed(p) :
            UNCHANGED req \/ (Fresh(t) /\ \E rec : Put(t.id, rec))
      BY <1>7 DEF SettleUnclaimed, Claim, LostPut
    <2>2. CASE Fresh(t) /\ \E rec : Put(t.id, rec)
      <3>1. PICK x \in Request : x = t.id /\ req[x].state = "REQUESTED"
        BY <2>2, FreshIsRequested
      <3>2. \A q \in Request \ {x} : req'[q] = req[q]
        BY <1>1, <2>2, <3>1 DEF TypeOK, Put
      <3>3. QED
        BY <3>1, <3>2, WriteKeepsEnded DEF EndedKept, TerminalState
    <2>3. QED
      BY <1>2, <2>1, <2>2, SMTT(30)
  <1>8. CASE Tick
    <2>1. ASSUME NEW r \in Request PROVE EndedKept(r)
      <3>1. CASE req[r].state = "ACCEPTED"
        BY <3>1 DEF EndedKept, TerminalState
      <3>2. CASE req[r].state # "ACCEPTED"
        BY <1>8, <3>2 DEF Tick, EndedKept
      <3>3. QED
        BY <3>1, <3>2
    <2>2. QED
      BY <2>1
  <1>9. ASSUME NEW r \in Request, ChildStep(r) PROVE UNCHANGED req
    BY <1>9, ZenonT(40) DEF ChildStep, ChildActs, ChildEnds, ChildDies
  <1>10. ASSUME NEW p \in Poller, Poll(p) \/ Crash(p) \/ Restart(p)
         PROVE  \/ UNCHANGED req \/ Heartbeat(p) \/ WriteResult(p) \/ RewriteResult(p)
                \/ SettleUnclaimed(p) \/ Claim(p)
    BY <1>10 DEF Poll, Crash, Restart, ListRequested, ListAccepted, ReadStaleLock, RecoverStale,
                 EndPoll, ReadStatusLock, ProcessClaimed, ChildDone, SpawnFails, FinalizeResult,
                 RereadResult
  <1>11. CASE LeaseExpires \/ ForceUnlock \/ OutsideRun \/ OutsideEnds
    BY <1>2, <1>11 DEF LeaseExpires, ForceUnlock, OutsideRun, OutsideEnds
  <1>12. QED
    BY <1>2, <1>3, <1>4, <1>5, <1>6, <1>7, <1>8, <1>9, <1>10, <1>11 DEF Next, vars

\* A request that ended never waits again, and CANCELLED is never overwritten
\* (putRecordById fenced by the revision, writeResult, cancelBeforeClaim).
THEOREM EndedForGood == Spec => EndedStaysEnded
  <1>1. IInv /\ [Next]_vars =>
          [\A r \in Request :
              /\ req[r].state \in TerminalState => req'[r].state \in TerminalState
              /\ req[r].state = "CANCELLED" => req'[r] = req[r]]_vars
    BY StepKeepsEnded DEF EndedKept
  <1>2. QED
    BY <1>1, Invariance, PTL DEF Spec, EndedStaysEnded
-----------------------------------------------------------------------------
(* The request app as a service.  IInv is all that is needed: each write of  *)
(* a record is a move of its request, each step of a child is a step of its  *)
(* work, and nothing is written but what is allowed where the request is.    *)

Stages == [r \in Request |-> Stage(req[r])]
Works == [r \in Request |-> Work(r)]

ServiceStep == [Service!ServiceNext]_(Service!serviceVars)

\* The answers that agree with how far the work has come.
Truth(answer, w) ==
    \/ answer = "done" /\ w \in {"changed", "found"}
    \/ answer = "refused" /\ w \in {"idle", "prepared", "nothing"}
    \/ answer = "unsure"

\* Where a request may go from where it is.
MoveOK(from, to, w) ==
    \/ <<from, to>> \in {<<"absent", "waiting">>, <<"waiting", "withdrawn">>,
                         <<"withdrawn", "cancelled">>, <<"waiting", "refused">>,
                         <<"waiting", "taken">>}
    \/ from \in {"taken", "done", "refused", "unsure"} /\ Truth(to, w)

\* What may become of the work.
WorkOK(from, to) ==
    \/ from = "idle" /\ to = "found"
    \/ from = "begun" /\ to \in {"changed", "found", "prepared", "nothing"}

\* The stage a record shows.
LEMMA StageValues ==
  ASSUME NEW rec \in RequestRecord
  PROVE  /\ rec.state = "ABSENT" => Stage(rec) = "absent"
         /\ rec.state = "REQUESTED" /\ rec.cancel => Stage(rec) = "withdrawn"
         /\ rec.state = "REQUESTED" /\ ~rec.cancel => Stage(rec) = "waiting"
         /\ rec.state = "CANCELLED" => Stage(rec) = "cancelled"
         /\ rec.state = "ACCEPTED" => Stage(rec) = "taken"
         /\ rec.state = "DONE" => Stage(rec) = "done"
         /\ rec.state = "REJECTED" /\ rec.code \in UncertainCode => Stage(rec) = "unsure"
         /\ rec.state = "REJECTED" /\ rec.code \notin UncertainCode => Stage(rec) = "refused"
  BY DEF Stage

\* Nothing that the service shows has changed.
LEMMA SameService ==
  ASSUME \A r \in Request : Stage(req'[r]) = Stage(req[r]) /\ Work(r)' = Work(r),
         UNCHANGED starts
  PROVE  ServiceStep
  <1>1. Stages' = Stages /\ Works' = Works
    BY DEF Stages, Works
  <1>2. QED
    BY <1>1 DEF Stages, Works, ServiceStep, Service!serviceVars

\* Steps that write neither a record nor what a child did.
LEMMA IdleServes ==
  ASSUME UNCHANGED <<req, child, effect, starts>>
  PROVE  ServiceStep
  <1>1. \A r \in Request : Work(r)' = Work(r)
    BY DEF Work
  <1>2. QED
    BY <1>1, SameService

\* A record is written and nothing else.
LEMMA RecordStep ==
  ASSUME NEW x \in Request, \A q \in Request \ {x} : req'[q] = req[q],
         UNCHANGED <<child, effect, starts>>,
         Stage(req'[x]) = Stage(req[x]) \/ MoveOK(Stage(req[x]), Stage(req'[x]), Work(x))
  PROVE  ServiceStep
  <1>1. \A r \in Request : Work(r)' = Work(r)
    BY DEF Work
  <1>2. CASE Stage(req'[x]) = Stage(req[x])
    <2>1. \A r \in Request : Stage(req'[r]) = Stage(req[r])
      BY <1>2
    <2>2. QED
      BY <1>1, <2>1, SameService
  <1>3. CASE MoveOK(Stage(req[x]), Stage(req'[x]), Work(x))
    <2> DEFINE to == Stage(req'[x])
    <2>1. Works' = Works /\ Works[x] = Work(x) /\ Stages[x] = Stage(req[x])
      BY <1>1 DEF Works, Stages
    <2>2. Stages' = [Stages EXCEPT ![x] = to]
      <3>1. Stages' = [r \in Request |-> Stage(req'[r])]
        BY DEF Stages
      <3>2. DOMAIN Stages = Request /\ \A r \in Request : Stages[r] = Stage(req[r])
        BY DEF Stages
      <3>3. QED
        BY <3>1, <3>2
    <2>3. MoveOK(Stages[x], to, Works[x])
      BY <1>3, <2>1
    <2> HIDE DEF to
    <2>4. \/ Service!Ask(x) \/ Service!Withdraw(x) \/ Service!Cancel(x) \/ Service!Decline(x)
          \/ Service!Take(x) \/ Service!Answer(x)
      BY <2>1, <2>2, <2>3
         DEF MoveOK, Truth, Stages, Works, Service!Ask, Service!Withdraw, Service!Cancel,
             Service!Decline, Service!Take, Service!Answer, Service!Truthful, Service!Move
    <2>5. QED
      BY <2>4 DEF ServiceStep, Service!ServiceNext
  <1>4. QED
    BY <1>2, <1>3

\* The work of a request that waits for its answer goes on.
LEMMA WorkStep ==
  ASSUME NEW x \in Request, UNCHANGED req, Stage(req[x]) \in {"taken", "unsure"},
         \A q \in Request \ {x} : Work(q)' = Work(q),
         \/ WorkOK(Work(x), Work(x)') /\ UNCHANGED starts
         \/ Work(x) = "idle" /\ Work(x)' = "begun" /\ starts' = [starts EXCEPT ![x] = @ + 1]
  PROVE  ServiceStep
  <1> DEFINE to == Work(x)'
  <1>1. Stages' = Stages /\ Stages[x] = Stage(req[x]) /\ Works[x] = Work(x)
    BY DEF Stages, Works
  <1>2. Works' = [Works EXCEPT ![x] = to]
    <2>1. Works' = [r \in Request |-> Work(r)']
      BY DEF Works
    <2>2. DOMAIN Works = Request /\ \A r \in Request : Works[r] = Work(r)
      BY DEF Works
    <2>3. QED
      BY <2>1, <2>2
  <1>3. \/ WorkOK(Works[x], to) /\ UNCHANGED starts
        \/ Works[x] = "idle" /\ to = "begun" /\ starts' = [starts EXCEPT ![x] = @ + 1]
    BY <1>1
  <1> HIDE DEF to
  <1>4. Service!Begin(x) \/ Service!Find(x) \/ Service!Finish(x)
    BY <1>1, <1>2, <1>3
       DEF WorkOK, Stages, Works, Service!Begin, Service!Find, Service!Finish, Service!Progress
  <1>5. QED
    BY <1>4 DEF ServiceStep, Service!ServiceNext

\* A child has been started for a request that is served and not yet answered
\* for certain, and it has done nothing so far.
LEMMA Underway ==
  ASSUME IInv, NEW r \in Request, child[r].ph = "spawned"
  PROVE  Stage(req[r]) \in {"taken", "unsure"} /\ Work(r) = "begun" /\ effect[r] = "none"
  <1>1. RequestOK(r) /\ req[r] \in RequestRecord
    BY DEF IInv, TypeOK
  <1>2. effect[r] = "none" /\ Served(r) /\ req[r].state # "DONE" /\ ~Certain(req[r])
    BY <1>1 DEF RequestOK, ChildOK, Quiet
  <1>3. Stage(req[r]) \in {"taken", "unsure"}
    BY <1>1, <1>2, StageValues DEF Served, Certain
  <1>4. QED
    BY <1>2, <1>3 DEF Work

\* A step of the child of one request, which has something left to do.
LEMMA ChildServes ==
  ASSUME IInv, NEW r \in Request, child[r].ph = "spawned",
         \A q \in Request \ {r} : child'[q] = child[q] /\ effect'[q] = effect[q],
         \/ effect'[r] \in {"changed", "found", "prepared"}
         \/ effect'[r] = "none" /\ child'[r].ph = "exited",
         UNCHANGED <<req, starts>>
  PROVE  ServiceStep
  <1>1. Stage(req[r]) \in {"taken", "unsure"} /\ Work(r) = "begun"
    BY Underway
  <1>2. Work(r)' \in {"changed", "found", "prepared", "nothing"}
    BY DEF Work
  <1>3. \A q \in Request \ {r} : Work(q)' = Work(q)
    BY DEF Work
  <1>4. QED
    BY <1>1, <1>2, <1>3, WorkStep DEF WorkOK

\* How a child ends.
LEMMA ExitServes ==
  ASSUME IInv, NEW r \in Request, NEW k, NEW code, Exit(r, k, code), child[r].ph = "spawned",
         \/ UNCHANGED effect \/ Effect(r, "found") \/ Effect(r, "prepared")
         \/ Effect(r, "changed"),
         UNCHANGED <<req, starts>>
  PROVE  ServiceStep
  <1>1. TypeOK /\ child[r] \in ChildRecord /\ effect[r] = "none"
    BY Underway DEF IInv, TypeOK
  <1>2. child'[r].ph = "exited" /\ \A q \in Request \ {r} : child'[q] = child[q]
    BY <1>1 DEF TypeOK, Exit, ChildRecord
  <1>3. \/ effect'[r] \in {"changed", "found", "prepared"}
        \/ effect'[r] = "none"
    BY <1>1 DEF TypeOK, Effect
  <1>4. \A q \in Request \ {r} : effect'[q] = effect[q]
    BY <1>1 DEF TypeOK, Effect
  <1>5. QED
    BY <1>2, <1>3, <1>4, ChildServes

\* What a child does is the work of its request.
LEMMA ChildActsServes ==
  ASSUME IInv, NEW r \in Request, ChildActs(r)
  PROVE  ServiceStep
  <1>1. child[r].ph = "spawned" /\ UNCHANGED <<req, starts>> /\ TypeOK
    BY DEF ChildActs, IInv
  <1>2. CASE ChildRunNetwork(r)
    <2>1. CASE child' = [child EXCEPT ![r].ph = "running"] /\ Effect(r, "changed")
      <3>1. \A q \in Request \ {r} : child'[q] = child[q] /\ effect'[q] = effect[q]
        BY <1>1, <2>1 DEF TypeOK, Effect
      <3>2. effect'[r] = "changed"
        BY <1>1, <2>1 DEF TypeOK, Effect
      <3>3. QED
        BY <1>1, <3>1, <3>2, ChildServes
    <2>2. CASE \E k, code : Exit(r, k, code)
                 /\ (UNCHANGED effect \/ Effect(r, "found") \/ Effect(r, "prepared"))
      BY <1>1, <2>2, ExitServes
    <2>3. QED
      BY <1>2, <2>1, <2>2 DEF ChildRunNetwork
  <1>3. CASE ChildCancelRun(r)
    BY <1>1, <1>3, ExitServes DEF ChildCancelRun
  <1>4. CASE ChildArchiveRun(r)
    BY <1>1, <1>4, ExitServes DEF ChildArchiveRun
  <1>5. QED
    BY <1>2, <1>3, <1>4 DEF ChildActs

\* The end of an invocation changes no work; a death ends what was not done.
LEMMA ChildStepServes ==
  ASSUME IInv, NEW r \in Request, ChildStep(r)
  PROVE  ServiceStep
  <1>1. TypeOK /\ RequestOK(r) /\ child[r] \in ChildRecord
    BY DEF IInv, TypeOK
  <1>2. CASE child[r].ph = "running" /\ \E k, code : Exit(r, k, code)
             /\ UNCHANGED <<req, effect, starts>>
    <2>1. effect[r] = "changed"
      BY <1>1, <1>2 DEF RequestOK, ChildOK
    <2>2. \A q \in Request \ {r} : child'[q] = child[q]
      BY <1>1, <1>2 DEF TypeOK, Exit
    <2>3. \A q \in Request : Work(q)' = Work(q)
      BY <1>2, <2>1, <2>2 DEF Work
    <2>4. QED
      BY <1>2, <2>3, SameService
  <1>3. CASE child[r].ph = "spawned" /\ \E k, code : Exit(r, k, code)
             /\ UNCHANGED <<req, starts>> /\ (UNCHANGED effect \/ Effect(r, "prepared"))
    BY <1>3, ExitServes
  <1>4. CASE ChildEnds(r) \/ ChildDies(r)
    BY <1>2, <1>3, <1>4 DEF ChildEnds, ChildDies
  <1>5. QED
    BY <1>4, ChildActsServes DEF ChildStep

\* The process of a child that could not be started.
LEMMA SpawnFailsServes ==
  ASSUME IInv, NEW p \in Poller, SpawnFails(p)
  PROVE  ServiceStep
  <1>1. PICK r \in Request : r = pol[p].cur.id
    BY DEF IInv, PollerOK, SpawnFails, Holding
  <1>2. child[r].ph = "spawned" /\ Exit(r, "spawn", None) /\ UNCHANGED <<req, effect, starts>>
    BY <1>1, SMTT(30) DEF SpawnFails
  <1>3. QED
    BY <1>2, ExitServes

\* The review decides, or a child is started, before anything was done.
LEMMA ProcessClaimedServes ==
  ASSUME IInv, NEW p \in Poller, ProcessClaimed(p)
  PROVE  ServiceStep
  <1>1. TypeOK /\ PollerOK(p) /\ pol[p].pc \in Unstarted /\ UNCHANGED req
    BY DEF IInv, ProcessClaimed, Unstarted
  <1>2. PICK r \in Request : r = pol[p].cur.id
    BY <1>1 DEF PollerOK, Holding
  <1>3. Served(r) /\ child[r].ph = "none" /\ effect[r] = "none" /\ ~Certain(req[r])
    BY <1>1, <1>2 DEF PollerOK, Holding
  <1>4. RequestOK(r) /\ req[r] \in RequestRecord
    BY <1>1 DEF IInv, TypeOK
  <1>5. Stage(req[r]) \in {"taken", "unsure"}
    BY <1>3, <1>4, StageValues DEF Served, Certain, RequestOK
  <1>6. Work(r) = "idle"
    BY <1>3 DEF Work
  <1>7. CASE UNCHANGED <<child, starts, effect>>
    BY <1>1, <1>7, IdleServes
  <1>8. CASE UNCHANGED <<child, starts>> /\ Effect(r, "found")
    <2>1. effect'[r] = "found" /\ \A q \in Request \ {r} : effect'[q] = effect[q]
      BY <1>1, <1>8 DEF TypeOK, Effect
    <2>2. Work(r)' = "found" /\ \A q \in Request \ {r} : Work(q)' = Work(q)
      BY <1>8, <2>1 DEF Work
    <2>3. QED
      BY <1>1, <1>5, <1>6, <1>8, <2>2, WorkStep DEF WorkOK
  <1>9. CASE /\ child' = [child EXCEPT ![r].ph = "spawned"]
             /\ starts' = [starts EXCEPT ![r] = @ + 1]
             /\ UNCHANGED effect
    <2>1. child'[r].ph = "spawned" /\ \A q \in Request \ {r} : child'[q] = child[q]
      BY <1>1, <1>9 DEF TypeOK, ChildRecord
    <2>2. Work(r)' = "begun" /\ \A q \in Request \ {r} : Work(q)' = Work(q)
      BY <1>3, <1>9, <2>1 DEF Work
    <2>3. QED
      BY <1>1, <1>5, <1>6, <1>9, <2>2, WorkStep
  <1>10. QED
    BY <1>2, <1>7, <1>8, <1>9 DEF ProcessClaimed

\* A request appears, and waits.
LEMMA PostServes ==
  ASSUME IInv, NEW type, NEW valid, Post(type, valid), UNCHANGED <<child, effect, starts>>
  PROVE  ServiceStep
  <1>1. TypeOK
    BY DEF IInv
  <1>2. PICK x \in Request :
          /\ req[x].state = "ABSENT"
          /\ req' = [req EXCEPT ![x] = [@ EXCEPT !.type = type, !.valid = valid,
                                                 !.state = "REQUESTED", !.rev = 1]]
    BY Zenon DEF Post
  <1>3. req[x] \in RequestRecord /\ ~req[x].cancel
    BY <1>1, <1>2 DEF IInv, TypeOK, RequestOK, WithdrawnOK
  <1>4. /\ \A q \in Request \ {x} : req'[q] = req[q]
        /\ req'[x].state = "REQUESTED" /\ ~req'[x].cancel
    BY <1>1, <1>2, <1>3 DEF TypeOK, RequestRecord
  <1>5. Stage(req[x]) = "absent" /\ Stage(req'[x]) = "waiting"
    BY <1>2, <1>4 DEF Stage
  <1>6. QED
    BY <1>4, <1>5, RecordStep DEF MoveOK

\* A cancel that comes in time withdraws the request, a later one is ignored.
LEMMA CancelServes ==
  ASSUME TypeOK, NEW x \in Request, req[x].state \in {"REQUESTED", "ACCEPTED"},
         Put(x, [req[x] EXCEPT !.cancel = TRUE]), UNCHANGED <<child, effect, starts>>
  PROVE  ServiceStep
  <1> DEFINE rec == [req[x] EXCEPT !.cancel = TRUE]
  <1>1. req[x] \in RequestRecord
    BY DEF TypeOK
  <1>2. rec \in RequestRecord /\ rec.state = req[x].state /\ rec.cancel
    BY <1>1 DEF RequestRecord
  <1> HIDE DEF rec
  <1>3. Put(x, rec)
    BY DEF rec
  <1>4. (\A q \in Request \ {x} : req'[q] = req[q]) /\ req'[x].state = req[x].state
        /\ req'[x].cancel
    BY <1>2, <1>3, PutMoves
  <1>5. CASE req[x].state = "REQUESTED"
    <2>1. Stage(req[x]) \in {"waiting", "withdrawn"} /\ Stage(req'[x]) = "withdrawn"
      BY <1>4, <1>5 DEF Stage
    <2>2. QED
      BY <1>4, <2>1, RecordStep DEF MoveOK
  <1>6. CASE req[x].state = "ACCEPTED"
    <2>1. Stage(req[x]) = "taken" /\ Stage(req'[x]) = "taken"
      BY <1>4, <1>6 DEF Stage
    <2>2. QED
      BY <1>4, <2>1, RecordStep
  <1>7. QED
    BY <1>5, <1>6

\* A heartbeat shows in no stage, and a child's count of beats in no work.
LEMMA HeartbeatServes ==
  ASSUME IInv, NEW p \in Poller, Heartbeat(p)
  PROVE  ServiceStep
  <1>1. TypeOK /\ UNCHANGED <<effect, starts>>
    BY DEF IInv, Heartbeat
  <1>2. PICK x \in Request : x = pol[p].cur.id
    BY DEF IInv, PollerOK, Heartbeat, Holding
  <1>3. \A q \in Request : child'[q].ph = child[q].ph
    BY <1>1, <1>2 DEF Heartbeat, TypeOK, ChildRecord
  <1>4. \A q \in Request : Work(q)' = Work(q)
    BY <1>1, <1>3 DEF Work
  <1>5. UNCHANGED req \/ Put(x, [req[x] EXCEPT !.age = 0])
    BY <1>2 DEF Heartbeat, LostPut
  <1>6. \A q \in Request : Stage(req'[q]) = Stage(req[q])
    <2>1. CASE Put(x, [req[x] EXCEPT !.age = 0])
      <3> DEFINE rec == [req[x] EXCEPT !.age = 0]
      <3>1. req[x] \in RequestRecord /\ rec \in RequestRecord
        BY <1>1, WrittenTypes DEF TypeOK
      <3>2. rec.state = req[x].state /\ rec.cancel = req[x].cancel /\ rec.code = req[x].code
        BY <3>1 DEF RequestRecord
      <3> HIDE DEF rec
      <3>3. Put(x, rec)
        BY <2>1 DEF rec
      <3>4. /\ \A q \in Request \ {x} : req'[q] = req[q]
            /\ req'[x].state = req[x].state /\ req'[x].cancel = req[x].cancel
            /\ req'[x].code = req[x].code
        BY <1>1, <3>1, <3>2, <3>3, PutMoves
      <3>5. Stage(req'[x]) = Stage(req[x])
        BY <3>4 DEF Stage
      <3>6. QED
        BY <3>4, <3>5
    <2>2. QED
      BY <1>5, <2>1
  <1>7. QED
    BY <1>1, <1>4, <1>6, SameService

\* A result is an answer that agrees with the work.
LEMMA ResultServes ==
  ASSUME IInv, NEW p \in Poller, WriteResult(p) \/ RewriteResult(p)
  PROVE  ServiceStep
  <1>1. TypeOK /\ PollerOK(p) /\ pol[p].pc \in Ending /\ UNCHANGED <<child, effect, starts>>
    BY DEF IInv, WriteResult, RewriteResult, Ending
  <1>2. PICK x \in Request : x = pol[p].cur.id
    BY <1>1 DEF PollerOK
  <1> DEFINE res == pol[p].res
  <1>3. UNCHANGED req \/ Put(x, Settled(x, res))
    BY <1>2 DEF WriteResult, RewriteResult, LostPut
  <1>4. CASE UNCHANGED req
    BY <1>1, <1>4, IdleServes
  <1>5. CASE Put(x, Settled(x, res))
    <2>1. res.state \in {"DONE", "REJECTED"} /\ res.code \in ResultCode \cup {None}
      BY <1>1, PollerTypes
    <2>2. /\ \A q \in Request \ {x} : req'[q] = req[q]
          /\ req'[x].state = res.state /\ req'[x].code = res.code
      BY <1>1, <1>5, <2>1, SettledMoves DEF RequestState
    <2>3. Stage(req[x]) \in {"taken", "done", "refused", "unsure"}
      <3>1. Served(x) /\ req[x] \in RequestRecord
        BY <1>1, <1>2 DEF PollerOK, TypeOK
      <3>2. QED
        BY <3>1, StageValues DEF Served
    <2>4. Stage(req'[x]) = IF res.state = "DONE" THEN "done"
                           ELSE IF res.code \in UncertainCode THEN "unsure" ELSE "refused"
      BY <2>1, <2>2 DEF Stage
    <2>5. effect[x] \in {"none", "found", "prepared", "changed"}
      BY <1>1 DEF TypeOK
    <2>6. res.state = "DONE" => Work(x) \in {"changed", "found"}
      BY <1>1, <1>2, <2>5 DEF PollerOK, Work
    <2>7. Certain(res) => Work(x) \in {"idle", "prepared", "nothing"}
      BY <1>1, <1>2, <2>5 DEF PollerOK, Work, Quiet
    <2>8. Truth(Stage(req'[x]), Work(x))
      BY <2>1, <2>4, <2>6, <2>7 DEF Truth, Certain
    <2>9. QED
      BY <1>1, <2>2, <2>3, <2>8, RecordStep DEF MoveOK
  <1>6. QED
    BY <1>3, <1>4, <1>5

\* What is withdrawn is cancelled, what is invalid is declined.
LEMMA SettleUnclaimedServes ==
  ASSUME IInv, NEW p \in Poller, SettleUnclaimed(p)
  PROVE  ServiceStep
  <1>1. PICK t \in Listed(p) :
          LET res == IF t.cancel THEN [state |-> "CANCELLED", code |-> "CANCELLED_BY_REQUESTER"]
                     ELSE Rejected("REQUEST_INVALID")
          IN  UNCHANGED req \/ (Fresh(t) /\ Put(t.id, Settled(t.id, res)))
    BY DEF SettleUnclaimed, LostPut
  <1> DEFINE res == IF t.cancel THEN [state |-> "CANCELLED", code |-> "CANCELLED_BY_REQUESTER"]
                    ELSE Rejected("REQUEST_INVALID")
  <1>2. TypeOK /\ UNCHANGED <<child, effect, starts>>
    BY DEF IInv, SettleUnclaimed
  <1>3. CASE Fresh(t) /\ Put(t.id, Settled(t.id, res))
    <2>1. PICK x \in Request : x = t.id /\ req[x].state = "REQUESTED" /\ t.cancel = req[x].cancel
      BY <1>3, FreshIsRequested
    <2>2. /\ res.state \in RequestState /\ res.code \in ResultCode \cup {None}
          /\ res.state = IF t.cancel THEN "CANCELLED" ELSE "REJECTED"
          /\ ~t.cancel => res.code \notin UncertainCode
      BY DEF Rejected, RequestState, ResultCode, UncertainCode
    <2> HIDE DEF res
    <2>3. /\ \A q \in Request \ {x} : req'[q] = req[q]
          /\ req'[x].state = res.state /\ req'[x].code = res.code
      BY <1>2, <1>3, <2>1, <2>2, SettledMoves
    <2>4. \/ Stage(req[x]) = "withdrawn" /\ Stage(req'[x]) = "cancelled"
          \/ Stage(req[x]) = "waiting" /\ Stage(req'[x]) = "refused"
      BY <2>1, <2>2, <2>3 DEF Stage
    <2>5. QED
      BY <1>2, <2>3, <2>4, RecordStep DEF MoveOK
  <1>4. CASE UNCHANGED req
    BY <1>2, <1>4, IdleServes
  <1>5. QED
    BY <1>1, <1>3, <1>4

\* What waits is taken.
LEMMA ClaimServes ==
  ASSUME IInv, NEW p \in Poller, Claim(p)
  PROVE  ServiceStep
  <1>1. PICK t \in Listed(p) :
          /\ ~t.cancel
          /\ \/ UNCHANGED req
             \/ Fresh(t) /\ Put(t.id, [req[t.id] EXCEPT !.state = "ACCEPTED", !.age = 0])
    BY DEF Claim, LostPut
  <1>2. TypeOK /\ UNCHANGED <<child, effect, starts>>
    BY DEF IInv, Claim
  <1>3. CASE Fresh(t) /\ Put(t.id, [req[t.id] EXCEPT !.state = "ACCEPTED", !.age = 0])
    <2>1. PICK x \in Request : x = t.id /\ req[x].state = "REQUESTED" /\ ~req[x].cancel
      BY <1>1, <1>3, FreshIsRequested
    <2> DEFINE rec == [req[x] EXCEPT !.state = "ACCEPTED", !.age = 0]
    <2>2. rec \in RequestRecord /\ req[x] \in RequestRecord
      BY <1>2, WrittenTypes DEF TypeOK
    <2>3. rec.state = "ACCEPTED"
      BY <2>2 DEF RequestRecord
    <2>4. Put(x, rec)
      BY <1>3, <2>1
    <2> HIDE DEF rec
    <2>5. (\A q \in Request \ {x} : req'[q] = req[q]) /\ req'[x].state = "ACCEPTED"
      BY <1>2, <2>2, <2>3, <2>4, PutMoves
    <2>6. Stage(req[x]) = "waiting" /\ Stage(req'[x]) = "taken"
      BY <2>1, <2>5 DEF Stage
    <2>7. QED
      BY <1>2, <2>5, <2>6, RecordStep DEF MoveOK
  <1>4. CASE UNCHANGED req
    BY <1>2, <1>4, IdleServes
  <1>5. QED
    BY <1>1, <1>3, <1>4

\* Time passes, and nobody sees it in a stage.
LEMMA TickServes ==
  ASSUME IInv, Tick
  PROVE  ServiceStep
  <1>1. TypeOK /\ UNCHANGED <<child, effect, starts>>
    BY DEF IInv, Tick
  <1>2. ASSUME NEW r \in Request PROVE Stage(req'[r]) = Stage(req[r]) /\ Work(r)' = Work(r)
    <2>1. req[r] \in RequestRecord /\ (req'[r] = req[r] \/ req'[r] = [req[r] EXCEPT !.age = @ + 1])
      BY <1>1 DEF TypeOK, Tick
    <2>2. req'[r].state = req[r].state /\ req'[r].cancel = req[r].cancel
          /\ req'[r].code = req[r].code
      BY <2>1 DEF RequestRecord
    <2>3. QED
      BY <1>1, <2>2 DEF Stage, Work
  <1>3. QED
    BY <1>1, <1>2, SameService

\* Every step is one of the service, or none.
LEMMA StepServes == IInv /\ [Next]_vars => ServiceStep
  <1> SUFFICES ASSUME IInv, [Next]_vars PROVE ServiceStep
    OBVIOUS
  <1>1. CASE PostByHand
    BY <1>1, PostServes DEF PostByHand
  <1>2. ASSUME NEW x \in Request, EditCancel(x) PROVE ServiceStep
    BY <1>2, CancelServes, SMTT(30) DEF IInv, EditCancel
  <1>3. ASSUME NEW p \in Poller, Poll(p) \/ Crash(p) \/ Restart(p)
        PROVE  \/ UNCHANGED <<req, child, effect, starts>>
               \/ Heartbeat(p) \/ WriteResult(p) \/ RewriteResult(p)
               \/ SettleUnclaimed(p) \/ Claim(p) \/ ProcessClaimed(p) \/ SpawnFails(p)
    BY <1>3 DEF Poll, Crash, Restart, ListRequested, ListAccepted, ReadStaleLock, RecoverStale,
                EndPoll, ReadStatusLock, ChildDone, FinalizeResult, RereadResult
  <1>4. ASSUME NEW p \in Poller, Poll(p) \/ Crash(p) \/ Restart(p) PROVE ServiceStep
    BY <1>3, <1>4, IdleServes, HeartbeatServes, ResultServes, SettleUnclaimedServes, ClaimServes,
       ProcessClaimedServes, SpawnFailsServes
  <1>5. CASE LeaseExpires \/ ForceUnlock \/ OutsideRun \/ OutsideEnds
    BY <1>5, IdleServes DEF LeaseExpires, ForceUnlock, OutsideRun, OutsideEnds
  <1>6. QED
    BY <1>1, <1>2, <1>4, <1>5, IdleServes, ChildStepServes, TickServes DEF Next, vars

\* Nothing is asked yet.
LEMMA InitServes == Init => Service!ServiceInit
  <1> SUFFICES ASSUME Init PROVE Service!ServiceInit
    OBVIOUS
  <1>1. \A r \in Request : Stage(req[r]) = "absent" /\ Work(r) = "idle" /\ starts[r] = 0
    BY DEF Init, Stage, Work
  <1>2. starts = [r \in Request |-> 0]
    BY DEF Init
  <1>3. QED
    BY <1>1, <1>2 DEF Service!ServiceInit

\* Pollers that claim, crash and recover, children that die and answers that
\* are lost amount to the service of the request app: a request is started at
\* most once and only while it has no certain answer, a withdrawn one is not
\* taken, and an answer tells what was done (pollRequests, claim, recoverStale,
\* writeResult).
THEOREM QueueImplementsService == Spec => ImplementsService
  <1>1. IInv /\ [Next]_vars
           => [UNCHANGED Service!serviceVars \/ Service!ServiceNext]_(Service!serviceVars)
    BY StepServes DEF ServiceStep
  <1>2. QED
    BY <1>1, InitServes, Invariance, PTL DEF Spec, ImplementsService, Service!ServiceSpec
-----------------------------------------------------------------------------
(* A claim that is looked after does not become stale.                      *)

\* How old the heartbeat of a claim may be while its claimant gets on: one
\* interval before the child, two while it runs, three until the result is
\* written.
Grace(p) ==
    (IF pol[p].pc \in Unstarted THEN 0 ELSE IF pol[p].pc = "child" THEN 1 ELSE 2)
        + (IF pol[p].due THEN 1 ELSE 0)

\* The claimant knows the revision of its request and is in time.
Tends(p, r) ==
    /\ pol[p].pc \in Holding \cup {"final", "put"}
    /\ pol[p].cur.id = r /\ pol[p].cur.rev = req[r].rev
    /\ req[r].age <= Grace(p)

Tended(r) == req[r].state = "ACCEPTED" /\ r \notin trouble => \E p \in Poller : Tends(p, r)

\* Only a claim in trouble is a candidate of the recovery, or given up.
GivenUpOK(p) ==
    /\ \A a \in pol[p].acc : a.id \in trouble
    /\ pol[p].pc \in Ending /\ pol[p].res.code = "STALE" => pol[p].cur.id \in trouble

HInv ==
    /\ \A p \in Poller : GivenUpOK(p)
    /\ \A r \in Request : Tended(r) /\ (req[r].code = "STALE" => r \in trouble)

\* A claim that no step touches stays tended.
LEMMA TendsKept ==
  ASSUME NEW p, NEW r, Tends(p, r), pol'[p].pc = pol[p].pc, pol'[p].cur = pol[p].cur,
         pol'[p].due = pol[p].due, req'[r].rev = req[r].rev, req'[r].age = req[r].age
  PROVE  Tends(p, r)'
  BY DEF Tends, Grace

\* A step of one poller, which either still tends a healthy claim or leaves it
\* to whoever does.
LEMMA HealthStep ==
  ASSUME HInv, NEW q \in Poller, Moved(q), trouble \subseteq trouble', GivenUpOK(q)',
         \A r \in Request : req'[r].code = "STALE" => r \in trouble',
         \A r \in Request : req'[r].state = "ACCEPTED" /\ r \notin trouble' =>
            \/ Tends(q, r)'
            \/ /\ req[r].state = "ACCEPTED" /\ ~Tends(q, r)
               /\ req'[r].rev = req[r].rev /\ req'[r].age = req[r].age
  PROVE  HInv'
  <1>1. ASSUME NEW p \in Poller PROVE GivenUpOK(p)'
    <2>1. CASE p # q
      <3>1. pol'[p] = pol[p] /\ GivenUpOK(p)
        BY <2>1 DEF Moved, HInv
      <3>2. QED
        BY <3>1 DEF GivenUpOK
    <2>2. QED
      BY <2>1
  <1>2. ASSUME NEW r \in Request, req'[r].state = "ACCEPTED", r \notin trouble'
        PROVE  \E p \in Poller : Tends(p, r)'
    <2>1. CASE /\ req[r].state = "ACCEPTED" /\ ~Tends(q, r)
               /\ req'[r].rev = req[r].rev /\ req'[r].age = req[r].age
      <3>1. PICK p \in Poller : Tends(p, r)
        BY <1>2, <2>1 DEF HInv, Tended
      <3>2. pol'[p] = pol[p]
        BY <2>1, <3>1 DEF Moved
      <3>3. QED
        BY <2>1, <3>1, <3>2, TendsKept
    <2>2. QED
      BY <1>2, <2>1
  <1>3. QED
    BY <1>1, <1>2 DEF HInv, Tended

\* A step of one poller that writes no record.
LEMMA HealthMove ==
  ASSUME HInv, NEW q \in Poller, Moved(q), UNCHANGED req, trouble \subseteq trouble',
         GivenUpOK(q)',
         \A r \in Request : Tends(q, r) /\ req[r].state = "ACCEPTED" /\ r \notin trouble'
                            => Tends(q, r)'
  PROVE  HInv'
  <1>1. \A r \in Request : req'[r].code = "STALE" => r \in trouble'
    BY DEF HInv
  <1>2. QED
    BY <1>1, HealthStep

\* A step that leaves the pollers alone.
LEMMA HealthOutside ==
  ASSUME HInv, UNCHANGED pol, trouble \subseteq trouble',
         \A r \in Request : req'[r].code = "STALE" => r \in trouble',
         \A r \in Request : req'[r].state = "ACCEPTED" /\ r \notin trouble' =>
            /\ req[r].state = "ACCEPTED"
            /\ req'[r].rev = req[r].rev /\ req'[r].age = req[r].age
  PROVE  HInv'
  <1>1. \A p \in Poller : GivenUpOK(p)'
    BY DEF HInv, GivenUpOK
  <1>2. ASSUME NEW r \in Request, req'[r].state = "ACCEPTED", r \notin trouble'
        PROVE  \E p \in Poller : Tends(p, r)'
    <2>1. PICK p \in Poller : Tends(p, r)
      BY <1>2 DEF HInv, Tended
    <2>2. QED
      BY <1>2, <2>1, TendsKept
  <1>3. QED
    BY <1>1, <1>2 DEF HInv, Tended

\* A poller that tends nothing.
AtRest == {"idle", "accepted", "recover", "stale", "reget", "put2", "down"}

\* A poller at rest tends no claim.
LEMMA RestTendsNone ==
  ASSUME NEW p, pol[p].pc \in AtRest, NEW r
  PROVE  ~Tends(p, r)
  BY DEF AtRest, Tends, Holding, Unstarted

\* A step of a poller at rest that writes nothing.
LEMMA HealthRests ==
  ASSUME HInv, NEW q \in Poller, Moved(q), UNCHANGED req, trouble \subseteq trouble',
         pol[q].pc \in AtRest, pol'[q].pc \notin Ending, pol'[q].acc \subseteq pol[q].acc
  PROVE  HInv'
  <1>1. GivenUpOK(q)'
    BY DEF HInv, GivenUpOK
  <1>2. QED
    BY <1>1, RestTendsNone, HealthMove

\* Only claims past the threshold are taken for stale.
LEMMA ListAcceptedHealthy ==
  ASSUME StaleAfter >= 3, IInv, HInv, NEW p \in Poller, ListAccepted(p)
  PROVE  HInv'
  <1> DEFINE open == {r \in Request : req[r].state = "ACCEPTED"}
             stale == {r \in First(open, Older) : req[r].age > StaleAfter}
             acc == {[id |-> r, rev |-> req[r].rev] : r \in stale}
             e == [pol[p] EXCEPT !.pc = "recover", !.acc = acc]
  <1>1. TypeOK /\ pol[p] \in PollerRecord /\ pol[p].pc = "accepted"
    BY PollerTypes DEF IInv, ListAccepted
  <1>2. ASSUME NEW r \in stale PROVE r \in trouble /\ r \in Request
    <2>1. r \in Request /\ req[r].state = "ACCEPTED" /\ req[r].age > StaleAfter
      BY <1>2 DEF First
    <2>2. req[r].age \in Int /\ StaleAfter \in Int
      BY <1>1, <2>1, QueueAssumption DEF TypeOK, RequestRecord
    <2>3. ASSUME NEW q \in Poller, Tends(q, r) PROVE FALSE
      <3>1. req[r].age <= Grace(q) /\ Grace(q) \in {0, 1, 2, 3}
        BY <2>3 DEF Tends, Grace
      <3>2. QED
        BY <2>1, <2>2, <3>1
    <2>4. QED
      BY <2>1, <2>3 DEF HInv, Tended
  <1>3. acc \in SUBSET [id : Request, rev : Nat] /\ \A a \in acc : a.id \in trouble
    <2>1. ASSUME NEW a \in acc PROVE a \in [id : Request, rev : Nat] /\ a.id \in trouble
      <3>1. PICK r \in stale : a = [id |-> r, rev |-> req[r].rev]
        BY <2>1
      <3>2. r \in trouble /\ r \in Request /\ req[r].rev \in Nat
        BY <1>1, <1>2 DEF TypeOK, RequestRecord
      <3>3. QED
        BY <3>1, <3>2
    <2>2. QED
      BY <2>1
  <1>4. pol' = [pol EXCEPT ![p] = e] \/ pol' = PollEnds(p)
    BY DEF ListAccepted
  <1>5. UNCHANGED <<req, trouble>>
    BY DEF ListAccepted
  <1>6. CASE pol' = PollEnds(p)
    BY <1>1, <1>5, <1>6, PollEndsMoves, HealthRests DEF AtRest, Ending
  <1>7. CASE pol' = [pol EXCEPT ![p] = e]
    <2> HIDE DEF acc
    <2>1. e \in PollerRecord /\ e.pc = "recover" /\ e.acc = acc
      BY <1>1, <1>3 DEF PollerRecord, PollerPhase
    <2>2. Moved(p) /\ pol'[p] = e
      BY <1>1, <1>7, <2>1, PollerMoves
    <2> HIDE DEF e
    <2>3. GivenUpOK(p)'
      BY <1>3, <1>5, <2>1, <2>2 DEF GivenUpOK, Ending
    <2>4. QED
      BY <1>1, <1>5, <2>2, <2>3, RestTendsNone, HealthMove DEF AtRest
  <1>8. QED
    BY <1>4, <1>6, <1>7

\* The recovery takes up a candidate: one in trouble.
LEMMA RecoverHealthy ==
  ASSUME IInv, HInv, NEW p \in Poller, ReadStaleLock(p) \/ RecoverStale(p)
  PROVE  HInv'
  <1>1. TypeOK /\ pol[p] \in PollerRecord /\ pol[p].pc \in {"recover", "stale"}
    BY PollerTypes DEF IInv, ReadStaleLock, RecoverStale
  <1>2. UNCHANGED <<req, trouble>>
    BY DEF ReadStaleLock, RecoverStale
  <1>3. CASE See(p, "stale")
    BY <1>1, <1>2, <1>3, SeeMoves, HealthRests DEF AtRest, Ending, PollerPhase
  <1>4. CASE PassOver(p)
    BY <1>1, <1>2, <1>4, PassOverMoves, HealthRests DEF AtRest, Ending
  <1>5. ASSUME NEW a \in pol[p].acc,
               pol' = [pol EXCEPT ![p] = [@ EXCEPT !.pc = "put", !.acc = pol[p].acc \ {a}, !.cur = a,
                                                  !.res = Rejected("STALE"), !.seen = NoLock]]
        PROVE  HInv'
    <2>1. Moved(p) /\ pol'[p].cur = a /\ pol'[p].acc \subseteq pol[p].acc
      <3>1. IInv'
        BY RecoverStaleKeeps, ReadStaleLockKeeps
      <3>2. pol \in [Poller -> PollerRecord] /\ pol' \in [Poller -> PollerRecord]
        BY <1>1, <3>1 DEF IInv, TypeOK
      <3>3. pol'[p].cur = a /\ pol'[p].acc = pol[p].acc \ {a}
        BY <1>1, <1>5, <3>2 DEF PollerRecord
      <3>4. \A q \in Poller \ {p} : pol'[q] = pol[q]
        BY <1>5, <3>2
      <3>5. QED
        BY <3>2, <3>3, <3>4 DEF Moved
    <2>2. a.id \in trouble
      BY <1>5 DEF HInv, GivenUpOK
    <2>3. GivenUpOK(p)'
      BY <1>2, <2>1, <2>2 DEF GivenUpOK, HInv
    <2>4. QED
      BY <1>1, <1>2, <2>1, <2>3, RestTendsNone, HealthMove DEF AtRest
  <1>6. QED
    BY <1>3, <1>4, <1>5 DEF ReadStaleLock, RecoverStale

\* The other steps of a poller that neither tends nor begins to.
LEMMA RestsHealthy ==
  ASSUME IInv, HInv, NEW p \in Poller, ListRequested(p) \/ EndPoll(p) \/ Restart(p)
  PROVE  HInv'
  <1>1. TypeOK /\ pol[p] \in PollerRecord /\ pol[p].pc \in {"idle", "recover", "down"}
    BY PollerTypes DEF IInv, ListRequested, EndPoll, Restart
  <1>2. UNCHANGED <<req, trouble>>
    BY DEF ListRequested, EndPoll, Restart
  <1>3. CASE ListRequested(p)
    <2>1. IInv'
      BY <1>3, ListRequestedKeeps
    <2>2. pol \in [Poller -> PollerRecord] /\ pol' \in [Poller -> PollerRecord]
      BY <1>1, <2>1 DEF IInv, TypeOK
    <2>3. Moved(p) /\ pol'[p].pc = "accepted" /\ pol'[p].acc = pol[p].acc
      BY <1>1, <1>3, <2>2 DEF ListRequested, PollerRecord, Moved
    <2>4. QED
      BY <1>1, <1>2, <2>3, HealthRests DEF AtRest, Ending
  <1>4. CASE EndPoll(p)
    BY <1>1, <1>2, <1>4, PollEndsMoves, HealthRests DEF AtRest, Ending, EndPoll
  <1>5. CASE Restart(p)
    BY <1>1, <1>2, <1>5, GotoMoves, HealthRests DEF AtRest, Ending, Restart, PollerPhase
  <1>6. QED
    BY <1>3, <1>4, <1>5

\* The process dies, and its request is in trouble.
LEMMA CrashHealthy ==
  ASSUME IInv, HInv, NEW p \in Poller, Crash(p)
  PROVE  HInv'
  <1>1. IInv'
    BY PollEndsKeeps
  <1>2. pol \in [Poller -> PollerRecord] /\ pol' \in [Poller -> PollerRecord]
    BY <1>1 DEF IInv, TypeOK
  <1>3. pol' = [[pol EXCEPT ![p] = Idle] EXCEPT ![p].pc = "down"]
    BY DEF Crash, PollEnds, Idle
  <1>4. Moved(p) /\ pol'[p].pc = "down" /\ pol'[p].acc = {}
    BY <1>2, <1>3, IdleType DEF Moved, Idle, PollerRecord
  <1>5. UNCHANGED req /\ trouble' = trouble \cup {pol[p].cur.id}
    BY DEF Crash
  <1>6. GivenUpOK(p)'
    BY <1>4 DEF GivenUpOK, Ending
  <1>7. \A r \in Request : Tends(p, r) => r \in trouble'
    BY <1>5 DEF Tends
  <1>8. QED
    BY <1>4, <1>5, <1>6, <1>7, HealthMove

\* processClaimed takes less than an interval, or the claim is in trouble.
LEMMA ProcessHealthy ==
  ASSUME IInv, HInv, NEW p \in Poller, ReadStatusLock(p) \/ ProcessClaimed(p)
  PROVE  HInv'
  <1>1. TypeOK /\ PollerOK(p) /\ pol[p] \in PollerRecord /\ pol[p].pc \in Unstarted
        /\ UNCHANGED <<req, trouble>>
    BY PollerTypes DEF IInv, ReadStatusLock, ProcessClaimed, Unstarted
  <1>2. PICK x \in Request : x = pol[p].cur.id
    BY <1>1 DEF PollerOK, Holding
  <1>3. req[x].type \in RequestType /\ req[x].age \in Nat
    BY <1>1, <1>2, QueueAssumption DEF IInv, PollerOK, RequestOK, Served, Holding, TypeOK, RequestRecord
  <1>4. \A r \in Request : Tends(p, r) => r = x /\ pol[p].cur.rev = req[r].rev
                                          /\ req[r].age <= (IF pol[p].due THEN 1 ELSE 0)
    BY <1>1, <1>2 DEF Tends, Grace
  <1>5. ASSUME Moved(p), pol'[p].acc = pol[p].acc, pol'[p].cur = pol[p].cur,
               \/ pol'[p].pc = "review" /\ pol'[p].due = pol[p].due
               \/ pol'[p].pc = "child" /\ pol'[p].due = FALSE
               \/ pol'[p].pc = "final" /\ pol'[p].due = pol[p].due /\ pol'[p].res.code # "STALE"
        PROVE  HInv'
    <2>1. GivenUpOK(p)'
      BY <1>1, <1>5 DEF GivenUpOK, HInv, Ending
    <2>2. ASSUME NEW r \in Request, Tends(p, r) PROVE Tends(p, r)'
      <3>1. r = x /\ pol[p].cur.rev = req[r].rev /\ req[r].age <= (IF pol[p].due THEN 1 ELSE 0)
        BY <1>4, <2>2
      <3>2. pol'[p].pc \in Holding \cup {"final", "put"}
        BY <1>5 DEF Holding, Unstarted
      <3>3. req'[r].age <= Grace(p)'
        BY <1>1, <1>3, <1>5, <3>1 DEF Grace, Unstarted
      <3>4. QED
        BY <1>1, <1>2, <1>5, <3>1, <3>2, <3>3 DEF Tends
    <2>3. QED
      BY <1>1, <1>5, <2>1, <2>2, HealthMove
  <1>6. CASE ReadStatusLock(p)
    <2>1. Moved(p) /\ pol'[p].pc = "review" /\ pol'[p].acc = pol[p].acc
          /\ pol'[p].cur = pol[p].cur /\ pol'[p].due = pol[p].due
      BY <1>1, <1>6, SeeMoves, SMTT(30) DEF ReadStatusLock, PollerPhase
    <2>2. QED
      BY <1>5, <2>1
  <1>7. CASE ProcessClaimed(p)
    <2>1. CASE pol' = [pol EXCEPT ![p] = [@ EXCEPT !.pc = "child", !.due = FALSE, !.seen = NoLock]]
      BY <1>1, <1>5, <2>1, SpawnMoves
    <2>2. CASE \E res \in (Review(p, x) \ {None}) \cup {Rejected("STATUS_UNAVAILABLE")} :
              pol' = [pol EXCEPT ![p] = [@ EXCEPT !.pc = "final", !.res = res, !.seen = NoLock]]
      <3>1. PICK res \in (Review(p, x) \ {None}) \cup {Rejected("STATUS_UNAVAILABLE")} :
              pol' = [pol EXCEPT ![p] = [@ EXCEPT !.pc = "final", !.res = res, !.seen = NoLock]]
        BY <2>2
      <3>2. Rejected("STATUS_UNAVAILABLE") \in Result
            /\ Rejected("STATUS_UNAVAILABLE").code # "STALE"
        BY DEF Rejected, Result, ResultCode
      <3>3. res \in Result /\ res.code # "STALE"
        BY <1>3, <3>1, <3>2, ReviewType
      <3>4. /\ Moved(p) /\ pol'[p].pc = "final" /\ pol'[p].acc = pol[p].acc
            /\ pol'[p].cur = pol[p].cur /\ pol'[p].res = res /\ pol'[p].due = pol[p].due
        BY <1>1, <3>1, <3>3, DecideMoves
      <3>5. QED
        BY <1>5, <3>3, <3>4
    <2>3. QED
      BY <1>2, <1>7, <2>1, <2>2 DEF ProcessClaimed
  <1>8. QED
    BY <1>6, <1>7, SMTT(30)

\* A heartbeat that is confirmed makes the claim young again; one that is not
\* means trouble.
LEMMA HeartbeatHealthy ==
  ASSUME IInv, HInv, NEW p \in Poller, Heartbeat(p)
  PROVE  HInv'
  <1>1. TypeOK /\ PollerOK(p) /\ pol[p] \in PollerRecord /\ pol[p].pc = "child"
    BY PollerTypes DEF IInv, Heartbeat
  <1>2. PICK x \in Request : x = pol[p].cur.id
    BY <1>1 DEF PollerOK, Holding
  <1>3. \A r \in Request : Tends(p, r) => r = x /\ Fresh(pol[p].cur)
    BY <1>2 DEF Tends, Fresh
  <1>4. pol[p].cur.rev \in Nat /\ req[x] \in RequestRecord
    BY <1>1 DEF PollerRecord, TypeOK
  <1>5. ASSUME NEW rev \in Nat,
               pol' = [pol EXCEPT ![p] = [@ EXCEPT !.due = FALSE, !.cur.rev = rev]]
        PROVE  /\ Moved(p) /\ pol'[p].pc = "child" /\ pol'[p].acc = pol[p].acc
               /\ pol'[p].due = FALSE /\ pol'[p].cur.id = x /\ pol'[p].cur.rev = rev
    BY <1>1, <1>2, <1>5, BeatMoves
  <1>6. CASE /\ ~Fresh(pol[p].cur) /\ UNCHANGED <<req, trouble>>
             /\ pol' = [pol EXCEPT ![p] = [@ EXCEPT !.due = FALSE, !.cur.rev = pol[p].cur.rev]]
    <2>1. Moved(p) /\ pol'[p].pc = "child" /\ pol'[p].acc = pol[p].acc
      BY <1>4, <1>5, <1>6
    <2>2. GivenUpOK(p)'
      BY <1>6, <2>1 DEF GivenUpOK, HInv, Ending
    <2>3. QED
      BY <1>3, <1>6, <2>1, <2>2, HealthMove
  <1>7. ASSUME Put(x, [req[x] EXCEPT !.age = 0])
        PROVE  /\ \A q \in Request \ {x} : req'[q] = req[q]
               /\ req'[x].rev = req[x].rev + 1 /\ req'[x].age = 0 /\ req'[x].code = req[x].code
    <2> DEFINE rec == [req[x] EXCEPT !.age = 0]
    <2>1. rec \in RequestRecord /\ rec.rev = req[x].rev /\ rec.age = 0 /\ rec.code = req[x].code
      BY <1>4, QueueAssumption DEF RequestRecord
    <2>2. Put(x, rec)
      BY <1>7
    <2> HIDE DEF rec
    <2>3. QED
      BY <1>1, <2>1, <2>2, PutMoves
  <1>8. CASE /\ Fresh(pol[p].cur) /\ Put(x, [req[x] EXCEPT !.age = 0]) /\ UNCHANGED trouble
             /\ pol' = [pol EXCEPT ![p] = [@ EXCEPT !.due = FALSE, !.cur.rev = pol[p].cur.rev + 1]]
    <2>1. PICK v \in Nat : v = pol[p].cur.rev + 1
      BY <1>4
    <2>2. pol' = [pol EXCEPT ![p] = [@ EXCEPT !.due = FALSE, !.cur.rev = v]]
      BY <1>8, <2>1
    <2>3. /\ Moved(p) /\ pol'[p].pc = "child" /\ pol'[p].acc = pol[p].acc
          /\ pol'[p].due = FALSE /\ pol'[p].cur.id = x /\ pol'[p].cur.rev = v
      BY <1>5, <2>2
    <2>4. GivenUpOK(p)'
      BY <1>8, <2>3 DEF GivenUpOK, HInv, Ending
    <2>5. Tends(p, x)'
      <3>1. v = req[x].rev + 1
        BY <1>2, <1>8, <2>1 DEF Fresh
      <3>2. Grace(p)' = 1
        BY <2>3 DEF Grace, Unstarted
      <3>3. QED
        BY <1>7, <1>8, <2>3, <3>1, <3>2 DEF Tends, Holding
    <2>6. \A r \in Request : req'[r].code = "STALE" => r \in trouble'
      BY <1>7, <1>8 DEF HInv
    <2>7. \A r \in Request : r # x => req'[r] = req[r] /\ ~Tends(p, r)
      BY <1>3, <1>7, <1>8
    <2>8. QED
      BY <1>8, <2>3, <2>4, <2>5, <2>6, <2>7, HealthStep
  <1>9. CASE /\ UNCHANGED req \/ Put(x, [req[x] EXCEPT !.age = 0])
             /\ trouble' = trouble \cup {x}
             /\ pol' = [pol EXCEPT ![p] = [@ EXCEPT !.due = FALSE, !.cur.rev = pol[p].cur.rev]]
    <2>1. Moved(p) /\ pol'[p].pc = "child" /\ pol'[p].acc = pol[p].acc
      BY <1>4, <1>5, <1>9
    <2>2. GivenUpOK(p)'
      BY <1>9, <2>1 DEF GivenUpOK, HInv, Ending
    <2>3. \A r \in Request : r # x => req'[r] = req[r] /\ ~Tends(p, r)
      BY <1>3, <1>7, <1>9
    <2>4. \A r \in Request : req'[r].code = "STALE" => r \in trouble'
      BY <1>9, <2>3 DEF HInv
    <2>5. QED
      BY <1>9, <2>1, <2>2, <2>3, <2>4, HealthStep
  <1>10. QED
    BY <1>2, <1>6, <1>8, <1>9 DEF Heartbeat, LostPut

\* The child's report comes within the second interval.
LEMMA ReportHealthy ==
  ASSUME IInv, HInv, NEW p \in Poller, ChildDone(p)
  PROVE  HInv'
  <1>1. TypeOK /\ PollerOK(p) /\ pol[p] \in PollerRecord /\ pol[p].pc = "child"
        /\ UNCHANGED <<req, trouble>>
    BY PollerTypes DEF IInv, ChildDone
  <1>2. PICK x \in Request : x = pol[p].cur.id
    BY <1>1 DEF PollerOK, Holding
  <1>3. child[x] \in ChildRecord /\ RequestOK(x) /\ child[x].ph = "exited" /\ req[x] \in RequestRecord
    BY <1>1, <1>2 DEF TypeOK, IInv, ChildDone
  <1>4. child[x].kind \in ChildKind /\ child[x].code \in ChildCode \cup {None}
    BY <1>3 DEF RequestOK, ChildOK, ChildRecord
  <1>5. PICK k \in {child[x].kind, "failed"} :
          pol' = [pol EXCEPT ![p] = [@ EXCEPT !.pc = "final", !.due = FALSE,
                     !.res = Classify(req[x].type, [kind |-> k, code |-> child[x].code])]]
    BY <1>2 DEF ChildDone
  <1>6. PICK res : res = Classify(req[x].type, [kind |-> k, code |-> child[x].code])
    OBVIOUS
  <1>7. res \in Result /\ res.code # "STALE"
    BY <1>4, <1>5, <1>6, ClassifyTruth
  <1>8. pol' = [pol EXCEPT ![p] = [@ EXCEPT !.pc = "final", !.due = FALSE, !.res = res]]
    BY <1>5, <1>6
  <1>9. /\ Moved(p) /\ pol'[p].pc = "final" /\ pol'[p].acc = pol[p].acc
        /\ pol'[p].cur = pol[p].cur /\ pol'[p].res = res /\ pol'[p].due = FALSE
    BY <1>1, <1>7, <1>8, ReportMoves
  <1>10. GivenUpOK(p)'
    BY <1>1, <1>7, <1>9 DEF GivenUpOK, HInv
  <1>11. ASSUME NEW r \in Request, Tends(p, r) PROVE Tends(p, r)'
    <2>1. req[r].age <= 1 + (IF pol[p].due THEN 1 ELSE 0) /\ req[r].age \in Nat
      BY <1>1, <1>11, QueueAssumption DEF Tends, Grace, Unstarted, TypeOK, RequestRecord
    <2>2. Grace(p)' = 2
      BY <1>9 DEF Grace, Unstarted
    <2>3. req'[r].age <= Grace(p)'
      BY <1>1, <2>1, <2>2
    <2>4. QED
      BY <1>1, <1>9, <1>11, <2>3 DEF Tends
  <1>12. QED
    BY <1>1, <1>9, <1>10, <1>11, HealthMove

\* A claimant turns to its result.
LEMMA FinalizeHealthy ==
  ASSUME IInv, HInv, NEW p \in Poller, FinalizeResult(p)
  PROVE  HInv'
  <1>1. TypeOK /\ PollerOK(p) /\ pol[p] \in PollerRecord /\ pol[p].pc = "final" /\ UNCHANGED req
    BY PollerTypes DEF IInv, FinalizeResult
  <1>2. PICK x \in Request : x = pol[p].cur.id
    BY <1>1 DEF PollerOK, Ending
  <1>3. \A r \in Request : Tends(p, r) => r = x /\ pol[p].cur.rev = req[r].rev
    BY <1>2 DEF Tends
  <1>4. CASE Proceed(p) /\ (req[x].state # "ACCEPTED" \/ x \in trouble') /\ trouble \subseteq trouble'
    <2>1. Moved(p) /\ pol'[p].pc = "recover" /\ pol'[p].acc = pol[p].acc
      BY <1>1, <1>4, ProceedMoves
    <2>2. GivenUpOK(p)'
      BY <1>4, <2>1 DEF GivenUpOK, HInv, Ending
    <2>3. QED
      BY <1>1, <1>3, <1>4, <2>1, <2>2, HealthMove
  <1>5. CASE /\ pol' = [pol EXCEPT ![p] = [@ EXCEPT !.pc = "put", !.cur.rev = req[x].rev]]
             /\ UNCHANGED trouble
    <2>1. PICK v \in Nat : v = req[x].rev
      BY <1>1 DEF TypeOK, RequestRecord
    <2>2. pol' = [pol EXCEPT ![p] = [@ EXCEPT !.pc = "put", !.cur.rev = v]]
      BY <1>5, <2>1
    <2>3. /\ Moved(p) /\ pol'[p].pc = "put" /\ pol'[p].acc = pol[p].acc
          /\ pol'[p].res = pol[p].res /\ pol'[p].due = pol[p].due
          /\ pol'[p].cur.id = pol[p].cur.id /\ pol'[p].cur.rev = v
      BY <1>1, <2>2, RevMoves DEF PollerPhase
    <2>4. GivenUpOK(p)'
      BY <1>1, <1>5, <2>3 DEF GivenUpOK, HInv, Ending
    <2>5. ASSUME NEW r \in Request, Tends(p, r) PROVE Tends(p, r)'
      <3>1. Grace(p)' = Grace(p)
        BY <1>1, <2>3 DEF Grace, Unstarted
      <3>2. QED
        BY <1>1, <1>3, <2>1, <2>3, <2>5, <3>1 DEF Tends
    <2>6. QED
      BY <1>1, <1>5, <2>3, <2>4, <2>5, HealthMove
  <1>6. QED
    BY <1>2, <1>4, <1>5 DEF FinalizeResult

\* A write of the request the poller serves: what is healthy is not given up.
LEMMA WriteHealthy ==
  ASSUME IInv, HInv, NEW p \in Poller, NEW x \in Request, x = pol[p].cur.id,
         pol[p].pc \in Ending, Put(x, Settled(x, pol[p].res)), Proceed(p),
         trouble \subseteq trouble'
  PROVE  HInv'
  <1>1. TypeOK
    BY DEF IInv
  <1>2. pol[p].res.state \in {"DONE", "REJECTED"} /\ pol[p].res.code \in ResultCode \cup {None}
    BY <1>1, PollerTypes
  <1>3. /\ \A q \in Request \ {x} : req'[q] = req[q]
        /\ req'[x].state = pol[p].res.state /\ req'[x].code = pol[p].res.code
    BY <1>1, <1>2, SettledMoves DEF RequestState
  <1>4. Moved(p) /\ pol'[p].pc = "recover" /\ pol'[p].acc = pol[p].acc
    BY <1>1, ProceedMoves
  <1>5. GivenUpOK(p) /\ GivenUpOK(p)'
    BY <1>4 DEF GivenUpOK, HInv, Ending
  <1>6. \A r \in Request : req'[r].code = "STALE" => r \in trouble'
    BY <1>3, <1>5 DEF HInv, GivenUpOK
  <1>7. \A r \in Request : r # x => ~Tends(p, r)
    BY DEF Tends
  <1>8. QED
    BY <1>2, <1>3, <1>4, <1>5, <1>6, <1>7, HealthStep

\* The result is on its way.
LEMMA ResultHealthy ==
  ASSUME IInv, HInv, NEW p \in Poller, WriteResult(p) \/ RereadResult(p) \/ RewriteResult(p)
  PROVE  HInv'
  <1>1. TypeOK /\ PollerOK(p) /\ pol[p] \in PollerRecord /\ pol[p].pc \in {"put", "reget", "put2"}
    BY PollerTypes DEF IInv, WriteResult, RereadResult, RewriteResult
  <1>2. PICK x \in Request : x = pol[p].cur.id
    BY <1>1 DEF PollerOK, Ending
  <1>3. trouble \subseteq trouble'
    BY DEF WriteResult, RereadResult, RewriteResult
  <1>4. CASE Put(x, Settled(x, pol[p].res)) /\ Proceed(p)
    BY <1>1, <1>2, <1>3, <1>4, WriteHealthy DEF Ending
  <1>5. \A r \in Request : Tends(p, r) => r = x /\ pol[p].pc = "put" /\ Fresh(pol[p].cur)
    BY <1>1, <1>2 DEF Tends, Fresh, Holding, Unstarted
  <1>6. CASE UNCHANGED req /\ Proceed(p) /\ (pol[p].pc = "put" => x \in trouble')
    <2>1. Moved(p) /\ pol'[p].pc = "recover" /\ pol'[p].acc = pol[p].acc
      BY <1>1, <1>6, ProceedMoves
    <2>2. GivenUpOK(p)'
      BY <1>3, <2>1 DEF GivenUpOK, HInv, Ending
    <2>3. QED
      BY <1>3, <1>5, <1>6, <2>1, <2>2, HealthMove
  <1>7. CASE UNCHANGED req /\ Goto(p, "reget") /\ ~Fresh(pol[p].cur)
    <2>1. /\ Moved(p) /\ pol'[p].acc = pol[p].acc /\ pol'[p].cur = pol[p].cur
          /\ pol'[p].res = pol[p].res
      BY <1>1, <1>7, GotoMoves DEF PollerPhase
    <2>2. GivenUpOK(p)'
      BY <1>1, <1>3, <2>1 DEF GivenUpOK, HInv, Ending
    <2>3. QED
      BY <1>3, <1>5, <1>7, <2>1, <2>2, HealthMove
  <1>8. CASE /\ UNCHANGED req /\ pol[p].pc = "reget"
             /\ pol' = [pol EXCEPT ![p] = [@ EXCEPT !.pc = "put2", !.cur.rev = req[x].rev]]
    <2>1. PICK v \in Nat : v = req[x].rev
      BY <1>1 DEF TypeOK, RequestRecord
    <2>2. pol' = [pol EXCEPT ![p] = [@ EXCEPT !.pc = "put2", !.cur.rev = v]]
      BY <1>8, <2>1
    <2>3. /\ Moved(p) /\ pol'[p].acc = pol[p].acc /\ pol'[p].cur.id = pol[p].cur.id
          /\ pol'[p].res = pol[p].res
      BY <1>1, <2>2, RevMoves DEF PollerPhase
    <2>4. GivenUpOK(p)'
      BY <1>1, <1>3, <2>3 DEF GivenUpOK, HInv, Ending
    <2>5. QED
      BY <1>3, <1>5, <1>8, <2>3, <2>4, HealthMove
  <1>9. CASE WriteResult(p)
    BY <1>2, <1>4, <1>6, <1>7, <1>9 DEF WriteResult, LostPut
  <1>10. CASE RereadResult(p)
    BY <1>2, <1>6, <1>8, <1>10 DEF RereadResult
  <1>11. CASE RewriteResult(p)
    BY <1>2, <1>4, <1>6, <1>11 DEF RewriteResult, LostPut
  <1>12. QED
    BY <1>9, <1>10, <1>11

\* Requests that are not claimed yet.
LEMMA ServeHealthy ==
  ASSUME IInv, HInv, NEW p \in Poller, SettleUnclaimed(p) \/ Claim(p)
  PROVE  HInv'
  <1> DEFINE Res(t) == IF t.cancel
                       THEN [state |-> "CANCELLED", code |-> "CANCELLED_BY_REQUESTER"]
                       ELSE Rejected("REQUEST_INVALID")
  <1>1. PICK t \in Listed(p) :
          /\ pol[p].pc = "recover" /\ trouble \subseteq trouble'
          /\ \/ /\ pol' = [pol EXCEPT ![p].todo = Rest(p, t)] \/ pol' = PollEnds(p)
                /\ \/ UNCHANGED req
                   \/ Fresh(t) /\ Put(t.id, Settled(t.id, Res(t)))
                   \/ /\ Fresh(t) /\ t.id \in trouble'
                      /\ Put(t.id, [req[t.id] EXCEPT !.state = "ACCEPTED", !.age = 0])
             \/ /\ Fresh(t) /\ Put(t.id, [req[t.id] EXCEPT !.state = "ACCEPTED", !.age = 0])
                /\ pol' = [pol EXCEPT ![p] =
                     [@ EXCEPT !.pc = "claimed", !.todo = Rest(p, t), !.due = FALSE,
                               !.cur = [id |-> t.id, rev |-> t.rev + 1]]]
    BY DEF SettleUnclaimed, Claim, LostPut, Serving
  <1>2. TypeOK /\ t.rev \in Nat /\ t.id \in Request
    BY PollerTypes DEF IInv, Listed
  <1>3. PICK x \in Request : x = t.id
    BY <1>2
  <1>4. \A r \in Request : ~Tends(p, r)
    BY <1>1, RestTendsNone DEF AtRest
  <1>5. ASSUME pol' = [pol EXCEPT ![p].todo = Rest(p, t)] \/ pol' = PollEnds(p)
        PROVE  Moved(p) /\ GivenUpOK(p)'
    <2>1. Moved(p) /\ pol'[p].pc \in {"recover", "idle"} /\ pol'[p].acc \subseteq pol[p].acc
      BY <1>1, <1>2, <1>5, RestMoves, PollEndsMoves
    <2>2. QED
      BY <1>1, <2>1 DEF GivenUpOK, HInv, Ending
  <1>6. ASSUME Put(x, [req[x] EXCEPT !.state = "ACCEPTED", !.age = 0])
        PROVE  /\ \A q \in Request \ {x} : req'[q] = req[q]
               /\ req'[x].rev = req[x].rev + 1 /\ req'[x].age = 0 /\ req'[x].code = req[x].code
    <2> DEFINE rec == [req[x] EXCEPT !.state = "ACCEPTED", !.age = 0]
    <2>1. rec \in RequestRecord
      BY <1>2, WrittenTypes
    <2>2. rec.rev = req[x].rev /\ rec.age = 0 /\ rec.code = req[x].code
      BY <1>2 DEF TypeOK, RequestRecord
    <2>3. Put(x, rec)
      BY <1>6
    <2> HIDE DEF rec
    <2>4. QED
      BY <1>2, <2>1, <2>2, <2>3, PutMoves
  <1>7. CASE /\ pol' = [pol EXCEPT ![p].todo = Rest(p, t)] \/ pol' = PollEnds(p)
             /\ UNCHANGED req
    BY <1>1, <1>4, <1>5, <1>7, HealthMove
  <1>8. CASE /\ pol' = [pol EXCEPT ![p].todo = Rest(p, t)] \/ pol' = PollEnds(p)
             /\ Put(t.id, Settled(t.id, Res(t)))
    <2>1. PICK res : res = Res(t)
      OBVIOUS
    <2>2. /\ res.state \in {"CANCELLED", "REJECTED"} /\ res.state \in RequestState
          /\ res.code \in ResultCode /\ res.code # "STALE"
      BY <2>1 DEF Rejected, RequestState, ResultCode
    <2>3. Put(x, Settled(x, res))
      BY <1>3, <1>8, <2>1
    <2>4. /\ \A q \in Request \ {x} : req'[q] = req[q]
          /\ req'[x].state = res.state /\ req'[x].code = res.code
      BY <1>2, <2>2, <2>3, SettledMoves
    <2>5. \A r \in Request : req'[r].code = "STALE" => r \in trouble'
      BY <1>1, <2>2, <2>4 DEF HInv
    <2>6. Moved(p) /\ GivenUpOK(p)'
      BY <1>5, <1>8
    <2>7. QED
      BY <1>1, <1>4, <2>2, <2>4, <2>5, <2>6, HealthStep
  <1>9. CASE /\ pol' = [pol EXCEPT ![p].todo = Rest(p, t)] \/ pol' = PollEnds(p)
             /\ t.id \in trouble'
             /\ Put(t.id, [req[t.id] EXCEPT !.state = "ACCEPTED", !.age = 0])
    <2>1. \A q \in Request \ {x} : req'[q] = req[q]
      BY <1>3, <1>6, <1>9
    <2>2. \A r \in Request : req'[r].code = "STALE" => r \in trouble'
      BY <1>1, <1>3, <1>9, <2>1 DEF HInv
    <2>3. Moved(p) /\ GivenUpOK(p)'
      BY <1>5, <1>9
    <2>4. QED
      BY <1>1, <1>3, <1>4, <1>9, <2>1, <2>2, <2>3, HealthStep
  <1>10. CASE /\ Fresh(t) /\ Put(t.id, [req[t.id] EXCEPT !.state = "ACCEPTED", !.age = 0])
              /\ pol' = [pol EXCEPT ![p] =
                   [@ EXCEPT !.pc = "claimed", !.todo = Rest(p, t), !.due = FALSE,
                             !.cur = [id |-> t.id, rev |-> t.rev + 1]]]
    <2>1. /\ Moved(p) /\ pol'[p].pc = "claimed" /\ pol'[p].acc = pol[p].acc
          /\ pol'[p].due = FALSE /\ pol'[p].cur.id = x /\ pol'[p].cur.rev = t.rev + 1
      BY <1>2, <1>3, <1>10, ClaimMoves
    <2>2. /\ \A q \in Request \ {x} : req'[q] = req[q]
          /\ req'[x].rev = req[x].rev + 1 /\ req'[x].age = 0 /\ req'[x].code = req[x].code
      BY <1>3, <1>6, <1>10
    <2>3. Tends(p, x)'
      <3>1. t.rev = req[x].rev
        BY <1>3, <1>10 DEF Fresh
      <3>2. Grace(p)' = 0
        BY <2>1 DEF Grace, Unstarted
      <3>3. QED
        BY <2>1, <2>2, <3>1, <3>2 DEF Tends, Holding, Unstarted
    <2>4. GivenUpOK(p)'
      BY <1>1, <2>1 DEF GivenUpOK, HInv, Ending
    <2>5. \A r \in Request : req'[r].code = "STALE" => r \in trouble'
      BY <1>1, <2>2 DEF HInv
    <2>6. QED
      BY <1>1, <1>4, <2>1, <2>2, <2>3, <2>4, <2>5, HealthStep
  <1>11. QED
    BY <1>1, <1>7, <1>8, <1>9, <1>10

\* The children, the Run's other visitors and the requesters: an edit and a
\* death mean trouble.
LEMMA OutsideHealthy ==
  ASSUME IInv, HInv,
         \/ PostByHand \/ \E r \in Request : EditCancel(r) \/ ChildStep(r)
         \/ \E p \in Poller : SpawnFails(p)
         \/ LeaseExpires \/ ForceUnlock \/ OutsideRun \/ OutsideEnds
  PROVE  HInv'
  <1>1. UNCHANGED pol /\ trouble \subseteq trouble'
    BY DEF PostByHand, EditCancel, ChildStep, ChildActs, ChildEnds, ChildDies, SpawnFails,
           LeaseExpires, ForceUnlock, OutsideRun, OutsideEnds
  <1>2. TypeOK
    BY DEF IInv
  <1>3. CASE UNCHANGED req
    BY <1>1, <1>3, HealthOutside DEF HInv
  <1>4. CASE PostByHand
    <2>1. PICK type \in PostType, valid \in BOOLEAN, x \in Request :
            req' = [req EXCEPT ![x] = [@ EXCEPT !.type = type, !.valid = valid,
                                                !.state = "REQUESTED", !.rev = 1]]
      BY <1>4 DEF PostByHand, Post
    <2>2. req[x] \in RequestRecord /\ req \in [Request -> RequestRecord]
      BY <1>2 DEF TypeOK
    <2>3. /\ req'[x].state = "REQUESTED" /\ req'[x].code = req[x].code
          /\ \A q \in Request \ {x} : req'[q] = req[q]
      BY <2>1, <2>2 DEF RequestRecord
    <2>4. QED
      BY <1>1, <2>3, HealthOutside DEF HInv
  <1>5. ASSUME NEW x \in Request, EditCancel(x) PROVE HInv'
    <2>1. x \in trouble' /\ Put(x, [req[x] EXCEPT !.cancel = TRUE])
      BY <1>5 DEF EditCancel
    <2>2. \A q \in Request \ {x} : req'[q] = req[q]
      BY <1>2, <2>1 DEF Put, TypeOK
    <2>3. QED
      BY <1>1, <2>1, <2>2, HealthOutside DEF HInv
  <1>6. QED
    BY <1>3, <1>4, <1>5
    DEF ChildStep, ChildActs, ChildEnds, ChildDies, SpawnFails, LeaseExpires, ForceUnlock,
        OutsideRun, OutsideEnds

\* An interval goes by: a claimant that has had one before is in trouble.
LEMMA TickHealthy ==
  ASSUME IInv, HInv, Tick
  PROVE  HInv'
  <1>1. TypeOK /\ trouble \subseteq trouble'
    BY DEF IInv, Tick
  <1>2. ASSUME NEW p \in Poller
        PROVE  /\ pol'[p].pc = pol[p].pc /\ pol'[p].acc = pol[p].acc
               /\ pol'[p].cur = pol[p].cur /\ pol'[p].res = pol[p].res
               /\ pol'[p].due = Busy(p)
    <2>1. pol[p] \in PollerRecord /\ pol'[p] = [pol[p] EXCEPT !.due = Busy(p)]
      BY <1>1, PollerTypes DEF Tick
    <2>2. QED
      BY <2>1 DEF PollerRecord
  <1>3. \A p \in Poller : GivenUpOK(p)'
    BY <1>1, <1>2 DEF HInv, GivenUpOK
  <1>4. ASSUME NEW r \in Request
        PROVE  /\ req'[r].state = req[r].state /\ req'[r].rev = req[r].rev
               /\ req'[r].code = req[r].code /\ req'[r].age \in {req[r].age, req[r].age + 1}
    <2>1. req[r] \in RequestRecord
      BY <1>1 DEF TypeOK
    <2>2. req'[r] = req[r] \/ \E n : n = req[r].age + 1 /\ req'[r] = [req[r] EXCEPT !.age = n]
      BY DEF Tick
    <2>3. QED
      BY <2>1, <2>2 DEF RequestRecord
  <1>5. ASSUME NEW r \in Request, req'[r].state = "ACCEPTED", r \notin trouble'
        PROVE  \E p \in Poller : Tends(p, r)'
    <2>1. PICK p \in Poller : Tends(p, r)
      BY <1>1, <1>4, <1>5 DEF HInv, Tended
    <2>2. Busy(p)
      BY <2>1 DEF Tends, Busy, Holding, Unstarted
    <2>3. ~pol[p].due
      BY <1>5, <2>1, <2>2 DEF Tick, Tends
    <2>4. Grace(p)' = Grace(p) + 1 /\ Grace(p) \in {0, 1, 2}
      BY <1>2, <2>2, <2>3 DEF Grace
    <2>5. req[r].age \in Nat
      BY <1>1, QueueAssumption DEF TypeOK, RequestRecord
    <2>6. req'[r].age <= Grace(p)'
      BY <1>4, <2>1, <2>4, <2>5 DEF Tends
    <2>7. QED
      BY <1>2, <1>4, <2>1, <2>6 DEF Tends
  <1>6. QED
    BY <1>1, <1>3, <1>4, <1>5 DEF HInv, Tended

\* No claim exists.
LEMMA InitHInv == Init => HInv
  <1> SUFFICES ASSUME Init PROVE HInv
    OBVIOUS
  <1>1. None # "STALE"
    BY QueueAssumption DEF ResultCode, UncertainCode
  <1>2. \A r \in Request : req[r].state = "ABSENT" /\ req[r].code # "STALE"
    BY <1>1 DEF Init
  <1>3. \A p \in Poller : pol[p].pc = "idle" /\ pol[p].acc = {}
    BY DEF Init
  <1>4. QED
    BY <1>2, <1>3 DEF HInv, Tended, GivenUpOK, Ending

\* HInv is inductive.
LEMMA NextHInv ==
  ASSUME StaleAfter >= 3
  PROVE  IInv /\ HInv /\ [Next]_vars => HInv'
  <1> SUFFICES ASSUME IInv, HInv, [Next]_vars PROVE HInv'
    OBVIOUS
  <1>1. ASSUME NEW p \in Poller, Poll(p) PROVE HInv'
    <2>1. CASE ListRequested(p) \/ EndPoll(p) \/ ListAccepted(p)
      BY <2>1, RestsHealthy, ListAcceptedHealthy
    <2>2. CASE ReadStaleLock(p) \/ RecoverStale(p)
      BY <2>2, RecoverHealthy
    <2>3. CASE SettleUnclaimed(p) \/ Claim(p)
      BY <2>3, ServeHealthy
    <2>4. CASE ReadStatusLock(p) \/ ProcessClaimed(p)
      BY <2>4, ProcessHealthy
    <2>5. CASE Heartbeat(p) \/ ChildDone(p)
      BY <2>5, HeartbeatHealthy, ReportHealthy
    <2>6. CASE SpawnFails(p)
      BY <2>6, OutsideHealthy
    <2>7. CASE FinalizeResult(p) \/ WriteResult(p) \/ RereadResult(p) \/ RewriteResult(p)
      BY <2>7, FinalizeHealthy, ResultHealthy
    <2>8. QED
      BY <1>1, <2>1, <2>2, <2>3, <2>4, <2>5, <2>6, <2>7 DEF Poll
  <1>2. ASSUME NEW p \in Poller, Crash(p) \/ Restart(p) PROVE HInv'
    BY <1>2, CrashHealthy, RestsHealthy
  <1>3. CASE \/ PostByHand \/ \E r \in Request : EditCancel(r) \/ ChildStep(r)
             \/ LeaseExpires \/ ForceUnlock \/ OutsideRun \/ OutsideEnds
    BY <1>3, OutsideHealthy
  <1>4. CASE Tick
    BY <1>4, TickHealthy
  <1>5. CASE UNCHANGED vars
    BY <1>5, HealthOutside DEF vars, HInv
  <1>6. QED
    BY <1>1, <1>2, <1>3, <1>4, <1>5 DEF Next

\* When the threshold and its allowance are at least three heartbeat intervals,
\* a request is given up as STALE only if its claimant met a fault or an edit
\* (withHeartbeat against recoverStale). The defaults of poll-requests-config.ts
\* are sixteen; its check alone would admit fewer than three.
THEOREM HealthyClaims ==
  ASSUME StaleAfter >= 3
  PROVE  Spec => []HealthyClaimSurvives
  <1>1. HInv => HealthyClaimSurvives
    BY DEF HInv, HealthyClaimSurvives
  <1>2. IInv /\ HInv /\ [Next]_vars => HInv'
    BY NextHInv
  <1>3. QED
    BY <1>1, <1>2, InitHInv, Invariance, PTL DEF Spec
=============================================================================
