------------------------- MODULE RequestBoardProofs -------------------------
(***************************************************************************)
(* Proofs about the board on top of the request queue, for any number of   *)
(* requests, pollers, loads, dialogs and failing calls.                    *)
(*                                                                         *)
(* What the queue promises is kept by the board's writes.  What the board  *)
(* promises rests on what no step of the queue does to a record: it goes   *)
(* onward (Onward), so what a page read of it stays usable together with   *)
(* the revision it had.                                                    *)
(***************************************************************************)
EXTENDS RequestBoard, RequestQueueProofs

\* A record goes onward: it is never taken back, each change of its state raises
\* its revision, and what ended stays ended.
Onward(r) ==
    /\ req[r].state # "ABSENT" =>
          /\ req'[r].state # "ABSENT" /\ req'[r].type = req[r].type
          /\ req[r].rev <= req'[r].rev
          /\ req'[r].rev = req[r].rev => req'[r].state = req[r].state
    /\ req[r].state \in TerminalState => req'[r].state \in TerminalState

\* A record as a page read it: its state is still that while it has the revision.
KnownOK(q) ==
    /\ req[q.id].state # "ABSENT" /\ req[q.id].type = q.type /\ q.rev <= req[q.id].rev
    /\ q.rev = req[q.id].rev => req[q.id].state = q.state

Mark == [id : Request, rev : Nat, type : RequestType, state : OpenState]

\* A START is offered by the toolbar, not by a Run.
RunOps == RequestType \ {"START"}

LoadRecord ==
    [gen : Nat, page : Page, todo : SUBSET {"active", "attention"}, some : BOOLEAN,
     ops : SUBSET RunOps, pend : SUBSET Mark, lost : SUBSET {"run", "start"}, ready : BOOLEAN]

ShownRecord ==
    [up : BOOLEAN, page : Page, ops : SUBSET RunOps, pend : SUBSET Mark,
     lost : SUBSET {"run", "start"}]

\* What was put together for a page offers nothing while a request that was
\* reported as created is pending.
Covers(x) ==
    \A r \in created :
        req[r].type # "START" /\ req[r].state \in OpenState /\ "run" \notin x.lost
        => Offered(x) = {}

LoadOK(l) ==
    /\ l.gen <= board.gen /\ l.page = board.shown.page
    /\ (~l.some => l.ops = {}) /\ (l.ready => l.todo = {})
    /\ \A q \in l.pend : KnownOK(q)
    /\ l.ready /\ l.gen = board.gen => Covers(l)

\* A detail page loads once. What is up before that is the mark of a dialog of an
\* earlier one, without operations. The mark OnCreated puts there carries no state
\* that a dialog uses.
PageInv ==
    /\ board \in [gen : Nat, loads : SUBSET LoadRecord, shown : ShownRecord]
    /\ \A l \in board.loads : LoadOK(l)
    /\ board.shown.up => Covers(board.shown)
    /\ board.shown.page = "board" => \A q \in board.shown.pend : KnownOK(q)
    /\ board.shown.page = "detail" =>
          /\ board.loads # {} => \E l \in board.loads : board.loads = {l} /\ l.gen = board.gen
          /\ ~board.shown.up => board.loads # {}
          /\ board.shown.up /\ board.loads # {} => Offered(board.shown) = {}
    /\ LoadingEnds

DialogRecord ==
    [kind : {"none", "run", "start", "cancel"},
     pc : {"none", "input", "confirm", "readback", "snapshot", "done"},
     type : RequestType \cup {None}, id : Request \cup {0}, rev : Nat, at : {"here", "root", "gone"}]

\* A dialog that is open.
Active(d) == dlg[d].pc \notin {"none", "done"}

DialogOK(d) ==
    /\ Active(d) =>
          /\ dlg[d].kind = "run" => dlg[d].type \in RunOps
          /\ dlg[d].kind = "start" => dlg[d].type = "START"
          /\ dlg[d].kind = "cancel" => dlg[d].id \in Request
          /\ dlg[d].kind \in {"run", "start", "cancel"}
    /\ dlg[d].pc = "readback" =>
          /\ dlg[d].kind # "cancel" /\ dlg[d].id \in Request
          /\ req[dlg[d].id].state # "ABSENT" /\ req[dlg[d].id].type = dlg[d].type
    /\ dlg[d].pc = "snapshot" => dlg[d].kind = "cancel"
    /\ dlg[d].kind = "cancel" /\ dlg[d].pc = "confirm" =>
          /\ req[dlg[d].id].state # "ABSENT" /\ dlg[d].rev <= req[dlg[d].id].rev
          /\ dlg[d].rev = req[dlg[d].id].rev => req[dlg[d].id].state = "REQUESTED"
    /\ Active(d) /\ dlg[d].at = "here" /\ board.shown.page = "detail" =>
          dlg[d].kind = "run" /\ board.shown.up /\ board.loads = {}
    /\ Active(d) /\ dlg[d].at = "root" => dlg[d].kind = "run" /\ board.shown.page = "detail"

DialogInv == dlg \in [Dialog -> DialogRecord] /\ \A d \in Dialog : DialogOK(d)

\* What the dialogs and pages have said.
HistoryInv ==
    /\ told \in [Request -> SUBSET {"accepted", "retry", "started", "unconfirmed"}]
    /\ \A r \in Request : "accepted" \in told[r] => r \in withdrawn
    /\ created \subseteq Request /\ \A r \in created : req[r].state # "ABSENT"

\* The page stays the same one; a detail page goes on showing what it shows, with
\* no load to come if there is none.
PageStays ==
    /\ board'.shown.page = board.shown.page
    /\ board.shown.page = "detail" =>
          /\ board.shown.up => board'.shown.up
          /\ board.loads = {} => board'.loads = {}

BInv == IInv /\ PageInv /\ DialogInv /\ HistoryInv
-----------------------------------------------------------------------------
(* The steps of the queue.                                                  *)

\* A step that writes no record.
LEMMA SameOnward == ASSUME UNCHANGED req, TypeOK PROVE \A r \in Request : Onward(r)
  BY DEF Onward, TypeOK, RequestRecord

\* A write of the record of x that keeps its type and does not reopen it.
LEMMA PutOnward ==
  ASSUME TypeOK, NEW x \in Request, NEW rec \in RequestRecord, Put(x, rec),
         rec.rev = req[x].rev, rec.type = req[x].type, rec.state # "ABSENT",
         \A r \in Request : EndedKept(r)
  PROVE  \A r \in Request : Onward(r)
  <1>1. /\ \A q \in Request \ {x} : req'[q] = req[q]
        /\ req'[x].rev = req[x].rev + 1 /\ req'[x].type = req[x].type
        /\ req'[x].state # "ABSENT"
    BY PutMoves
  <1>2. \A r \in Request : req[r].rev \in Nat
    BY DEF TypeOK, RequestRecord
  <1>3. QED
    BY <1>1, <1>2 DEF Onward, EndedKept

\* A new record.
LEMMA PostOnward ==
  ASSUME IInv, NEW type, NEW valid, Post(type, valid)
  PROVE  /\ \A r \in Request : Onward(r)
         /\ \E x \in Request :
               /\ req[x].state = "ABSENT" /\ req'[x].state = "REQUESTED" /\ req'[x].type = type
               /\ \A q \in Request \ {x} : req'[q] = req[q]
  <1>1. PICK x \in Request :
          /\ req[x].state = "ABSENT"
          /\ req' = [req EXCEPT ![x] = [@ EXCEPT !.type = type, !.valid = valid,
                                                 !.state = "REQUESTED", !.rev = 1]]
    BY DEF Post
  <1>2. req \in [Request -> RequestRecord]
    BY DEF IInv, TypeOK
  <1>3. /\ \A q \in Request \ {x} : req'[q] = req[q]
        /\ req'[x].state = "REQUESTED" /\ req'[x].type = type
    BY <1>1, <1>2 DEF RequestRecord
  <1>4. \A r \in Request : req[r].rev \in Nat
    BY <1>2 DEF RequestRecord
  <1>5. \A r \in Request : Onward(r)
    BY <1>1, <1>3, <1>4 DEF Onward, TerminalState
  <1>6. QED
    BY <1>1, <1>3, <1>5

\* Whatever the queue does, records go onward.
LEMMA QueueOnward == IInv /\ [Next]_vars => \A r \in Request : Onward(r)
  <1> SUFFICES ASSUME IInv, [Next]_vars PROVE \A r \in Request : Onward(r)
    OBVIOUS
  <1>1. TypeOK /\ \A r \in Request : EndedKept(r)
    BY StepKeepsEnded DEF IInv
  <1>2. CASE UNCHANGED req
    BY <1>1, <1>2, SameOnward
  <1>3. CASE PostByHand
    BY <1>3, PostOnward DEF PostByHand
  <1>4. ASSUME NEW x \in Request, EditCancel(x) PROVE \A r \in Request : Onward(r)
    <2>1. Put(x, [req[x] EXCEPT !.cancel = TRUE]) /\ req[x].state # "ABSENT"
      BY <1>4 DEF EditCancel
    <2>2. [req[x] EXCEPT !.cancel = TRUE].rev = req[x].rev
          /\ [req[x] EXCEPT !.cancel = TRUE].type = req[x].type
          /\ [req[x] EXCEPT !.cancel = TRUE].state = req[x].state
      BY <1>1 DEF TypeOK, RequestRecord
    <2>3. QED
      BY <1>1, <2>1, <2>2, WrittenTypes, PutOnward
  <1>5. ASSUME NEW p \in Poller, Heartbeat(p) PROVE \A r \in Request : Onward(r)
    <2>1. PICK x \in Request : x = pol[p].cur.id
      BY <1>5 DEF IInv, PollerOK, Heartbeat, Holding
    <2>2. req[x].state # "ABSENT"
      BY <1>5, <2>1 DEF IInv, PollerOK, Heartbeat, Holding, Served
    <2>3. UNCHANGED req \/ Put(x, [req[x] EXCEPT !.age = 0])
      BY <1>5, <2>1 DEF Heartbeat, LostPut
    <2>4. [req[x] EXCEPT !.age = 0].rev = req[x].rev
          /\ [req[x] EXCEPT !.age = 0].type = req[x].type
          /\ [req[x] EXCEPT !.age = 0].state = req[x].state
      BY <1>1 DEF TypeOK, RequestRecord
    <2>5. QED
      BY <1>1, <1>2, <2>2, <2>3, <2>4, WrittenTypes, PutOnward
  <1>6. ASSUME NEW x \in Request, NEW res \in [state : RequestState \ {"ABSENT"},
                                               code : ResultCode \cup {None}],
               Put(x, Settled(x, res))
        PROVE  \A r \in Request : Onward(r)
    <2>1. Settled(x, res) \in RequestRecord /\ Settled(x, res).rev = req[x].rev
          /\ Settled(x, res).type = req[x].type /\ Settled(x, res).state # "ABSENT"
      <3>1. PICK state, code : /\ state = res.state /\ code = res.code
                               /\ state \in RequestState \ {"ABSENT"}
                               /\ code \in ResultCode \cup {None}
        OBVIOUS
      <3>2. Settled(x, res) = [req[x] EXCEPT !.state = state, !.code = code]
        BY <3>1 DEF Settled
      <3>3. req[x] \in RequestRecord
        BY <1>1 DEF TypeOK
      <3> HIDE DEF Settled
      <3>4. QED
        BY <3>1, <3>2, <3>3 DEF RequestRecord
    <2>2. QED
      BY <1>1, <1>6, <2>1, PutOnward
  <1>7. ASSUME NEW p \in Poller, WriteResult(p) \/ RewriteResult(p)
        PROVE  \A r \in Request : Onward(r)
    <2>1. PICK x \in Request : x = pol[p].cur.id
      BY <1>7 DEF IInv, PollerOK, WriteResult, RewriteResult, Ending
    <2>2. UNCHANGED req \/ Put(x, Settled(x, pol[p].res))
      BY <1>7, <2>1 DEF WriteResult, RewriteResult, LostPut
    <2>3. pol[p].res \in [state : RequestState \ {"ABSENT"}, code : ResultCode \cup {None}]
      BY <1>1, PollerTypes DEF RequestState
    <2>4. QED
      BY <1>2, <1>6, <2>2, <2>3
  <1>8. ASSUME NEW p \in Poller, SettleUnclaimed(p) PROVE \A r \in Request : Onward(r)
    <2>1. PICK t \in Listed(p) :
            UNCHANGED req \/ (Fresh(t) /\
                \E res \in {[state |-> "CANCELLED", code |-> "CANCELLED_BY_REQUESTER"],
                            Rejected("REQUEST_INVALID")} : Put(t.id, Settled(t.id, res)))
      BY <1>8 DEF SettleUnclaimed, LostPut
    <2>2. ASSUME Fresh(t), NEW res \in {[state |-> "CANCELLED", code |-> "CANCELLED_BY_REQUESTER"],
                                        Rejected("REQUEST_INVALID")},
                 Put(t.id, Settled(t.id, res))
          PROVE  \A r \in Request : Onward(r)
      <3>1. PICK x \in Request : x = t.id
        BY <2>2, FreshIsRequested
      <3>2. res \in [state : RequestState \ {"ABSENT"}, code : ResultCode \cup {None}]
        BY <2>2 DEF Rejected, RequestState, ResultCode
      <3>3. QED
        BY <1>6, <2>2, <3>1, <3>2
    <2>3. QED
      BY <1>2, <2>1, <2>2
  <1>9. ASSUME NEW p \in Poller, Claim(p) PROVE \A r \in Request : Onward(r)
    <2>1. PICK t \in Listed(p) :
            UNCHANGED req \/ (Fresh(t) /\
                Put(t.id, [req[t.id] EXCEPT !.state = "ACCEPTED", !.age = 0]))
      BY <1>9 DEF Claim, LostPut
    <2>2. CASE Fresh(t) /\ Put(t.id, [req[t.id] EXCEPT !.state = "ACCEPTED", !.age = 0])
      <3>1. PICK x \in Request : x = t.id
        BY <2>2, FreshIsRequested
      <3>2. [req[x] EXCEPT !.state = "ACCEPTED", !.age = 0].rev = req[x].rev
            /\ [req[x] EXCEPT !.state = "ACCEPTED", !.age = 0].type = req[x].type
            /\ [req[x] EXCEPT !.state = "ACCEPTED", !.age = 0].state = "ACCEPTED"
        BY <1>1 DEF TypeOK, RequestRecord
      <3>3. QED
        BY <1>1, <2>2, <3>1, <3>2, WrittenTypes, PutOnward
    <2>3. QED
      BY <1>2, <2>1, <2>2
  <1>10. CASE Tick
    <2>1. ASSUME NEW r \in Request
          PROVE  req'[r].state = req[r].state /\ req'[r].rev = req[r].rev
                 /\ req'[r].type = req[r].type
      BY <1>1, <1>10 DEF Tick, TypeOK, RequestRecord
    <2>2. \A r \in Request : req[r].rev \in Nat
      BY <1>1 DEF TypeOK, RequestRecord
    <2>3. QED
      BY <2>1, <2>2 DEF Onward
  <1>11. ASSUME NEW r \in Request, ChildStep(r) PROVE UNCHANGED req
    BY <1>11 DEF ChildStep, ChildActs, ChildEnds, ChildDies
  <1>12. ASSUME NEW p \in Poller, Poll(p) \/ Crash(p) \/ Restart(p)
         PROVE  \/ UNCHANGED req \/ Heartbeat(p) \/ WriteResult(p) \/ RewriteResult(p)
                \/ SettleUnclaimed(p) \/ Claim(p)
    BY <1>12 DEF Poll, Crash, Restart, ListRequested, ListAccepted, ReadStaleLock, RecoverStale,
                 EndPoll, ReadStatusLock, ProcessClaimed, ChildDone, SpawnFails, FinalizeResult,
                 RereadResult
  <1>13. CASE LeaseExpires \/ ForceUnlock \/ OutsideRun \/ OutsideEnds
    BY <1>2, <1>13 DEF LeaseExpires, ForceUnlock, OutsideRun, OutsideEnds
  <1>14. QED
    BY <1>2, <1>3, <1>4, <1>5, <1>7, <1>8, <1>9, <1>10, <1>11, <1>12, <1>13 DEF Next, vars

\* The note of a withdrawal is kept.
LEMMA WithdrawnGrows == [Next]_vars => withdrawn \subseteq withdrawn'
  <1> SUFFICES ASSUME [Next]_vars PROVE withdrawn \subseteq withdrawn'
    OBVIOUS
  <1>1. ASSUME NEW r \in Request, EditCancel(r) \/ ChildStep(r) PROVE withdrawn \subseteq withdrawn'
    BY <1>1 DEF EditCancel, ChildStep, ChildActs, ChildEnds, ChildDies
  <1>2. ASSUME NEW p \in Poller, Poll(p) \/ Crash(p) \/ Restart(p) PROVE UNCHANGED withdrawn
    BY <1>2 DEF Poll, Crash, Restart, ListRequested, ListAccepted, ReadStaleLock, RecoverStale,
                SettleUnclaimed, Claim, EndPoll, ReadStatusLock, ProcessClaimed, Heartbeat,
                ChildDone, SpawnFails, FinalizeResult, WriteResult, RereadResult, RewriteResult
  <1>3. QED
    BY <1>1, <1>2 DEF Next, vars, PostByHand, LeaseExpires, ForceUnlock, OutsideRun, OutsideEnds,
                      Tick
-----------------------------------------------------------------------------
(* What the parts of the invariant need of a step.                          *)

\* What was read of a record that goes onward stays usable.
LEMMA KnownKept ==
  ASSUME NEW q \in Mark, KnownOK(q), Onward(q.id), TypeOK, TypeOK'
  PROVE  KnownOK(q)'
  <1>1. q.id \in Request /\ q.rev \in Nat /\ req[q.id].rev \in Nat /\ req'[q.id].rev \in Nat
    BY DEF Mark, TypeOK, RequestRecord
  <1>2. QED
    BY <1>1 DEF KnownOK, Onward

\* Nothing that was created waits again after it ended.
LEMMA CoversKept ==
  ASSUME NEW x, Covers(x), \A r \in Request : Onward(r), HistoryInv, created' = created, TypeOK
  PROVE  Covers(x)'
  <1>1. ASSUME NEW r \in created, req'[r].state \in OpenState, req'[r].type # "START"
        PROVE  req[r].state \in OpenState /\ req[r].type # "START"
    <2>1. r \in Request /\ Onward(r) /\ req[r].state # "ABSENT"
      BY DEF HistoryInv
    <2>2. req'[r].state \notin TerminalState
      BY <1>1 DEF OpenState, TerminalState
    <2>3. req[r].state \in RequestState
      BY <2>1 DEF TypeOK, RequestRecord
    <2>4. QED
      BY <1>1, <2>1, <2>2, <2>3 DEF Onward, OpenState, RequestState, TerminalState
  <1>2. QED
    BY <1>1 DEF Covers, Offered

\* A step that leaves the page alone.
LEMMA PageKept ==
  ASSUME TypeOK, TypeOK', PageInv, HistoryInv, \A r \in Request : Onward(r),
         UNCHANGED <<board, created>>
  PROVE  PageInv'
  <1>1. board.loads \subseteq LoadRecord /\ board.shown \in ShownRecord
    BY DEF PageInv
  <1>2. ASSUME NEW l \in board.loads PROVE LoadOK(l)'
    <2>1. LoadOK(l) /\ l.pend \subseteq Mark
      BY <1>1 DEF PageInv, LoadRecord
    <2>2. ASSUME NEW q \in l.pend PROVE KnownOK(q)'
      BY <2>1, KnownKept DEF LoadOK, Mark
    <2>3. Covers(l) => Covers(l)'
      BY CoversKept
    <2>4. QED
      BY <2>1, <2>2, <2>3 DEF LoadOK
  <1>3. Covers(board.shown) => Covers(board.shown)'
    <2>1. PICK x : x = board.shown
      OBVIOUS
    <2>2. Covers(x) => Covers(x)'
      BY CoversKept
    <2>3. QED
      BY <2>1, <2>2
  <1>4. ASSUME NEW q \in board.shown.pend, KnownOK(q) PROVE KnownOK(q)'
    BY <1>1, <1>4, KnownKept DEF ShownRecord, Mark
  <1>5. QED
    BY <1>2, <1>3, <1>4 DEF PageInv, LoadingEnds

\* A step that leaves a dialog alone.
LEMMA DialogKept ==
  ASSUME TypeOK, TypeOK', DialogInv, NEW d \in Dialog, dlg'[d] = dlg[d],
         \A r \in Request : Onward(r), PageStays
  PROVE  DialogOK(d)'
  <1>1. DialogOK(d) /\ dlg[d] \in DialogRecord
    BY DEF DialogInv
  <1>2. ASSUME Active(d), dlg[d].id \in Request
        PROVE  /\ Onward(dlg[d].id) /\ req[dlg[d].id].rev \in Nat /\ req'[dlg[d].id].rev \in Nat
               /\ dlg[d].rev \in Nat
    BY <1>1, <1>2 DEF TypeOK, RequestRecord, DialogRecord
  <1>3. dlg[d].pc = "readback" =>
          req'[dlg[d].id].state # "ABSENT" /\ req'[dlg[d].id].type = dlg[d].type
    BY <1>1, <1>2 DEF DialogOK, Active, Onward
  <1>4. dlg[d].kind = "cancel" /\ dlg[d].pc = "confirm" =>
          /\ req'[dlg[d].id].state # "ABSENT" /\ dlg[d].rev <= req'[dlg[d].id].rev
          /\ dlg[d].rev = req'[dlg[d].id].rev => req'[dlg[d].id].state = "REQUESTED"
    BY <1>1, <1>2 DEF DialogOK, Active, Onward
  <1>5. QED
    BY <1>1, <1>3, <1>4 DEF DialogOK, Active, PageStays

\* A step that says nothing.
LEMMA HistoryKept ==
  ASSUME HistoryInv, \A r \in Request : Onward(r), withdrawn \subseteq withdrawn',
         UNCHANGED <<told, created>>
  PROVE  HistoryInv'
  BY DEF HistoryInv, Onward

\* A step that leaves dialogs and page alone.
LEMMA DialogsKept ==
  ASSUME TypeOK, TypeOK', DialogInv, UNCHANGED dlg, \A r \in Request : Onward(r),
         PageStays
  PROVE  DialogInv'
  BY DialogKept DEF DialogInv

\* A step that changes one dialog.
LEMMA DialogMoves ==
  ASSUME TypeOK, TypeOK', DialogInv, NEW d \in Dialog, NEW e \in DialogRecord,
         dlg' = [dlg EXCEPT ![d] = e], dlg'[d] = e => DialogOK(d)',
         \A r \in Request : Onward(r), PageStays
  PROVE  DialogInv'
  <1>1. dlg' \in [Dialog -> DialogRecord] /\ dlg'[d] = e
        /\ \A x \in Dialog \ {d} : dlg'[x] = dlg[x]
    BY DEF DialogInv
  <1>2. \A x \in Dialog \ {d} : DialogOK(x)'
    BY <1>1, DialogKept
  <1>3. QED
    BY <1>1, <1>2 DEF DialogInv

\* A step of the queue.
LEMMA QueueKeeps ==
  ASSUME BInv, Next, UNCHANGED bvars
  PROVE  BInv'
  <1>1. IInv' /\ \A r \in Request : Onward(r)
    BY NextIInv, QueueOnward DEF BInv
  <1>2. TypeOK /\ TypeOK' /\ withdrawn \subseteq withdrawn'
    BY <1>1, WithdrawnGrows DEF BInv, IInv
  <1>3. UNCHANGED <<board, dlg, slips, told, created>>
    BY DEF bvars
  <1>4. PageInv'
    BY <1>1, <1>2, <1>3, PageKept DEF BInv
  <1>5. DialogInv'
    BY <1>1, <1>2, <1>3, DialogsKept DEF BInv, PageStays
  <1>6. HistoryInv'
    BY <1>1, <1>2, <1>3, HistoryKept DEF BInv
  <1>7. QED
    BY <1>1, <1>4, <1>5, <1>6 DEF BInv
-----------------------------------------------------------------------------
(* Loading the page.                                                        *)

\* A step of the browser that writes no record.
LEMMA NothingWritten ==
  ASSUME IInv, UNCHANGED vars
  PROVE  /\ IInv' /\ TypeOK /\ TypeOK' /\ withdrawn \subseteq withdrawn'
         /\ \A r \in Request : Onward(r)
  <1>1. IInv'
    BY NextIInv
  <1>2. QED
    BY <1>1, QueueOnward, WithdrawnGrows DEF IInv

\* A new generation of the board.
LEMMA ReloadedKeeps ==
  ASSUME TypeOK, TypeOK', PageInv, \A r \in Request : Onward(r), board.shown.page = "board",
         board' = Reloaded("board")
  PROVE  PageInv' /\ board'.shown.page = "board"
  <1> DEFINE old == {l \in board.loads : l.ready}
  <1>0. PICK new : new = NewLoad(board.gen + 1, "board")
    OBVIOUS
  <1>1. /\ board \in [gen : Nat, loads : SUBSET LoadRecord, shown : ShownRecord]
        /\ \A l \in board.loads : LoadOK(l)
    BY DEF PageInv
  <1>2. /\ new \in LoadRecord /\ new.gen = board.gen + 1 /\ new.page = "board"
        /\ new.some = FALSE /\ new.ready = FALSE /\ new.ops = {} /\ new.pend = {}
    BY <1>0, <1>1 DEF NewLoad, LoadRecord, Page
  <1>3. Blank \in ShownRecord /\ Blank.page = "board" /\ Blank.pend = {} /\ ~Blank.up
    BY DEF Blank, ShownRecord, Page
  <1>4. board' = [board EXCEPT !.gen = board.gen + 1, !.shown = Blank, !.loads = old \cup {new}]
    BY <1>0 DEF Reloaded
  <1>5. /\ board'.gen = board.gen + 1 /\ board'.shown = Blank /\ board'.loads = old \cup {new}
        /\ board' \in [gen : Nat, loads : SUBSET LoadRecord, shown : ShownRecord]
    <2>1. PICK n, b, L : n = board.gen + 1 /\ b = Blank /\ L = old \cup {new}
      OBVIOUS
    <2>2. n \in Nat /\ b \in ShownRecord /\ L \subseteq LoadRecord
      <3>1. board.gen \in Nat /\ board.loads \subseteq LoadRecord
        BY <1>1
      <3>2. QED
        BY <1>2, <1>3, <2>1, <3>1
    <2>3. board' = [board EXCEPT !.gen = n, !.shown = b, !.loads = L]
      BY <1>4, <2>1
    <2>4. QED
      BY <1>1, <2>1, <2>2, <2>3
  <1>6. ASSUME NEW l \in old PROVE LoadOK(l)'
    <2>1. LoadOK(l) /\ l \in LoadRecord /\ l.pend \subseteq Mark /\ l.gen \in Nat
      BY <1>1 DEF LoadRecord
    <2>2. ASSUME NEW q \in l.pend PROVE KnownOK(q)'
      BY <2>1, KnownKept DEF LoadOK, Mark
    <2>3. l.gen <= board'.gen /\ l.gen # board'.gen /\ l.page = board'.shown.page
      BY <1>1, <1>3, <1>5, <2>1 DEF LoadOK
    <2>4. QED
      BY <2>1, <2>2, <2>3 DEF LoadOK
  <1>7. LoadOK(new)'
    <2>1. new.gen <= board'.gen /\ new.page = board'.shown.page
      BY <1>1, <1>2, <1>3, <1>5
    <2>2. QED
      BY <1>2, <2>1 DEF LoadOK
  <1>8. LoadingEnds'
    BY <1>2, <1>5 DEF LoadingEnds
  <1>9. \A l \in board'.loads : LoadOK(l)'
    <2>1. ASSUME NEW l \in board'.loads PROVE LoadOK(l)'
      <3>1. l \in old \/ l = new
        BY <1>5, <2>1
      <3>2. QED
        BY <1>6, <1>7, <3>1
    <2>2. QED
      BY <2>1
  <1>10. board'.shown.page = "board" /\ board'.shown.pend = {} /\ ~board'.shown.up
    BY <1>3, <1>5
  <1>11. QED
    BY <1>5, <1>8, <1>9, <1>10 DEF PageInv

\* A new load takes the next generation and starts with nothing read.
LEMMA ReloadKeeps ==
  ASSUME BInv, Reload
  PROVE  BInv'
  <1>1. /\ IInv' /\ TypeOK /\ TypeOK' /\ \A r \in Request : Onward(r)
        /\ withdrawn \subseteq withdrawn'
    BY NothingWritten DEF BInv, Reload
  <1>2. /\ board.shown.page = "board" /\ board' = Reloaded("board")
        /\ UNCHANGED <<dlg, told, created>>
    BY DEF Reload
  <1>3. PageInv' /\ board'.shown.page = "board"
    BY <1>1, <1>2, ReloadedKeeps DEF BInv
  <1>4. DialogInv'
    BY <1>1, <1>2, <1>3, DialogsKept DEF BInv, PageStays
  <1>5. HistoryInv'
    BY <1>1, <1>2, HistoryKept DEF BInv
  <1>6. QED
    BY <1>1, <1>3, <1>4, <1>5 DEF BInv

\* A page that is shown anew: of what was there nothing goes on but the dialogs,
\* which no longer belong to it.
LEMMA NewPageKeeps ==
  ASSUME BInv, NEW l \in LoadRecord, NewPage(l), l.gen = board.gen + 1, l.ready = FALSE,
         l.pend = {}, l.some = FALSE => l.ops = {}
  PROVE  BInv'
  <1>1. /\ IInv' /\ TypeOK /\ TypeOK' /\ \A r \in Request : Onward(r)
        /\ withdrawn \subseteq withdrawn'
    BY NothingWritten DEF BInv, NewPage
  <1>2. PICK s : s = [Blank EXCEPT !.page = l.page]
    OBVIOUS
  <1>3. s \in ShownRecord /\ s.page = l.page /\ s.pend = {} /\ s.up = FALSE
    BY <1>2 DEF LoadRecord, Blank, ShownRecord, Page
  <1>4. /\ board' = [gen |-> l.gen, shown |-> s, loads |-> {l}]
        /\ board' \in [gen : Nat, loads : SUBSET LoadRecord, shown : ShownRecord]
    BY <1>2, <1>3 DEF NewPage, LoadRecord
  <1>5. /\ board'.gen = l.gen /\ board'.shown = s /\ board'.loads = {l}
        /\ l.gen \in Nat /\ l.some \in BOOLEAN
    BY <1>4 DEF LoadRecord
  <1>6. LoadOK(l)'
    BY <1>3, <1>5 DEF LoadOK
  <1>7. PageInv'
    BY <1>3, <1>4, <1>5, <1>6 DEF PageInv, LoadingEnds
  <1>8. ASSUME NEW d \in Dialog
        PROVE  dlg'[d] \in DialogRecord /\ DialogOK(d)'
    <2>1. DialogOK(d) /\ dlg[d] \in DialogRecord
      BY DEF BInv, DialogInv
    <2>2. PICK h : h = CASE dlg[d].pc \in {"none", "done"} -> "here"
                         [] /\ dlg[d].pc \notin {"none", "done"} /\ dlg[d].at # "gone"
                            /\ l.page = "detail" /\ board.shown.page = "detail" -> "root"
                         [] OTHER -> "gone"
      OBVIOUS
    <2>3. dlg'[d] = [dlg[d] EXCEPT !.at = h] /\ h \in {"here", "root", "gone"}
      BY <2>2 DEF NewPage
    <2>4. /\ dlg'[d] \in DialogRecord /\ dlg'[d].kind = dlg[d].kind /\ dlg'[d].pc = dlg[d].pc
          /\ dlg'[d].type = dlg[d].type /\ dlg'[d].id = dlg[d].id /\ dlg'[d].rev = dlg[d].rev
          /\ dlg'[d].at = h
      BY <2>1, <2>3 DEF DialogRecord
    <2>5. UNCHANGED req
      BY DEF NewPage, vars
    <2>6. /\ h = "here" => ~Active(d)
          /\ h = "root" /\ Active(d) => dlg[d].kind = "run" /\ l.page = "detail"
      <3>1. h = "root" => dlg[d].at \in {"here", "root"} /\ board.shown.page = "detail"
                          /\ l.page = "detail"
        BY <2>1, <2>2 DEF DialogRecord
      <3>2. QED
        BY <2>1, <2>2, <3>1 DEF Active, DialogOK
    <2>7. board'.shown.page = l.page
      BY <1>3, <1>5
    <2>8. QED
      BY <2>1, <2>4, <2>5, <2>6, <2>7 DEF DialogOK, Active
  <1>9. DialogInv'
    BY <1>8 DEF DialogInv, NewPage
  <1>10. HistoryInv'
    BY <1>1, HistoryKept DEF BInv, NewPage
  <1>11. QED
    BY <1>1, <1>7, <1>9, <1>10 DEF BInv

\* The operations that a row can have.
LEMMA RowOps ==
  ASSUME NEW x \in RunRecord, NEW hold \in BOOLEAN
  PROVE  DecideBoardAction(x, hold, {}) \subseteq RunOps
  <1> DEFINE a == DeriveRunActivity(x)
             m == MatrixAction(x.status, a)
  <1>1. x.status \in TerminalRun \cup {"CREATED", "RUNNING"}
    BY DEF RunRecord
  <1>2. x.status \in {"CREATED", "RUNNING"} =>
          a \in {"STOPPED", "LIVE", "INTERRUPTED", "IDLE"}
    BY DEF DeriveRunActivity, TerminalRun
  <1>3. x.status \in TerminalRun => a = None
    BY DEF DeriveRunActivity
  <1>4. m \in {"NONE", "STOP", "RELEASE", "RERUN", "INVALID"} \/ x.status = "UNKNOWN"
    BY <1>1, <1>2, <1>3 DEF MatrixAction, TerminalRun
  <1> HIDE DEF m
  <1>5. m \notin {"INVALID", "NONE"} /\ x.status # "UNKNOWN" => {m} \subseteq RunOps
    BY <1>4 DEF RunOps, RequestType
  <1>6. {"RELEASE"} \subseteq RunOps /\ {"RERUN", "CLOSE"} \subseteq RunOps
    BY DEF RunOps, RequestType
  <1>7. QED
    BY <1>5, <1>6 DEF DecideBoardAction, m

\* The page of the board, and a Run's page.
LEMMA ShowKeeps ==
  ASSUME BInv, ShowBoard \/ ShowDetail
  PROVE  BInv'
  <1>1. board.gen \in Nat /\ run \in RunRecord
    BY DEF BInv, PageInv, IInv, TypeOK
  <1>2. CASE ShowBoard
    <2>1. PICK l : l = NewLoad(board.gen + 1, "board")
      OBVIOUS
    <2>2. l \in LoadRecord /\ l.gen = board.gen + 1 /\ l.ready = FALSE /\ l.pend = {} /\ l.ops = {}
      BY <1>1, <2>1 DEF NewLoad, LoadRecord, Page
    <2>3. QED
      BY <1>2, <2>1, <2>2, NewPageKeeps DEF ShowBoard
  <1>3. CASE ShowDetail
    <2>1. PICK o : o = DecideBoardAction(run, FALSE, {})
      OBVIOUS
    <2>2. o \subseteq RunOps
      BY <1>1, <2>1, RowOps
    <2>3. PICK l : l = LoadDetail
      OBVIOUS
    <2>4. l = [gen |-> board.gen + 1, page |-> "detail", todo |-> {}, some |-> TRUE,
               ops |-> o, pend |-> {}, lost |-> {}, ready |-> FALSE]
      BY <2>1, <2>3 DEF LoadDetail, NewLoad
    <2>5. /\ l \in LoadRecord /\ l.gen = board.gen + 1 /\ l.ready = FALSE /\ l.pend = {}
          /\ l.some = TRUE
      BY <1>1, <2>2, <2>4 DEF LoadRecord, Page
    <2>6. PICK k : k = [l EXCEPT !.some = FALSE, !.ops = {}]
      OBVIOUS
    <2>7. k \in LoadRecord /\ k.gen = board.gen + 1 /\ k.ready = FALSE /\ k.pend = {} /\ k.ops = {}
      BY <2>5, <2>6 DEF LoadRecord
    <2>8. NewPage(l) \/ NewPage(k)
      BY <1>3, <2>3, <2>6 DEF ShowDetail
    <2>9. QED
      BY <2>5, <2>7, <2>8, NewPageKeeps
  <1>4. QED
    BY <1>2, <1>3

\* A step of the page alone.
LEMMA PageStep ==
  ASSUME BInv, UNCHANGED <<vars, dlg, told, created>>, PageInv',
         PageStays
  PROVE  BInv'
  <1>1. /\ IInv' /\ TypeOK /\ TypeOK' /\ \A r \in Request : Onward(r)
        /\ withdrawn \subseteq withdrawn'
    BY NothingWritten DEF BInv
  <1>2. DialogInv'
    BY <1>1, DialogsKept DEF BInv
  <1>3. HistoryInv'
    BY <1>1, HistoryKept DEF BInv
  <1>4. QED
    BY <1>1, <1>2, <1>3 DEF BInv

\* A load gets on: m takes the place of l.
LEMMA AdvanceKeeps ==
  ASSUME BInv, UNCHANGED <<vars, dlg, told, created>>, NEW l \in board.loads, NEW m \in LoadRecord,
         Advance(l, m), m.gen = l.gen, m.page = l.page, m.some = FALSE => m.ops = {},
         m.ready => m.todo = {}, \A q \in m.pend : KnownOK(q), m.ready => Covers(m)
  PROVE  BInv'
  <1>1. /\ board \in [gen : Nat, loads : SUBSET LoadRecord, shown : ShownRecord]
        /\ LoadOK(l) /\ UNCHANGED <<req, created>>
    BY DEF BInv, PageInv, vars
  <1>2. PICK L : L = (board.loads \ {l}) \cup {m}
    OBVIOUS
  <1>3. L \subseteq LoadRecord /\ board' = [board EXCEPT !.loads = L]
    BY <1>1, <1>2 DEF Advance
  <1>4. /\ board' \in [gen : Nat, loads : SUBSET LoadRecord, shown : ShownRecord]
        /\ board'.gen = board.gen /\ board'.shown = board.shown /\ board'.loads = L
    BY <1>1, <1>3
  <1>5. ASSUME NEW k \in L PROVE LoadOK(k)'
    <2>1. CASE k = m
      <3>1. \A q \in m.pend : KnownOK(q)'
        BY <1>1 DEF KnownOK
      <3>2. Covers(m) => Covers(m)'
        BY <1>1 DEF Covers, Offered
      <3>3. m.gen <= board'.gen /\ m.page = board'.shown.page
        BY <1>1, <1>4 DEF LoadOK
      <3>4. (m.some = FALSE) = ~m.some
        BY DEF LoadRecord
      <3>5. QED
        BY <2>1, <3>1, <3>2, <3>3, <3>4 DEF LoadOK
    <2>2. CASE k # m
      <3>1. LoadOK(k)
        BY <1>2, <2>2 DEF BInv, PageInv
      <3>2. \A q \in k.pend : KnownOK(q) => KnownOK(q)'
        BY <1>1 DEF KnownOK
      <3>3. Covers(k) => Covers(k)'
        BY <1>1 DEF Covers, Offered
      <3>4. QED
        BY <1>4, <3>1, <3>2, <3>3 DEF LoadOK
    <2>3. QED
      BY <2>1, <2>2
  <1>6. board.shown.up => Covers(board.shown)'
    BY <1>1, <1>4 DEF BInv, PageInv, Covers, Offered
  <1>7. board.shown.page = "board" => \A q \in board.shown.pend : KnownOK(q)'
    BY <1>1 DEF BInv, PageInv, KnownOK
  <1>8. board.shown.page = "detail" =>
          /\ board.loads = {l} /\ l.gen = board.gen
          /\ board.shown.up => Offered(board.shown) = {}
    BY DEF BInv, PageInv
  <1>9. LoadingEnds'
    <2>1. board.shown.up \/ board.gen = 0 \/ \E k \in board.loads : k.gen = board.gen
      BY DEF BInv, PageInv, LoadingEnds
    <2>2. QED
      BY <1>2, <1>4, <2>1 DEF LoadingEnds
  <1>10. board.shown.page = "detail" => L = {m}
    BY <1>2, <1>8
  <1>11. PageInv'
    BY <1>4, <1>5, <1>6, <1>7, <1>8, <1>9, <1>10 DEF PageInv, Offered
  <1>12. PageStays
    BY <1>4, <1>8 DEF PageStays
  <1>13. QED
    BY <1>11, <1>12, PageStep

\* A section is read, or could not be.
LEMMA SectionKeeps ==
  ASSUME BInv, NEW l \in board.loads, NEW section \in {"active", "attention"},
         NEW query \in BOOLEAN, ReadSection(l, section, query)
  PROVE  BInv'
  <1>1. l \in LoadRecord /\ LoadOK(l) /\ run \in RunRecord
    BY DEF BInv, PageInv, IInv, TypeOK
  <1>2. PICK o : o = DecideBoardAction(run, run.hold, {})
    OBVIOUS
  <1>3. o \subseteq RunOps
    BY <1>1, <1>2, RowOps DEF RunRecord
  <1>4. PICK m, k, ops, todo :
          /\ ops = l.ops \cup o /\ todo = l.todo \ {section}
          /\ m = [l EXCEPT !.todo = todo, !.some = TRUE, !.ops = ops]
          /\ k = [l EXCEPT !.todo = todo]
    OBVIOUS
  <1>5. Advance(l, m) \/ Advance(l, k)
    BY <1>2, <1>4 DEF ReadSection
  <1>6. ~l.ready
    BY <1>1 DEF ReadSection, LoadOK
  <1>7. UNCHANGED <<vars, dlg, told, created>>
    BY DEF ReadSection, others, vars
  <1>8. ops \subseteq RunOps /\ todo \subseteq {"active", "attention"}
    BY <1>1, <1>3, <1>4 DEF LoadRecord
  <1>9. /\ m \in LoadRecord /\ m.gen = l.gen /\ m.page = l.page /\ m.some = TRUE
        /\ m.ready = l.ready /\ m.pend = l.pend
    BY <1>1, <1>4, <1>8 DEF LoadRecord
  <1>10. /\ k \in LoadRecord /\ k.gen = l.gen /\ k.page = l.page /\ k.some = l.some
         /\ k.ready = l.ready /\ k.pend = l.pend /\ k.ops = l.ops
    BY <1>1, <1>4, <1>8 DEF LoadRecord
  <1>11. CASE Advance(l, m)
    BY <1>1, <1>6, <1>7, <1>9, <1>11, AdvanceKeeps DEF LoadOK
  <1>12. CASE Advance(l, k)
    <2>1. k.some = FALSE => k.ops = {}
      BY <1>1, <1>10 DEF LoadOK
    <2>2. QED
      BY <1>1, <1>6, <1>7, <1>10, <1>12, <2>1, AdvanceKeeps DEF LoadOK
  <1>13. QED
    BY <1>5, <1>11, <1>12

\* What a list of pending requests says.
LEMMA PendingKnown ==
  ASSUME IInv, NEW starts_ \in BOOLEAN
  PROVE  /\ Pending(starts_) \subseteq Mark
         /\ \A q \in Pending(starts_) : KnownOK(q)
         /\ \A r \in Request :
               req[r].state \in OpenState /\ (req[r].type = "START") = starts_
               => \E q \in Pending(starts_) : q.type = req[r].type
  <1>1. ASSUME NEW q \in Pending(starts_) PROVE q \in Mark /\ KnownOK(q)
    <2>1. PICK r \in Request :
            /\ req[r].state \in OpenState
            /\ q = [id |-> r, rev |-> req[r].rev, type |-> req[r].type, state |-> req[r].state]
      BY <1>1 DEF Pending
    <2>2. req[r].type \in RequestType /\ req[r].rev \in Nat /\ req[r].state # "ABSENT"
      BY <2>1 DEF IInv, RequestOK, OpenState, TypeOK, RequestRecord
    <2>3. QED
      BY <2>1, <2>2 DEF Mark, KnownOK
  <1>2. ASSUME NEW r \in Request, req[r].state \in OpenState, (req[r].type = "START") = starts_
        PROVE  \E q \in Pending(starts_) : q.type = req[r].type
    <2>1. PICK q : q = [id |-> r, rev |-> req[r].rev, type |-> req[r].type, state |-> req[r].state]
      OBVIOUS
    <2>2. q \in Pending(starts_) /\ q.type = req[r].type
      BY <1>2, <2>1 DEF Pending
    <2>3. QED
      BY <2>2
  <1>3. QED
    BY <1>1, <1>2

\* The pending requests are read, or some of them could not be.
LEMMA LoadPendingKeeps ==
  ASSUME BInv, NEW l \in board.loads, LoadPending(l)
  PROVE  BInv'
  <1> DEFINE lists == {k \in {"run", "start"} : IF k = "run" THEN l.some ELSE l.page = "board"}
  <1>1. /\ l \in LoadRecord /\ LoadOK(l) /\ IInv /\ created \subseteq Request /\ l.todo = {}
    BY DEF BInv, PageInv, HistoryInv, LoadPending
  <1>2. PICK lost : /\ lost = {} \/ \E k \in lists : lost = {k}
                    /\ Advance(l, [l EXCEPT !.ready = TRUE, !.lost = lost,
                            !.pend = UNION {Pending(k = "start") : k \in lists \ lost}])
    BY DEF LoadPending
  <1>3. PICK pend : pend = UNION {Pending(k = "start") : k \in lists \ lost}
    OBVIOUS
  <1>4. PICK m : m = [l EXCEPT !.ready = TRUE, !.lost = lost, !.pend = pend]
    OBVIOUS
  <1>5. lost \subseteq {"run", "start"}
    BY <1>2
  <1>6. ASSUME NEW q \in pend PROVE q \in Mark /\ KnownOK(q)
    <2>1. PICK k \in lists \ lost : q \in Pending(k = "start")
      BY <1>3, <1>6
    <2>2. (k = "start") \in BOOLEAN
      OBVIOUS
    <2>3. QED
      BY <1>1, <2>1, <2>2, PendingKnown
  <1>7. pend \subseteq Mark
    BY <1>6
  <1>8. /\ m \in LoadRecord /\ m.gen = l.gen /\ m.page = l.page /\ m.some = l.some
        /\ m.ready = TRUE /\ m.pend = pend /\ m.lost = lost /\ m.ops = l.ops /\ m.todo = {}
    BY <1>1, <1>4, <1>5, <1>7 DEF LoadRecord
  <1>9. Covers(m)
    <2>1. SUFFICES ASSUME NEW r \in created, req[r].type # "START", req[r].state \in OpenState,
                          "run" \notin lost
                   PROVE  Offered(m) = {}
      BY <1>8 DEF Covers
    <2>2. CASE l.some
      <3>1. "run" \in lists \ lost
        BY <2>1, <2>2
      <3>2. Pending("run" = "start") \subseteq pend
        BY <1>3, <3>1
      <3>3. PICK q \in Pending("run" = "start") : q.type = req[r].type
        <4>1. (req[r].type = "START") = ("run" = "start") /\ ("run" = "start") \in BOOLEAN
          BY <2>1
        <4>2. QED
          BY <1>1, <2>1, <4>1, PendingKnown
      <3>4. QED
        BY <1>8, <2>1, <3>2, <3>3 DEF Offered
    <2>3. CASE ~l.some
      BY <1>1, <1>8, <2>3 DEF LoadOK, Offered
    <2>4. QED
      BY <2>2, <2>3
  <1>10. m.some = FALSE => m.ops = {}
    BY <1>1, <1>8 DEF LoadOK
  <1>11. Advance(l, m)
    BY <1>2, <1>3, <1>4
  <1>12. UNCHANGED <<vars, dlg, told, created>>
    BY DEF LoadPending, others, vars
  <1>13. \A q \in m.pend : KnownOK(q)
    BY <1>6, <1>8
  <1>14. QED
    BY <1>8, <1>9, <1>10, <1>11, <1>12, <1>13, AdvanceKeeps

\* A load is rendered, or was overtaken.
LEMMA RenderKeeps ==
  ASSUME BInv, NEW l \in board.loads, Render(l)
  PROVE  BInv'
  <1>1. /\ board \in [gen : Nat, loads : SUBSET LoadRecord, shown : ShownRecord]
        /\ l \in LoadRecord /\ LoadOK(l) /\ l.ready /\ UNCHANGED <<req, created>>
    BY DEF BInv, PageInv, Render, vars
  <1>2. PICK L, s, t :
          /\ L = board.loads \ {l}
          /\ t = [up |-> TRUE, page |-> l.page, ops |-> l.ops, pend |-> l.pend, lost |-> l.lost]
          /\ s = IF l.gen = board.gen THEN t ELSE board.shown
    OBVIOUS
  <1>3. /\ t \in ShownRecord /\ t.up = TRUE /\ t.page = l.page /\ t.ops = l.ops
        /\ t.pend = l.pend /\ t.lost = l.lost
    BY <1>1, <1>2 DEF ShownRecord, LoadRecord
  <1>4. /\ s \in ShownRecord /\ L \subseteq LoadRecord
        /\ board' = [board EXCEPT !.loads = L, !.shown = s]
    <2>1. board.shown \in ShownRecord /\ board.loads \subseteq LoadRecord
      BY <1>1
    <2>2. board' = [board EXCEPT !.loads = L, !.shown = s]
      BY <1>1, <1>2 DEF Render
    <2>3. QED
      BY <1>2, <1>3, <2>1, <2>2
  <1>5. /\ board' \in [gen : Nat, loads : SUBSET LoadRecord, shown : ShownRecord]
        /\ board'.gen = board.gen /\ board'.shown = s /\ board'.loads = L
    BY <1>1, <1>4
  <1>6. s.page = board.shown.page
    BY <1>1, <1>2, <1>3 DEF LoadOK
  <1>7. ASSUME NEW k \in L PROVE LoadOK(k)'
    <2>1. LoadOK(k)
      BY <1>2 DEF BInv, PageInv
    <2>2. \A q \in k.pend : KnownOK(q) => KnownOK(q)'
      BY <1>1 DEF KnownOK
    <2>3. Covers(k) => Covers(k)'
      BY <1>1 DEF Covers, Offered
    <2>4. QED
      BY <1>5, <1>6, <2>1, <2>2, <2>3 DEF LoadOK
  <1>8. s.up => Covers(s)'
    <2>1. CASE l.gen = board.gen
      <3>1. Covers(l) /\ s = t
        BY <1>1, <1>2, <2>1 DEF LoadOK
      <3>2. QED
        BY <1>1, <1>3, <3>1 DEF Covers, Offered
    <2>2. CASE l.gen # board.gen
      <3>1. s = board.shown
        BY <1>2, <2>2
      <3>2. QED
        BY <1>1, <3>1 DEF BInv, PageInv, Covers, Offered
    <2>3. QED
      BY <2>1, <2>2
  <1>9. s.page = "board" => \A q \in s.pend : KnownOK(q)'
    <2>1. s = board.shown \/ s.pend = l.pend
      BY <1>2, <1>3
    <2>2. s.page = "board" => \A q \in s.pend : KnownOK(q)
      BY <1>1, <2>1 DEF BInv, PageInv, LoadOK
    <2>3. QED
      BY <1>1, <2>2 DEF KnownOK
  <1>10. board.shown.page = "detail" => board.loads = {l} /\ l.gen = board.gen
    BY DEF BInv, PageInv
  <1>11. board.shown.page = "detail" => s.up /\ L = {}
    BY <1>2, <1>3, <1>10
  <1>12. s.up \/ board.gen = 0 \/ \E k \in L : k.gen = board.gen
    <2>1. board.shown.up \/ board.gen = 0 \/ \E k \in board.loads : k.gen = board.gen
      BY DEF BInv, PageInv, LoadingEnds
    <2>2. QED
      BY <1>2, <1>3, <2>1
  <1>13. PageInv'
    BY <1>5, <1>6, <1>7, <1>8, <1>9, <1>11, <1>12 DEF PageInv, LoadingEnds
  <1>14. UNCHANGED <<vars, dlg, told, created>>
    BY DEF Render
  <1>15. PageStays
    BY <1>5, <1>6, <1>10, <1>11 DEF PageStays
  <1>16. QED
    BY <1>13, <1>14, <1>15, PageStep

\* A load reads the requests one list after the other, and fails or is rendered.
LEMMA LoadStepKeeps ==
  ASSUME BInv, NEW l \in board.loads, LoadStep(l)
  PROVE  BInv'
  <1>1. ActiveQuery \in BOOLEAN /\ AttentionQuery \in BOOLEAN
    BY DEF ActiveQuery, AttentionQuery, BInv, IInv, TypeOK, RunRecord
  <1>2. CASE LoadActiveSection(l)
    BY <1>1, <1>2, SectionKeeps DEF LoadActiveSection
  <1>3. CASE LoadAttentionSection(l)
    BY <1>1, <1>3, SectionKeeps DEF LoadAttentionSection
  <1>4. QED
    BY <1>2, <1>3, LoadPendingKeeps, RenderKeeps DEF LoadStep
-----------------------------------------------------------------------------
(* The dialogs.                                                             *)

\* A dialog is opened.
LEMMA OpenKeeps ==
  ASSUME BInv, NEW kind, NEW pc, NEW type, NEW id, NEW rev, Open(kind, pc, type, id, rev),
         UNCHANGED <<vars, board, told, created>>,
         NEW e \in DialogRecord,
         e = [kind |-> kind, pc |-> pc, type |-> type, id |-> id, rev |-> rev, at |-> "here"],
         \A d \in Dialog : dlg'[d] = e => DialogOK(d)'
  PROVE  BInv'
  <1>1. /\ IInv' /\ TypeOK /\ TypeOK' /\ \A r \in Request : Onward(r)
        /\ withdrawn \subseteq withdrawn'
    BY NothingWritten DEF BInv
  <1>2. PICK d \in Dialog : dlg' = [dlg EXCEPT ![d] = e]
    BY DEF Open
  <1>3. PageInv'
    BY <1>1, PageKept DEF BInv
  <1>4. DialogInv'
    BY <1>1, <1>2, DialogMoves DEF BInv, PageStays
  <1>5. HistoryInv'
    BY <1>1, HistoryKept DEF BInv
  <1>6. QED
    BY <1>1, <1>3, <1>4, <1>5 DEF BInv

\* A request dialog is opened from an offer of the page.
LEMMA OpenRequestKeeps ==
  ASSUME BInv, OpenRequestDialog
  PROVE  BInv'
  <1>1. PICK type \in Offered(board.shown) : Open("run", "input", type, 0, 0)
    BY DEF OpenRequestDialog
  <1>2. /\ board.shown \in ShownRecord /\ board.shown.up
        /\ board.shown.page = "detail" => board.loads = {}
    BY <1>1 DEF OpenRequestDialog, BInv, PageInv
  <1>3. type \in RunOps
    BY <1>1, <1>2 DEF Offered, ShownRecord
  <1>4. PICK e : e = [kind |-> "run", pc |-> "input", type |-> type, id |-> 0, rev |-> 0,
                      at |-> "here"]
    OBVIOUS
  <1>5. e \in DialogRecord /\ e.kind = "run" /\ e.pc = "input" /\ e.type = type /\ e.at = "here"
    BY <1>3, <1>4 DEF DialogRecord, RunOps
  <1>6. UNCHANGED <<vars, board, told, created>>
    BY DEF OpenRequestDialog
  <1>7. \A d \in Dialog : dlg'[d] = e => DialogOK(d)'
    BY <1>2, <1>3, <1>5, <1>6 DEF DialogOK, Active
  <1>8. Open("run", "input", type, 0, 0) /\ e \in DialogRecord
    BY <1>1, <1>5
  <1>9. QED
    BY <1>4, <1>6, <1>7, <1>8, OpenKeeps

\* A START dialog is opened from the toolbar.
LEMMA OpenStartKeeps ==
  ASSUME BInv, OpenStartDialog
  PROVE  BInv'
  <1>1. PICK e : e = [kind |-> "start", pc |-> "input", type |-> "START", id |-> 0, rev |-> 0,
                      at |-> "here"]
    OBVIOUS
  <1>2. /\ e \in DialogRecord /\ e.kind = "start" /\ e.pc = "input" /\ e.type = "START"
        /\ e.at = "here"
    BY <1>1 DEF DialogRecord, RequestType
  <1>3. UNCHANGED <<vars, board, told, created>> /\ board.shown.page = "board"
        /\ Open("start", "input", "START", 0, 0)
    BY DEF OpenStartDialog
  <1>4. \A d \in Dialog : dlg'[d] = e => DialogOK(d)'
    BY <1>2, <1>3 DEF DialogOK, Active
  <1>5. QED
    BY <1>1, <1>2, <1>3, <1>4, OpenKeeps

\* A cancel dialog is opened for a request that the page lists.
LEMMA OpenCancelKeeps ==
  ASSUME BInv, OpenCancelDialog
  PROVE  BInv'
  <1>1. PICK q \in board.shown.pend :
          q.state = "REQUESTED" /\ Open("cancel", "confirm", q.type, q.id, q.rev)
    BY DEF OpenCancelDialog
  <1>2. UNCHANGED <<vars, board, told, created>> /\ board.shown.page = "board"
    BY DEF OpenCancelDialog
  <1>3. q \in Mark /\ KnownOK(q)
    <2>1. board.shown \in ShownRecord
      BY DEF BInv, PageInv
    <2>2. QED
      BY <1>1, <1>2, <2>1 DEF BInv, PageInv, ShownRecord
  <1>4. PICK e : e = [kind |-> "cancel", pc |-> "confirm", type |-> q.type, id |-> q.id,
                      rev |-> q.rev, at |-> "here"]
    OBVIOUS
  <1>5. /\ e \in DialogRecord /\ e.kind = "cancel" /\ e.pc = "confirm" /\ e.id = q.id
        /\ e.rev = q.rev /\ q.id \in Request /\ e.at = "here"
    BY <1>3, <1>4 DEF DialogRecord, Mark
  <1>6. UNCHANGED req
    BY <1>2 DEF vars
  <1>7. \A d \in Dialog : dlg'[d] = e => DialogOK(d)'
    BY <1>1, <1>2, <1>3, <1>5, <1>6 DEF DialogOK, Active, KnownOK
  <1>8. Open("cancel", "confirm", q.type, q.id, q.rev) /\ e \in DialogRecord
        /\ UNCHANGED <<vars, board, told, created>>
    BY <1>1, <1>2, <1>5
  <1>9. QED
    BY <1>4, <1>7, <1>8, OpenKeeps

\* A dialog that ends.
LEMMA FinishKeeps ==
  ASSUME TypeOK, TypeOK', DialogInv, NEW d \in Dialog, Finish(d),
         \A r \in Request : Onward(r), PageStays
  PROVE  DialogInv'
  <1>1. dlg[d] \in DialogRecord
    BY DEF DialogInv
  <1>2. PICK e : e = [NoDialog EXCEPT !.kind = dlg[d].kind, !.pc = "done"]
    OBVIOUS
  <1>3. e \in DialogRecord /\ e.pc = "done"
    BY <1>1, <1>2 DEF NoDialog, DialogRecord
  <1>4. dlg' = [dlg EXCEPT ![d] = e]
    BY <1>2 DEF Finish
  <1>5. dlg'[d] = e => DialogOK(d)'
    BY <1>3 DEF DialogOK, Active
  <1>6. QED
    BY <1>3, <1>4, <1>5, DialogMoves

\* A dialog that goes on, or back.
LEMMA MoveKeeps ==
  ASSUME TypeOK, TypeOK', DialogInv, NEW d \in Dialog, NEW pc, Move(d, pc), Active(d),
         \/ dlg[d].kind # "cancel" /\ pc \in {"input", "confirm"}
         \/ dlg[d].kind = "cancel" /\ pc = "snapshot",
         \A r \in Request : Onward(r), PageStays
  PROVE  DialogInv'
  <1>1. dlg[d] \in DialogRecord /\ DialogOK(d)
    BY DEF DialogInv
  <1>2. PICK e : e = [dlg[d] EXCEPT !.pc = pc]
    OBVIOUS
  <1>3. /\ e \in DialogRecord /\ e.pc = pc /\ e.kind = dlg[d].kind /\ e.type = dlg[d].type
        /\ e.id = dlg[d].id /\ e.at = dlg[d].at
    BY <1>1, <1>2 DEF DialogRecord
  <1>4. dlg' = [dlg EXCEPT ![d] = e]
    BY <1>2 DEF Move
  <1>5. dlg'[d] = e => DialogOK(d)'
    BY <1>1, <1>3 DEF DialogOK, Active, PageStays
  <1>6. QED
    BY <1>3, <1>4, <1>5, DialogMoves

\* Before it writes, a dialog looks for a request about the Run that is pending.
LEMMA GuardKeeps ==
  ASSUME BInv, NEW d \in Dialog, GuardPending(d)
  PROVE  BInv'
  <1>1. UNCHANGED <<vars, board, told, created>>
    BY DEF GuardPending, others, vars
  <1>2. /\ IInv' /\ TypeOK /\ TypeOK' /\ \A r \in Request : Onward(r)
        /\ withdrawn \subseteq withdrawn'
    BY <1>1, NothingWritten DEF BInv
  <1>3. Finish(d) \/ Move(d, "confirm")
    BY DEF GuardPending
  <1>4. Active(d) /\ dlg[d].kind # "cancel"
    BY DEF GuardPending, Active
  <1>5. DialogInv'
    BY <1>1, <1>2, <1>3, <1>4, FinishKeeps, MoveKeeps DEF BInv, PageStays
  <1>6. PageInv' /\ HistoryInv'
    BY <1>1, <1>2, PageKept, HistoryKept DEF BInv
  <1>7. QED
    BY <1>2, <1>5, <1>6 DEF BInv

\* The POST of a request, with or without its answer.
LEMMA CreateKeeps ==
  ASSUME BInv, NEW d \in Dialog, CreateRequest(d)
  PROVE  BInv'
  <1>1. /\ UNCHANGED <<run, child, pol, faults, outside, starts, effect, trouble, withdrawn>>
        /\ UNCHANGED <<board, told, created>>
    BY DEF CreateRequest, others
  <1>2. /\ Active(d) /\ dlg[d].kind # "cancel" /\ dlg[d].type \in RequestType
        /\ dlg[d] \in DialogRecord /\ DialogOK(d)
    BY DEF CreateRequest, Active, BInv, DialogInv, DialogOK, RunOps, RequestType
  <1>3. IInv /\ DialogInv /\ PageInv /\ HistoryInv
    BY DEF BInv
  <1>4. Post(dlg[d].type, TRUE) \/ UNCHANGED req
    BY DEF CreateRequest, PostBody
  <1>5. IInv' /\ \A r \in Request : Onward(r)
    <2>1. CASE Post(dlg[d].type, TRUE)
      BY <1>1, <1>2, <1>3, <2>1, PostKeeps, PostOnward
    <2>2. CASE UNCHANGED req
      BY <1>1, <1>3, <2>2, NothingWritten DEF vars
    <2>3. QED
      BY <1>4, <2>1, <2>2
  <1>6. TypeOK /\ TypeOK' /\ withdrawn \subseteq withdrawn'
    BY <1>1, <1>3, <1>5 DEF IInv
  <1>7. PageInv' /\ HistoryInv'
    BY <1>1, <1>3, <1>5, <1>6, PageKept, HistoryKept
  <1>8. CASE Retry(d)
    <2>1. Move(d, "input") \/ Move(d, "confirm")
      BY <1>8 DEF Retry
    <2>2. DialogInv'
      BY <1>1, <1>2, <1>3, <1>5, <1>6, <2>1, MoveKeeps DEF PageStays
    <2>3. QED
      BY <1>5, <1>7, <2>2 DEF BInv
  <1>9. ASSUME Post(dlg[d].type, TRUE), NEW r \in Request, req'[r].state # req[r].state,
               dlg' = [dlg EXCEPT ![d] = [@ EXCEPT !.pc = "readback", !.id = r]]
        PROVE  BInv'
    <2>1. req'[r].state = "REQUESTED" /\ req'[r].type = dlg[d].type
      BY <1>3, <1>9, PostOnward
    <2>2. PICK e : e = [dlg[d] EXCEPT !.pc = "readback", !.id = r]
      OBVIOUS
    <2>3. /\ e \in DialogRecord /\ e.pc = "readback" /\ e.id = r /\ e.kind = dlg[d].kind
          /\ e.type = dlg[d].type /\ e.at = dlg[d].at
      BY <1>2, <2>2 DEF DialogRecord
    <2>4. dlg' = [dlg EXCEPT ![d] = e]
      BY <1>9, <2>2 DEF BInv, DialogInv
    <2>5. dlg'[d] = e => DialogOK(d)'
      BY <1>1, <1>2, <2>1, <2>3 DEF DialogOK, Active
    <2>6. DialogInv'
      BY <1>1, <1>3, <1>5, <1>6, <2>3, <2>4, <2>5, DialogMoves DEF PageStays
    <2>7. QED
      BY <1>5, <1>7, <2>6 DEF BInv
  <1>10. QED
    BY <1>8, <1>9 DEF CreateRequest, PostBody

\* On the detail page the mark of the new request takes the buttons away.
LEMMA MarkKeeps ==
  ASSUME BInv, UNCHANGED <<vars, told>>, NEW r \in Request, NEW mark \in Mark,
         mark.type # "START", req[r].state # "ABSENT", created' = created \cup {r},
         board.shown.page = "detail", board.shown.up, board.loads = {},
         board' = [board EXCEPT !.shown.pend = {mark}, !.shown.lost = {}]
  PROVE  PageInv' /\ PageStays
  <1>1. board \in [gen : Nat, loads : SUBSET LoadRecord, shown : ShownRecord]
    BY DEF BInv, PageInv
  <1>2. PICK s : s = [board.shown EXCEPT !.pend = {mark}, !.lost = {}]
    OBVIOUS
  <1>3. /\ s \in ShownRecord /\ s.page = "detail" /\ s.up = board.shown.up /\ s.pend = {mark}
    <2>1. board.shown \in ShownRecord
      BY <1>1
    <2>2. QED
      BY <1>2, <2>1 DEF ShownRecord
  <1>4. board' = [board EXCEPT !.shown = s]
    BY <1>1, <1>2 DEF ShownRecord
  <1>5. /\ board' \in [gen : Nat, loads : SUBSET LoadRecord, shown : ShownRecord]
        /\ board'.shown = s /\ board'.loads = board.loads /\ board'.gen = board.gen
    BY <1>1, <1>3, <1>4
  <1>6. Covers(s)'
    BY <1>3 DEF Covers, Offered
  <1>7. QED
    BY <1>3, <1>5, <1>6 DEF PageInv, PageStays, LoadingEnds

\* A dialog of an earlier detail page puts its mark up, before or after the load of
\* the later one.
LEMMA OldMarkKeeps ==
  ASSUME BInv, UNCHANGED <<vars, told, created>>, NEW mark \in Mark, mark.type # "START",
         board.shown.page = "detail",
         board' = [board EXCEPT !.shown = [Blank EXCEPT !.up = TRUE, !.page = "detail",
                                                        !.pend = {mark}]]
  PROVE  PageInv' /\ PageStays
  <1>1. /\ board \in [gen : Nat, loads : SUBSET LoadRecord, shown : ShownRecord]
        /\ \A l \in board.loads : LoadOK(l)
        /\ board.loads # {} => \E l \in board.loads : board.loads = {l} /\ l.gen = board.gen
    BY DEF BInv, PageInv
  <1>2. PICK s : s = [Blank EXCEPT !.up = TRUE, !.page = "detail", !.pend = {mark}]
    OBVIOUS
  <1>3. s \in ShownRecord /\ s.page = "detail" /\ s.up = TRUE /\ s.pend = {mark}
    BY <1>2 DEF Blank, ShownRecord, Page
  <1>4. /\ board' \in [gen : Nat, loads : SUBSET LoadRecord, shown : ShownRecord]
        /\ board'.shown = s /\ board'.loads = board.loads /\ board'.gen = board.gen
    BY <1>1, <1>2, <1>3
  <1>5. Offered(s) = {}
    BY <1>3 DEF Offered
  <1>6. Covers(s)'
    BY <1>5 DEF Covers, Offered
  <1>7. ASSUME NEW l \in board.loads PROVE LoadOK(l)'
    <2>1. LoadOK(l) /\ UNCHANGED <<req, created>>
      BY <1>1 DEF vars
    <2>2. \A q \in l.pend : KnownOK(q) => KnownOK(q)'
      BY <2>1 DEF KnownOK
    <2>3. Covers(l) => Covers(l)'
      BY <2>1 DEF Covers, Offered
    <2>4. QED
      BY <1>3, <1>4, <2>1, <2>2, <2>3 DEF LoadOK
  <1>8. QED
    BY <1>1, <1>3, <1>4, <1>5, <1>6, <1>7 DEF PageInv, PageStays, LoadingEnds, Offered

\* The read back of the new record.
LEMMA ReadbackKeeps ==
  ASSUME BInv, NEW d \in Dialog, ReadbackRequest(d)
  PROVE  BInv'
  <1>1. UNCHANGED <<vars, told>>
    BY DEF ReadbackRequest, others, vars
  <1>2. /\ IInv' /\ TypeOK /\ TypeOK' /\ \A r \in Request : Onward(r)
        /\ withdrawn \subseteq withdrawn'
    BY <1>1, NothingWritten DEF BInv
  <1>3. IInv /\ DialogInv /\ PageInv /\ HistoryInv /\ board.shown \in ShownRecord
    BY DEF BInv, PageInv
  <1>4. Active(d) /\ DialogOK(d) /\ dlg[d].kind # "cancel" /\ dlg[d].pc = "readback"
    BY <1>3 DEF ReadbackRequest, Active, DialogInv, DialogOK
  <1>5. PICK r : r = dlg[d].id
    OBVIOUS
  <1>6. r \in Request /\ req[r].state # "ABSENT" /\ req[r].type = dlg[d].type
    BY <1>4, <1>5 DEF DialogOK
  <1>7. CASE Retry(d) /\ UNCHANGED <<board, created>>
    <2>1. Move(d, "input") \/ Move(d, "confirm")
      BY <1>7 DEF Retry
    <2>2. DialogInv'
      BY <1>2, <1>3, <1>4, <1>7, <2>1, MoveKeeps DEF PageStays
    <2>3. PageInv' /\ HistoryInv'
      BY <1>1, <1>2, <1>3, <1>7, PageKept, HistoryKept
    <2>4. QED
      BY <1>2, <2>2, <2>3 DEF BInv
  <1>8. CASE Finish(d) /\ UNCHANGED <<board, created>>
    <2>1. DialogInv'
      BY <1>2, <1>3, <1>8, FinishKeeps DEF PageStays
    <2>2. PageInv' /\ HistoryInv'
      BY <1>1, <1>2, <1>3, <1>8, PageKept, HistoryKept
    <2>3. QED
      BY <1>2, <2>1, <2>2 DEF BInv
  <1>9. ASSUME created' = created \cup {r} PROVE HistoryInv'
    BY <1>1, <1>2, <1>3, <1>6, <1>9 DEF HistoryInv, Onward
  <1>10. CASE /\ Finish(d) /\ board.shown.page = "board" /\ created' = created \cup {r}
              /\ board' = Reloaded("board")
    <2>1. PageInv' /\ board'.shown.page = "board"
      BY <1>2, <1>3, <1>10, ReloadedKeeps
    <2>2. DialogInv'
      BY <1>2, <1>3, <1>10, <2>1, FinishKeeps DEF PageStays
    <2>3. QED
      BY <1>2, <1>9, <1>10, <2>1, <2>2 DEF BInv
  <1>11. PICK mark :
           mark = [id |-> r, rev |-> req[r].rev, type |-> req[r].type,
                   state |-> IF req[r].state = "ACCEPTED" THEN "ACCEPTED" ELSE "REQUESTED"]
    OBVIOUS
  <1>12. dlg[d].kind = "run" => mark \in Mark /\ mark.type # "START"
    <2>1. req[r].rev \in Nat /\ (dlg[d].kind = "run" => req[r].type \in RunOps)
      BY <1>2, <1>4, <1>6 DEF TypeOK, RequestRecord, DialogOK
    <2>2. QED
      BY <1>6, <1>11, <2>1 DEF Mark, RunOps, OpenState
  <1>13. CASE /\ Finish(d) /\ dlg[d].at = "here" /\ board.shown.page # "board"
              /\ created' = created \cup {r}
              /\ board' = [board EXCEPT !.shown.pend = {mark}, !.shown.lost = {}]
    <2>1. board.shown.page = "detail"
      BY <1>3, <1>13 DEF ShownRecord, Page
    <2>2. dlg[d].kind = "run" /\ board.shown.up /\ board.loads = {}
      BY <1>4, <1>13, <2>1 DEF DialogOK
    <2>3. PageInv' /\ PageStays
      BY <1>1, <1>6, <1>12, <1>13, <2>1, <2>2, MarkKeeps
    <2>4. DialogInv'
      BY <1>2, <1>3, <1>13, <2>3, FinishKeeps
    <2>5. QED
      BY <1>2, <1>9, <1>13, <2>3, <2>4 DEF BInv
  <1>14. CASE /\ Finish(d) /\ dlg[d].at = "root" /\ UNCHANGED created
              /\ board' = [board EXCEPT !.shown = [Blank EXCEPT !.up = TRUE, !.page = "detail",
                                                               !.pend = {mark}]]
    <2>1. dlg[d].kind = "run" /\ board.shown.page = "detail"
      BY <1>4, <1>14 DEF DialogOK
    <2>2. PageInv' /\ PageStays
      BY <1>1, <1>12, <1>14, <2>1, OldMarkKeeps
    <2>3. DialogInv' /\ HistoryInv'
      BY <1>1, <1>2, <1>3, <1>14, <2>2, FinishKeeps, HistoryKept
    <2>4. QED
      BY <1>2, <2>2, <2>3 DEF BInv
  <1>15. QED
    BY <1>5, <1>7, <1>8, <1>10, <1>11, <1>13, <1>14 DEF ReadbackRequest, OnCreated

\* What a cancel dialog says.
LEMMA TellKeeps ==
  ASSUME HistoryInv, \A r \in Request : Onward(r), withdrawn \subseteq withdrawn',
         UNCHANGED created, NEW r \in Request,
         NEW what \in {"accepted", "retry", "started", "unconfirmed"}, Tell(r, what),
         what = "accepted" => r \in withdrawn'
  PROVE  HistoryInv'
  <1>1. /\ told' \in [Request -> SUBSET {"accepted", "retry", "started", "unconfirmed"}]
        /\ told'[r] = told[r] \cup {what} /\ \A q \in Request \ {r} : told'[q] = told[q]
    BY DEF HistoryInv, Tell
  <1>2. QED
    BY <1>1 DEF HistoryInv, Onward

\* The PUT of a cancellation, with or without its answer.
LEMMA CancelKeeps ==
  ASSUME BInv, NEW d \in Dialog, PutCancelRequested(d)
  PROVE  BInv'
  <1>1. /\ UNCHANGED <<run, child, pol, faults, outside, starts, effect, trouble>>
        /\ UNCHANGED created
    BY DEF PutCancelRequested, others
  <1>2. IInv /\ TypeOK /\ DialogInv /\ PageInv /\ HistoryInv /\ board.shown \in ShownRecord
    BY DEF BInv, IInv, PageInv
  <1>3. Active(d) /\ DialogOK(d) /\ dlg[d].kind = "cancel" /\ dlg[d].pc = "confirm"
    BY <1>2 DEF PutCancelRequested, Active, DialogInv
  <1>4. PICK r, rec : r = dlg[d].id /\ rec = [req[r] EXCEPT !.cancel = TRUE]
    OBVIOUS
  <1>5. r \in Request /\ (dlg[d].rev = req[r].rev => req[r].state = "REQUESTED")
    BY <1>3, <1>4 DEF DialogOK
  <1> DEFINE stored == /\ dlg[d].rev = req[r].rev /\ Put(r, rec)
                       /\ withdrawn' = IF req[r].state = "REQUESTED" THEN withdrawn \cup {r}
                                       ELSE withdrawn
             unsure == Move(d, "snapshot") /\ UNCHANGED <<board, told>>
  <1>6. ASSUME stored
        PROVE  /\ IInv' /\ \A q \in Request : Onward(q)
               /\ withdrawn \subseteq withdrawn' /\ r \in withdrawn'
    <2>1. req[r].state = "REQUESTED" /\ withdrawn' = withdrawn \cup {r}
      BY <1>5, <1>6
    <2>2. Put(r, [req[r] EXCEPT !.cancel = TRUE]) /\ trouble' \subseteq Request \cup {0}
      BY <1>1, <1>2, <1>4, <1>6 DEF TypeOK
    <2>3. IInv'
      BY <1>1, <1>2, <1>5, <2>1, <2>2, CancelFlagKeeps
    <2>4. rec \in RequestRecord /\ rec.rev = req[r].rev /\ rec.type = req[r].type
          /\ rec.state = "REQUESTED"
      BY <1>2, <1>4, <1>5, <2>1 DEF TypeOK, RequestRecord
    <2>5. \A q \in Request : EndedKept(q)
      <3>1. \A q \in Request \ {r} : req'[q] = req[q]
        BY <1>2, <1>5, <2>4, <1>6, PutMoves
      <3>2. QED
        BY <2>1, <3>1 DEF EndedKept, TerminalState
    <2>6. \A q \in Request : Onward(q)
      BY <1>2, <1>5, <1>6, <2>4, <2>5, PutOnward
    <2>7. QED
      BY <2>1, <2>3, <2>6
  <1>7. ASSUME UNCHANGED <<req, withdrawn>>
        PROVE  /\ IInv' /\ \A q \in Request : Onward(q)
               /\ withdrawn \subseteq withdrawn'
    BY <1>1, <1>2, <1>7, NothingWritten DEF vars
  <1>8. CASE unsure /\ (stored \/ UNCHANGED <<req, withdrawn>>)
    <2>1. IInv' /\ TypeOK' /\ (\A q \in Request : Onward(q)) /\ withdrawn \subseteq withdrawn'
      BY <1>6, <1>7, <1>8 DEF IInv
    <2>2. UNCHANGED <<board, told>> /\ Move(d, "snapshot")
      BY <1>8
    <2>3. DialogInv'
      BY <1>2, <1>3, <2>1, <2>2, MoveKeeps DEF PageStays
    <2>4. PageInv' /\ HistoryInv'
      BY <1>1, <1>2, <2>1, <2>2, PageKept, HistoryKept
    <2>5. QED
      BY <2>1, <2>3, <2>4 DEF BInv
  <1>9. CASE /\ stored /\ Finish(d) /\ Tell(r, "accepted")
             /\ board' = IF dlg[d].at = "here" THEN Reloaded("board") ELSE board
    <2>1. /\ IInv' /\ TypeOK' /\ (\A q \in Request : Onward(q)) /\ withdrawn \subseteq withdrawn'
          /\ r \in withdrawn'
      BY <1>6, <1>9 DEF IInv
    <2>2. PageInv' /\ board'.shown.page = board.shown.page
          /\ (board.shown.page = "detail" => board' = board)
      <3>1. CASE dlg[d].at = "here"
        <4>1. board.shown.page = "board"
          BY <1>2, <1>3, <3>1 DEF DialogOK, ShownRecord, Page
        <4>2. QED
          BY <1>2, <1>9, <2>1, <3>1, <4>1, ReloadedKeeps
      <3>2. CASE dlg[d].at # "here"
        BY <1>1, <1>2, <1>9, <2>1, <3>2, PageKept
      <3>3. QED
        BY <3>1, <3>2
    <2>3. DialogInv'
      BY <1>2, <1>9, <2>1, <2>2, FinishKeeps DEF PageStays
    <2>4. HistoryInv'
      BY <1>1, <1>2, <1>5, <1>9, <2>1, TellKeeps
    <2>5. QED
      BY <2>1, <2>2, <2>3, <2>4 DEF BInv
  <1>10. QED
    BY <1>4, <1>8, <1>9 DEF PutCancelRequested, Fresh, CancelRequested

\* The question that follows a PUT without an answer.
LEMMA SnapshotKeeps ==
  ASSUME BInv, NEW d \in Dialog, CancellationSnapshot(d)
  PROVE  BInv'
  <1>1. UNCHANGED <<vars, board, created>>
    BY DEF CancellationSnapshot, others, vars
  <1>2. /\ IInv' /\ TypeOK /\ TypeOK' /\ \A r \in Request : Onward(r)
        /\ withdrawn \subseteq withdrawn'
    BY <1>1, NothingWritten DEF BInv
  <1>3. IInv /\ DialogInv /\ PageInv /\ HistoryInv
    BY DEF BInv
  <1>4. Active(d) /\ DialogOK(d) /\ dlg[d].pc = "snapshot" /\ Finish(d)
    BY <1>3 DEF CancellationSnapshot, Active, DialogInv
  <1>5. PICK r, said :
          r = dlg[d].id /\ said = CancellationResultMessage(req[r].state, req[r].cancel)
    OBVIOUS
  <1>6. r \in Request
    BY <1>4, <1>5 DEF DialogOK
  <1>7. PICK what \in {said, "unconfirmed"} : Tell(r, what)
    BY <1>5 DEF CancellationSnapshot
  <1>8. said \in {"accepted", "retry", "started"}
        /\ (said = "accepted" => req[r].state = "REQUESTED" /\ req[r].cancel)
    BY <1>5 DEF CancellationResultMessage
  <1>9. what = "accepted" => r \in withdrawn'
    BY <1>1, <1>3, <1>6, <1>7, <1>8 DEF IInv, RequestOK, WithdrawnOK, vars
  <1>10. HistoryInv'
    BY <1>1, <1>2, <1>3, <1>6, <1>7, <1>8, <1>9, TellKeeps
  <1>11. DialogInv'
    BY <1>1, <1>2, <1>3, <1>4, FinishKeeps DEF PageStays
  <1>12. PageInv'
    BY <1>1, <1>2, <1>3, PageKept
  <1>13. QED
    BY <1>2, <1>10, <1>11, <1>12 DEF BInv
-----------------------------------------------------------------------------
(* The specification.                                                       *)

\* At first nothing is loaded, open or said.
LEMMA InitBInv == BoardInit => BInv
  <1> SUFFICES ASSUME BoardInit PROVE BInv
    OBVIOUS
  <1>1. IInv
    BY InitIInv DEF BoardInit
  <1>2. PICK s : s = Blank
    OBVIOUS
  <1>3. s \in ShownRecord /\ s.up = FALSE /\ s.page = "board" /\ s.pend = {}
    BY <1>2 DEF Blank, ShownRecord, Page
  <1>4. /\ board \in [gen : Nat, loads : SUBSET LoadRecord, shown : ShownRecord]
        /\ board.gen = 0 /\ board.loads = {} /\ board.shown = s
    BY <1>2, <1>3 DEF BoardInit
  <1>5. PageInv
    BY <1>3, <1>4 DEF PageInv, LoadingEnds
  <1>6. NoDialog \in DialogRecord /\ NoDialog.pc = "none"
    BY DEF NoDialog, DialogRecord
  <1>7. DialogInv
    BY <1>6 DEF BoardInit, DialogInv, DialogOK, Active
  <1>8. HistoryInv
    BY DEF BoardInit, HistoryInv
  <1>9. QED
    BY <1>1, <1>5, <1>7, <1>8 DEF BInv

\* Every step of the queue, the pages and the dialogs keeps the invariant.
LEMMA NextBInv == BInv /\ [BoardNext]_<<vars, bvars>> => BInv'
  <1> SUFFICES ASSUME BInv, [BoardNext]_<<vars, bvars>> PROVE BInv'
    OBVIOUS
  <1>1. CASE Next /\ UNCHANGED bvars
    BY <1>1, QueueKeeps
  <1>2. ASSUME NEW d \in Dialog, DialogStep(d) PROVE BInv'
    BY <1>2, GuardKeeps, CreateKeeps, ReadbackKeeps, CancelKeeps, SnapshotKeeps DEF DialogStep
  <1>3. CASE UNCHANGED <<vars, bvars>>
    <2>1. UNCHANGED <<vars, dlg, told, created, board>>
      BY <1>3 DEF bvars
    <2>2. /\ IInv' /\ TypeOK /\ TypeOK' /\ \A r \in Request : Onward(r)
      BY <2>1, NothingWritten DEF BInv
    <2>3. PageInv'
      BY <2>1, <2>2, PageKept DEF BInv
    <2>4. QED
      BY <2>1, <2>3, PageStep DEF PageStays
  <1>4. QED
    BY <1>1, <1>2, <1>3, ReloadKeeps, ShowKeeps, LoadStepKeeps, OpenRequestKeeps, OpenStartKeeps,
       OpenCancelKeeps DEF BoardNext, BoardStep

\* The invariant the following rest on.
THEOREM BoardInvariance == BoardSpec => []BInv
  BY InitBInv, NextBInv, PTL DEF BoardSpec

\* The board's writes break none of the queue's promises: a request is executed
\* once, a withdrawn one never, and the result tells the truth.
THEOREM BoardKeepsQueue ==
  BoardSpec => [](ExecutedOnce /\ WithdrawnNeverRuns /\ ResultIsTruthful)
  <1>1. BInv => ExecutedOnce
    BY DEF BInv, IInv, RequestOK, ExecutedOnce
  <1>2. ASSUME BInv PROVE WithdrawnNeverRuns
    <2>1. ASSUME NEW r \in Request PROVE RequestOK(r)
      BY <1>2 DEF BInv, IInv
    <2>2. QED
      BY <2>1 DEF RequestOK, WithdrawnOK, Served, WithdrawnNeverRuns
  <1>3. ASSUME BInv PROVE ResultIsTruthful
    <2>1. ASSUME NEW r \in Request PROVE RequestOK(r)
      BY <1>3 DEF BInv, IInv
    <2>2. QED
      BY <2>1 DEF RequestOK, Certain, Quiet, ResultIsTruthful
  <1>4. QED
    BY <1>1, <1>2, <1>3, BoardInvariance, PTL

\* A page that says it is loading has a load of its newest generation on the way.
THEOREM LoadsGoOn == BoardSpec => []LoadingEnds
  <1>1. BInv => LoadingEnds
    BY DEF BInv, PageInv
  <1>2. QED
    BY <1>1, BoardInvariance, PTL

\* When a cancel dialog says that the cancellation was accepted, the request was
\* not started and never will be (openCancelRequestDialog).
THEOREM BoardCancelHonoured == BoardSpec => []CancelAnswerHonoured
  <1>1. ASSUME BInv PROVE CancelAnswerHonoured
    <2>1. ASSUME NEW r \in Request, "accepted" \in told[r]
          PROVE  starts[r] = 0 /\ req[r].state \in {"REQUESTED", "CANCELLED"}
      <3>1. RequestOK(r) /\ r \in withdrawn
        BY <1>1, <2>1 DEF BInv, IInv, HistoryInv
      <3>2. QED
        BY <3>1 DEF RequestOK, WithdrawnOK, Served
    <2>2. QED
      BY <2>1 DEF CancelAnswerHonoured
  <1>2. QED
    BY <1>1, BoardInvariance, PTL

\* After a page reported a request about the Run as created, it offers no
\* operation on the Run while that request is pending, unless it warned that it
\* could not read the requests (BoardController, onCreated).
THEOREM BoardNoOffer == BoardSpec => []NoOfferWhileCreatedPends
  <1>1. BInv => NoOfferWhileCreatedPends
    BY DEF BInv, PageInv, Covers, NoOfferWhileCreatedPends
  <1>2. QED
    BY <1>1, BoardInvariance, PTL

\* What the rules of the board allow for a Run, whatever state it is in, the poller lets
\* through, or refuses because the lock has not been released yet.
LEMMA OfferServed ==
  ASSUME NEW x \in RunRecord, NEW ops, ops = DecideBoardAction(x, x.hold, {}), NEW type \in ops
  PROVE  ReviewRequest(type, x) \in {None, Rejected("RUN_LIVE")}
  <1> DEFINE m == MatrixAction(x.status, DeriveRunActivity(x))
  <1>1. /\ x.status \in TerminalRun \cup {"CREATED", "RUNNING"} /\ x.hold \in BOOLEAN
        /\ x.lifecycle \in {"ACTIVE", "ARCHIVED"}
    BY DEF RunRecord
  <1>2. x.status \in TerminalRun => DeriveRunActivity(x) = None
    BY DEF DeriveRunActivity
  <1>3. CASE x.status \in {"FAILED", "CANCELLED"}
    <2>0. m = "RERUN"
      BY <1>2, <1>3 DEF MatrixAction, TerminalRun
    <2>1. CASE x.hold
      <3>1. type = "RELEASE"
        BY <1>3, <2>0, <2>1 DEF DecideBoardAction
      <3>2. QED
        BY <2>1, <3>1 DEF ReviewRequest
    <2>2. CASE ~x.hold
      <3>1. x.lifecycle = "ACTIVE" /\ type \in {"RERUN", "CLOSE"}
        BY <1>3, <2>0, <2>2 DEF DecideBoardAction
      <3>2. ReviewRerun(x) \in {None, Rejected("RUN_LIVE")}
        BY <1>3, <2>2, <3>1 DEF ReviewRerun
      <3>3. ReviewClose(x) \in {None, Rejected("RUN_LIVE")}
        BY <1>3, <2>2, <3>1 DEF ReviewClose
      <3>4. QED
        BY <3>1, <3>2, <3>3 DEF ReviewRequest
    <2>3. QED
      BY <2>1, <2>2
  <1>4. CASE x.status = "SUCCESS"
    <2>1. m = "NONE"
      BY <1>2, <1>4 DEF MatrixAction, TerminalRun
    <2>2. QED
      BY <1>4, <2>1 DEF DecideBoardAction
  <1>5. CASE x.status \in {"CREATED", "RUNNING"}
    <2>1. m \notin {"INVALID", "NONE"} /\ type = m /\ (m = "RERUN" => x.lifecycle = "ACTIVE")
      <3>1. m \in {"INVALID", "NONE"} => ops = {}
        BY <1>5 DEF DecideBoardAction
      <3>2. m \notin {"INVALID", "NONE"} =>
              ops = IF m = "RERUN" /\ x.lifecycle # "ACTIVE" THEN {} ELSE {m}
        BY <1>5 DEF DecideBoardAction
      <3>3. QED
        BY <3>1, <3>2
    <2>2. x.status \notin TerminalRun
      BY <1>5 DEF TerminalRun
    <2>3. CASE x.hold
      <3>1. DeriveRunActivity(x) = "STOPPED"
        BY <2>2, <2>3 DEF DeriveRunActivity
      <3>2. m = "RELEASE"
        <4>1. m = MatrixAction(x.status, "STOPPED")
          BY <3>1
        <4>2. QED
          BY <1>5, <4>1 DEF MatrixAction, TerminalRun
      <3>3. QED
        BY <2>1, <2>3, <3>2 DEF ReviewRequest
    <2>4. CASE ~x.hold /\ HasLiveOwner(x)
      <3>1. DeriveRunActivity(x) = "LIVE"
        BY <2>2, <2>4 DEF DeriveRunActivity
      <3>2. m = "STOP"
        <4>1. m = MatrixAction(x.status, "LIVE")
          BY <3>1
        <4>2. QED
          BY <1>5, <4>1 DEF MatrixAction, TerminalRun
      <3>3. QED
        BY <2>1, <2>2, <3>1, <3>2 DEF ReviewRequest, ReviewStop
    <2>5. CASE ~x.hold /\ ~HasLiveOwner(x)
      <3>1. DeriveRunActivity(x) \in {"INTERRUPTED", "IDLE"}
        BY <2>2, <2>5 DEF DeriveRunActivity
      <3>2. m = "RERUN"
        BY <1>5, <2>1, <3>1 DEF MatrixAction
      <3>3. QED
        BY <1>5, <2>1, <2>5, <3>2 DEF ReviewRequest, ReviewRerun
    <2>6. QED
      BY <2>3, <2>4, <2>5
  <1>6. CASE x.status = "UNKNOWN"
    BY <1>6 DEF DecideBoardAction
  <1>7. QED
    BY <1>1, <1>3, <1>4, <1>5, <1>6 DEF TerminalRun

\* What the action matrix of the plugin allows for a Run whose hold it knows, the
\* review of the CLI does not refuse for the Run's state (decideBoardAction,
\* reviewRequest).
THEOREM BoardOffersServed == BoardSpec => []OffersAreServed
  <1>1. BInv => OffersAreServed
    BY OfferServed DEF BInv, IInv, TypeOK, OffersAreServed
  <1>2. QED
    BY <1>1, BoardInvariance, PTL
-----------------------------------------------------------------------------
(* The board writes nothing that the service does not allow.                *)

\* A request from a dialog appears, with or without an answer.
LEMMA CreateServes ==
  ASSUME IInv, NEW d \in Dialog, CreateRequest(d)
  PROVE  ServiceStep
  <1>1. UNCHANGED <<child, effect, starts>>
    BY DEF CreateRequest, others
  <1>2. UNCHANGED req \/ Post(dlg[d].type, TRUE)
    BY DEF CreateRequest, PostBody
  <1>3. QED
    BY <1>1, <1>2, PostServes, IdleServes

\* A cancel from a dialog meets a request that is still REQUESTED.
LEMMA PutCancelServes ==
  ASSUME BInv, NEW d \in Dialog, PutCancelRequested(d)
  PROVE  ServiceStep
  <1>1. UNCHANGED <<child, effect, starts>>
    BY DEF PutCancelRequested, others
  <1>2. IInv /\ TypeOK /\ DialogInv
    BY DEF BInv, IInv
  <1>3. Active(d) /\ DialogOK(d) /\ dlg[d].kind = "cancel" /\ dlg[d].pc = "confirm"
    BY <1>2 DEF PutCancelRequested, Active, DialogInv
  <1>4. PICK r : r = dlg[d].id
    OBVIOUS
  <1>5. r \in Request /\ (dlg[d].rev = req[r].rev => req[r].state = "REQUESTED")
    BY <1>3, <1>4 DEF DialogOK
  <1>6. \/ UNCHANGED req
        \/ dlg[d].rev = req[r].rev /\ Put(r, [req[r] EXCEPT !.cancel = TRUE])
    BY <1>4 DEF PutCancelRequested, Fresh, CancelRequested
  <1>7. QED
    BY <1>1, <1>2, <1>5, <1>6, CancelServes, IdleServes

\* A step of the queue or of the board.
LEMMA BoardStepServes == BInv /\ [BoardNext]_<<vars, bvars>> => ServiceStep
  <1> SUFFICES ASSUME BInv, [BoardNext]_<<vars, bvars>> PROVE ServiceStep
    OBVIOUS
  <1>1. IInv
    BY DEF BInv
  <1>2. CASE Next \/ UNCHANGED vars
    BY <1>1, <1>2, StepServes
  <1>3. ASSUME NEW d \in Dialog, DialogStep(d) PROVE ServiceStep
    <2>1. CASE GuardPending(d) \/ ReadbackRequest(d) \/ CancellationSnapshot(d)
      BY <2>1, IdleServes DEF GuardPending, ReadbackRequest, CancellationSnapshot, others
    <2>2. QED
      BY <1>1, <1>3, <2>1, CreateServes, PutCancelServes DEF DialogStep
  <1>4. ASSUME NEW l \in board.loads, LoadStep(l) PROVE ServiceStep
    BY <1>4, IdleServes
       DEF LoadStep, LoadActiveSection, LoadAttentionSection, ReadSection, LoadPending, Render, others,
           vars
  <1>5. CASE Reload \/ ShowBoard \/ ShowDetail \/ OpenRequestDialog \/ OpenStartDialog
             \/ OpenCancelDialog
    BY <1>5, IdleServes
       DEF Reload, ShowBoard, ShowDetail, OpenRequestDialog, OpenStartDialog, OpenCancelDialog,
           NewPage, vars
  <1>6. QED
    BY <1>2, <1>3, <1>4, <1>5 DEF BoardNext, BoardStep

\* With the board and its stale pages, lost answers and dialogs the request app
\* is still the same service.
THEOREM BoardImplementsService == BoardSpec => ImplementsService
  <1>1. BInv /\ [BoardNext]_<<vars, bvars>>
           => [UNCHANGED Service!serviceVars \/ Service!ServiceNext]_(Service!serviceVars)
    BY BoardStepServes DEF ServiceStep
  <1>2. BoardInit => Service!ServiceInit
    BY InitServes DEF BoardInit
  <1>3. QED
    BY <1>1, <1>2, BoardInvariance, PTL DEF BoardSpec, ImplementsService, Service!ServiceSpec
=============================================================================
