---------------------------- MODULE RequestBoard ----------------------------
(***************************************************************************)
(* The board plugin on top of the request queue: one user's browser tab    *)
(* with the Run board or a Run's detail page, and the dialogs that create  *)
(* and withdraw requests (plugin/src/desktop.ts, board-controller.ts,      *)
(* detail-controller.ts, request-dialog.ts, start-request-dialog.ts,       *)
(* request-client.ts).                                                     *)
(*                                                                         *)
(* Every GET is one step, so a page is put together from readings of       *)
(* different moments while pollers and children go on. Loads overlap; only *)
(* one of the newest generation is rendered. A dialog outlives the page it *)
(* was opened from. Values the parsers refuse are failed readings.         *)
(***************************************************************************)
EXTENDS RequestQueue

CONSTANTS
    MaxLoads,       \* bound: the loads of the page
    MaxDialogs,     \* bound: the dialogs that are opened
    MaxSlips        \* bound: the calls of the browser that fail

ASSUME BoardAssumption == MaxLoads \in Nat /\ MaxDialogs \in Nat /\ MaxSlips \in Nat

Dialog == 1..MaxDialogs

VARIABLES
    board,      \* the page: generation, loads on the way, what is shown
    dlg,        \* the dialogs
    slips,      \* the failures that are left
    told,       \* history: what a cancel dialog said about a request
    created     \* history: the requests reported as created to the page that is open

bvars == <<board, dlg, slips, told, created>>
\* What the board never writes; requests it does.
others == <<run, child, pol, faults, outside, starts, effect, trouble>>

Page == {"board", "detail"}
Blank == [up |-> FALSE, page |-> "board", ops |-> {}, pend |-> {}, lost |-> {}]
NoDialog == [kind |-> "none", pc |-> "none", type |-> None, id |-> 0, rev |-> 0, at |-> "here"]

BoardInit ==
    /\ Init
    /\ board = [gen |-> 0, loads |-> {}, shown |-> Blank]
    /\ dlg = [d \in Dialog |-> NoDialog]
    /\ slips = MaxSlips
    /\ told = [r \in Request |-> {}]
    /\ created = {}

Slip == slips > 0 /\ slips' = slips - 1
NoSlip == UNCHANGED slips
-----------------------------------------------------------------------------
(* Loading the page.                                                        *)

\* A load: the sections still to be read, whether there is a row, the
\* operations of the rows, the pending requests and the lists that are missing.
NewLoad(gen, page) ==
    [gen |-> gen, page |-> page, todo |-> {"active", "attention"}, some |-> FALSE,
     ops |-> {}, pend |-> {}, lost |-> {}, ready |-> FALSE]

\* BoardController.reload: a new generation; the page says it is loading. What
\* an overtaken load still reads is discarded, so only the answers that are on
\* their way are kept.
Reloaded(page) ==
    [board EXCEPT !.gen = @ + 1, !.shown = Blank,
                  !.loads = {l \in @ : l.ready} \cup {NewLoad(board.gen + 1, page)}]

\* bound: the loads, and one overtaken answer at a time.
CanLoad == board.gen < MaxLoads /\ Cardinality({l \in board.loads : l.ready}) <= 1

Reload ==
    /\ CanLoad
    /\ \A l \in board.loads : l.page = "board"
    /\ board.shown.page = "board"
    /\ board' = Reloaded("board")
    /\ UNCHANGED <<vars, dlg, slips, told, created>>

\* A page that is shown anew: the old controller is invalidated, so its loads
\* are never rendered. Its dialogs stay open; one of a detail page that is
\* followed by another may find its root element in use there.
NewPage(l) ==
    /\ CanLoad
    /\ board' = [gen |-> l.gen, shown |-> [Blank EXCEPT !.page = l.page], loads |-> {l}]
    /\ dlg' = [d \in Dialog |-> [dlg[d] EXCEPT !.at =
                 CASE dlg[d].pc \in {"none", "done"} -> "here"
                   [] /\ dlg[d].pc \notin {"none", "done"} /\ dlg[d].at # "gone"
                      /\ l.page = "detail" /\ board.shown.page = "detail" -> "root"
                   [] OTHER -> "gone"]]
    /\ UNCHANGED <<vars, told, created>>

\* app.record.index.show
ShowBoard == NewPage(NewLoad(board.gen + 1, "board")) /\ NoSlip

\* loadDetail takes the Run of the event and does not know of a hold
\* (withPending).
LoadDetail == [NewLoad(board.gen + 1, "detail") EXCEPT
                   !.todo = {}, !.some = TRUE, !.ops = DecideBoardAction(run, FALSE, {})]

\* app.record.detail.show counts its own generations; a reading that fails
\* makes an error page.
ShowDetail ==
    /\ run.exists
    /\ \/ NewPage(LoadDetail) /\ NoSlip
       \/ NewPage([LoadDetail EXCEPT !.some = FALSE, !.ops = {}]) /\ Slip

Advance(l, m) == board' = [board EXCEPT !.loads = (@ \ {l}) \cup {m}]

\* The queries of the two sections of the board.
ActiveQuery == run.exists /\ run.status \notin TerminalRun
AttentionQuery ==
    run.exists /\ run.lifecycle = "ACTIVE" /\ run.status \in {"FAILED", "CANCELLED", "UNKNOWN"}

\* loadActiveSection with readSupportingRecords: the Runs, their locks with the
\* Invocations that own them, and the holds. loadAttentionSection: the Runs and
\* the holds. The readings of one section are one step, those of the two are
\* not: a Run may be in both or in neither. A failure anywhere fails the
\* section, never the page.
ReadSection(l, section, query) ==
    /\ section \in l.todo
    /\ \/ /\ Advance(l, IF query
                         THEN [l EXCEPT !.todo = @ \ {section}, !.some = TRUE,
                                        !.ops = @ \cup DecideBoardAction(run, run.hold, {})]
                         ELSE [l EXCEPT !.todo = @ \ {section}])
          /\ NoSlip
       \/ query /\ Advance(l, [l EXCEPT !.todo = @ \ {section}]) /\ Slip
    /\ UNCHANGED <<req, others, withdrawn, dlg, told, created>>

LoadActiveSection(l) == ReadSection(l, "active", ActiveQuery)
LoadAttentionSection(l) == ReadSection(l, "attention", AttentionQuery)

OpenState == {"REQUESTED", "ACCEPTED"}
Pending(starts_) ==
    {[id |-> r, rev |-> req[r].rev, type |-> req[r].type, state |-> req[r].state] :
        r \in {q \in Request : req[q].state \in OpenState /\ (req[q].type = "START") = starts_}}

\* loadPendingRequests for the rows, loadPendingStartRequests for the board: a
\* list that cannot be read is left out with a warning. A request is in one of
\* the lists, so reading both at once tears nothing apart.
LoadPending(l) ==
    LET lists == {k \in {"run", "start"} : IF k = "run" THEN l.some ELSE l.page = "board"}
        read(lost) ==
            Advance(l, [l EXCEPT !.ready = TRUE, !.lost = lost,
                                 !.pend = UNION {Pending(k = "start") : k \in lists \ lost}])
    IN  /\ l.todo = {} /\ ~l.ready
        /\ \/ read({}) /\ NoSlip
           \/ \E k \in lists : read({k}) /\ Slip
        /\ UNCHANGED <<req, others, withdrawn, dlg, told, created>>

\* Mutant: whatever load ends is rendered.
RenderAnyGeneration(l) ==
    /\ l.ready
    /\ board' = [board EXCEPT
            !.loads = @ \ {l},
            !.shown = [up |-> TRUE, page |-> l.page, ops |-> l.ops, pend |-> l.pend,
                       lost |-> l.lost]]
    /\ UNCHANGED <<vars, dlg, slips, told, created>>

\* The callback of the loader: rendered only if no newer load was started.
Render(l) ==
    /\ l.ready
    /\ board' = [board EXCEPT
            !.loads = @ \ {l},
            !.shown = IF l.gen = board.gen
                      THEN [up |-> TRUE, page |-> l.page, ops |-> l.ops,
                            pend |-> l.pend, lost |-> l.lost]
                      ELSE @]
    /\ UNCHANGED <<vars, dlg, slips, told, created>>

LoadStep(l) ==
    LoadActiveSection(l) \/ LoadAttentionSection(l) \/ LoadPending(l) \/ Render(l)

\* The operations with a button: applyPending and withPending judge the rows
\* again, and a pending request for the Run takes the buttons away.
Offered(s) == IF \E q \in s.pend : q.type # "START" THEN {} ELSE s.ops
-----------------------------------------------------------------------------
(* The dialogs. A new dialog takes the place of the one of its kind.        *)

Alive(d) == \A e \in Dialog : e > d => dlg[e].kind # dlg[d].kind

Open(kind, pc, type, id, rev) ==
    \E d \in Dialog :
        /\ dlg[d].pc = "none" /\ \A e \in Dialog : e < d => dlg[e].pc # "none"
        /\ dlg' = [dlg EXCEPT ![d] = [kind |-> kind, pc |-> pc, type |-> type, id |-> id,
                                      rev |-> rev, at |-> "here"]]

\* openRequestDialog for an operation the page offers.
OpenRequestDialog ==
    /\ board.shown.up
    /\ \E type \in Offered(board.shown) : Open("run", "input", type, 0, 0)
    /\ UNCHANGED <<vars, board, slips, told, created>>

\* openStartRequestDialog, from the board's toolbar.
OpenStartDialog ==
    /\ board.shown.up /\ board.shown.page = "board"
    /\ Open("start", "input", "START", 0, 0)
    /\ UNCHANGED <<vars, board, slips, told, created>>

\* openCancelRequestDialog: for the user's own requests that were REQUESTED
\* when the board was loaded, with the revision of then.
OpenCancelDialog ==
    /\ board.shown.up /\ board.shown.page = "board"
    /\ \E q \in board.shown.pend :
          q.state = "REQUESTED" /\ Open("cancel", "confirm", q.type, q.id, q.rev)
    /\ UNCHANGED <<vars, board, slips, told, created>>

Move(d, pc) == dlg' = [dlg EXCEPT ![d].pc = pc]
Finish(d) == dlg' = [dlg EXCEPT ![d] = [NoDialog EXCEPT !.kind = dlg[d].kind, !.pc = "done"]]

\* guardPendingStartRequest: a START for the same key that is not ended yet.  The
\* model has one key.
SameStart == Pending(TRUE)

\* guardPendingRequest: any request for the same Run that is not ended yet.
SameRun == Pending(FALSE)

\* A pending request ends the dialog; a reading that fails lets it go on with a
\* warning.
GuardPending(d) ==
    LET same == IF dlg[d].kind = "start" THEN SameStart ELSE SameRun
    IN  /\ dlg[d].kind \in {"run", "start"} /\ dlg[d].pc = "input" /\ Alive(d)
        /\ \/ same # {} /\ Finish(d) /\ NoSlip
           \/ same = {} /\ Move(d, "confirm") /\ NoSlip
           \/ Move(d, "confirm") /\ Slip
    /\ UNCHANGED <<req, others, withdrawn, board, told, created>>

\* Where a dialog is after a failed call: a START is guarded again.
Retry(d) == Move(d, IF dlg[d].kind = "start" THEN "input" ELSE "confirm")

\* The record of a request: its type and target, never a state or a result.
PostBody(d) == Post(dlg[d].type, TRUE)

\* createRequest: one POST; if its answer is lost the dialog only says that it
\* failed and can be sent again.
CreateRequest(d) ==
    /\ dlg[d].kind \in {"run", "start"} /\ dlg[d].pc = "confirm" /\ Alive(d)
    /\ \/ /\ PostBody(d) /\ NoSlip
          /\ \E r \in Request : req'[r].state # req[r].state /\
                dlg' = [dlg EXCEPT ![d] = [@ EXCEPT !.pc = "readback", !.id = r]]
       \/ (PostBody(d) \/ UNCHANGED req) /\ Retry(d) /\ Slip
    /\ UNCHANGED <<others, withdrawn, board, told, created>>

\* onCreated: the board is loaded again; the detail page marks its row itself.
\* A dialog of an earlier detail page marks the row of the model it was opened
\* from, and renders that into the root it still knows.
OnCreated(d, r) ==
    LET mark == [id |-> r, rev |-> req[r].rev, type |-> req[r].type,
                 state |-> IF req[r].state = "ACCEPTED" THEN "ACCEPTED" ELSE "REQUESTED"]
    IN  \/ /\ dlg[d].at = "here" /\ created' = created \cup {r}
           /\ board' = IF board.shown.page = "board" THEN Reloaded("board")
                       ELSE [board EXCEPT !.shown.pend = {mark}, !.shown.lost = {}]
        \/ /\ dlg[d].at = "root" /\ UNCHANGED created
           /\ board' = [board EXCEPT !.shown = [Blank EXCEPT !.up = TRUE, !.page = "detail",
                                                             !.pend = {mark}]]
        \/ dlg[d].at # "here" /\ UNCHANGED <<board, created>>

\* The readback of the record that was created; if it fails the dialog can be
\* sent again, although the request exists.
ReadbackRequest(d) ==
    /\ dlg[d].pc = "readback"
    /\ \/ CanLoad /\ Finish(d) /\ OnCreated(d, dlg[d].id) /\ NoSlip
       \/ Retry(d) /\ Slip /\ UNCHANGED <<board, created>>
    /\ UNCHANGED <<req, others, withdrawn, told>>

Tell(r, what) == told' = [told EXCEPT ![r] = @ \cup {what}]

\* The body of the PUT: cancel_requested and nothing else.
CancelRequested(r) == [req[r] EXCEPT !.cancel = TRUE]

\* putCancelRequested with the revision the board had loaded.
PutCancelRequested(d) ==
    LET cur == [id |-> dlg[d].id, rev |-> dlg[d].rev]
        rec == CancelRequested(cur.id)
        mark == IF req[cur.id].state = "REQUESTED" THEN withdrawn \cup {cur.id} ELSE withdrawn
    IN  /\ dlg[d].kind = "cancel" /\ dlg[d].pc = "confirm" /\ Alive(d)
        /\ \/ /\ Fresh(cur) /\ Put(cur.id, rec) /\ withdrawn' = mark
              /\ CanLoad
              /\ board' = IF dlg[d].at = "here" THEN Reloaded("board") ELSE board
              /\ Finish(d) /\ Tell(cur.id, "accepted") /\ NoSlip
           \/ /\ ~Fresh(cur) /\ Move(d, "snapshot") /\ NoSlip
              /\ UNCHANGED <<req, withdrawn, board, told>>
           \/ /\ \/ Fresh(cur) /\ Put(cur.id, rec) /\ withdrawn' = mark
                 \/ UNCHANGED <<req, withdrawn>>
              /\ Move(d, "snapshot") /\ Slip /\ UNCHANGED <<board, told>>
        /\ UNCHANGED <<others, created>>

\* getCancellationSnapshot after a PUT that did not succeed.
CancellationSnapshot(d) ==
    LET r == dlg[d].id
    IN  /\ dlg[d].pc = "snapshot" /\ Finish(d)
        /\ \/ Tell(r, CancellationResultMessage(req[r].state, req[r].cancel)) /\ NoSlip
           \/ Tell(r, "unconfirmed") /\ Slip
        /\ UNCHANGED <<req, others, withdrawn, board, created>>

DialogStep(d) ==
    GuardPending(d) \/ CreateRequest(d) \/ ReadbackRequest(d)
    \/ PutCancelRequested(d) \/ CancellationSnapshot(d)

BoardStep ==
    \/ Reload
    \/ ShowBoard \/ ShowDetail
    \/ \E l \in board.loads : LoadStep(l)
    \/ OpenRequestDialog \/ OpenStartDialog \/ OpenCancelDialog
    \/ \E d \in Dialog : DialogStep(d)

BoardNext == (Next /\ UNCHANGED bvars) \/ BoardStep

BoardSpec == BoardInit /\ [][BoardNext]_<<vars, bvars>>
-----------------------------------------------------------------------------
\* The variables of the board have their types.
BoardTypeOK ==
    /\ board.gen \in 0..MaxLoads
    /\ board.shown.up \in BOOLEAN /\ board.shown.page \in Page
    /\ \A l \in board.loads : l.gen \in 1..MaxLoads /\ l.ops \subseteq RequestType
    /\ \A d \in Dialog :
          /\ dlg[d].kind \in {"none", "run", "start", "cancel"}
          /\ dlg[d].pc \in {"none", "input", "confirm", "readback", "snapshot", "done"}
          /\ dlg[d].id \in Request \cup {0}
    /\ \A r \in Request : told[r] \subseteq {"accepted", "retry", "started", "unconfirmed"}
    /\ created \subseteq Request

\* When a cancel dialog says that the cancellation was accepted, the request
\* was not started and never will be, however the PUT raced the poller's
\* claim and whether or not its answer arrived (openCancelRequestDialog); nobody
\* unticks cancel_requested by hand (EditCancel).
CancelAnswerHonoured ==
    \A r \in Request :
        "accepted" \in told[r] => starts[r] = 0 /\ req[r].state \in {"REQUESTED", "CANCELLED"}

\* After a page reported a request about the Run as created, it offers no
\* operation on the Run while that request is pending, unless it warned that
\* it could not read the requests: loads that were on their way when the
\* request was made are not rendered (BoardController, onCreated).
NoOfferWhileCreatedPends ==
    \A r \in created :
        /\ req[r].type # "START" /\ req[r].state \in OpenState
        /\ board.shown.up /\ "run" \notin board.shown.lost
        => Offered(board.shown) = {}

\* The rules of the board and of the poller agree: whatever state the Run is in,
\* an operation that decideBoardAction allows is let through by reviewRequest, or
\* refused only because the lock has not been released yet. (Both are given the
\* hold, as on the board; the detail page decides without it, see LoadDetail.)
OffersAreServed ==
    run.exists => \A type \in DecideBoardAction(run, run.hold, {}) :
                      ReviewRequest(type, run) \in {None, Rejected("RUN_LIVE")}

\* A page that says it is loading always has a load of its newest generation on
\* the way, whichever readings fail: loadBoard turns every failure into a section
\* or a warning, and BoardController has no handler for a loader that rejects.
LoadingEnds ==
    board.shown.up \/ board.gen = 0 \/ \E l \in board.loads : l.gen = board.gen
=============================================================================
