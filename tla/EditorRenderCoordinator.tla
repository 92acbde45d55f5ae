------------------------ MODULE EditorRenderCoordinator ------------------------
(* The preview renders of the editor: which of the three kinds of request is   *)
(* rendered next, with which edit, and what the viewer shows of the results.   *)
(*   fast     after every change of a control, FAST_PREVIEW                    *)
(*   quality  after a release or a panel switch, QUALITY_BASE_PREVIEW          *)
(*   detail   a sharp patch of a zoomed viewport, DETAIL_ROI_PREVIEW           *)
(* EditorRenderCoordinator, its callers in EditorDialog and                    *)
(* EditorAdjustmentSession, and the layers of RhiImageRenderer.                *)
(*                                                                             *)
(* The coordinator lives on the UI thread: each action but Render and the      *)
(* timers' expiry is one event handler, so its state is one record and each of *)
(* its methods an operator on it.  A request carries a snapshot of the edit    *)
(* only to apply it to the pipeline when it starts; a request that does not    *)
(* apply renders what the pipeline holds.                                      *)
EXTENDS Integers, Sequences, FiniteSets

CONSTANTS
    Edits,      \* values of the adjustment state
    Saved,      \* the one the image is opened with
    MaxDrags,   \* bound: changes of a control
    MaxSwitches,\* bound: switches of the control panel
    MaxViews,   \* bound: changes of the viewport
    MaxFails    \* bound: renders that fail

ASSUME BoundsAssumption ==
    /\ Saved \in Edits
    /\ MaxDrags \in Nat /\ MaxSwitches \in Nat /\ MaxViews \in Nat /\ MaxFails \in Nat

Panels == {"tone", "raw", "geometry"}
Kinds  == {"fast", "quality", "detail"}
Timers == {"quality", "detail", "submit", "settle"}

NoRequest == [kind |-> "none"]
NoFrame   == [gen |-> 0]
NoToken   == <<0, 0>>

VARIABLES
    ed,       \* the coordinator, and the dialog's and the viewer's state it reads
    rendered, \* what has become of the inflight request: "none", "ok", "failed"
    layers,   \* the frames the viewer holds
    drags, switches, views, fails

vars == <<ed, rendered, layers, drags, switches, views, fails>>

\* What a frame shows: an edit, and whether the crop is switched off because the
\* geometry panel was active when the edit was applied (ApplyStateToPipeline).
Shown(edit, panel) == [edit |-> edit, uncropped |-> panel = "geometry"]

--------------------------------------------------------------------------------
(* The coordinator's methods, on its record c.                                 *)

InvalidateDetailPreviewState(c) ==
    [c EXCEPT !.pending["detail"] = NoRequest, !.waiting = FALSE,
              !.timers = @ \ {"detail"}, !.token = NoToken]

AdvancePreviewGeneration(c) ==
    InvalidateDetailPreviewState(
        [c EXCEPT !.gen = @ + 1, !.serial = 0, !.ready = 0,
                  !.pending = [k \in Kinds |-> NoRequest],
                  !.timers = @ \ {"quality", "submit"}])

\* A zoomed viewport, unless a full frame is due after a geometry commit.
WantsDetailPreviewFromViewport(c) == c.zoomed /\ ~c.fullFrame

CanScheduleDetailPreview(c) == WantsDetailPreviewFromViewport(c) /\ c.ready = c.gen

MaybeScheduleDetail(c) ==
    IF ~WantsDetailPreviewFromViewport(c) THEN InvalidateDetailPreviewState(c)
    ELSE IF c.ready # c.gen THEN [c EXCEPT !.waiting = TRUE]
    ELSE [c EXCEPT !.waiting = FALSE, !.timers = @ \cup {"detail"}]

\* Start a request: apply its snapshot if it asks for that.  "overtook" records
\* that a frame without apply was started before the fast request that carries
\* the edit.
Begin(c, k) ==
    LET request == c.pending[k]
        behind  == ~request.apply /\ c.pending["fast"] # NoRequest
    IN  [c EXCEPT !.pending[k] = NoRequest, !.inflight = request,
                  !.applied = IF request.apply THEN Shown(request.edit, c.panel) ELSE @,
                  !.overtook = CASE k = "quality" -> behind
                                 [] k = "detail"  -> @ \/ behind
                                 [] k = "fast"    -> @]

StartNext_DropsThrottled(c) ==
    IF c.inflight # NoRequest THEN c
    ELSE IF c.pending["quality"] # NoRequest THEN Begin(c, "quality")
    ELSE IF c.pending["detail"] # NoRequest THEN Begin(c, "detail")
    ELSE IF c.pending["fast"] = NoRequest THEN c
    ELSE IF c.recent THEN c
    ELSE Begin([c EXCEPT !.recent = TRUE, !.timers = @ \ {"submit"}], "fast")

\* Quality before detail before fast; two fast ones at least 16 ms apart.
StartNext(c) ==
    IF c.inflight # NoRequest THEN c
    ELSE IF c.pending["quality"] # NoRequest THEN Begin(c, "quality")
    ELSE IF c.pending["detail"] # NoRequest THEN Begin(c, "detail")
    ELSE IF c.pending["fast"] = NoRequest THEN c
    ELSE IF c.recent THEN [c EXCEPT !.timers = @ \cup {"submit"}]
    ELSE Begin([c EXCEPT !.recent = TRUE, !.timers = @ \ {"submit"}], "fast")

\* The newest request of a kind replaces an older one.
EnqueueRenderRequest(c, k, apply) ==
    StartNext([c EXCEPT !.pending[k] =
        [kind |-> k, gen |-> c.gen, serial |-> IF k = "detail" THEN c.serial ELSE 0,
         apply |-> apply, edit |-> c.edit]])

RequestRender(c, bump) ==
    EnqueueRenderRequest(IF bump THEN AdvancePreviewGeneration(c) ELSE c, "fast", TRUE)

RequestQualityPreview(c, apply) ==
    EnqueueRenderRequest([c EXCEPT !.timers = @ \ {"quality"}], "quality", apply)

TriggerDetailPreview(c) ==
    IF CanScheduleDetailPreview(c)
    THEN EnqueueRenderRequest([c EXCEPT !.serial = @ + 1], "detail", FALSE)
    ELSE InvalidateDetailPreviewState(c)

QualityFinished_AnyGeneration(c, done) ==
    LET base == [c EXCEPT !.ready = c.gen, !.fullFrame = FALSE]
    IN  IF base.waiting \/ WantsDetailPreviewFromViewport(base)
        THEN MaybeScheduleDetail(base) ELSE base

\* A quality frame of the current generation is the base of detail patches.
QualityFinished(c, done) ==
    IF done.gen # c.gen THEN c
    ELSE LET base == [c EXCEPT !.ready = c.gen, !.fullFrame = FALSE]
         IN  IF base.waiting \/ WantsDetailPreviewFromViewport(base)
             THEN MaybeScheduleDetail(base) ELSE base

DetailFinished(c, done) ==
    IF done.gen # c.gen THEN c ELSE [c EXCEPT !.token = <<done.gen, done.serial>>]

OnRenderFinished(c, ok) ==
    LET done == c.inflight
        idle == [c EXCEPT !.inflight = NoRequest,
                          !.failed = IF ~ok THEN TRUE ELSE @ /\ done.kind # "quality"]
    IN  StartNext(CASE ok /\ done.kind = "quality" -> QualityFinished(idle, done)
                    [] ok /\ done.kind = "detail"  -> DetailFinished(idle, done)
                    [] OTHER -> idle)

--------------------------------------------------------------------------------
(* The handlers of the dialog that use it.                                     *)

Committed(c) ==
    [c EXCEPT !.committed = c.edit, !.dragging = FALSE,
              !.fullFrame = @ \/ (c.edit # c.committed /\ c.panel = "geometry")]

Commit_FromPipeline(c) ==
    MaybeScheduleDetail(RequestQualityPreview(
        IF c.edit = c.committed THEN Committed(c) ELSE AdvancePreviewGeneration(Committed(c)),
        FALSE))

\* EditorAdjustmentSession::Commit.
Commit(c) ==
    MaybeScheduleDetail(RequestQualityPreview(
        IF c.edit = c.committed THEN Committed(c) ELSE AdvancePreviewGeneration(Committed(c)),
        TRUE))

\* SetActiveControlPanel: leaving the geometry panel commits its crop first,
\* while it is still the active panel.
SwitchPanel(c, p) ==
    LET left       == IF c.panel = "geometry" /\ c.dragging THEN Commit(c) ELSE c
        transition == "geometry" \in {c.panel, p}
        there      == [left EXCEPT !.panel = p,
                                   !.fullFrame = IF c.panel = "geometry" THEN FALSE ELSE @]
        asked      == RequestRender(IF transition THEN InvalidateDetailPreviewState(there)
                                    ELSE there, transition)
    IN  [asked EXCEPT !.timers = @ \cup {"quality"}]

Opened ==
    [edit |-> Saved, committed |-> Saved, dragging |-> FALSE, panel |-> "tone",
     applied |-> Shown(Saved, "tone"), fullFrame |-> FALSE,
     view |-> 0, zoomed |-> FALSE, steady |-> TRUE,
     gen |-> 0, serial |-> 0, ready |-> 0,
     pending |-> [k \in Kinds |-> NoRequest], inflight |-> NoRequest,
     waiting |-> FALSE, timers |-> {}, recent |-> FALSE, token |-> NoToken,
     overtook |-> FALSE, failed |-> FALSE]

\* The dialog asks for a quality frame as soon as its event loop runs.
Init ==
    /\ ed = RequestQualityPreview(AdvancePreviewGeneration(Opened), FALSE)
    /\ rendered = "none"
    /\ layers = [k \in Kinds |-> NoFrame]
    /\ drags = 0 /\ switches = 0 /\ views = 0 /\ fails = 0

\* A control is moved: preview only.
Drag(e) ==
    /\ drags < MaxDrags /\ drags' = drags + 1
    /\ ed.panel # "raw"
    /\ ed' = RequestRender([ed EXCEPT !.edit = e, !.dragging = TRUE], TRUE)
    /\ UNCHANGED <<rendered, layers, switches, views, fails>>

\* The control is released, or the crop applied.
Release ==
    /\ ed.dragging
    /\ ed' = Commit(ed)
    /\ UNCHANGED <<rendered, layers, drags, switches, views, fails>>

\* A choice in the raw panel: committed, then rendered in the same generation.
RawChoice(e) ==
    /\ drags < MaxDrags /\ drags' = drags + 1
    /\ ed.panel = "raw"
    /\ ed' = RequestRender(Commit([ed EXCEPT !.edit = e]), FALSE)
    /\ UNCHANGED <<rendered, layers, switches, views, fails>>

Switch(p) ==
    /\ switches < MaxSwitches /\ switches' = switches + 1
    /\ p # ed.panel /\ (ed.dragging => ed.panel = "geometry")
    /\ ed' = SwitchPanel(ed, p)
    /\ UNCHANGED <<rendered, layers, drags, views, fails>>

\* The viewport moves or zooms; a timer reports when it has settled.
MoveView(zoomed) ==
    /\ views < MaxViews /\ views' = views + 1
    /\ ed' = [ed EXCEPT !.view = @ + 1, !.zoomed = zoomed, !.steady = FALSE,
                        !.timers = @ \cup {"settle"}]
    /\ UNCHANGED <<rendered, layers, drags, switches, fails>>

Fired(c, t) ==
    LET off == [c EXCEPT !.timers = @ \ {t}]
    IN  CASE t = "quality" -> RequestQualityPreview(off, FALSE)
          [] t = "detail"  -> TriggerDetailPreview(off)
          [] t = "submit"  -> StartNext([off EXCEPT !.recent = FALSE])
          [] t = "settle"  -> MaybeScheduleDetail([off EXCEPT !.steady = TRUE])

Fire(t) ==
    /\ t \in ed.timers
    /\ ed' = Fired(ed, t)
    /\ UNCHANGED <<rendered, layers, drags, switches, views, fails>>

\* 16 ms have passed since the last fast request was started.
Elapse ==
    /\ ed.recent
    /\ ed' = [ed EXCEPT !.recent = FALSE]
    /\ UNCHANGED <<rendered, layers, drags, switches, views, fails>>

--------------------------------------------------------------------------------
(* The render thread, and the poll timer that sees its result.                 *)

\* RhiImageRenderer::queueFrame: a frame replaces its layer, and a quality frame
\* of another generation drops the detail patch.
Queued(old, frame, k) ==
    [old EXCEPT ![k] = frame,
                !["detail"] = IF k = "quality" /\ @.gen # frame.gen THEN NoFrame
                              ELSE IF k = "detail" THEN frame ELSE @]

Render ==
    /\ ed.inflight # NoRequest /\ rendered = "none"
    /\ rendered' = "ok"
    /\ layers' = Queued(layers, [gen |-> ed.inflight.gen, serial |-> ed.inflight.serial,
                                 view |-> ed.view, image |-> ed.applied], ed.inflight.kind)
    /\ UNCHANGED <<ed, drags, switches, views, fails>>

RenderFails ==
    /\ ed.inflight # NoRequest /\ rendered = "none" /\ fails < MaxFails
    /\ rendered' = "failed" /\ fails' = fails + 1
    /\ UNCHANGED <<ed, layers, drags, switches, views>>

PollInflight ==
    /\ rendered # "none"
    /\ ed' = OnRenderFinished(ed, rendered = "ok")
    /\ rendered' = "none"
    /\ UNCHANGED <<layers, drags, switches, views, fails>>

--------------------------------------------------------------------------------

Next ==
    \/ \E e \in Edits : Drag(e) \/ RawChoice(e)
    \/ Release \/ Elapse \/ Render \/ RenderFails \/ PollInflight
    \/ \E p \in Panels : Switch(p)
    \/ \E z \in BOOLEAN : MoveView(z)
    \/ \E t \in Timers : Fire(t)

Spec == Init /\ [][Next]_vars

\* Timers expire and the UI polls. Nothing makes the scheduler render what it was
\* given: it may have parked the task, and no render of its own comes after it.
FairSpec ==
    /\ Spec /\ WF_vars(PollInflight)
    /\ \A t \in Timers : WF_vars(Fire(t))

--------------------------------------------------------------------------------
(* What the user sees, and the properties.                                     *)

\* selectedPrimaryTexture: the interactive frame only if it is of a newer
\* generation (prefer_interactive_primary_ is never set).
Displayed ==
    IF layers["fast"].gen > layers["quality"].gen THEN layers["fast"] ELSE layers["quality"]

\* hasVisibleDetailPatch.
PatchVisible ==
    /\ ed.steady /\ ed.zoomed /\ layers["detail"].gen > 0
    /\ ed.token = <<layers["detail"].gen, layers["detail"].serial>>
    /\ layers["quality"].gen = layers["detail"].gen
    /\ layers["detail"].view = ed.view

\* Nothing is asked for, rendered or timed any more.
Settled ==
    /\ ed.inflight = NoRequest /\ ed.timers = {}
    /\ \A k \in Kinds : ed.pending[k] = NoRequest

Requests == [kind : Kinds, gen : Nat, serial : Nat, apply : BOOLEAN, edit : Edits]

TypeOK ==
    /\ ed.edit \in Edits /\ ed.committed \in Edits /\ ed.panel \in Panels
    /\ ed.gen \in Nat /\ ed.ready \in {0, ed.gen} /\ ed.timers \subseteq Timers
    /\ ed.pending \in [Kinds -> Requests \cup {NoRequest}]
    /\ ed.inflight \in Requests \cup {NoRequest}
    /\ rendered \in {"none", "ok", "failed"}

\* "Control changes produce preview updates", "committed crop is used for
\* pipeline render": once everything has settled, the viewer shows the edit,
\* cropped or not as the panel asks for. Not so where a render failed, and where a
\* request that does not apply the edit was started before the fast one that does.
SettledShowsEdit ==
    Settled /\ ~ed.failed /\ ~ed.overtook => Displayed.image = Shown(ed.edit, ed.panel)

\* Once everything has settled, a patch that is visible shows the same edit as
\* the frame it lies on, with the same exceptions.
PatchMatchesBase ==
    Settled /\ ~ed.failed /\ PatchVisible /\ ~ed.overtook =>
        layers["detail"].image = layers["quality"].image

\* A generation whose base is marked as ready has its base on the screen.
ReadyBaseIsShown ==
    ed.ready # 0 => layers["quality"].gen = ed.ready /\ Displayed = layers["quality"]

\* Once everything has settled after a release, a zoomed viewport has its patch,
\* unless a render failed: a failed quality render leaves the patch waiting.
SettledHasPatch ==
    Settled /\ ~ed.failed /\ ~ed.dragging /\ ed.zoomed => PatchVisible

\* What the user looks at when nothing moves any more: the edit, with its patch,
\* and frame and patch of the same edit.
SettledRight == TypeOK /\ SettledShowsEdit /\ PatchMatchesBase /\ SettledHasPatch

\* Every render that was submitted ends, well or not.
RendersEnd == []<>(ed.inflight = NoRequest \/ rendered # "none")

\* If the renders end, the coordinator comes to rest: no request stays behind
\* others, behind the 16 ms or behind a timer for ever.
Settles == RendersEnd => <>[]Settled
================================================================================
