--------------------- MODULE EditorRenderCoordinator_proofs --------------------
(* What TLAPS proves of EditorRenderCoordinator, for any edits and any number of  *)
(* drags, panel switches, viewport changes and failed renders.                    *)
EXTENDS EditorRenderCoordinator, TLAPS

--------------------------------------------------------------------------------
(* Types.                                                                         *)

Images  == [edit : Edits, uncropped : BOOLEAN]
Frames  == [gen : Nat, serial : Nat, view : Nat, image : Images]
MayAsk  == Requests \cup {NoRequest}
Layers  == [Kinds -> Frames \cup {NoFrame}]
Results == {"none", "ok", "failed"}

Eds == [edit : Edits, committed : Edits, dragging : BOOLEAN, panel : Panels,
        applied : Images, fullFrame : BOOLEAN, view : Nat, zoomed : BOOLEAN, steady : BOOLEAN,
        gen : Nat, serial : Nat, ready : Nat, pending : [Kinds -> MayAsk], inflight : MayAsk,
        waiting : BOOLEAN, timers : SUBSET Timers, recent : BOOLEAN, token : Nat \X Nat,
        overtook : BOOLEAN, failed : BOOLEAN]

Pend(c, k) == c.pending[k] # NoRequest
Busy(c)    == c.inflight # NoRequest
Current(c) == Shown(c.edit, c.panel)
Stale(c)   == Busy(c) /\ c.inflight.gen # c.gen

LEMMA RequestFacts ==
  /\ NoRequest.kind = "none" /\ NoRequest \in MayAsk /\ NoRequest \notin Requests
  /\ \A r \in Requests : r.kind \in Kinds /\ r.gen \in Nat /\ r.serial \in Nat
                         /\ r.apply \in BOOLEAN /\ r.edit \in Edits /\ r \in MayAsk
  /\ \A r \in MayAsk : r # NoRequest => r \in Requests
  /\ \A r \in MayAsk : r.kind \in Kinds \cup {"none"} /\ (r.kind = "none" <=> r = NoRequest)
  /\ "none" \notin Kinds /\ Kinds = {"fast", "quality", "detail"}
  BY DEF NoRequest, Requests, MayAsk, Kinds

LEMMA FrameFacts ==
  /\ NoFrame.gen = 0
  /\ \A f \in Frames : f.gen \in Nat /\ f.serial \in Nat /\ f.view \in Nat /\ f.image \in Images
  /\ \A f \in Frames \cup {NoFrame} : f.gen \in Nat /\ (f.gen # 0 => f \in Frames)
  BY DEF NoFrame, Frames

LEMMA ShownFacts ==
  ASSUME NEW e \in Edits, NEW p PROVE Shown(e, p) \in Images
  <1> DEFINE b == p = "geometry"
  <1>1. b \in BOOLEAN
    OBVIOUS
  <1>2. Shown(e, p) = [edit |-> e, uncropped |-> b]
    BY DEF Shown
  <1> HIDE DEF b
  <1> QED
    BY <1>1, <1>2 DEF Images

LEMMA EdTypes ==
  ASSUME NEW c \in Eds
  PROVE  /\ c.edit \in Edits /\ c.committed \in Edits /\ c.dragging \in BOOLEAN
         /\ c.panel \in Panels
         /\ c.applied \in Images /\ c.fullFrame \in BOOLEAN /\ c.view \in Nat
         /\ c.zoomed \in BOOLEAN
         /\ c.steady \in BOOLEAN /\ c.gen \in Nat /\ c.serial \in Nat /\ c.ready \in Nat
         /\ c.pending \in [Kinds -> MayAsk] /\ c.inflight \in MayAsk /\ c.waiting \in BOOLEAN
         /\ c.timers \in SUBSET Timers /\ c.recent \in BOOLEAN /\ c.token \in Nat \X Nat
         /\ c.overtook \in BOOLEAN /\ c.failed \in BOOLEAN
         /\ \A k \in Kinds : c.pending[k] \in MayAsk
  BY DEF Eds

--------------------------------------------------------------------------------
(* What the methods do, field by field.                                           *)

Put(c, k, apply) ==
    [c EXCEPT !.pending[k] =
        [kind |-> k, gen |-> c.gen, serial |-> IF k = "detail" THEN c.serial ELSE 0,
         apply |-> apply, edit |-> c.edit]]

LEMMA PutFacts ==
  ASSUME NEW c \in Eds, NEW k \in Kinds, NEW a \in BOOLEAN
  PROVE  /\ Put(c, k, a) \in Eds
         /\ Put(c, k, a).edit = c.edit /\ Put(c, k, a).committed = c.committed
         /\ Put(c, k, a).dragging = c.dragging /\ Put(c, k, a).panel = c.panel
         /\ Put(c, k, a).applied = c.applied
         /\ Put(c, k, a).fullFrame = c.fullFrame /\ Put(c, k, a).view = c.view
         /\ Put(c, k, a).zoomed = c.zoomed /\ Put(c, k, a).steady = c.steady
         /\ Put(c, k, a).gen = c.gen /\ Put(c, k, a).serial = c.serial
         /\ Put(c, k, a).ready = c.ready /\ Put(c, k, a).inflight = c.inflight
         /\ Put(c, k, a).waiting = c.waiting /\ Put(c, k, a).timers = c.timers
         /\ Put(c, k, a).recent = c.recent /\ Put(c, k, a).token = c.token
         /\ Put(c, k, a).overtook = c.overtook /\ Put(c, k, a).failed = c.failed
         /\ \A j \in Kinds \ {k} : Put(c, k, a).pending[j] = c.pending[j]
         /\ Put(c, k, a).pending[k] \in Requests /\ Put(c, k, a).pending[k].kind = k
         /\ Put(c, k, a).pending[k].gen = c.gen /\ Put(c, k, a).pending[k].edit = c.edit
         /\ Put(c, k, a).pending[k].apply = a
<1> DEFINE r == [kind |-> k, gen |-> c.gen, serial |-> IF k = "detail" THEN c.serial ELSE 0,
                 apply |-> a, edit |-> c.edit]
           ps == [c.pending EXCEPT ![k] = r]
<1>1. r \in Requests /\ r.kind = k /\ r.gen = c.gen /\ r.edit = c.edit /\ r.apply = a
  BY EdTypes DEF Requests
<1>2. Put(c, k, a) = [c EXCEPT !.pending = ps]
  BY EdTypes DEF Put
<1> HIDE DEF r
<1>3. /\ ps \in [Kinds -> MayAsk] /\ ps[k] = r
      /\ \A j \in Kinds \ {k} : ps[j] = c.pending[j]
  BY <1>1, EdTypes DEF MayAsk
<1> HIDE DEF ps
<1>4. /\ Put(c, k, a) \in Eds /\ Put(c, k, a).pending = ps
      /\ Put(c, k, a).edit = c.edit /\ Put(c, k, a).committed = c.committed
      /\ Put(c, k, a).dragging = c.dragging /\ Put(c, k, a).panel = c.panel
      /\ Put(c, k, a).applied = c.applied
      /\ Put(c, k, a).fullFrame = c.fullFrame /\ Put(c, k, a).view = c.view
      /\ Put(c, k, a).zoomed = c.zoomed /\ Put(c, k, a).steady = c.steady
      /\ Put(c, k, a).gen = c.gen /\ Put(c, k, a).serial = c.serial
      /\ Put(c, k, a).ready = c.ready /\ Put(c, k, a).inflight = c.inflight
      /\ Put(c, k, a).waiting = c.waiting /\ Put(c, k, a).timers = c.timers
      /\ Put(c, k, a).recent = c.recent /\ Put(c, k, a).token = c.token
      /\ Put(c, k, a).overtook = c.overtook /\ Put(c, k, a).failed = c.failed
  BY <1>2, <1>3 DEF Eds
<1> QED
  BY <1>1, <1>3, <1>4

LEMMA InvalidateFacts ==
  ASSUME NEW c \in Eds
  PROVE  /\ InvalidateDetailPreviewState(c) \in Eds
         /\ InvalidateDetailPreviewState(c).edit = c.edit
         /\ InvalidateDetailPreviewState(c).committed = c.committed
         /\ InvalidateDetailPreviewState(c).dragging = c.dragging
         /\ InvalidateDetailPreviewState(c).panel = c.panel
         /\ InvalidateDetailPreviewState(c).applied = c.applied
         /\ InvalidateDetailPreviewState(c).fullFrame = c.fullFrame
         /\ InvalidateDetailPreviewState(c).view = c.view
         /\ InvalidateDetailPreviewState(c).zoomed = c.zoomed
         /\ InvalidateDetailPreviewState(c).steady = c.steady
         /\ InvalidateDetailPreviewState(c).gen = c.gen
         /\ InvalidateDetailPreviewState(c).serial = c.serial
         /\ InvalidateDetailPreviewState(c).ready = c.ready
         /\ InvalidateDetailPreviewState(c).inflight = c.inflight
         /\ InvalidateDetailPreviewState(c).recent = c.recent
         /\ InvalidateDetailPreviewState(c).overtook = c.overtook
         /\ InvalidateDetailPreviewState(c).failed = c.failed
         /\ InvalidateDetailPreviewState(c).waiting = FALSE
         /\ InvalidateDetailPreviewState(c).timers = c.timers \ {"detail"}
         /\ InvalidateDetailPreviewState(c).token = NoToken
         /\ InvalidateDetailPreviewState(c).pending["detail"] = NoRequest
         /\ \A j \in Kinds \ {"detail"} : InvalidateDetailPreviewState(c).pending[j] = c.pending[j]
<1> DEFINE ps == [c.pending EXCEPT !["detail"] = NoRequest]
           d == InvalidateDetailPreviewState(c)
<1>1. d = [c EXCEPT !.pending = ps, !.waiting = FALSE, !.timers = c.timers \ {"detail"},
                    !.token = NoToken]
  BY EdTypes DEF InvalidateDetailPreviewState
<1>2. /\ ps \in [Kinds -> MayAsk] /\ ps["detail"] = NoRequest
      /\ \A j \in Kinds \ {"detail"} : ps[j] = c.pending[j]
  BY RequestFacts, EdTypes
<1>3. NoToken \in Nat \X Nat /\ c.timers \ {"detail"} \in SUBSET Timers
  BY EdTypes DEF NoToken
<1> HIDE DEF ps, d
<1>4. /\ d \in Eds /\ d.pending = ps
      /\ d.edit = c.edit /\ d.committed = c.committed /\ d.dragging = c.dragging
      /\ d.panel = c.panel /\ d.applied = c.applied /\ d.fullFrame = c.fullFrame
      /\ d.view = c.view /\ d.zoomed = c.zoomed /\ d.steady = c.steady
      /\ d.gen = c.gen /\ d.serial = c.serial /\ d.ready = c.ready
      /\ d.inflight = c.inflight /\ d.recent = c.recent
      /\ d.overtook = c.overtook /\ d.failed = c.failed /\ d.waiting = FALSE
      /\ d.timers = c.timers \ {"detail"} /\ d.token = NoToken
  BY <1>1, <1>2, <1>3 DEF Eds
<1> QED
  BY <1>2, <1>4 DEF d

LEMMA AdvanceFacts ==
  ASSUME NEW c \in Eds
  PROVE  /\ AdvancePreviewGeneration(c) \in Eds
         /\ AdvancePreviewGeneration(c).edit = c.edit
         /\ AdvancePreviewGeneration(c).committed = c.committed
         /\ AdvancePreviewGeneration(c).dragging = c.dragging
         /\ AdvancePreviewGeneration(c).panel = c.panel
         /\ AdvancePreviewGeneration(c).applied = c.applied
         /\ AdvancePreviewGeneration(c).fullFrame = c.fullFrame
         /\ AdvancePreviewGeneration(c).view = c.view
         /\ AdvancePreviewGeneration(c).zoomed = c.zoomed
         /\ AdvancePreviewGeneration(c).steady = c.steady
         /\ AdvancePreviewGeneration(c).inflight = c.inflight
         /\ AdvancePreviewGeneration(c).recent = c.recent
         /\ AdvancePreviewGeneration(c).overtook = c.overtook
         /\ AdvancePreviewGeneration(c).failed = c.failed
         /\ AdvancePreviewGeneration(c).gen = c.gen + 1
         /\ AdvancePreviewGeneration(c).serial = 0
         /\ AdvancePreviewGeneration(c).ready = 0
         /\ AdvancePreviewGeneration(c).timers = c.timers \ {"quality", "submit", "detail"}
         /\ AdvancePreviewGeneration(c).token = NoToken
         /\ AdvancePreviewGeneration(c).waiting = FALSE
         /\ \A k \in Kinds : AdvancePreviewGeneration(c).pending[k] = NoRequest
<1> DEFINE z  == [k \in Kinds |-> NoRequest]
           ts == c.timers \ {"quality", "submit"}
           b  == [c EXCEPT !.gen = c.gen + 1, !.serial = 0, !.ready = 0, !.pending = z,
                           !.timers = ts]
           d  == AdvancePreviewGeneration(c)
<1>1. z \in [Kinds -> MayAsk] /\ \A k \in Kinds : z[k] = NoRequest
  BY RequestFacts
<1>2. d = InvalidateDetailPreviewState(b)
  BY EdTypes DEF AdvancePreviewGeneration
<1>3. ts \in SUBSET Timers /\ ts \ {"detail"} = c.timers \ {"quality", "submit", "detail"}
      /\ c.gen + 1 \in Nat
  BY EdTypes
<1> HIDE DEF z, ts
<1>4. /\ b \in Eds
      /\ b.edit = c.edit /\ b.committed = c.committed /\ b.dragging = c.dragging
      /\ b.panel = c.panel /\ b.applied = c.applied /\ b.fullFrame = c.fullFrame
      /\ b.view = c.view /\ b.zoomed = c.zoomed /\ b.steady = c.steady
      /\ b.inflight = c.inflight /\ b.waiting = c.waiting /\ b.recent = c.recent
      /\ b.token = c.token /\ b.overtook = c.overtook /\ b.failed = c.failed
      /\ b.gen = c.gen + 1 /\ b.serial = 0 /\ b.ready = 0 /\ b.pending = z
      /\ b.timers = ts
  BY <1>1, <1>3 DEF Eds
<1> HIDE DEF b, d
<1>5. /\ d \in Eds
      /\ d.edit = b.edit /\ d.committed = b.committed /\ d.dragging = b.dragging
      /\ d.panel = b.panel /\ d.applied = b.applied /\ d.fullFrame = b.fullFrame
      /\ d.view = b.view /\ d.zoomed = b.zoomed /\ d.steady = b.steady
      /\ d.gen = b.gen /\ d.serial = b.serial /\ d.ready = b.ready
      /\ d.inflight = b.inflight /\ d.recent = b.recent
      /\ d.overtook = b.overtook /\ d.failed = b.failed /\ d.waiting = FALSE
      /\ d.timers = b.timers \ {"detail"} /\ d.token = NoToken
      /\ d.pending["detail"] = NoRequest
      /\ \A j \in Kinds \ {"detail"} : d.pending[j] = b.pending[j]
  BY <1>2, <1>4, InvalidateFacts
<1>6. \A k \in Kinds : d.pending[k] = NoRequest
  BY <1>1, <1>4, <1>5
<1> QED
  BY <1>3, <1>4, <1>5, <1>6 DEF d

\* The request a start takes from the queue, and what it overtakes.
Behind(c, k) == ~c.pending[k].apply /\ c.pending["fast"] # NoRequest

LEMMA BeginFacts ==
  ASSUME NEW c \in Eds, NEW k \in Kinds, c.pending[k] # NoRequest, c.pending[k].edit = c.edit
  PROVE  /\ Begin(c, k) \in Eds
         /\ Begin(c, k).edit = c.edit /\ Begin(c, k).committed = c.committed
         /\ Begin(c, k).dragging = c.dragging /\ Begin(c, k).panel = c.panel
         /\ Begin(c, k).fullFrame = c.fullFrame /\ Begin(c, k).view = c.view
         /\ Begin(c, k).zoomed = c.zoomed /\ Begin(c, k).steady = c.steady
         /\ Begin(c, k).gen = c.gen /\ Begin(c, k).serial = c.serial
         /\ Begin(c, k).ready = c.ready /\ Begin(c, k).waiting = c.waiting
         /\ Begin(c, k).timers = c.timers /\ Begin(c, k).recent = c.recent
         /\ Begin(c, k).token = c.token /\ Begin(c, k).failed = c.failed
         /\ Begin(c, k).inflight = c.pending[k]
         /\ Begin(c, k).applied = IF c.pending[k].apply THEN Current(c) ELSE c.applied
         /\ Begin(c, k).pending[k] = NoRequest
         /\ \A j \in Kinds \ {k} : Begin(c, k).pending[j] = c.pending[j]
         /\ k = "quality" => (Begin(c, k).overtook <=> Behind(c, k))
         /\ k = "detail" => (Begin(c, k).overtook <=> c.overtook \/ Behind(c, k))
         /\ k = "fast" => Begin(c, k).overtook = c.overtook
<1> DEFINE r  == c.pending[k]
           ps == [c.pending EXCEPT ![k] = NoRequest]
           a  == IF r.apply THEN Current(c) ELSE c.applied
           b  == Behind(c, k)
           o  == CASE k = "quality" -> b [] k = "detail" -> c.overtook \/ b [] k = "fast" -> c.overtook
           d  == Begin(c, k)
<1>1. d = [c EXCEPT !.pending = ps, !.inflight = r, !.applied = a, !.overtook = o]
  BY EdTypes DEF Begin, Behind, Current
<1>2. /\ ps \in [Kinds -> MayAsk] /\ ps[k] = NoRequest
      /\ \A j \in Kinds \ {k} : ps[j] = c.pending[j]
  BY RequestFacts, EdTypes
<1>3. r \in MayAsk /\ a \in Images
  BY EdTypes, ShownFacts DEF Current
<1>4. b \in BOOLEAN
  BY DEF Behind
<1>5. /\ o \in BOOLEAN
      /\ k = "quality" => (o <=> b)
      /\ k = "detail" => (o <=> c.overtook \/ b)
      /\ k = "fast" => o = c.overtook
  <2> HIDE DEF b
  <2>1. c.overtook \in BOOLEAN /\ k \in {"fast", "quality", "detail"}
    BY EdTypes, RequestFacts
  <2> QED
    BY <2>1, <1>4
<1> HIDE DEF ps, r, a, b, o, d
<1>6. /\ d \in Eds /\ d.pending = ps /\ d.inflight = r /\ d.applied = a /\ d.overtook = o
      /\ d.edit = c.edit /\ d.committed = c.committed /\ d.dragging = c.dragging
      /\ d.panel = c.panel /\ d.fullFrame = c.fullFrame /\ d.view = c.view
      /\ d.zoomed = c.zoomed /\ d.steady = c.steady /\ d.gen = c.gen
      /\ d.serial = c.serial /\ d.ready = c.ready /\ d.waiting = c.waiting
      /\ d.timers = c.timers /\ d.recent = c.recent /\ d.token = c.token
      /\ d.failed = c.failed
  BY <1>1, <1>2, <1>3, <1>5 DEF Eds
<1> QED
  BY <1>2, <1>5, <1>6 DEF d, r, a, b


--------------------------------------------------------------------------------
(* The invariant, of the coordinator c, what became of its request (rd) and what  *)
(* the viewer holds (ly).                                                         *)

\* An edit that has not been applied has a request that will apply it.
Owed(c) == Pend(c, "fast") \/ (Pend(c, "quality") /\ c.pending["quality"].apply)

RequestsRight(c) ==
    /\ \A k \in Kinds : Pend(c, k) =>
         /\ c.pending[k].kind = k /\ c.pending[k].gen = c.gen /\ c.pending[k].edit = c.edit
         /\ k = "fast" => c.pending[k].apply
         /\ k = "detail" => ~c.pending[k].apply
    /\ Busy(c) => c.inflight.gen <= c.gen
    /\ c.gen >= 1 /\ c.ready \in {0, c.gen}
    /\ c.ready # 0 => ~c.fullFrame /\ ~Stale(c)
    /\ ~c.dragging => c.edit = c.committed
    /\ c.panel = "raw" => ~c.dragging
    /\ c.token = NoToken \/ c.token[1] = c.gen
    /\ c.steady \/ "settle" \in c.timers
    /\ Stale(c) => Pend(c, "fast") \/ Pend(c, "quality")

\* A quality request put in the place of one that applies the edit does so only
\* where a fast one is behind it.
AppliedRight(c) ==
    /\ ~Owed(c) => c.applied = Current(c)
    /\ Busy(c) /\ ~Stale(c) /\ (c.inflight.kind = "fast" \/ ~c.overtook) => c.applied = Current(c)
    /\ "quality" \in c.timers => Pend(c, "fast") \/ c.applied = Current(c)

\* A quality frame of the current generation is shown, is coming, or has failed.
BaseComing(c) ==
    /\ ~c.dragging =>
         \/ c.ready # 0 \/ Pend(c, "quality") \/ "quality" \in c.timers \/ c.failed
         \/ c.inflight.kind = "quality" /\ ~Stale(c)
    /\ ~c.dragging /\ Stale(c) => Pend(c, "quality") \/ "quality" \in c.timers

FramesRight(c, rd, ly) ==
    /\ rd # "none" => Busy(c)
    /\ \A k \in Kinds : ly[k].gen <= c.gen /\ (Stale(c) => ly[k].gen # c.gen)
    /\ rd = "ok" => /\ ly[c.inflight.kind].gen = c.inflight.gen
                    /\ ly[c.inflight.kind].serial = c.inflight.serial
                    /\ ly[c.inflight.kind].image = c.applied
    /\ c.ready # 0 => ly["quality"].gen = c.gen
    /\ ly["fast"].gen = c.gen => ly["fast"].image = Current(c)
    /\ ly["quality"].gen = c.gen /\ ~c.overtook /\ ~c.failed =>
         ly["quality"].image = Current(c) \/ (c.inflight.kind = "quality" /\ rd # "ok")
    /\ \/ ly["fast"].gen = c.gen \/ ly["quality"].gen = c.gen
       \/ Pend(c, "fast") \/ Pend(c, "quality") \/ c.failed
       \/ c.inflight.kind \in {"fast", "quality"} /\ ~Stale(c)

DetailDue(c, rd) ==
    "detail" \in c.timers \/ Pend(c, "detail") \/ (c.inflight.kind = "detail" /\ rd # "ok")

PatchIsFresh(c, ly) ==
    /\ ly["detail"].gen = c.gen /\ ly["detail"].view = c.view
    /\ c.token = <<c.gen, ly["detail"].serial>>

PatchRight(c, rd, ly) ==
    /\ ly["detail"].gen = c.gen => ly["detail"].view <= c.view
    /\ /\ ly["detail"].gen = c.gen /\ c.token # NoToken /\ c.zoomed /\ ly["detail"].view = c.view
       /\ ~c.failed /\ ~c.overtook
       => ly["detail"].image = Current(c) \/ DetailDue(c, rd) \/ c.inflight.kind = "quality"
    /\ c.zoomed /\ c.ready # 0 /\ ~c.failed =>
         \/ PatchIsFresh(c, ly) \/ "settle" \in c.timers \/ "detail" \in c.timers
         \/ Pend(c, "detail") \/ c.inflight.kind = "detail"
    /\ rd = "ok" /\ c.inflight.kind = "detail" /\ c.zoomed /\ c.ready # 0 =>
         \/ ly["detail"].view = c.view
         \/ "settle" \in c.timers \/ "detail" \in c.timers \/ Pend(c, "detail")

Core(c, rd, ly) == RequestsRight(c) /\ AppliedRight(c) /\ FramesRight(c, rd, ly) /\ PatchRight(c, rd, ly)

EdInv(c, rd, ly) == Core(c, rd, ly) /\ BaseComing(c)

\* What the invariant does not read.
LEMMA Irrelevant ==
  ASSUME NEW c, NEW d, NEW rd, NEW ly,
         d.edit = c.edit /\ d.dragging = c.dragging /\ d.panel = c.panel /\ d.applied = c.applied /\ d.fullFrame = c.fullFrame,
         d.view = c.view /\ d.zoomed = c.zoomed /\ d.steady = c.steady /\ d.gen = c.gen /\ d.ready = c.ready,
         d.pending = c.pending /\ d.inflight = c.inflight /\ d.token = c.token /\ d.overtook = c.overtook /\ d.failed = c.failed,
         d.committed = c.committed,
         \A t \in {"quality", "detail", "settle"} : t \in d.timers <=> t \in c.timers
  PROVE  /\ Core(c, rd, ly) => Core(d, rd, ly)
         /\ BaseComing(c) => BaseComing(d)
<1>1. RequestsRight(c) => RequestsRight(d)
  BY DEF RequestsRight, Pend, Busy, Stale
<1>2. AppliedRight(c) => AppliedRight(d)
  BY DEF AppliedRight, Pend, Busy, Stale, Owed, Current
<1>3. FramesRight(c, rd, ly) => FramesRight(d, rd, ly)
  BY DEF FramesRight, Pend, Busy, Stale, Current
<1>4. PatchRight(c, rd, ly) => PatchRight(d, rd, ly)
  BY DEF PatchRight, Pend, Current, PatchIsFresh, DetailDue
<1>5. BaseComing(c) => BaseComing(d)
  BY DEF BaseComing, Pend, Busy, Stale
<1> QED
  BY <1>1, <1>2, <1>3, <1>4, <1>5 DEF Core

--------------------------------------------------------------------------------
(* A request is started.                                                          *)

LEMMA BeginKeeps ==
  ASSUME NEW c \in Eds, NEW rd \in Results, NEW ly \in Layers, Core(c, rd, ly), ~Busy(c),
         NEW k \in Kinds, Pend(c, k), k # "quality" => ~Pend(c, "quality")
  PROVE  /\ Begin(c, k) \in Eds /\ Core(Begin(c, k), rd, ly)
         /\ BaseComing(c) => BaseComing(Begin(c, k))
         /\ Pend(c, "fast") => Pend(Begin(c, k), "fast") \/ Begin(c, k).applied = Current(Begin(c, k))
         /\ Begin(c, k).dragging = c.dragging
<1> DEFINE d == Begin(c, k)
           r == c.pending[k]
<1>1. /\ r \in Requests /\ r.kind = k /\ r.gen = c.gen /\ r.edit = c.edit
      /\ (k = "fast" => r.apply) /\ (k = "detail" => ~r.apply) /\ r # NoRequest
  BY RequestFacts, EdTypes DEF Core, RequestsRight, Pend
<1>2. /\ d \in Eds /\ d.inflight = r
      /\ d.edit = c.edit /\ d.committed = c.committed /\ d.dragging = c.dragging
      /\ d.panel = c.panel /\ d.fullFrame = c.fullFrame /\ d.view = c.view
      /\ d.zoomed = c.zoomed /\ d.steady = c.steady /\ d.gen = c.gen
      /\ d.serial = c.serial /\ d.ready = c.ready /\ d.waiting = c.waiting
      /\ d.timers = c.timers /\ d.recent = c.recent /\ d.token = c.token
      /\ d.failed = c.failed
      /\ d.applied = IF r.apply THEN Current(c) ELSE c.applied
      /\ d.pending[k] = NoRequest /\ \A j \in Kinds \ {k} : d.pending[j] = c.pending[j]
      /\ k = "quality" => (d.overtook <=> Behind(c, k))
      /\ k = "detail" => (d.overtook <=> c.overtook \/ Behind(c, k))
      /\ k = "fast" => d.overtook = c.overtook
  BY <1>1, BeginFacts DEF Pend
<1>3. Current(d) = Current(c)
  BY <1>2 DEF Current
<1>4. rd = "none" /\ rd # "ok"
  BY DEF Core, FramesRight, Results
<1>5. /\ k \in {"fast", "quality", "detail"} /\ "fast" \in Kinds /\ "quality" \in Kinds
      /\ "detail" \in Kinds
  BY RequestFacts
<1> HIDE DEF d, r
<1>6. Busy(d) /\ ~Stale(d) /\ ~Stale(c) /\ d.inflight.kind = k /\ d.inflight.gen = d.gen
      /\ (k # "fast" => c.inflight.kind # "fast")
  BY <1>1, <1>2, RequestFacts DEF Busy, Stale
<1>7. \A j \in Kinds : Pend(d, j) <=> Pend(c, j) /\ j # k
  BY <1>2 DEF Pend
<1>8. (k # "fast" => Pend(d, "fast") = Pend(c, "fast")) /\ (Behind(c, k) <=> ~r.apply /\ Pend(c, "fast"))
  BY <1>5, <1>7 DEF Behind, Pend, r
<1>9. RequestsRight(c) /\ AppliedRight(c) /\ FramesRight(c, rd, ly) /\ PatchRight(c, rd, ly)
  BY DEF Core
<1>10. RequestsRight(d)
  <2>1. \A j \in Kinds : Pend(d, j) => Pend(c, j) /\ d.pending[j] = c.pending[j]
    BY <1>2, <1>7
  <2> QED
    BY <1>2, <1>6, <1>9, <2>1, EdTypes DEF RequestsRight
<1>11. d.applied = Current(d) \/ Pend(d, "fast")
  BY <1>1, <1>2, <1>3, <1>5, <1>7, <1>9 DEF AppliedRight, Owed, r
<1>11b. ~d.overtook \/ k = "fast" => d.applied = Current(d)
  <2>1. CASE k = "fast"
    BY <1>1, <1>2, <1>3, <2>1
  <2>2. CASE k # "fast"
    <3>1. CASE r.apply
      BY <1>2, <1>3, <3>1
    <3>2. CASE ~r.apply
      <4>1. ~d.overtook => ~Pend(c, "fast")
        BY <1>2, <1>5, <1>8, <2>2, <3>2
      <4>2. ~Pend(c, "fast") => ~Owed(c)
        BY <1>5, <2>2, <3>2 DEF Owed, r
      <4> QED
        BY <1>2, <1>3, <1>9, <2>2, <3>2, <4>1, <4>2 DEF AppliedRight
    <3> QED
      BY <3>1, <3>2
  <2> QED
    BY <2>1, <2>2
<1>12. AppliedRight(d)
  BY <1>6, <1>11, <1>11b DEF AppliedRight, Owed
<1>13. d.overtook = c.overtook \/ k = "quality" \/ (k = "detail" /\ (c.overtook => d.overtook))
  BY <1>2, <1>5
<1>14. c.inflight.kind = "none"
  BY RequestFacts DEF Busy
<1>15. FramesRight(d, rd, ly)
  BY <1>2, <1>3, <1>4, <1>5, <1>6, <1>7, <1>9, <1>13, <1>14 DEF FramesRight
<1>16. PatchRight(d, rd, ly)
  BY <1>2, <1>3, <1>4, <1>5, <1>6, <1>7, <1>9, <1>13, <1>14 DEF PatchRight, DetailDue,
    PatchIsFresh
<1>17. BaseComing(c) => BaseComing(d)
  BY <1>2, <1>5, <1>6, <1>7, <1>14 DEF BaseComing
<1> QED
  BY <1>2, <1>10, <1>11, <1>12, <1>15, <1>16, <1>17 DEF Core, d

LEMMA StartNextKeeps ==
  ASSUME NEW c \in Eds, NEW rd \in Results, NEW ly \in Layers, Core(c, rd, ly)
  PROVE  /\ StartNext(c) \in Eds /\ Core(StartNext(c), rd, ly)
         /\ BaseComing(c) => BaseComing(StartNext(c))
         /\ Pend(c, "fast") => \/ Pend(StartNext(c), "fast")
                               \/ StartNext(c).applied = Current(StartNext(c))
         /\ StartNext(c).dragging = c.dragging
<1> DEFINE d == StartNext(c)
           s == [c EXCEPT !.timers = @ \cup {"submit"}]
           q == [c EXCEPT !.recent = TRUE, !.timers = @ \ {"submit"}]
<1>1. \/ d = c
      \/ d = s
      \/ ~Busy(c) /\ Pend(c, "quality") /\ d = Begin(c, "quality")
      \/ ~Busy(c) /\ Pend(c, "detail") /\ ~Pend(c, "quality") /\ d = Begin(c, "detail")
      \/ ~Busy(c) /\ Pend(c, "fast") /\ ~Pend(c, "quality") /\ d = Begin(q, "fast")
  BY DEF StartNext, Busy, Pend
<1>2. /\ s \in Eds
      /\ s.edit = c.edit /\ s.committed = c.committed /\ s.dragging = c.dragging
      /\ s.panel = c.panel /\ s.applied = c.applied /\ s.fullFrame = c.fullFrame
      /\ s.view = c.view /\ s.zoomed = c.zoomed /\ s.steady = c.steady
      /\ s.gen = c.gen /\ s.serial = c.serial /\ s.ready = c.ready
      /\ s.pending = c.pending /\ s.inflight = c.inflight
      /\ s.waiting = c.waiting /\ s.recent = c.recent /\ s.token = c.token
      /\ s.overtook = c.overtook /\ s.failed = c.failed
      /\ s.timers = c.timers \cup {"submit"}
  BY DEF Eds, Timers
<1>3. /\ q \in Eds
      /\ q.edit = c.edit /\ q.committed = c.committed /\ q.dragging = c.dragging
      /\ q.panel = c.panel /\ q.applied = c.applied /\ q.fullFrame = c.fullFrame
      /\ q.view = c.view /\ q.zoomed = c.zoomed /\ q.steady = c.steady
      /\ q.gen = c.gen /\ q.serial = c.serial /\ q.ready = c.ready
      /\ q.pending = c.pending /\ q.inflight = c.inflight
      /\ q.waiting = c.waiting /\ q.token = c.token /\ q.overtook = c.overtook
      /\ q.failed = c.failed /\ q.recent = TRUE
      /\ q.timers = c.timers \ {"submit"}
  BY DEF Eds
<1> HIDE DEF s, q, d
<1>4. "fast" \in Kinds /\ "quality" \in Kinds /\ "detail" \in Kinds
  BY RequestFacts
<1>5. CASE d = s
  <2>1. Core(s, rd, ly) /\ (BaseComing(c) => BaseComing(s))
    BY <1>2, Irrelevant
  <2>2. Pend(c, "fast") => Pend(s, "fast")
    BY <1>2 DEF Pend
  <2> QED
    BY <1>2, <1>5, <2>1, <2>2 DEF d
<1>6. CASE ~Busy(c) /\ Pend(c, "quality") /\ d = Begin(c, "quality")
  BY <1>4, <1>6, BeginKeeps DEF d
<1>7. CASE ~Busy(c) /\ Pend(c, "detail") /\ ~Pend(c, "quality") /\ d = Begin(c, "detail")
  BY <1>4, <1>7, BeginKeeps DEF d
<1>8. CASE ~Busy(c) /\ Pend(c, "fast") /\ ~Pend(c, "quality") /\ d = Begin(q, "fast")
  <2>1. Core(q, rd, ly) /\ (BaseComing(c) => BaseComing(q))
    BY <1>3, Irrelevant
  <2>2. ~Busy(q) /\ Pend(q, "fast") /\ ~Pend(q, "quality")
    BY <1>3, <1>8 DEF Busy, Pend
  <2> QED
    BY <1>3, <1>4, <1>8, <2>1, <2>2, BeginKeeps DEF d
<1>9. CASE d = c
  BY <1>9 DEF d
<1> QED
  BY <1>1, <1>5, <1>6, <1>7, <1>8, <1>9

--------------------------------------------------------------------------------
(* A request is asked for.                                                        *)

LEMMA PutKeeps ==
  ASSUME NEW c \in Eds, NEW rd \in Results, NEW ly \in Layers, Core(c, rd, ly),
         NEW k \in Kinds, NEW a \in BOOLEAN, k = "fast" => a, k = "detail" => ~a,
         k = "quality" => a \/ Pend(c, "fast") \/ c.applied = Current(c)
  PROVE  /\ Put(c, k, a) \in Eds /\ Core(Put(c, k, a), rd, ly) /\ Pend(Put(c, k, a), k)
         /\ BaseComing(c) \/ k = "quality" => BaseComing(Put(c, k, a))
         /\ Put(c, k, a).dragging = c.dragging
<1> DEFINE d == Put(c, k, a)
<1>1. /\ d \in Eds
      /\ d.edit = c.edit /\ d.committed = c.committed /\ d.dragging = c.dragging
      /\ d.panel = c.panel /\ d.applied = c.applied /\ d.fullFrame = c.fullFrame
      /\ d.view = c.view /\ d.zoomed = c.zoomed /\ d.steady = c.steady
      /\ d.gen = c.gen /\ d.serial = c.serial /\ d.ready = c.ready
      /\ d.inflight = c.inflight /\ d.waiting = c.waiting /\ d.timers = c.timers
      /\ d.recent = c.recent /\ d.token = c.token /\ d.overtook = c.overtook
      /\ d.failed = c.failed
      /\ \A j \in Kinds \ {k} : d.pending[j] = c.pending[j]
      /\ d.pending[k] \in Requests /\ d.pending[k].kind = k
      /\ d.pending[k].gen = c.gen /\ d.pending[k].edit = c.edit /\ d.pending[k].apply = a
  BY PutFacts
<1> HIDE DEF d
<1>2. /\ Pend(d, k) /\ \A j \in Kinds \ {k} : Pend(d, j) = Pend(c, j)
      /\ Busy(d) = Busy(c) /\ Stale(d) = Stale(c) /\ Current(d) = Current(c)
  BY <1>1, RequestFacts DEF Pend, Busy, Stale, Current
<1>3. RequestsRight(c) /\ AppliedRight(c) /\ FramesRight(c, rd, ly) /\ PatchRight(c, rd, ly)
  BY DEF Core
<1>4. /\ k \in {"fast", "quality", "detail"} /\ "fast" \in Kinds /\ "quality" \in Kinds
      /\ "detail" \in Kinds
  BY RequestFacts
<1>5. RequestsRight(d)
  <2>1. ASSUME NEW j \in Kinds, Pend(d, j)
        PROVE  /\ d.pending[j].kind = j /\ d.pending[j].gen = d.gen
               /\ d.pending[j].edit = d.edit
               /\ (j = "fast" => d.pending[j].apply) /\ (j = "detail" => ~d.pending[j].apply)
    <3>1. CASE j = k
      BY <1>1, <3>1
    <3>2. CASE j # k
      BY <1>1, <1>2, <1>3, <2>1, <3>2 DEF RequestsRight
    <3> QED
      BY <3>1, <3>2
  <2> QED
    BY <1>1, <1>2, <1>3, <1>4, <2>1 DEF RequestsRight
<1>6. AppliedRight(d)
  <2>1. ~Owed(d) => d.applied = Current(d)
    <3>1. CASE k = "fast"
      BY <1>2, <3>1 DEF Owed
    <3>2. CASE k = "quality"
      BY <1>1, <1>2, <1>4, <3>2 DEF Owed
    <3>3. CASE k = "detail"
      BY <1>1, <1>2, <1>3, <1>4, <3>3 DEF Owed, AppliedRight
    <3> QED
      BY <1>4, <3>1, <3>2, <3>3
  <2> QED
    BY <1>1, <1>2, <1>3, <1>4, <2>1 DEF AppliedRight
<1>7. FramesRight(d, rd, ly)
  BY <1>1, <1>2, <1>3, <1>4 DEF FramesRight
<1>8. PatchRight(d, rd, ly)
  BY <1>1, <1>2, <1>3, <1>4 DEF PatchRight, DetailDue, PatchIsFresh
<1>9. BaseComing(c) \/ k = "quality" => BaseComing(d)
  BY <1>1, <1>2, <1>4 DEF BaseComing
<1> QED
  BY <1>1, <1>2, <1>5, <1>6, <1>7, <1>8, <1>9 DEF Core, d

\* What a change of the generation needs.
Weak(c, rd, ly) ==
    /\ Busy(c) => c.inflight.gen <= c.gen
    /\ c.panel = "raw" => ~c.dragging
    /\ c.steady \/ "settle" \in c.timers
    /\ rd # "none" => Busy(c)
    /\ \A k \in Kinds : ly[k].gen <= c.gen
    /\ rd = "ok" => /\ ly[c.inflight.kind].gen = c.inflight.gen
                    /\ ly[c.inflight.kind].serial = c.inflight.serial
                    /\ ly[c.inflight.kind].image = c.applied

LEMMA CoreIsWeak == \A c, rd, ly : Core(c, rd, ly) => Weak(c, rd, ly)
  BY DEF Core, RequestsRight, FramesRight, Weak

\* y is c in the next generation.
Advanced(y, c) ==
    /\ y.edit = c.edit /\ y.committed = c.committed /\ y.dragging = c.dragging
    /\ y.panel = c.panel /\ y.applied = c.applied /\ y.fullFrame = c.fullFrame
    /\ y.view = c.view /\ y.zoomed = c.zoomed /\ y.steady = c.steady
    /\ y.inflight = c.inflight /\ y.recent = c.recent
    /\ y.overtook = c.overtook /\ y.failed = c.failed /\ y.gen = c.gen + 1
    /\ y.ready = 0 /\ y.token = NoToken
    /\ \A k \in Kinds : ~Pend(y, k)
    /\ "quality" \notin y.timers /\ ("settle" \in y.timers <=> "settle" \in c.timers)

LEMMA AdvancedKeeps ==
  ASSUME NEW c \in Eds, NEW y \in Eds, NEW rd \in Results, NEW ly \in Layers, Weak(c, rd, ly),
         Advanced(y, c), ~c.dragging => c.edit = c.committed,
         NEW k \in {"fast", "quality"}, NEW a \in BOOLEAN, k = "fast" => a,
         a \/ c.applied = Current(c)
  PROVE  /\ Put(y, k, a) \in Eds /\ Core(Put(y, k, a), rd, ly) /\ Pend(Put(y, k, a), k)
         /\ c.dragging \/ k = "quality" => BaseComing(Put(y, k, a))
         /\ Put(y, k, a).dragging = c.dragging
<1> DEFINE d == Put(y, k, a)
<1>0. k \in Kinds /\ "fast" \in Kinds /\ "quality" \in Kinds /\ "detail" \in Kinds
  BY RequestFacts
<1>1. /\ d \in Eds
      /\ d.edit = y.edit /\ d.committed = y.committed /\ d.dragging = y.dragging
      /\ d.panel = y.panel /\ d.applied = y.applied /\ d.fullFrame = y.fullFrame
      /\ d.view = y.view /\ d.zoomed = y.zoomed /\ d.steady = y.steady
      /\ d.gen = y.gen /\ d.serial = y.serial /\ d.ready = y.ready
      /\ d.inflight = y.inflight /\ d.waiting = y.waiting /\ d.timers = y.timers
      /\ d.recent = y.recent /\ d.token = y.token /\ d.overtook = y.overtook
      /\ d.failed = y.failed
      /\ \A j \in Kinds \ {k} : d.pending[j] = y.pending[j]
      /\ d.pending[k] \in Requests /\ d.pending[k].kind = k
      /\ d.pending[k].gen = y.gen /\ d.pending[k].edit = y.edit /\ d.pending[k].apply = a
  BY <1>0, PutFacts
<1> HIDE DEF d
<1>2. Pend(d, k) /\ \A j \in Kinds \ {k} : ~Pend(d, j)
  BY <1>1, RequestFacts DEF Pend, Advanced
<1>3. /\ d.edit = c.edit /\ d.committed = c.committed /\ d.dragging = c.dragging
      /\ d.panel = c.panel /\ d.applied = c.applied /\ d.steady = c.steady
      /\ d.inflight = c.inflight
      /\ d.gen = c.gen + 1 /\ d.ready = 0 /\ d.token = NoToken /\ d.failed = c.failed
      /\ "quality" \notin d.timers /\ ("settle" \in d.timers <=> "settle" \in c.timers)
  BY <1>1 DEF Advanced
<1>4. Busy(d) = Busy(c) /\ Current(d) = Current(c) /\ (Busy(d) => Stale(d))
  <2>1. Busy(c) => c.inflight.gen <= c.gen /\ c.inflight.gen \in Nat
    BY RequestFacts, EdTypes DEF Weak, Busy
  <2> QED
    BY <1>3, <2>1, EdTypes DEF Busy, Current, Stale
<1>5. /\ \A j \in Kinds : ly[j].gen \in Nat /\ ly[j].gen <= c.gen /\ ly[j].gen # d.gen /\ ly[j].gen <= d.gen
      /\ c.gen \in Nat
  BY <1>3, FrameFacts, EdTypes DEF Weak, Layers
<1>6. RequestsRight(d)
  <2>1. \A j \in Kinds : Pend(d, j) => j = k
    BY <1>2
  <2>2. (Busy(d) => d.inflight.gen <= d.gen) /\ d.gen >= 1
    <3>1. Busy(c) => c.inflight.gen <= c.gen /\ c.inflight.gen \in Nat
      BY RequestFacts, EdTypes DEF Weak, Busy
    <3> QED
      BY <1>3, <1>4, <1>5, <3>1
  <2>3. d.pending[k].kind = k /\ d.pending[k].gen = d.gen /\ d.pending[k].edit = d.edit
        /\ (k = "fast" => d.pending[k].apply) /\ k # "detail"
    BY <1>1
  <2>4. Pend(d, "fast") \/ Pend(d, "quality")
    BY <1>2
  <2> QED
    BY <1>3, <2>1, <2>2, <2>3, <2>4 DEF RequestsRight, Weak
<1>7. AppliedRight(d)
  BY <1>1, <1>2, <1>3, <1>4 DEF AppliedRight, Owed
<1>8. FramesRight(d, rd, ly)
  BY <1>0, <1>2, <1>3, <1>4, <1>5 DEF FramesRight, Weak
<1>9. PatchRight(d, rd, ly)
  BY <1>0, <1>3, <1>5 DEF PatchRight
<1>10. c.dragging \/ k = "quality" => BaseComing(d)
  BY <1>2, <1>3 DEF BaseComing
<1> QED
  BY <1>1, <1>2, <1>3, <1>6, <1>7, <1>8, <1>9, <1>10 DEF Core, d

LEMMA AdvanceAdvances ==
  ASSUME NEW c \in Eds
  PROVE  AdvancePreviewGeneration(c) \in Eds /\ Advanced(AdvancePreviewGeneration(c), c)
  BY AdvanceFacts DEF Advanced, Pend

\* A request is put into the queue and started if it can be.
LEMMA EnqueueIs ==
  \A c, k, a : EnqueueRenderRequest(c, k, a) = StartNext(Put(c, k, a))
  BY DEF EnqueueRenderRequest, Put

--------------------------------------------------------------------------------
(* Timers.                                                                        *)

LEMMA TimerFacts ==
  ASSUME NEW c \in Eds, NEW ts \in SUBSET Timers
  PROVE  /\ [c EXCEPT !.timers = ts] \in Eds
         /\ [c EXCEPT !.timers = ts].edit = c.edit
         /\ [c EXCEPT !.timers = ts].committed = c.committed
         /\ [c EXCEPT !.timers = ts].dragging = c.dragging
         /\ [c EXCEPT !.timers = ts].panel = c.panel
         /\ [c EXCEPT !.timers = ts].applied = c.applied
         /\ [c EXCEPT !.timers = ts].fullFrame = c.fullFrame
         /\ [c EXCEPT !.timers = ts].view = c.view
         /\ [c EXCEPT !.timers = ts].zoomed = c.zoomed
         /\ [c EXCEPT !.timers = ts].steady = c.steady
         /\ [c EXCEPT !.timers = ts].gen = c.gen
         /\ [c EXCEPT !.timers = ts].serial = c.serial
         /\ [c EXCEPT !.timers = ts].ready = c.ready
         /\ [c EXCEPT !.timers = ts].pending = c.pending
         /\ [c EXCEPT !.timers = ts].inflight = c.inflight
         /\ [c EXCEPT !.timers = ts].waiting = c.waiting
         /\ [c EXCEPT !.timers = ts].recent = c.recent
         /\ [c EXCEPT !.timers = ts].token = c.token
         /\ [c EXCEPT !.timers = ts].overtook = c.overtook
         /\ [c EXCEPT !.timers = ts].failed = c.failed
         /\ [c EXCEPT !.timers = ts].timers = ts
  BY EdTypes DEF Eds

\* Without its timer a quality frame may no longer be coming.
LEMMA QualityTimerOff ==
  ASSUME NEW c \in Eds, NEW rd \in Results, NEW ly \in Layers, Core(c, rd, ly)
  PROVE  /\ [c EXCEPT !.timers = @ \ {"quality"}] \in Eds
         /\ Core([c EXCEPT !.timers = @ \ {"quality"}], rd, ly)
<1> DEFINE ts == c.timers \ {"quality"}
           d == [c EXCEPT !.timers = ts]
<1>1. ts \in SUBSET Timers /\ "quality" \notin ts
      /\ \A t \in {"detail", "settle"} : t \in ts <=> t \in c.timers
  BY EdTypes
<1> HIDE DEF ts
<1>2. /\ d \in Eds
      /\ d.edit = c.edit /\ d.committed = c.committed /\ d.dragging = c.dragging
      /\ d.panel = c.panel /\ d.applied = c.applied /\ d.fullFrame = c.fullFrame
      /\ d.view = c.view /\ d.zoomed = c.zoomed /\ d.steady = c.steady
      /\ d.gen = c.gen /\ d.serial = c.serial /\ d.ready = c.ready
      /\ d.pending = c.pending /\ d.inflight = c.inflight
      /\ d.waiting = c.waiting /\ d.recent = c.recent /\ d.token = c.token
      /\ d.overtook = c.overtook /\ d.failed = c.failed /\ d.timers = ts
  BY <1>1, TimerFacts
<1> HIDE DEF d
<1>3. \A k : Pend(d, k) = Pend(c, k)
  BY <1>2 DEF Pend
<1>4. Busy(d) = Busy(c) /\ Stale(d) = Stale(c) /\ Current(d) = Current(c) /\ Owed(d) = Owed(c)
  BY <1>2 DEF Busy, Stale, Current, Owed, Pend
<1>5. RequestsRight(d)
  BY <1>1, <1>2, <1>3, <1>4 DEF RequestsRight, Core
<1>6. AppliedRight(d)
  BY <1>1, <1>2, <1>3, <1>4 DEF AppliedRight, Core
<1>7. FramesRight(d, rd, ly)
  BY <1>2, <1>3, <1>4 DEF FramesRight, Core
<1>8. PatchRight(d, rd, ly)
  BY <1>1, <1>2, <1>3, <1>4 DEF PatchRight, DetailDue, PatchIsFresh, Core
<1> QED
  BY <1>2, <1>5, <1>6, <1>7, <1>8 DEF Core, d, ts

LEMMA QualityTimerOn ==
  ASSUME NEW c \in Eds, NEW rd \in Results, NEW ly \in Layers, Core(c, rd, ly),
         Pend(c, "fast") \/ c.applied = Current(c)
  PROVE  /\ [c EXCEPT !.timers = @ \cup {"quality"}] \in Eds
         /\ EdInv([c EXCEPT !.timers = @ \cup {"quality"}], rd, ly)
<1> DEFINE ts == c.timers \cup {"quality"}
           d == [c EXCEPT !.timers = ts]
<1>1. ts \in SUBSET Timers /\ "quality" \in ts
      /\ \A t \in {"detail", "settle"} : t \in ts <=> t \in c.timers
  BY EdTypes DEF Timers
<1> HIDE DEF ts
<1>2. /\ d \in Eds
      /\ d.edit = c.edit /\ d.committed = c.committed /\ d.dragging = c.dragging
      /\ d.panel = c.panel /\ d.applied = c.applied /\ d.fullFrame = c.fullFrame
      /\ d.view = c.view /\ d.zoomed = c.zoomed /\ d.steady = c.steady
      /\ d.gen = c.gen /\ d.serial = c.serial /\ d.ready = c.ready
      /\ d.pending = c.pending /\ d.inflight = c.inflight
      /\ d.waiting = c.waiting /\ d.recent = c.recent /\ d.token = c.token
      /\ d.overtook = c.overtook /\ d.failed = c.failed /\ d.timers = ts
  BY <1>1, TimerFacts
<1> HIDE DEF d
<1>3. \A k : Pend(d, k) = Pend(c, k)
  BY <1>2 DEF Pend
<1>4. Busy(d) = Busy(c) /\ Stale(d) = Stale(c) /\ Current(d) = Current(c) /\ Owed(d) = Owed(c)
  BY <1>2 DEF Busy, Stale, Current, Owed, Pend
<1>5. RequestsRight(d)
  BY <1>1, <1>2, <1>3, <1>4 DEF RequestsRight, Core
<1>6. AppliedRight(d)
  BY <1>1, <1>2, <1>3, <1>4 DEF AppliedRight, Core
<1>7. FramesRight(d, rd, ly)
  BY <1>2, <1>3, <1>4 DEF FramesRight, Core
<1>8. PatchRight(d, rd, ly)
  BY <1>1, <1>2, <1>3, <1>4 DEF PatchRight, DetailDue, PatchIsFresh, Core
<1>9. BaseComing(d)
  BY <1>1, <1>2 DEF BaseComing
<1> QED
  BY <1>2, <1>5, <1>6, <1>7, <1>8, <1>9 DEF Core, EdInv, d, ts

LEMMA RequestQualityKeeps ==
  ASSUME NEW c \in Eds, NEW rd \in Results, NEW ly \in Layers, Core(c, rd, ly),
         NEW a \in BOOLEAN, a \/ Pend(c, "fast") \/ c.applied = Current(c)
  PROVE  /\ RequestQualityPreview(c, a) \in Eds /\ EdInv(RequestQualityPreview(c, a), rd, ly)
         /\ RequestQualityPreview(c, a).dragging = c.dragging
<1> DEFINE y == [c EXCEPT !.timers = @ \ {"quality"}]
<1>1. y \in Eds /\ Core(y, rd, ly)
  BY QualityTimerOff
<1>2. y.applied = c.applied /\ y.dragging = c.dragging /\ Current(y) = Current(c) /\ Pend(y, "fast") = Pend(c, "fast")
  BY DEF Eds, Current, Pend
<1>3. RequestQualityPreview(c, a) = StartNext(Put(y, "quality", a)) /\ "quality" \in Kinds
  BY EnqueueIs, RequestFacts DEF RequestQualityPreview
<1> HIDE DEF y
<1>4. /\ Put(y, "quality", a) \in Eds /\ Core(Put(y, "quality", a), rd, ly)
      /\ BaseComing(Put(y, "quality", a)) /\ Put(y, "quality", a).dragging = c.dragging
  BY <1>1, <1>2, <1>3, PutKeeps
<1> QED
  BY <1>3, <1>4, StartNextKeeps DEF EdInv

LEMMA InvalidateKeeps ==
  ASSUME NEW c \in Eds, NEW rd \in Results, NEW ly \in Layers, Core(c, rd, ly),
         ~WantsDetailPreviewFromViewport(c) \/ c.ready = 0
  PROVE  /\ InvalidateDetailPreviewState(c) \in Eds
         /\ Core(InvalidateDetailPreviewState(c), rd, ly)
         /\ BaseComing(c) => BaseComing(InvalidateDetailPreviewState(c))
         /\ InvalidateDetailPreviewState(c).dragging = c.dragging
<1> DEFINE d == InvalidateDetailPreviewState(c)
<1>1. /\ d \in Eds
      /\ d.edit = c.edit /\ d.committed = c.committed /\ d.dragging = c.dragging
      /\ d.panel = c.panel /\ d.applied = c.applied /\ d.fullFrame = c.fullFrame
      /\ d.view = c.view /\ d.zoomed = c.zoomed /\ d.steady = c.steady
      /\ d.gen = c.gen /\ d.serial = c.serial /\ d.ready = c.ready
      /\ d.inflight = c.inflight /\ d.recent = c.recent
      /\ d.overtook = c.overtook /\ d.failed = c.failed /\ d.waiting = FALSE
      /\ d.timers = c.timers \ {"detail"} /\ d.token = NoToken
      /\ d.pending["detail"] = NoRequest
      /\ \A j \in Kinds \ {"detail"} : d.pending[j] = c.pending[j]
  BY InvalidateFacts
<1> HIDE DEF d
<1>2. "fast" \in Kinds /\ "quality" \in Kinds /\ "detail" \in Kinds
  BY RequestFacts
<1>3. ~Pend(d, "detail") /\ \A j \in Kinds \ {"detail"} : Pend(d, j) = Pend(c, j)
  BY <1>1 DEF Pend
<1>4. Busy(d) = Busy(c) /\ Stale(d) = Stale(c) /\ Current(d) = Current(c) /\ Owed(d) = Owed(c)
  BY <1>1, <1>2, <1>3 DEF Busy, Stale, Current, Owed
<1>5. \A t \in {"quality", "settle"} : t \in d.timers <=> t \in c.timers
  BY <1>1
<1>6. RequestsRight(d)
  <2>1. \A j \in Kinds : Pend(d, j) => Pend(c, j) /\ d.pending[j] = c.pending[j]
    BY <1>1, <1>3
  <2> QED
    BY <1>1, <1>2, <1>3, <1>4, <1>5, <2>1 DEF RequestsRight, Core
<1>7. AppliedRight(d)
  BY <1>1, <1>2, <1>3, <1>4, <1>5 DEF AppliedRight, Core
<1>8. FramesRight(d, rd, ly)
  BY <1>1, <1>2, <1>3, <1>4 DEF FramesRight, Core
<1>9. ~(d.zoomed /\ d.ready # 0)
  BY <1>1 DEF WantsDetailPreviewFromViewport, Core, RequestsRight
<1>10. PatchRight(d, rd, ly)
  BY <1>1, <1>9 DEF PatchRight, Core
<1>11. BaseComing(c) => BaseComing(d)
  BY <1>1, <1>2, <1>3, <1>4, <1>5 DEF BaseComing
<1> QED
  BY <1>1, <1>6, <1>7, <1>8, <1>10, <1>11 DEF Core, d

LEMMA MaybeKeeps ==
  ASSUME NEW c \in Eds, NEW rd \in Results, NEW ly \in Layers, Core(c, rd, ly)
  PROVE  /\ MaybeScheduleDetail(c) \in Eds /\ Core(MaybeScheduleDetail(c), rd, ly)
         /\ BaseComing(c) => BaseComing(MaybeScheduleDetail(c))
         /\ c.zoomed /\ c.ready # 0 => "detail" \in MaybeScheduleDetail(c).timers
         /\ MaybeScheduleDetail(c).dragging = c.dragging
<1>1. CASE ~WantsDetailPreviewFromViewport(c)
  <2>1. MaybeScheduleDetail(c) = InvalidateDetailPreviewState(c)
    BY <1>1 DEF MaybeScheduleDetail
  <2>2. ~(c.zoomed /\ c.ready # 0)
    BY <1>1 DEF WantsDetailPreviewFromViewport, Core, RequestsRight
  <2> QED
    BY <1>1, <2>1, <2>2, InvalidateKeeps
<1>2. CASE WantsDetailPreviewFromViewport(c) /\ c.ready # c.gen
  <2> DEFINE d == [c EXCEPT !.waiting = TRUE]
  <2>1. MaybeScheduleDetail(c) = d
    BY <1>2 DEF MaybeScheduleDetail
  <2>2. /\ d \in Eds
        /\ d.edit = c.edit /\ d.committed = c.committed /\ d.dragging = c.dragging
        /\ d.panel = c.panel /\ d.applied = c.applied /\ d.fullFrame = c.fullFrame
        /\ d.view = c.view /\ d.zoomed = c.zoomed /\ d.steady = c.steady
        /\ d.gen = c.gen /\ d.serial = c.serial /\ d.ready = c.ready
        /\ d.pending = c.pending /\ d.inflight = c.inflight /\ d.timers = c.timers
        /\ d.recent = c.recent /\ d.token = c.token /\ d.overtook = c.overtook
        /\ d.failed = c.failed
    BY DEF Eds
  <2>3. c.ready = 0
    BY <1>2 DEF Core, RequestsRight
  <2> HIDE DEF d
  <2>4. (Core(c, rd, ly) => Core(d, rd, ly)) /\ (BaseComing(c) => BaseComing(d))
    BY <2>2, Irrelevant
  <2> QED
    BY <2>1, <2>2, <2>3, <2>4
<1>3. CASE WantsDetailPreviewFromViewport(c) /\ c.ready = c.gen
  <2> DEFINE ts == c.timers \cup {"detail"}
             d == [c EXCEPT !.waiting = FALSE, !.timers = ts]
  <2>1. MaybeScheduleDetail(c) = d
    BY <1>3 DEF MaybeScheduleDetail
  <2>2. ts \in SUBSET Timers /\ "detail" \in ts /\ \A t \in {"quality", "settle"} : t \in ts <=> t \in c.timers
    BY EdTypes DEF Timers
  <2> HIDE DEF ts
  <2>3. /\ d \in Eds
        /\ d.edit = c.edit /\ d.committed = c.committed /\ d.dragging = c.dragging
        /\ d.panel = c.panel /\ d.applied = c.applied /\ d.fullFrame = c.fullFrame
        /\ d.view = c.view /\ d.zoomed = c.zoomed /\ d.steady = c.steady
        /\ d.gen = c.gen /\ d.serial = c.serial /\ d.ready = c.ready
        /\ d.pending = c.pending /\ d.inflight = c.inflight /\ d.recent = c.recent
        /\ d.token = c.token /\ d.overtook = c.overtook /\ d.failed = c.failed
        /\ d.timers = ts
    BY <2>2 DEF Eds
  <2> HIDE DEF d
  <2>4. \A k : Pend(d, k) = Pend(c, k)
    BY <2>3 DEF Pend
  <2>5. Busy(d) = Busy(c) /\ Stale(d) = Stale(c) /\ Current(d) = Current(c) /\ Owed(d) = Owed(c)
    BY <2>3 DEF Busy, Stale, Current, Owed, Pend
  <2>6. RequestsRight(d)
    BY <2>2, <2>3, <2>4, <2>5 DEF RequestsRight, Core
  <2>7. AppliedRight(d)
    BY <2>2, <2>3, <2>4, <2>5 DEF AppliedRight, Core
  <2>8. FramesRight(d, rd, ly)
    BY <2>3, <2>4, <2>5 DEF FramesRight, Core
  <2>9. PatchRight(d, rd, ly)
    BY <2>2, <2>3 DEF PatchRight, DetailDue, Core
  <2>10. BaseComing(c) => BaseComing(d)
    BY <2>2, <2>3, <2>4, <2>5 DEF BaseComing
  <2> QED
    BY <2>1, <2>2, <2>3, <2>6, <2>7, <2>8, <2>9, <2>10 DEF Core
<1> QED
  BY <1>1, <1>2, <1>3

--------------------------------------------------------------------------------
(* The handlers of the dialog.                                                    *)

\* A quality request in a generation that has just begun.
LEMMA RequestQualityAdvanced ==
  ASSUME NEW c \in Eds, NEW z \in Eds, NEW rd \in Results, NEW ly \in Layers, Weak(c, rd, ly),
         Advanced(z, c), ~c.dragging => c.edit = c.committed,
         NEW a \in BOOLEAN, a \/ c.applied = Current(c)
  PROVE  /\ RequestQualityPreview(z, a) \in Eds /\ EdInv(RequestQualityPreview(z, a), rd, ly)
         /\ RequestQualityPreview(z, a).dragging = c.dragging
<1> DEFINE ts == z.timers \ {"quality"}
           y == [z EXCEPT !.timers = ts]
<1>1. ts \in SUBSET Timers /\ "quality" \notin ts /\ ("settle" \in ts <=> "settle" \in z.timers)
  BY EdTypes
<1>2. RequestQualityPreview(z, a) = StartNext(Put(y, "quality", a))
  BY EnqueueIs DEF RequestQualityPreview
<1> HIDE DEF ts
<1>3. /\ y \in Eds
      /\ y.edit = z.edit /\ y.committed = z.committed /\ y.dragging = z.dragging
      /\ y.panel = z.panel /\ y.applied = z.applied /\ y.fullFrame = z.fullFrame
      /\ y.view = z.view /\ y.zoomed = z.zoomed /\ y.steady = z.steady
      /\ y.gen = z.gen /\ y.serial = z.serial /\ y.ready = z.ready
      /\ y.pending = z.pending /\ y.inflight = z.inflight
      /\ y.waiting = z.waiting /\ y.recent = z.recent /\ y.token = z.token
      /\ y.overtook = z.overtook /\ y.failed = z.failed /\ y.timers = ts
  BY <1>1, TimerFacts
<1> HIDE DEF y
<1>4. Advanced(y, c)
  BY <1>1, <1>3 DEF Advanced, Pend
<1>5. /\ Put(y, "quality", a) \in Eds /\ Core(Put(y, "quality", a), rd, ly)
      /\ BaseComing(Put(y, "quality", a)) /\ Put(y, "quality", a).dragging = c.dragging
  BY <1>3, <1>4, AdvancedKeeps
<1> QED
  BY <1>2, <1>5, StartNextKeeps DEF EdInv

LEMMA CommittedFacts ==
  ASSUME NEW c \in Eds
  PROVE  /\ Committed(c) \in Eds
         /\ Committed(c).edit = c.edit /\ Committed(c).panel = c.panel
         /\ Committed(c).applied = c.applied /\ Committed(c).view = c.view
         /\ Committed(c).zoomed = c.zoomed /\ Committed(c).steady = c.steady
         /\ Committed(c).gen = c.gen /\ Committed(c).serial = c.serial
         /\ Committed(c).ready = c.ready /\ Committed(c).pending = c.pending
         /\ Committed(c).inflight = c.inflight /\ Committed(c).waiting = c.waiting
         /\ Committed(c).timers = c.timers /\ Committed(c).recent = c.recent
         /\ Committed(c).token = c.token /\ Committed(c).overtook = c.overtook
         /\ Committed(c).failed = c.failed /\ Committed(c).committed = c.edit
         /\ Committed(c).dragging = FALSE
         /\ c.edit = c.committed => Committed(c).fullFrame = c.fullFrame
<1> DEFINE b == c.fullFrame \/ (c.edit # c.committed /\ c.panel = "geometry")
           d == Committed(c)
<1>1. b \in BOOLEAN /\ (c.edit = c.committed => b = c.fullFrame)
  BY EdTypes
<1>2. d = [c EXCEPT !.committed = c.edit, !.dragging = FALSE, !.fullFrame = b]
  BY EdTypes DEF Committed
<1> HIDE DEF b, d
<1>3. /\ d \in Eds /\ d.fullFrame = b
      /\ d.edit = c.edit /\ d.panel = c.panel /\ d.applied = c.applied
      /\ d.view = c.view /\ d.zoomed = c.zoomed /\ d.steady = c.steady
      /\ d.gen = c.gen /\ d.serial = c.serial /\ d.ready = c.ready
      /\ d.pending = c.pending /\ d.inflight = c.inflight
      /\ d.waiting = c.waiting /\ d.timers = c.timers /\ d.recent = c.recent
      /\ d.token = c.token /\ d.overtook = c.overtook /\ d.failed = c.failed
      /\ d.committed = c.edit /\ d.dragging = FALSE
  BY <1>1, <1>2 DEF Eds
<1> QED
  BY <1>1, <1>3 DEF d

LEMMA CommitKeeps ==
  ASSUME NEW c \in Eds, NEW rd \in Results, NEW ly \in Layers, Weak(c, rd, ly),
         c.edit = c.committed => Core(c, rd, ly)
  PROVE  Commit(c) \in Eds /\ EdInv(Commit(c), rd, ly) /\ ~Commit(c).dragging
<1> DEFINE d == Committed(c)
<1>1. /\ d \in Eds
      /\ d.edit = c.edit /\ d.panel = c.panel /\ d.applied = c.applied
      /\ d.view = c.view /\ d.zoomed = c.zoomed /\ d.steady = c.steady
      /\ d.gen = c.gen /\ d.serial = c.serial /\ d.ready = c.ready
      /\ d.pending = c.pending /\ d.inflight = c.inflight
      /\ d.waiting = c.waiting /\ d.timers = c.timers /\ d.recent = c.recent
      /\ d.token = c.token /\ d.overtook = c.overtook /\ d.failed = c.failed
      /\ d.committed = c.edit /\ d.dragging = FALSE
      /\ c.edit = c.committed => d.fullFrame = c.fullFrame
  BY CommittedFacts
<1> HIDE DEF d
<1>2. Busy(d) = Busy(c) /\ Stale(d) = Stale(c) /\ Current(d) = Current(c) /\ Owed(d) = Owed(c)
      /\ \A k : Pend(d, k) = Pend(c, k)
  BY <1>1 DEF Busy, Stale, Current, Owed, Pend
<1> DEFINE x == RequestQualityPreview(
                    IF c.edit = c.committed THEN d ELSE AdvancePreviewGeneration(d), TRUE)
<1>3. Commit(c) = MaybeScheduleDetail(x)
  BY DEF Commit, d
<1>4. x \in Eds /\ EdInv(x, rd, ly) /\ ~x.dragging
  <2>1. CASE c.edit = c.committed
    <3>1. RequestsRight(d)
      BY <1>1, <1>2, <2>1 DEF RequestsRight, Core
    <3>2. AppliedRight(d)
      BY <1>1, <1>2, <2>1 DEF AppliedRight, Core
    <3>3. FramesRight(d, rd, ly)
      BY <1>1, <1>2, <2>1 DEF FramesRight, Core
    <3>4. PatchRight(d, rd, ly)
      BY <1>1, <1>2, <2>1 DEF PatchRight, DetailDue, PatchIsFresh, Core
    <3>5. Core(d, rd, ly)
      BY <3>1, <3>2, <3>3, <3>4 DEF Core
    <3> QED
      BY <1>1, <2>1, <3>5, RequestQualityKeeps
  <2>2. CASE c.edit # c.committed
    <3>1. Weak(d, rd, ly)
      BY <1>1, <1>2 DEF Weak
    <3>2. AdvancePreviewGeneration(d) \in Eds /\ Advanced(AdvancePreviewGeneration(d), d)
      BY <1>1, AdvanceAdvances
    <3> DEFINE z == AdvancePreviewGeneration(d)
    <3>3. x = RequestQualityPreview(z, TRUE)
      BY <2>2
    <3>4. d \in Eds /\ ~d.dragging /\ d.edit = d.committed
      BY <1>1
    <3> HIDE DEF z, x
    <3>5. /\ RequestQualityPreview(z, TRUE) \in Eds
          /\ EdInv(RequestQualityPreview(z, TRUE), rd, ly)
          /\ RequestQualityPreview(z, TRUE).dragging = d.dragging
      BY <3>1, <3>2, <3>4, RequestQualityAdvanced DEF z
    <3> QED
      BY <3>3, <3>4, <3>5
  <2> QED
    BY <2>1, <2>2
<1> HIDE DEF x
<1> QED
  BY <1>3, <1>4, MaybeKeeps DEF EdInv

LEMMA SwitchKeeps ==
  ASSUME NEW c \in Eds, NEW rd \in Results, NEW ly \in Layers, EdInv(c, rd, ly),
         NEW p \in Panels, c.dragging => c.panel = "geometry"
  PROVE  SwitchPanel(c, p) \in Eds /\ EdInv(SwitchPanel(c, p), rd, ly)
<1> DEFINE left == IF c.panel = "geometry" /\ c.dragging THEN Commit(c) ELSE c
           f == IF c.panel = "geometry" THEN FALSE ELSE left.fullFrame
           there == [left EXCEPT !.panel = p, !.fullFrame = f]
           transition == "geometry" \in {c.panel, p}
           x == IF transition THEN InvalidateDetailPreviewState(there) ELSE there
           asked == RequestRender(x, transition)
<1>1. left \in Eds /\ EdInv(left, rd, ly) /\ ~left.dragging
  BY CommitKeeps, CoreIsWeak DEF EdInv
<1>2. f \in BOOLEAN
  BY <1>1, EdTypes
<1>3. SwitchPanel(c, p) = [asked EXCEPT !.timers = @ \cup {"quality"}]
  BY <1>1, EdTypes DEF SwitchPanel
<1>4. ~transition => left = c /\ f = left.fullFrame /\ c.panel # "geometry" /\ p # "geometry"
  OBVIOUS
<1> HIDE DEF left, f
<1>5. /\ there \in Eds
      /\ there.edit = left.edit /\ there.committed = left.committed
      /\ there.dragging = left.dragging /\ there.applied = left.applied
      /\ there.view = left.view /\ there.zoomed = left.zoomed
      /\ there.steady = left.steady /\ there.gen = left.gen
      /\ there.serial = left.serial /\ there.ready = left.ready
      /\ there.pending = left.pending /\ there.inflight = left.inflight
      /\ there.waiting = left.waiting /\ there.timers = left.timers
      /\ there.recent = left.recent /\ there.token = left.token
      /\ there.overtook = left.overtook /\ there.failed = left.failed
      /\ there.panel = p /\ there.fullFrame = f
  BY <1>1, <1>2 DEF Eds
<1> HIDE DEF there
<1>6. /\ Busy(there) = Busy(left) /\ Stale(there) = Stale(left) /\ Owed(there) = Owed(left)
      /\ \A k : Pend(there, k) = Pend(left, k)
  BY <1>5 DEF Busy, Stale, Owed, Pend
<1>7. Weak(there, rd, ly) /\ there.edit = there.committed /\ ~there.dragging
  BY <1>1, <1>5, <1>6, CoreIsWeak DEF Weak, EdInv, Core, RequestsRight
<1>8. asked \in Eds /\ Core(asked, rd, ly) /\ (Pend(asked, "fast") \/ asked.applied = Current(asked))
  <2>1. CASE transition
    <3> DEFINE i == InvalidateDetailPreviewState(there)
               y == AdvancePreviewGeneration(i)
    <3>1. /\ i \in Eds
          /\ i.edit = there.edit /\ i.committed = there.committed
          /\ i.dragging = there.dragging /\ i.panel = there.panel
          /\ i.applied = there.applied /\ i.fullFrame = there.fullFrame
          /\ i.view = there.view /\ i.zoomed = there.zoomed
          /\ i.steady = there.steady /\ i.gen = there.gen /\ i.serial = there.serial
          /\ i.ready = there.ready /\ i.inflight = there.inflight
          /\ i.recent = there.recent /\ i.overtook = there.overtook
          /\ i.failed = there.failed /\ i.timers = there.timers \ {"detail"}
          /\ i.token = NoToken
      BY <1>5, InvalidateFacts
    <3> HIDE DEF i
    <3>2. Weak(i, rd, ly) /\ i.edit = i.committed
      BY <1>7, <3>1 DEF Weak, Busy
    <3>3. y \in Eds /\ Advanced(y, i)
      BY <3>1, AdvanceAdvances
    <3>4. asked = StartNext(Put(y, "fast", TRUE))
      BY <2>1, EnqueueIs DEF RequestRender, i
    <3> HIDE DEF y
    <3>5. /\ Put(y, "fast", TRUE) \in Eds /\ Core(Put(y, "fast", TRUE), rd, ly)
          /\ Pend(Put(y, "fast", TRUE), "fast")
      BY <3>1, <3>2, <3>3, AdvancedKeeps
    <3> QED
      BY <3>4, <3>5, StartNextKeeps
  <2>2. CASE ~transition
    <3>1. /\ there.panel # "geometry" /\ left.panel # "geometry"
          /\ there.fullFrame = left.fullFrame
      BY <1>4, <1>5, <2>2
    <3>2. Current(there) = Current(left)
      BY <1>5, <3>1 DEF Current, Shown
    <3>3. RequestsRight(there)
      BY <1>1, <1>5, <1>6, <3>1 DEF RequestsRight, Core, EdInv
    <3>4. AppliedRight(there)
      BY <1>1, <1>5, <1>6, <3>2 DEF AppliedRight, Core, EdInv
    <3>5. FramesRight(there, rd, ly)
      BY <1>1, <1>5, <1>6, <3>2 DEF FramesRight, Core, EdInv
    <3>6. PatchRight(there, rd, ly)
      BY <1>1, <1>5, <1>6, <3>2 DEF PatchRight, DetailDue, PatchIsFresh, Core, EdInv
    <3>7. asked = StartNext(Put(there, "fast", TRUE)) /\ "fast" \in Kinds
      BY <2>2, EnqueueIs, RequestFacts DEF RequestRender
    <3>8. /\ Put(there, "fast", TRUE) \in Eds /\ Core(Put(there, "fast", TRUE), rd, ly)
          /\ Pend(Put(there, "fast", TRUE), "fast")
      BY <1>5, <3>3, <3>4, <3>5, <3>6, <3>7, PutKeeps DEF Core
    <3> QED
      BY <3>7, <3>8, StartNextKeeps
  <2> QED
    BY <2>1, <2>2
<1> HIDE DEF asked
<1> QED
  BY <1>3, <1>8, QualityTimerOn

--------------------------------------------------------------------------------
(* A render is over.                                                              *)

LEMMA QualityEnds ==
  ASSUME NEW c \in Eds, NEW d \in Eds, NEW ly \in Layers, EdInv(c, "ok", ly),
         c.inflight.kind = "quality", ~Stale(c),
         d.edit = c.edit, d.committed = c.committed, d.dragging = c.dragging, d.panel = c.panel,
         d.applied = c.applied, d.view = c.view,
         d.zoomed = c.zoomed, d.steady = c.steady, d.gen = c.gen, d.overtook = c.overtook,
         d.inflight = NoRequest, d.failed = FALSE, d.ready = c.gen, d.fullFrame = FALSE,
         d.token \in {c.token, NoToken},
         \A k \in Kinds : d.pending[k] = c.pending[k] \/ (k = "detail" /\ d.pending[k] = NoRequest),
         \A t \in {"quality", "settle"} : t \in d.timers <=> t \in c.timers,
         c.zoomed => "detail" \in d.timers
  PROVE  EdInv(d, "none", ly)
<1>1. "fast" \in Kinds /\ "quality" \in Kinds /\ "detail" \in Kinds /\ NoRequest.kind = "none"
  BY RequestFacts
<1>2. Busy(c) /\ ~Busy(d) /\ ~Stale(d) /\ Current(d) = Current(c) /\ c.inflight.gen = c.gen
  BY RequestFacts DEF Busy, Stale, Current
<1>3. /\ Pend(d, "fast") = Pend(c, "fast") /\ Pend(d, "quality") = Pend(c, "quality")
      /\ d.pending["quality"] = c.pending["quality"] /\ Owed(d) = Owed(c)
      /\ \A k \in Kinds : Pend(d, k) => Pend(c, k) /\ d.pending[k] = c.pending[k]
  BY <1>1 DEF Pend, Owed
<1>4. RequestsRight(d)
  BY <1>1, <1>2, <1>3, EdTypes DEF RequestsRight, Core, EdInv
<1>5. AppliedRight(d)
  BY <1>2, <1>3 DEF AppliedRight, Core, EdInv
<1>6. FramesRight(d, "none", ly)
  BY <1>1, <1>2, <1>3 DEF FramesRight, AppliedRight, Core, EdInv
<1>7. PatchRight(d, "none", ly)
  BY <1>2 DEF PatchRight, DetailDue, Core, EdInv
<1>8. d.ready # 0
  BY EdTypes DEF RequestsRight, Core, EdInv
<1>9. BaseComing(d)
  BY <1>2, <1>8 DEF BaseComing
<1> QED
  BY <1>4, <1>5, <1>6, <1>7, <1>9 DEF EdInv, Core

\* Every other end of a render.
LEMMA OtherEnds ==
  ASSUME NEW c \in Eds, NEW d \in Eds, NEW ly \in Layers, NEW ok \in BOOLEAN,
         NEW rd \in Results,
         rd = IF ok THEN "ok" ELSE "failed", EdInv(c, rd, ly),
         d.edit = c.edit, d.committed = c.committed, d.dragging = c.dragging, d.panel = c.panel,
         d.applied = c.applied, d.view = c.view,
         d.zoomed = c.zoomed, d.steady = c.steady, d.gen = c.gen, d.overtook = c.overtook,
         d.ready = c.ready, d.fullFrame = c.fullFrame,
         d.pending = c.pending, d.timers = c.timers,
         d.inflight = NoRequest,
         ok /\ c.inflight.kind = "quality" => Stale(c),
         d.failed <=> ~ok \/ (c.failed /\ c.inflight.kind # "quality"),
         d.token = IF ok /\ c.inflight.kind = "detail" /\ ~Stale(c)
                   THEN <<c.gen, c.inflight.serial>> ELSE c.token
  PROVE  EdInv(d, "none", ly)
<1>1. "fast" \in Kinds /\ "quality" \in Kinds /\ "detail" \in Kinds /\ NoRequest.kind = "none"
  BY RequestFacts
<1>2. Busy(c) /\ ~Busy(d) /\ ~Stale(d) /\ Current(d) = Current(c)
  BY DEF Busy, Stale, Current, EdInv, Core, FramesRight
<1>2b. c.inflight.kind \in {"fast", "quality", "detail"} /\ (~Stale(c) => c.inflight.gen = c.gen)
  BY <1>2, RequestFacts, EdTypes DEF Busy, Stale
<1>3. (\A k : Pend(d, k) = Pend(c, k)) /\ Owed(d) = Owed(c)
  BY DEF Pend, Owed
<1>4. RequestsRight(d)
  <2>1. d.token = NoToken \/ d.token[1] = d.gen
    BY DEF RequestsRight, Core, EdInv
  <2> QED
    BY <1>2, <1>3, <2>1 DEF RequestsRight, Core, EdInv
<1>5. AppliedRight(d)
  BY <1>2, <1>3 DEF AppliedRight, Core, EdInv
<1>6. FramesRight(d, "none", ly)
  BY <1>1, <1>2, <1>2b, <1>3 DEF FramesRight, RequestsRight, Core, EdInv
<1>7. PatchRight(d, "none", ly)
  <2>1. CASE ok /\ c.inflight.kind = "detail" /\ ~Stale(c)
    <3>1. /\ ly["detail"].gen = c.gen /\ ly["detail"].serial = c.inflight.serial
          /\ ly["detail"].image = c.applied
      BY <1>2b, <2>1 DEF FramesRight, Core, EdInv
    <3>2. ~c.overtook => ly["detail"].image = Current(c)
      BY <1>2, <2>1, <3>1 DEF AppliedRight, Core, EdInv
    <3> QED
      BY <1>1, <1>2, <1>3, <2>1, <3>1, <3>2 DEF PatchRight, DetailDue, PatchIsFresh, Core, EdInv
  <2>2. CASE ~ok
    BY <1>1, <1>2, <1>3, <2>2 DEF PatchRight, DetailDue, PatchIsFresh, Core, EdInv
  <2>3. CASE ok /\ Stale(c)
    <3>1. ly["detail"].gen # c.gen /\ c.ready = 0
      BY <1>1, <2>3 DEF FramesRight, RequestsRight, Core, EdInv
    <3> QED
      BY <3>1 DEF PatchRight
  <2>4. CASE ok /\ ~Stale(c) /\ c.inflight.kind = "fast"
    BY <1>1, <1>2, <1>3, <2>4 DEF PatchRight, DetailDue, PatchIsFresh, Core, EdInv
  <2> QED
    BY <1>2b, <2>1, <2>2, <2>3, <2>4
<1>8. BaseComing(d)
  BY <1>2, <1>2b, <1>3 DEF BaseComing, EdInv
<1> QED
  BY <1>4, <1>5, <1>6, <1>7, <1>8 DEF EdInv, Core

LEMMA PollKeeps ==
  ASSUME NEW c \in Eds, NEW ly \in Layers, NEW ok \in BOOLEAN, NEW rd \in Results,
         rd = IF ok THEN "ok" ELSE "failed", EdInv(c, rd, ly)
  PROVE  OnRenderFinished(c, ok) \in Eds /\ EdInv(OnRenderFinished(c, ok), "none", ly)
<1> DEFINE done == c.inflight
           f    == IF ~ok THEN TRUE ELSE c.failed /\ done.kind # "quality"
           idle == [c EXCEPT !.inflight = NoRequest, !.failed = f]
           y    == CASE ok /\ done.kind = "quality" -> QualityFinished(idle, done)
                     [] ok /\ done.kind = "detail"  -> DetailFinished(idle, done)
                     [] OTHER -> idle
<1>1. f \in BOOLEAN /\ (f <=> ~ok \/ (c.failed /\ c.inflight.kind # "quality"))
  BY EdTypes
<1>2. OnRenderFinished(c, ok) = StartNext(y)
  BY EdTypes DEF OnRenderFinished
<1> HIDE DEF f
<1>3. /\ idle \in Eds /\ idle.failed = f
      /\ idle.edit = c.edit /\ idle.committed = c.committed
      /\ idle.dragging = c.dragging /\ idle.panel = c.panel
      /\ idle.applied = c.applied /\ idle.fullFrame = c.fullFrame
      /\ idle.view = c.view /\ idle.zoomed = c.zoomed /\ idle.steady = c.steady
      /\ idle.gen = c.gen /\ idle.serial = c.serial /\ idle.ready = c.ready
      /\ idle.pending = c.pending /\ idle.waiting = c.waiting
      /\ idle.timers = c.timers /\ idle.recent = c.recent
      /\ idle.token = c.token /\ idle.overtook = c.overtook
      /\ idle.inflight = NoRequest
  BY <1>1, RequestFacts DEF Eds
<1> HIDE DEF idle
<1>4. Busy(c) /\ done \in Requests /\ c.inflight.kind \in {"fast", "quality", "detail"}
      /\ (Stale(c) <=> done.gen # c.gen) /\ done.gen \in Nat /\ done.serial \in Nat
  <2>1. Busy(c)
    BY DEF EdInv, Core, FramesRight
  <2> QED
    BY <2>1, RequestFacts, EdTypes DEF Busy, Stale
<1>5. ASSUME y \in Eds, EdInv(y, "none", ly)
      PROVE  OnRenderFinished(c, ok) \in Eds /\ EdInv(OnRenderFinished(c, ok), "none", ly)
  BY <1>2, <1>5, StartNextKeeps DEF EdInv, Results
<1>6. CASE ~ok \/ done.kind = "fast" \/ Stale(c)
  <2>1. y = idle
    BY <1>3, <1>4, <1>6 DEF QualityFinished, DetailFinished
  <2>2. EdInv(idle, "none", ly)
    <3>1. ok /\ c.inflight.kind = "quality" => Stale(c)
      BY <1>6
    <3>2. ~(ok /\ c.inflight.kind = "detail" /\ ~Stale(c))
      BY <1>6
    <3> QED
      BY <1>1, <1>3, <3>1, <3>2, OtherEnds
  <2> QED
    BY <1>3, <1>5, <2>1, <2>2
<1>7. CASE ok /\ done.kind = "detail" /\ ~Stale(c)
  <2> DEFINE d == [idle EXCEPT !.token = <<done.gen, done.serial>>]
  <2>1. y = d
    BY <1>3, <1>4, <1>7 DEF DetailFinished
  <2>2. /\ d \in Eds
        /\ d.edit = idle.edit /\ d.committed = idle.committed
        /\ d.dragging = idle.dragging /\ d.panel = idle.panel
        /\ d.applied = idle.applied /\ d.fullFrame = idle.fullFrame
        /\ d.view = idle.view /\ d.zoomed = idle.zoomed /\ d.steady = idle.steady
        /\ d.gen = idle.gen /\ d.serial = idle.serial /\ d.ready = idle.ready
        /\ d.pending = idle.pending /\ d.inflight = idle.inflight
        /\ d.waiting = idle.waiting /\ d.timers = idle.timers
        /\ d.recent = idle.recent /\ d.overtook = idle.overtook
        /\ d.failed = idle.failed /\ d.token = <<done.gen, done.serial>>
    BY <1>3, <1>4 DEF Eds
  <2> HIDE DEF d
  <2>3. EdInv(d, "none", ly)
    <3>1. d.token = <<c.gen, c.inflight.serial>>
      BY <1>4, <1>7, <2>2
    <3> QED
      BY <1>1, <1>3, <1>7, <2>2, <3>1, OtherEnds
  <2> QED
    BY <1>5, <2>1, <2>2, <2>3
<1>8. CASE ok /\ done.kind = "quality" /\ ~Stale(c)
  <2> DEFINE base == [idle EXCEPT !.ready = c.gen, !.fullFrame = FALSE]
  <2>1. /\ base \in Eds
        /\ base.edit = idle.edit /\ base.committed = idle.committed
        /\ base.dragging = idle.dragging /\ base.panel = idle.panel
        /\ base.applied = idle.applied /\ base.view = idle.view
        /\ base.zoomed = idle.zoomed /\ base.steady = idle.steady
        /\ base.gen = idle.gen /\ base.serial = idle.serial
        /\ base.pending = idle.pending /\ base.inflight = idle.inflight
        /\ base.waiting = idle.waiting /\ base.timers = idle.timers
        /\ base.recent = idle.recent /\ base.token = idle.token
        /\ base.overtook = idle.overtook /\ base.failed = idle.failed
        /\ base.ready = c.gen /\ base.fullFrame = FALSE
    BY <1>3, EdTypes DEF Eds
  <2>2. y = IF base.waiting \/ WantsDetailPreviewFromViewport(base)
            THEN MaybeScheduleDetail(base) ELSE base
    BY <1>3, <1>4, <1>8 DEF QualityFinished
  <2> HIDE DEF base
  <2>3. base.failed = FALSE
    BY <1>1, <1>3, <1>8, <2>1, EdTypes
  <2>4. WantsDetailPreviewFromViewport(base) <=> c.zoomed
    BY <1>3, <2>1 DEF WantsDetailPreviewFromViewport
  <2>5. CASE c.zoomed
    <3> DEFINE ts == base.timers \cup {"detail"}
               d == [base EXCEPT !.waiting = FALSE, !.timers = ts]
    <3>1. y = d
      BY <1>3, <2>1, <2>2, <2>4, <2>5 DEF MaybeScheduleDetail
    <3>2. ts \in SUBSET Timers /\ "detail" \in ts
          /\ \A t \in {"quality", "settle"} : t \in ts <=> t \in c.timers
      BY <1>3, <2>1, EdTypes DEF Timers
    <3> HIDE DEF ts
    <3>3. /\ d \in Eds
          /\ d.edit = base.edit /\ d.committed = base.committed
          /\ d.dragging = base.dragging /\ d.panel = base.panel
          /\ d.applied = base.applied /\ d.fullFrame = base.fullFrame
          /\ d.view = base.view /\ d.zoomed = base.zoomed /\ d.steady = base.steady
          /\ d.gen = base.gen /\ d.serial = base.serial /\ d.ready = base.ready
          /\ d.pending = base.pending /\ d.inflight = base.inflight
          /\ d.recent = base.recent /\ d.token = base.token
          /\ d.overtook = base.overtook /\ d.failed = base.failed /\ d.timers = ts
      BY <2>1, <3>2 DEF Eds
    <3> HIDE DEF d
    <3>4. EdInv(d, "none", ly)
      BY <1>3, <1>8, <2>1, <2>3, <3>2, <3>3, QualityEnds
    <3> QED
      BY <1>5, <3>1, <3>3, <3>4
  <2>6. CASE ~c.zoomed /\ ~base.waiting
    <3>1. y = base
      BY <2>2, <2>4, <2>6
    <3>2. EdInv(base, "none", ly)
      BY <1>3, <1>8, <2>1, <2>3, <2>6, QualityEnds
    <3> QED
      BY <1>5, <2>1, <3>1, <3>2
  <2>7. CASE ~c.zoomed /\ base.waiting
    <3> DEFINE d == InvalidateDetailPreviewState(base)
    <3>1. y = d
      BY <2>2, <2>4, <2>7 DEF MaybeScheduleDetail
    <3>2. /\ d \in Eds
          /\ d.edit = base.edit /\ d.committed = base.committed
          /\ d.dragging = base.dragging /\ d.panel = base.panel
          /\ d.applied = base.applied /\ d.fullFrame = base.fullFrame
          /\ d.view = base.view /\ d.zoomed = base.zoomed /\ d.steady = base.steady
          /\ d.gen = base.gen /\ d.serial = base.serial /\ d.ready = base.ready
          /\ d.inflight = base.inflight /\ d.recent = base.recent
          /\ d.overtook = base.overtook /\ d.failed = base.failed
          /\ d.timers = base.timers \ {"detail"} /\ d.token = NoToken
          /\ d.pending["detail"] = NoRequest
          /\ \A j \in Kinds \ {"detail"} : d.pending[j] = base.pending[j]
      BY <2>1, InvalidateFacts
    <3> HIDE DEF d
    <3>3. \A k \in Kinds : d.pending[k] = c.pending[k] \/ (k = "detail" /\ d.pending[k] = NoRequest)
      BY <1>3, <2>1, <3>2
    <3>4. \A t \in {"quality", "settle"} : t \in d.timers <=> t \in c.timers
      BY <1>3, <2>1, <3>2
    <3>5. EdInv(d, "none", ly)
      BY <1>3, <1>8, <2>1, <2>3, <2>7, <3>2, <3>3, <3>4, QualityEnds
    <3> QED
      BY <1>5, <3>1, <3>2, <3>5
  <2> QED
    BY <2>5, <2>6, <2>7
<1> QED
  BY <1>4, <1>6, <1>7, <1>8

\* The viewer is given the frame of the request in flight.
LEMMA RenderKeeps ==
  ASSUME NEW c \in Eds, NEW ly \in Layers, EdInv(c, "none", ly), Busy(c)
  PROVE  LET m == Queued(ly, [gen |-> c.inflight.gen, serial |-> c.inflight.serial,
                              view |-> c.view, image |-> c.applied], c.inflight.kind)
         IN  m \in Layers /\ EdInv(c, "ok", m)
<1> DEFINE k == c.inflight.kind
           fr == [gen |-> c.inflight.gen, serial |-> c.inflight.serial,
                  view |-> c.view, image |-> c.applied]
           m == Queued(ly, fr, k)
<1>1. /\ k \in {"fast", "quality", "detail"} /\ c.inflight.gen \in Nat
      /\ c.inflight.serial \in Nat
      /\ (~Stale(c) => c.inflight.gen = c.gen)
      /\ "fast" \in Kinds /\ "quality" \in Kinds /\ "detail" \in Kinds /\ k \in Kinds
      /\ Kinds = {"fast", "quality", "detail"}
  BY RequestFacts, EdTypes DEF Busy, Stale
<1>2. /\ fr \in Frames /\ fr.gen = c.inflight.gen /\ fr.serial = c.inflight.serial
      /\ fr.view = c.view /\ fr.image = c.applied
  BY <1>1, EdTypes DEF Frames
<1> HIDE DEF fr
<1>3. /\ m \in Layers /\ m[k] = fr
      /\ k # "fast" => m["fast"] = ly["fast"]
      /\ k # "quality" => m["quality"] = ly["quality"]
      /\ k = "fast" => m["detail"] = ly["detail"]
      /\ k = "quality" => m["detail"] = ly["detail"] \/ (m["detail"] = NoFrame /\ ly["detail"].gen # fr.gen)
  BY <1>1, <1>2 DEF Queued, Layers
<1> HIDE DEF k, m
<1>4. RequestsRight(c) /\ AppliedRight(c) /\ BaseComing(c)
      /\ FramesRight(c, "none", ly) /\ PatchRight(c, "none", ly)
  BY DEF EdInv, Core
<1>5. NoFrame.gen = 0 /\ c.gen \in Nat /\ c.gen >= 1 /\ c.inflight.gen <= c.gen
  BY <1>4, FrameFacts, EdTypes DEF RequestsRight
<1>6. ~Stale(c) /\ (k = "fast" \/ ~c.overtook) => c.applied = Current(c)
  BY <1>4 DEF AppliedRight, k
<1>7. FramesRight(c, "ok", m)
  <2>1. \A j \in Kinds : m[j].gen <= c.gen /\ (Stale(c) => m[j].gen # c.gen)
    <3>1. fr.gen <= c.gen /\ (Stale(c) => fr.gen # c.gen)
      BY <1>2, <1>5 DEF Stale
    <3>2. \A j \in Kinds : ly[j].gen <= c.gen /\ (Stale(c) => ly[j].gen # c.gen)
      BY <1>4 DEF FramesRight
    <3>3. \A j \in Kinds : m[j] = fr \/ m[j] = ly[j] \/ m[j] = NoFrame
      BY <1>1, <1>3
    <3> QED
      BY <1>5, <3>1, <3>2, <3>3
  <2>2. c.ready # 0 => m["quality"].gen = c.gen
    BY <1>1, <1>2, <1>3, <1>4 DEF FramesRight, RequestsRight
  <2>3. m["fast"].gen = c.gen => m["fast"].image = Current(c)
    <3>1. CASE k = "fast"
      BY <1>2, <1>3, <1>6, <3>1 DEF Stale
    <3>2. CASE k # "fast"
      BY <1>3, <1>4, <3>2 DEF FramesRight
    <3> QED
      BY <3>1, <3>2
  <2>4. m["quality"].gen = c.gen /\ ~c.overtook /\ ~c.failed => m["quality"].image = Current(c)
    <3>1. CASE k = "quality"
      BY <1>2, <1>3, <1>6, <3>1 DEF Stale
    <3>2. CASE k # "quality"
      BY <1>3, <1>4, <3>2 DEF FramesRight, k
    <3> QED
      BY <3>1, <3>2
  <2>5. \/ m["fast"].gen = c.gen \/ m["quality"].gen = c.gen
        \/ Pend(c, "fast") \/ Pend(c, "quality") \/ c.failed
        \/ k \in {"fast", "quality"} /\ ~Stale(c)
    <3>1. CASE k = "detail"
      BY <1>3, <1>4, <3>1 DEF FramesRight, k
    <3>2. CASE k # "detail" /\ ~Stale(c)
      BY <1>1, <3>2
    <3>3. CASE Stale(c)
      BY <1>4, <3>3 DEF RequestsRight
    <3> QED
      BY <3>1, <3>2, <3>3
  <2> QED
    BY <1>2, <1>3, <2>1, <2>2, <2>3, <2>4, <2>5 DEF FramesRight, k
<1>8. PatchRight(c, "ok", m)
  <2>1. CASE k = "detail"
    BY <1>1, <1>2, <1>3, <1>6, <2>1, EdTypes DEF PatchRight, k, Stale
  <2>2. CASE k = "fast"
    <3>1. DetailDue(c, "ok") <=> DetailDue(c, "none")
      BY <2>2 DEF DetailDue, k
    <3> QED
      BY <1>3, <1>4, <2>2, <3>1 DEF PatchRight, PatchIsFresh, k
  <2>3. CASE k = "quality"
    <3>1. m["detail"].gen = c.gen => m["detail"] = ly["detail"]
      BY <1>3, <1>5, <2>3
    <3>2. c.ready # 0 /\ ly["detail"].gen = c.gen => m["detail"] = ly["detail"]
      BY <1>1, <1>2, <1>3, <1>4, <2>3 DEF RequestsRight
    <3> QED
      BY <1>4, <2>3, <3>1, <3>2 DEF PatchRight, PatchIsFresh, k
  <2> QED
    BY <1>1, <2>1, <2>2, <2>3
<1> QED
  BY <1>3, <1>4, <1>7, <1>8 DEF EdInv, Core, m, k, fr

LEMMA MoveKeeps ==
  ASSUME NEW c \in Eds, NEW ly \in Layers, NEW rd \in Results, EdInv(c, rd, ly),
         NEW z \in BOOLEAN
  PROVE  LET d == [c EXCEPT !.view = @ + 1, !.zoomed = z, !.steady = FALSE,
                            !.timers = @ \cup {"settle"}]
         IN  d \in Eds /\ EdInv(d, rd, ly)
<1> DEFINE ts == c.timers \cup {"settle"}
           d == [c EXCEPT !.view = c.view + 1, !.zoomed = z, !.steady = FALSE, !.timers = ts]
<1>1. ts \in SUBSET Timers /\ "settle" \in ts /\ \A t \in {"quality", "detail"} : t \in ts <=> t \in c.timers
  BY EdTypes DEF Timers
<1>0. c.view + 1 \in Nat
  BY EdTypes
<1> HIDE DEF ts
<1>2. /\ d \in Eds
      /\ d.edit = c.edit /\ d.committed = c.committed /\ d.dragging = c.dragging
      /\ d.panel = c.panel /\ d.applied = c.applied /\ d.fullFrame = c.fullFrame
      /\ d.gen = c.gen /\ d.serial = c.serial /\ d.ready = c.ready
      /\ d.pending = c.pending /\ d.inflight = c.inflight
      /\ d.waiting = c.waiting /\ d.recent = c.recent /\ d.token = c.token
      /\ d.overtook = c.overtook /\ d.failed = c.failed /\ d.view = c.view + 1
      /\ d.zoomed = z /\ d.steady = FALSE /\ d.timers = ts
  BY <1>0, <1>1 DEF Eds
<1>3. d = [c EXCEPT !.view = @ + 1, !.zoomed = z, !.steady = FALSE, !.timers = @ \cup {"settle"}]
  BY EdTypes DEF ts
<1> HIDE DEF d
<1>4. \A k : Pend(d, k) = Pend(c, k)
  BY <1>2 DEF Pend
<1>5. Busy(d) = Busy(c) /\ Stale(d) = Stale(c) /\ Current(d) = Current(c) /\ Owed(d) = Owed(c)
  BY <1>2 DEF Busy, Stale, Current, Owed, Pend
<1>6. RequestsRight(d)
  BY <1>1, <1>2, <1>4, <1>5 DEF RequestsRight, Core, EdInv
<1>7. AppliedRight(d)
  BY <1>1, <1>2, <1>4, <1>5 DEF AppliedRight, Core, EdInv
<1>8. FramesRight(d, rd, ly)
  BY <1>2, <1>4, <1>5 DEF FramesRight, Core, EdInv
<1>9. ly["detail"].gen = c.gen => ly["detail"].view <= c.view /\ ly["detail"].view \in Nat
  <2>1. ly["detail"] \in Frames \cup {NoFrame}
    BY RequestFacts DEF Layers
  <2>2. c.gen # 0
    BY EdTypes DEF RequestsRight, Core, EdInv
  <2> QED
    BY <2>1, <2>2, FrameFacts DEF PatchRight, Core, EdInv
<1>10. ly["detail"].gen = d.gen => ly["detail"].view <= d.view /\ ly["detail"].view # d.view
  BY <1>2, <1>9, EdTypes
<1>11. PatchRight(d, rd, ly)
  BY <1>1, <1>2, <1>10 DEF PatchRight
<1>12. BaseComing(d)
  BY <1>1, <1>2, <1>4, <1>5 DEF BaseComing, EdInv
<1> QED
  BY <1>2, <1>3, <1>6, <1>7, <1>8, <1>11, <1>12 DEF EdInv, Core

--------------------------------------------------------------------------------
(* The timers expire.                                                             *)

LEMMA FireQuality ==
  ASSUME NEW c \in Eds, NEW ly \in Layers, NEW rd \in Results, EdInv(c, rd, ly),
         "quality" \in c.timers
  PROVE  Fired(c, "quality") \in Eds /\ EdInv(Fired(c, "quality"), rd, ly)
<1> DEFINE off == [c EXCEPT !.timers = @ \ {"quality"}]
<1>1. off \in Eds /\ Core(off, rd, ly)
  BY QualityTimerOff DEF EdInv
<1>2. off.applied = c.applied /\ Current(off) = Current(c) /\ Pend(off, "fast") = Pend(c, "fast")
  BY DEF Eds, Current, Pend
<1>3. Fired(c, "quality") = RequestQualityPreview(off, FALSE)
  BY DEF Fired
<1>4. Pend(c, "fast") \/ c.applied = Current(c)
  BY DEF EdInv, Core, AppliedRight
<1> HIDE DEF off
<1> QED
  BY <1>1, <1>2, <1>3, <1>4, RequestQualityKeeps

LEMMA FireSubmit ==
  ASSUME NEW c \in Eds, NEW ly \in Layers, NEW rd \in Results, EdInv(c, rd, ly)
  PROVE  Fired(c, "submit") \in Eds /\ EdInv(Fired(c, "submit"), rd, ly)
<1> DEFINE ts == c.timers \ {"submit"}
           d == [c EXCEPT !.timers = ts, !.recent = FALSE]
<1>1. ts \in SUBSET Timers /\ \A t \in {"quality", "detail", "settle"} : t \in ts <=> t \in c.timers
  BY EdTypes
<1>2. Fired(c, "submit") = StartNext(d)
  BY EdTypes DEF Fired
<1> HIDE DEF ts
<1>3. /\ d \in Eds
      /\ d.edit = c.edit /\ d.committed = c.committed /\ d.dragging = c.dragging
      /\ d.panel = c.panel /\ d.applied = c.applied /\ d.fullFrame = c.fullFrame
      /\ d.view = c.view /\ d.zoomed = c.zoomed /\ d.steady = c.steady
      /\ d.gen = c.gen /\ d.serial = c.serial /\ d.ready = c.ready
      /\ d.pending = c.pending /\ d.inflight = c.inflight
      /\ d.waiting = c.waiting /\ d.token = c.token /\ d.overtook = c.overtook
      /\ d.failed = c.failed /\ d.timers = ts
  BY <1>1 DEF Eds
<1> HIDE DEF d
<1>4. Core(d, rd, ly) /\ BaseComing(d)
  BY <1>1, <1>3, Irrelevant DEF EdInv
<1> QED
  BY <1>2, <1>3, <1>4, StartNextKeeps DEF EdInv

LEMMA FireDetail ==
  ASSUME NEW c \in Eds, NEW ly \in Layers, NEW rd \in Results, EdInv(c, rd, ly)
  PROVE  Fired(c, "detail") \in Eds /\ EdInv(Fired(c, "detail"), rd, ly)
<1> DEFINE ts == c.timers \ {"detail"}
           off == [c EXCEPT !.timers = ts]
<1>1. ts \in SUBSET Timers /\ \A t \in {"quality", "settle"} : t \in ts <=> t \in c.timers
  BY EdTypes
<1>2. Fired(c, "detail") = TriggerDetailPreview(off)
  BY EdTypes DEF Fired
<1>2b. ts \ {"detail"} = c.timers \ {"detail"}
  OBVIOUS
<1> HIDE DEF ts
<1>3. /\ off \in Eds
      /\ off.edit = c.edit /\ off.committed = c.committed
      /\ off.dragging = c.dragging /\ off.panel = c.panel
      /\ off.applied = c.applied /\ off.fullFrame = c.fullFrame
      /\ off.view = c.view /\ off.zoomed = c.zoomed /\ off.steady = c.steady
      /\ off.gen = c.gen /\ off.serial = c.serial /\ off.ready = c.ready
      /\ off.pending = c.pending /\ off.inflight = c.inflight
      /\ off.waiting = c.waiting /\ off.recent = c.recent /\ off.token = c.token
      /\ off.overtook = c.overtook /\ off.failed = c.failed /\ off.timers = ts
  BY <1>1, TimerFacts
<1> HIDE DEF off
<1>4. CASE CanScheduleDetailPreview(off)
  <2> DEFINE w == [off EXCEPT !.serial = off.serial + 1]
             no == FALSE
             d == Put(w, "detail", no)
  <2>1. Fired(c, "detail") = StartNext(d)
    BY <1>2, <1>4, EnqueueIs DEF TriggerDetailPreview
  <2>1b. no \in BOOLEAN /\ no = FALSE
    OBVIOUS
  <2> HIDE DEF no
  <2>2. /\ w \in Eds
        /\ w.edit = off.edit /\ w.committed = off.committed
        /\ w.dragging = off.dragging /\ w.panel = off.panel
        /\ w.applied = off.applied /\ w.fullFrame = off.fullFrame
        /\ w.view = off.view /\ w.zoomed = off.zoomed /\ w.steady = off.steady
        /\ w.gen = off.gen /\ w.ready = off.ready /\ w.pending = off.pending
        /\ w.inflight = off.inflight /\ w.waiting = off.waiting
        /\ w.timers = off.timers /\ w.recent = off.recent /\ w.token = off.token
        /\ w.overtook = off.overtook /\ w.failed = off.failed
    BY <1>3, EdTypes DEF Eds
  <2> HIDE DEF w
  <2>3. "fast" \in Kinds /\ "quality" \in Kinds /\ "detail" \in Kinds
    BY RequestFacts
  <2>4. /\ d \in Eds
        /\ d.edit = w.edit /\ d.committed = w.committed /\ d.dragging = w.dragging
        /\ d.panel = w.panel /\ d.applied = w.applied /\ d.fullFrame = w.fullFrame
        /\ d.view = w.view /\ d.zoomed = w.zoomed /\ d.steady = w.steady
        /\ d.gen = w.gen /\ d.serial = w.serial /\ d.ready = w.ready
        /\ d.inflight = w.inflight /\ d.waiting = w.waiting /\ d.timers = w.timers
        /\ d.recent = w.recent /\ d.token = w.token /\ d.overtook = w.overtook
        /\ d.failed = w.failed
        /\ \A j \in Kinds \ {"detail"} : d.pending[j] = w.pending[j]
        /\ d.pending["detail"] \in Requests /\ d.pending["detail"].kind = "detail"
        /\ d.pending["detail"].gen = w.gen /\ d.pending["detail"].edit = w.edit
        /\ d.pending["detail"].apply = no
    BY <2>2, <2>3, <2>1b, PutFacts
  <2> HIDE DEF d
  <2>5. /\ d.edit = c.edit /\ d.committed = c.committed /\ d.dragging = c.dragging
        /\ d.panel = c.panel /\ d.applied = c.applied
        /\ d.fullFrame = c.fullFrame /\ d.view = c.view /\ d.zoomed = c.zoomed
        /\ d.steady = c.steady /\ d.gen = c.gen
        /\ d.ready = c.ready /\ d.inflight = c.inflight /\ d.waiting = c.waiting
        /\ d.recent = c.recent /\ d.token = c.token /\ d.overtook = c.overtook
        /\ d.failed = c.failed
        /\ d.timers = ts
    BY <1>3, <2>2, <2>4
  <2>6. Pend(d, "detail") /\ \A j \in Kinds \ {"detail"} : Pend(d, j) = Pend(c, j) /\ d.pending[j] = c.pending[j]
    BY <1>3, <2>2, <2>3, <2>4, RequestFacts DEF Pend
  <2>7. Busy(d) = Busy(c) /\ Stale(d) = Stale(c) /\ Current(d) = Current(c) /\ Owed(d) = Owed(c)
    BY <2>3, <2>5, <2>6 DEF Busy, Stale, Current, Owed
  <2>8. RequestsRight(d)
    <3>1. ASSUME NEW j \in Kinds, Pend(d, j)
          PROVE  /\ d.pending[j].kind = j /\ d.pending[j].gen = d.gen
                 /\ d.pending[j].edit = d.edit
                 /\ (j = "fast" => d.pending[j].apply) /\ (j = "detail" => ~d.pending[j].apply)
      <4>1. CASE j = "detail"
        BY <1>3, <2>1b, <2>2, <2>4, <2>5, <4>1
      <4>2. CASE j # "detail"
        BY <2>5, <2>6, <3>1, <4>2 DEF RequestsRight, Core, EdInv
      <4> QED
        BY <4>1, <4>2
    <3> QED
      BY <1>1, <2>3, <2>5, <2>6, <2>7, <3>1 DEF RequestsRight, Core, EdInv
  <2>9. AppliedRight(d)
    BY <1>1, <2>3, <2>5, <2>6, <2>7 DEF AppliedRight, Core, EdInv
  <2>10. FramesRight(d, rd, ly)
    BY <2>3, <2>5, <2>6, <2>7 DEF FramesRight, Core, EdInv
  <2>11. PatchRight(d, rd, ly)
    BY <2>5, <2>6 DEF PatchRight, DetailDue, Core, EdInv
  <2>12. BaseComing(d)
    BY <1>1, <2>3, <2>5, <2>6, <2>7 DEF BaseComing, EdInv
  <2> QED
    BY <2>1, <2>4, <2>8, <2>9, <2>10, <2>11, <2>12, StartNextKeeps DEF EdInv, Core
<1>5. CASE ~CanScheduleDetailPreview(off)
  <2> DEFINE d == InvalidateDetailPreviewState(off)
             b == InvalidateDetailPreviewState(c)
  <2>1. Fired(c, "detail") = d
    BY <1>2, <1>5 DEF TriggerDetailPreview
  <2>2. ~WantsDetailPreviewFromViewport(c) \/ c.ready = 0
    BY <1>3, <1>5 DEF CanScheduleDetailPreview, WantsDetailPreviewFromViewport, EdInv, Core,
      RequestsRight
  <2>3. Core(b, rd, ly) /\ BaseComing(b)
    BY <2>2, InvalidateKeeps DEF EdInv
  <2>4. /\ d \in Eds
        /\ d.edit = off.edit /\ d.committed = off.committed
        /\ d.dragging = off.dragging /\ d.panel = off.panel
        /\ d.applied = off.applied /\ d.fullFrame = off.fullFrame
        /\ d.view = off.view /\ d.zoomed = off.zoomed /\ d.steady = off.steady
        /\ d.gen = off.gen /\ d.serial = off.serial /\ d.ready = off.ready
        /\ d.inflight = off.inflight /\ d.recent = off.recent
        /\ d.overtook = off.overtook /\ d.failed = off.failed /\ d.waiting = FALSE
        /\ d.timers = off.timers \ {"detail"} /\ d.token = NoToken
        /\ d.pending["detail"] = NoRequest
        /\ \A j \in Kinds \ {"detail"} : d.pending[j] = off.pending[j]
    BY <1>3, InvalidateFacts
  <2>5. /\ b \in Eds
        /\ b.edit = c.edit /\ b.committed = c.committed /\ b.dragging = c.dragging
        /\ b.panel = c.panel /\ b.applied = c.applied /\ b.fullFrame = c.fullFrame
        /\ b.view = c.view /\ b.zoomed = c.zoomed /\ b.steady = c.steady
        /\ b.gen = c.gen /\ b.serial = c.serial /\ b.ready = c.ready
        /\ b.inflight = c.inflight /\ b.recent = c.recent
        /\ b.overtook = c.overtook /\ b.failed = c.failed /\ b.waiting = FALSE
        /\ b.timers = c.timers \ {"detail"} /\ b.token = NoToken
        /\ b.pending["detail"] = NoRequest
        /\ \A j \in Kinds \ {"detail"} : b.pending[j] = c.pending[j]
    BY InvalidateFacts
  <2> HIDE DEF d, b
  <2>6. d.pending = b.pending
    <3>1. d.pending \in [Kinds -> MayAsk] /\ b.pending \in [Kinds -> MayAsk]
      BY <2>4, <2>5, EdTypes
    <3>2. \A j \in Kinds : d.pending[j] = b.pending[j]
      BY <1>3, <2>4, <2>5
    <3> QED
      BY <3>1, <3>2
  <2>7. d.timers = b.timers
    BY <1>2b, <1>3, <2>4, <2>5
  <2>8. /\ d.edit = b.edit /\ d.dragging = b.dragging /\ d.panel = b.panel
        /\ d.applied = b.applied /\ d.fullFrame = b.fullFrame
        /\ d.view = b.view /\ d.zoomed = b.zoomed /\ d.steady = b.steady /\ d.gen = b.gen
        /\ d.ready = b.ready
        /\ d.pending = b.pending /\ d.inflight = b.inflight /\ d.token = b.token
        /\ d.overtook = b.overtook /\ d.failed = b.failed /\ d.committed = b.committed
    BY <1>3, <2>4, <2>5, <2>6
  <2>9. Core(d, rd, ly) /\ BaseComing(d)
    BY <2>3, <2>7, <2>8, Irrelevant
  <2> QED
    BY <2>1, <2>4, <2>9 DEF EdInv
<1> QED
  BY <1>4, <1>5

LEMMA FireSettle ==
  ASSUME NEW c \in Eds, NEW ly \in Layers, NEW rd \in Results, EdInv(c, rd, ly)
  PROVE  Fired(c, "settle") \in Eds /\ EdInv(Fired(c, "settle"), rd, ly)
<1> DEFINE ts == c.timers \ {"settle"}
           x == [c EXCEPT !.timers = ts, !.steady = TRUE]
<1>1. ts \in SUBSET Timers /\ \A t \in {"quality", "detail"} : t \in ts <=> t \in c.timers
  BY EdTypes
<1>2. Fired(c, "settle") = MaybeScheduleDetail(x)
  BY EdTypes DEF Fired
<1> HIDE DEF ts
<1>3. /\ x \in Eds
      /\ x.edit = c.edit /\ x.committed = c.committed /\ x.dragging = c.dragging
      /\ x.panel = c.panel /\ x.applied = c.applied /\ x.fullFrame = c.fullFrame
      /\ x.view = c.view /\ x.zoomed = c.zoomed /\ x.gen = c.gen
      /\ x.serial = c.serial /\ x.ready = c.ready /\ x.pending = c.pending
      /\ x.inflight = c.inflight /\ x.waiting = c.waiting /\ x.recent = c.recent
      /\ x.token = c.token /\ x.overtook = c.overtook /\ x.failed = c.failed
      /\ x.timers = ts /\ x.steady = TRUE
  BY <1>1 DEF Eds
<1> HIDE DEF x
<1>4. (\A k : Pend(x, k) = Pend(c, k))
      /\ Busy(x) = Busy(c) /\ Stale(x) = Stale(c) /\ Current(x) = Current(c)
      /\ Owed(x) = Owed(c)
  BY <1>3 DEF Busy, Stale, Current, Owed, Pend
<1>5. RequestsRight(x)
  BY <1>1, <1>3, <1>4 DEF RequestsRight, Core, EdInv
<1>6. AppliedRight(x)
  BY <1>1, <1>3, <1>4 DEF AppliedRight, Core, EdInv
<1>7. FramesRight(x, rd, ly)
  BY <1>3, <1>4 DEF FramesRight, Core, EdInv
<1>8. BaseComing(x)
  BY <1>1, <1>3, <1>4 DEF BaseComing, EdInv
<1>9. CASE ~(c.zoomed /\ c.ready # 0)
  <2>1. PatchRight(x, rd, ly)
    BY <1>1, <1>3, <1>4, <1>9 DEF PatchRight, DetailDue, Core, EdInv
  <2> QED
    BY <1>2, <1>3, <1>5, <1>6, <1>7, <1>8, <2>1, MaybeKeeps DEF EdInv, Core
<1>10. CASE c.zoomed /\ c.ready # 0
  <2>1. WantsDetailPreviewFromViewport(x) /\ x.ready = x.gen
    BY <1>3, <1>5, <1>10 DEF WantsDetailPreviewFromViewport, RequestsRight
  <2> DEFINE us == x.timers \cup {"detail"}
             d == [x EXCEPT !.waiting = FALSE, !.timers = us]
  <2>2. MaybeScheduleDetail(x) = d
    BY <2>1 DEF MaybeScheduleDetail
  <2>3. us \in SUBSET Timers /\ "detail" \in us /\ \A t \in {"quality", "settle"} : t \in us <=> t \in x.timers
    BY <1>3, EdTypes DEF Timers
  <2> HIDE DEF us
  <2>4. /\ d \in Eds
        /\ d.edit = x.edit /\ d.committed = x.committed /\ d.dragging = x.dragging
        /\ d.panel = x.panel /\ d.applied = x.applied /\ d.fullFrame = x.fullFrame
        /\ d.view = x.view /\ d.zoomed = x.zoomed /\ d.steady = x.steady
        /\ d.gen = x.gen /\ d.serial = x.serial /\ d.ready = x.ready
        /\ d.pending = x.pending /\ d.inflight = x.inflight /\ d.recent = x.recent
        /\ d.token = x.token /\ d.overtook = x.overtook /\ d.failed = x.failed
        /\ d.timers = us
    BY <1>3, <2>3 DEF Eds
  <2> HIDE DEF d
  <2>5. (\A k : Pend(d, k) = Pend(x, k))
        /\ Busy(d) = Busy(x) /\ Stale(d) = Stale(x) /\ Current(d) = Current(x)
        /\ Owed(d) = Owed(x)
    BY <2>4 DEF Busy, Stale, Current, Owed, Pend
  <2>6. RequestsRight(d)
    BY <1>5, <2>3, <2>4, <2>5 DEF RequestsRight
  <2>7. AppliedRight(d)
    BY <1>6, <2>3, <2>4, <2>5 DEF AppliedRight
  <2>8. FramesRight(d, rd, ly)
    BY <1>7, <2>4, <2>5 DEF FramesRight
  <2>9. PatchRight(d, rd, ly)
    BY <1>3, <2>3, <2>4 DEF PatchRight, DetailDue, Core, EdInv
  <2>10. BaseComing(d)
    BY <1>8, <2>3, <2>4, <2>5 DEF BaseComing
  <2> QED
    BY <1>2, <2>2, <2>4, <2>6, <2>7, <2>8, <2>9, <2>10 DEF EdInv, Core
<1> QED
  BY <1>9, <1>10

--------------------------------------------------------------------------------
(* The steps.                                                                     *)

IInv == ed \in Eds /\ rendered \in Results /\ layers \in Layers /\ EdInv(ed, rendered, layers)

LEMMA IInvPrimed ==
  ed' \in Eds /\ rendered' \in Results /\ layers' \in Layers /\ EdInv(ed', rendered', layers') => IInv'
  BY DEF IInv, EdInv, Core, RequestsRight, AppliedRight, BaseComing, FramesRight, PatchRight,
         Pend, Busy, Stale, Owed, Current, Shown, DetailDue, PatchIsFresh

LEMMA InitInv == Init => IInv
<1> SUFFICES ASSUME Init PROVE IInv
  OBVIOUS
<1> DEFINE z == [k \in Kinds |-> NoRequest]
           sh == Shown(Saved, "tone")
           ly == [k \in Kinds |-> NoFrame]
<1>1. z \in [Kinds -> MayAsk] /\ \A k \in Kinds : z[k] = NoRequest
  BY RequestFacts
<1>2. sh \in Images /\ Saved \in Edits
  BY ShownFacts, BoundsAssumption
<1>3. ly \in Layers /\ \A k \in Kinds : ly[k].gen = 0
  BY FrameFacts DEF Layers
<1>4. Opened =
    [edit |-> Saved, committed |-> Saved, dragging |-> FALSE, panel |-> "tone",
     applied |-> sh, fullFrame |-> FALSE, view |-> 0, zoomed |-> FALSE, steady |-> TRUE,
     gen |-> 0, serial |-> 0, ready |-> 0, pending |-> z, inflight |-> NoRequest,
     waiting |-> FALSE, timers |-> {}, recent |-> FALSE, token |-> NoToken,
     overtook |-> FALSE, failed |-> FALSE]
  BY DEF Opened
<1> HIDE DEF z, sh
<1>5. Opened \in Eds
  BY <1>1, <1>2, <1>4, RequestFacts DEF Eds, Panels, NoToken
<1>6. /\ Opened.edit = Saved /\ Opened.committed = Saved /\ Opened.panel = "tone"
      /\ Opened.applied = sh /\ Opened.inflight = NoRequest /\ Opened.gen = 0
      /\ Opened.steady
  BY <1>4
<1>7. Weak(Opened, "none", ly)
  BY <1>3, <1>6 DEF Weak, Busy
<1>8. Opened.applied = Current(Opened)
  BY <1>6 DEF Current, sh
<1>9. /\ AdvancePreviewGeneration(Opened) \in Eds
      /\ Advanced(AdvancePreviewGeneration(Opened), Opened)
  BY <1>5, AdvanceAdvances
<1> DEFINE y == AdvancePreviewGeneration(Opened)
           x == RequestQualityPreview(y, FALSE)
<1> HIDE DEF y, ly
<1>10. x \in Eds /\ EdInv(x, "none", ly)
  BY <1>3, <1>5, <1>6, <1>7, <1>8, <1>9, RequestQualityAdvanced DEF y, Results
<1>11. ed = x /\ rendered = "none" /\ layers = ly
  BY DEF Init, x, y, ly
<1> HIDE DEF x
<1> QED
  BY <1>3, <1>10, <1>11 DEF IInv, Results

LEMMA StepInv == IInv /\ [Next]_vars => IInv'
<1> SUFFICES ASSUME IInv, [Next]_vars PROVE IInv'
  OBVIOUS
<1>a. ed \in Eds /\ rendered \in Results /\ layers \in Layers /\ EdInv(ed, rendered, layers)
  BY DEF IInv
<1>b. ASSUME ed' \in Eds, EdInv(ed', rendered, layers), UNCHANGED <<rendered, layers>>
      PROVE  IInv'
  BY <1>a, <1>b, IInvPrimed
<1>c. Core(ed, rendered, layers) /\ Weak(ed, rendered, layers)
  BY <1>a, CoreIsWeak DEF EdInv
<1>1. ASSUME NEW e \in Edits, Drag(e) PROVE IInv'
  <2> DEFINE c == [ed EXCEPT !.edit = e, !.dragging = TRUE]
             y == AdvancePreviewGeneration(c)
  <2>1. /\ c \in Eds
        /\ c.committed = ed.committed /\ c.panel = ed.panel
        /\ c.applied = ed.applied /\ c.fullFrame = ed.fullFrame
        /\ c.view = ed.view /\ c.zoomed = ed.zoomed /\ c.steady = ed.steady
        /\ c.gen = ed.gen /\ c.serial = ed.serial /\ c.ready = ed.ready
        /\ c.pending = ed.pending /\ c.inflight = ed.inflight
        /\ c.waiting = ed.waiting /\ c.timers = ed.timers /\ c.recent = ed.recent
        /\ c.token = ed.token /\ c.overtook = ed.overtook /\ c.failed = ed.failed
        /\ c.edit = e /\ c.dragging = TRUE
    BY <1>1, <1>a DEF Eds
  <2>2. ed' = StartNext(Put(y, "fast", TRUE)) /\ UNCHANGED <<rendered, layers>> /\ ed.panel # "raw"
    BY <1>1, EnqueueIs DEF Drag, RequestRender
  <2> HIDE DEF c
  <2>3. Weak(c, rendered, layers)
    BY <1>c, <2>1, <2>2 DEF Weak, Busy
  <2>4. y \in Eds /\ Advanced(y, c)
    BY <2>1, AdvanceAdvances
  <2> HIDE DEF y
  <2>5. /\ Put(y, "fast", TRUE) \in Eds /\ Core(Put(y, "fast", TRUE), rendered, layers)
        /\ BaseComing(Put(y, "fast", TRUE))
    BY <1>a, <2>1, <2>3, <2>4, AdvancedKeeps
  <2>6. ed' \in Eds /\ EdInv(ed', rendered, layers)
    BY <1>a, <2>2, <2>5, StartNextKeeps DEF EdInv
  <2> QED
    BY <1>b, <2>2, <2>6
<1>2. ASSUME NEW e \in Edits, RawChoice(e) PROVE IInv'
  <2> DEFINE c == [ed EXCEPT !.edit = e]
             x == Commit(c)
  <2>1. /\ c \in Eds
        /\ c.committed = ed.committed /\ c.dragging = ed.dragging
        /\ c.panel = ed.panel /\ c.applied = ed.applied
        /\ c.fullFrame = ed.fullFrame /\ c.view = ed.view /\ c.zoomed = ed.zoomed
        /\ c.steady = ed.steady /\ c.gen = ed.gen /\ c.serial = ed.serial
        /\ c.ready = ed.ready /\ c.pending = ed.pending
        /\ c.inflight = ed.inflight /\ c.waiting = ed.waiting
        /\ c.timers = ed.timers /\ c.recent = ed.recent /\ c.token = ed.token
        /\ c.overtook = ed.overtook /\ c.failed = ed.failed /\ c.edit = e
    BY <1>2, <1>a DEF Eds
  <2>2. ed' = StartNext(Put(x, "fast", TRUE)) /\ UNCHANGED <<rendered, layers>> /\ ed.panel = "raw"
    BY <1>2, EnqueueIs DEF RawChoice, RequestRender
  <2> HIDE DEF c
  <2>3. Weak(c, rendered, layers)
    BY <1>c, <2>1, <2>2 DEF Weak, Busy
  <2>4. c.edit = c.committed => Core(c, rendered, layers)
    <3>1. ed.edit = ed.committed
      BY <1>c, <2>2 DEF Core, RequestsRight
    <3>2. CASE c.edit = c.committed
      <4>1. c.edit = ed.edit
        BY <2>1, <3>1, <3>2
      <4> QED
        BY <1>c, <2>1, <4>1, Irrelevant
    <3> QED
      BY <3>2
  <2>5. x \in Eds /\ EdInv(x, rendered, layers)
    BY <1>a, <2>1, <2>3, <2>4, CommitKeeps
  <2> HIDE DEF x
  <2>6. /\ Put(x, "fast", TRUE) \in Eds /\ Core(Put(x, "fast", TRUE), rendered, layers)
        /\ BaseComing(Put(x, "fast", TRUE))
    BY <1>a, <2>5, PutKeeps, RequestFacts DEF EdInv
  <2>7. ed' \in Eds /\ EdInv(ed', rendered, layers)
    BY <1>a, <2>2, <2>6, StartNextKeeps DEF EdInv
  <2> QED
    BY <1>b, <2>2, <2>7
<1>3. ASSUME Release PROVE IInv'
  <2>1. ed' \in Eds /\ EdInv(ed', rendered, layers)
    BY <1>3, <1>a, <1>c, CommitKeeps DEF Release
  <2> QED
    BY <1>3, <1>b, <2>1 DEF Release
<1>4. ASSUME Elapse PROVE IInv'
  <2> DEFINE d == [ed EXCEPT !.recent = FALSE]
  <2>1. /\ d \in Eds
        /\ d.edit = ed.edit /\ d.committed = ed.committed
        /\ d.dragging = ed.dragging /\ d.panel = ed.panel
        /\ d.applied = ed.applied /\ d.fullFrame = ed.fullFrame
        /\ d.view = ed.view /\ d.zoomed = ed.zoomed /\ d.steady = ed.steady
        /\ d.gen = ed.gen /\ d.serial = ed.serial /\ d.ready = ed.ready
        /\ d.pending = ed.pending /\ d.inflight = ed.inflight
        /\ d.waiting = ed.waiting /\ d.timers = ed.timers /\ d.token = ed.token
        /\ d.overtook = ed.overtook /\ d.failed = ed.failed
    BY <1>a DEF Eds
  <2>2. ed' = d /\ UNCHANGED <<rendered, layers>>
    BY <1>4 DEF Elapse
  <2> HIDE DEF d
  <2>3. EdInv(d, rendered, layers)
    BY <1>a, <2>1, Irrelevant DEF EdInv
  <2> QED
    BY <1>b, <2>1, <2>2, <2>3
<1>5. ASSUME Render PROVE IInv'
  <2>1. layers' \in Layers /\ EdInv(ed, "ok", layers')
    BY <1>5, <1>a, RenderKeeps DEF Render, Busy
  <2>2. ed' = ed /\ rendered' = "ok"
    BY <1>5 DEF Render
  <2> QED
    BY <1>a, <2>1, <2>2, IInvPrimed DEF Results
<1>6. ASSUME RenderFails PROVE IInv'
  <2>1. Busy(ed) /\ rendered = "none" /\ UNCHANGED <<ed, layers>> /\ rendered' = "failed"
    BY <1>6 DEF RenderFails, Busy
  <2>2. FramesRight(ed, "failed", layers)
    BY <1>a, <2>1 DEF FramesRight, EdInv, Core
  <2>3. PatchRight(ed, "failed", layers)
    BY <1>a, <2>1 DEF PatchRight, DetailDue, EdInv, Core
  <2>4. EdInv(ed, "failed", layers)
    BY <1>a, <2>2, <2>3 DEF EdInv, Core
  <2> QED
    BY <1>a, <2>1, <2>4, IInvPrimed DEF Results
<1>7. ASSUME PollInflight PROVE IInv'
  <2> DEFINE ok == rendered = "ok"
  <2>1. ok \in BOOLEAN /\ rendered = IF ok THEN "ok" ELSE "failed"
    BY <1>7, <1>a DEF PollInflight, Results
  <2>2. ed' = OnRenderFinished(ed, ok) /\ rendered' = "none" /\ layers' = layers
    BY <1>7 DEF PollInflight
  <2> HIDE DEF ok
  <2>3. ed' \in Eds /\ EdInv(ed', "none", layers)
    BY <1>a, <2>1, <2>2, PollKeeps
  <2> QED
    BY <1>a, <2>2, <2>3, IInvPrimed DEF Results
<1>8. ASSUME NEW p \in Panels, Switch(p) PROVE IInv'
  <2>1. ed' \in Eds /\ EdInv(ed', rendered, layers)
    BY <1>8, <1>a, SwitchKeeps DEF Switch
  <2> QED
    BY <1>8, <1>b, <2>1 DEF Switch
<1>9. ASSUME NEW z \in BOOLEAN, MoveView(z) PROVE IInv'
  <2>1. ed' \in Eds /\ EdInv(ed', rendered, layers)
    BY <1>9, <1>a, MoveKeeps DEF MoveView
  <2> QED
    BY <1>9, <1>b, <2>1 DEF MoveView
<1>10. ASSUME NEW t \in Timers, Fire(t) PROVE IInv'
  <2>1. ed' \in Eds /\ EdInv(ed', rendered, layers)
    BY <1>10, <1>a, FireQuality, FireDetail, FireSubmit, FireSettle DEF Fire, Timers
  <2> QED
    BY <1>10, <1>b, <2>1 DEF Fire
<1>11. CASE UNCHANGED vars
  BY <1>11, <1>a, <1>b DEF vars
<1> QED
  BY <1>1, <1>2, <1>3, <1>4, <1>5, <1>6, <1>7, <1>8, <1>9, <1>10, <1>11 DEF Next

--------------------------------------------------------------------------------
(* The theorems.                                                                  *)

\* The coordinator keeps its requests, the frames it has been shown and what is
\* still to come in step, whatever the order of timers, polls and handlers.
THEOREM Invariance == Spec => []IInv
BY InitInv, StepInv, PTL DEF Spec

LEMMA TypesHold == IInv => TypeOK
<1> SUFFICES ASSUME IInv PROVE TypeOK
  OBVIOUS
<1>1. /\ ed.edit \in Edits /\ ed.committed \in Edits /\ ed.panel \in Panels
      /\ ed.gen \in Nat /\ ed.timers \subseteq Timers
      /\ ed.pending \in [Kinds -> Requests \cup {NoRequest}]
      /\ ed.inflight \in Requests \cup {NoRequest}
  BY EdTypes DEF IInv, MayAsk
<1>2. ed.ready \in {0, ed.gen}
  BY DEF IInv, EdInv, Core, RequestsRight
<1> QED
  BY <1>1, <1>2 DEF TypeOK, IInv, Results

\* The generations of the frames never run ahead of the coordinator's.
LEMMA GensHold ==
  IInv => /\ ed.gen \in Nat /\ ed.gen >= 1
          /\ \A k \in {"fast", "quality", "detail"} : layers[k].gen \in Nat /\ layers[k].gen <= ed.gen
<1> SUFFICES ASSUME IInv PROVE /\ ed.gen \in Nat /\ ed.gen >= 1
          /\ \A k \in {"fast", "quality", "detail"} : layers[k].gen \in Nat /\ layers[k].gen <= ed.gen
  OBVIOUS
<1>1. \A k \in Kinds : layers[k] \in Frames \cup {NoFrame}
  BY DEF IInv, Layers
<1> QED
  BY <1>1, RequestFacts, FrameFacts, EdTypes DEF IInv, EdInv, Core, RequestsRight, FramesRight

\* A base that is marked as ready is the one on the screen: a late frame of an
\* older generation never lies under the patches of the current one.
THEOREM ReadyBase == Spec => []ReadyBaseIsShown
<1>1. IInv => ReadyBaseIsShown
  <2> SUFFICES ASSUME IInv, ed.ready # 0
               PROVE  layers["quality"].gen = ed.ready /\ Displayed = layers["quality"]
    BY DEF ReadyBaseIsShown
  <2>1. layers["quality"].gen = ed.gen /\ ed.ready = ed.gen
    BY DEF IInv, EdInv, Core, FramesRight, RequestsRight
  <2> QED
    BY <2>1, GensHold DEF Displayed
<1> QED
  BY <1>1, Invariance, PTL

LEMMA SettledFacts ==
  ASSUME IInv, Settled
  PROVE  /\ ~Busy(ed) /\ ~Stale(ed) /\ \A k \in Kinds : ~Pend(ed, k)
         /\ ed.timers = {} /\ ed.inflight.kind = "none" /\ rendered = "none"
         /\ "fast" \in Kinds /\ "quality" \in Kinds /\ "detail" \in Kinds
<1>1. ~Busy(ed) /\ ed.inflight.kind = "none"
  BY RequestFacts DEF Settled, Busy
<1> QED
  BY <1>1, RequestFacts DEF Settled, Stale, Pend, Busy, IInv, EdInv, Core, FramesRight, Results

\* When nothing is asked for, rendered or timed any more, the viewer shows the
\* edit as the panel asks for it, and a zoomed viewport has its patch, of the
\* same edit: whatever was coalesced, overtaken or finished late.
THEOREM RestIsRight == Spec => []SettledRight
<1>1. IInv /\ Settled /\ ~ed.failed /\ ~ed.overtook =>
        Displayed.image = Shown(ed.edit, ed.panel)
  <2> SUFFICES ASSUME IInv, Settled, ~ed.failed, ~ed.overtook
               PROVE  Displayed.image = Current(ed)
    BY DEF Current
  <2>1. CASE layers["quality"].gen = ed.gen
    <3>1. Displayed = layers["quality"]
      BY <2>1, GensHold DEF Displayed
    <3>2. layers["quality"].image = Current(ed)
      BY <2>1, SettledFacts DEF IInv, EdInv, Core, FramesRight
    <3> QED
      BY <3>1, <3>2
  <2>2. CASE layers["quality"].gen # ed.gen
    <3>1. layers["fast"].gen = ed.gen
      BY <2>2, SettledFacts DEF IInv, EdInv, Core, FramesRight
    <3>2. Displayed = layers["fast"]
      BY <2>2, <3>1, GensHold DEF Displayed
    <3>3. layers["fast"].image = Current(ed)
      BY <3>1 DEF IInv, EdInv, Core, FramesRight
    <3> QED
      BY <3>2, <3>3
  <2> QED
    BY <2>1, <2>2
<1>2. IInv /\ Settled /\ ~ed.failed /\ PatchVisible /\ ~ed.overtook =>
        layers["detail"].image = layers["quality"].image
  <2> SUFFICES ASSUME IInv, Settled, ~ed.failed, ~ed.overtook, PatchVisible
               PROVE  layers["detail"].image = layers["quality"].image
    OBVIOUS
  <2>1. /\ layers["detail"].gen > 0
        /\ ed.token = <<layers["detail"].gen, layers["detail"].serial>>
        /\ layers["quality"].gen = layers["detail"].gen /\ layers["detail"].view = ed.view
        /\ ed.zoomed
    BY DEF PatchVisible
  <2>2. layers["detail"].gen \in Nat
    BY GensHold
  <2>3. ed.token[1] = layers["detail"].gen /\ ed.token # NoToken
    BY <2>1, <2>2 DEF NoToken
  <2>4. layers["detail"].gen = ed.gen
    BY <2>3 DEF IInv, EdInv, Core, RequestsRight
  <2>5. layers["detail"].image = Current(ed)
    BY <2>1, <2>3, <2>4, SettledFacts DEF IInv, EdInv, Core, PatchRight, DetailDue
  <2>6. layers["quality"].image = Current(ed)
    BY <2>1, <2>4, SettledFacts DEF IInv, EdInv, Core, FramesRight
  <2> QED
    BY <2>5, <2>6
<1>3. IInv /\ Settled /\ ~ed.failed /\ ~ed.dragging /\ ed.zoomed => PatchVisible
  <2> SUFFICES ASSUME IInv, Settled, ~ed.failed, ~ed.dragging, ed.zoomed PROVE PatchVisible
    OBVIOUS
  <2>1. ed.ready # 0
    BY SettledFacts DEF IInv, EdInv, BaseComing
  <2>2. PatchIsFresh(ed, layers)
    BY <2>1, SettledFacts DEF IInv, EdInv, Core, PatchRight
  <2>3. layers["quality"].gen = ed.gen
    BY <2>1 DEF IInv, EdInv, Core, FramesRight
  <2>4. ed.steady
    BY SettledFacts DEF IInv, EdInv, Core, RequestsRight
  <2> QED
    BY <2>2, <2>3, <2>4, GensHold DEF PatchVisible, PatchIsFresh
<1>4. IInv => SettledRight
  BY <1>1, <1>2, <1>3, TypesHold DEF SettledRight, SettledShowsEdit, PatchMatchesBase,
    SettledHasPatch
<1> QED
  BY <1>4, Invariance, PTL
================================================================================
