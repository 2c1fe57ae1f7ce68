------------------------------ MODULE Previews ------------------------------
(***************************************************************************)
(* What the operator sees of the captured pages: the worker thread cuts    *)
(* previews and unscaled details into files (preview.py, application.py),  *)
(* and the UI thread refreshes two image widgets from them (viewmodel.py,  *)
(* ui/kivy_app.py) while the operator zooms and pans.  The files have      *)
(* fixed names, so both threads meet in them.                              *)
(*                                                                         *)
(* A refresh takes two steps: the events, and the request of a detail with *)
(* the loading of the widgets.  Of the viewport the model keeps whether it *)
(* is enlarged and one of its two axes, in hundredths.  A page stands for  *)
(* a pair of them; a take is a capture or a rescan of a pair.              *)
(***************************************************************************)
EXTENDS Integers, Sequences

CONSTANTS
    Width,      \* of a captured page, in pixels
    Window,     \* the greatest width of a detail
    PanStep,    \* how far a key pans, in hundredths
    MaxTakes    \* bound on the takes

ASSUME SizeAssumption == Width \in Nat \ {0} /\ Window \in Nat \ {0}
ASSUME PanAssumption == PanStep \in 1..100
ASSUME TakesAssumption == MaxTakes \in Nat

VARIABLES
    taken,      \* session.last_capture: its page, its take, and whether it is a rescan
    job,        \* the runner's operation: its command, step, side and centre
    files,      \* the preview files, by side and name
    queue,      \* UiEventBridge._events
    view,       \* view_model.state
    pc,         \* where the UI thread is in refresh, or "idle"
    detail_key, \* PiScanKivyApp.detail_key
    widgets,    \* the source of each Image, and the picture it has loaded
    told        \* auxiliary: the page and take that CAPTURE_SUCCEEDED has last told of

vars == <<taken, job, files, queue, view, pc, detail_key, widgets, told>>

Sides == {"even", "odd"}
Pages == 1..MaxTakes
Centres == -100..100
None == -1              \* no page, and no source
NoKey == 101            \* detail_key is None
Fitted == -1            \* a picture of the whole page, not of a window
DetailName == 0         \* detail-even.jpg and detail-odd.jpg
Names == Pages \cup {DetailName}

\* What a file or a widget holds: a picture, a file that is not written whole, or
\* nothing of this session.
Picture(take, at) == [take |-> take, at |-> at]
Empty == Picture(0, Fitted)
Torn == Picture(-1, Fitted)
Pictures == [take : 0..MaxTakes, at : {Fitted} \cup 0..Width]

Clamp(x, low, high) == IF x < low THEN low ELSE IF x > high THEN high ELSE x

Idle == [command |-> "none", step |-> "none", side |-> "even", centre |-> 0]
Ended == [Idle EXCEPT !.step = "done"]

-----------------------------------------------------------------------------
(***************************************************************************)
(* preview.py                                                              *)
(***************************************************************************)
CropWidth == IF Window < Width THEN Window ELSE Width

\* int(round(n / 200)): the even one of two integers that are equally near.
Round(n) ==
    LET floor == n \div 200
        rest == n % 200
    IN IF rest < 100 \/ (rest = 100 /\ floor % 2 = 0) THEN floor ELSE floor + 1

\* Twice the pixel of the viewport's centre, in hundredths.
CentrePixel(centre) == (centre + 100) * Width

\* Mutant: the window is not kept within the page on the right.
LeftUnclamped(centre) ==
    LET left == CentrePixel(centre) - 100 * CropWidth
    IN Round(IF left < 0 THEN 0 ELSE left)

\* The left edge of _detail_box.
DetailLeft(centre) ==
    Round(Clamp(CentrePixel(centre) - 100 * CropWidth, 0, 200 * (Width - CropWidth)))

\* Mutant: every pair has the same preview file.
OneName(page) == 1

\* The name of a preview has the number of the page.
PreviewName(page) == page

Cut == IF job.command = "detail" THEN Picture(taken.take, DetailLeft(job.centre))
       ELSE Picture(taken.take, Fitted)
Target == IF job.command = "detail" THEN DetailName ELSE PreviewName(taken.page)

\* CAPTURE_SUCCEEDED, with the previews' name or None.
ReportCapture(preview) ==
    /\ queue' = Append(queue, [kind |-> "captured", preview |-> preview])
    /\ told' = [page |-> taken.page, take |-> taken.take]

\* Mutant: the picture is saved under its name.
SaveInPlace ==
    /\ job.step = "save"
    /\ job' = [job EXCEPT !.step = "replace"]
    /\ files' = [files EXCEPT ![job.side][Target] = Torn]
    /\ UNCHANGED <<taken, queue, view, pc, detail_key, widgets, told>>

\* The picture is cut, transposed and saved under a temporary name.
Save ==
    /\ job.step = "save"
    /\ job' = [job EXCEPT !.step = "replace"]
    /\ UNCHANGED <<taken, files, queue, view, pc, detail_key, widgets, told>>

\* It takes its name; the odd page follows the even one.
Replace ==
    /\ job.step = "replace"
    /\ files' = [files EXCEPT ![job.side][Target] = Cut]
    /\ job' = IF job.side = "even" THEN [job EXCEPT !.step = "save", !.side = "odd"]
              ELSE [job EXCEPT !.step = "report"]
    /\ UNCHANGED <<taken, queue, view, pc, detail_key, widgets, told>>

\* PreviewError: the page of the other side may have its file already.  A capture is
\* reported without previews, a detail with a failure that changes nothing kept here.
CutFails ==
    /\ job.step = "save"
    /\ job' = Ended
    /\ IF job.command = "detail" THEN UNCHANGED <<queue, told>> ELSE ReportCapture(None)
    /\ UNCHANGED <<taken, files, view, pc, detail_key, widgets>>

\* What is not a PreviewError goes up through the operation, which ends without an event:
\* mkdir before a side is cut, an error of the picture that the except does not list, or
\* the unlink in the finally, after a side has its file or in the place of a PreviewError.
CutRaises ==
    /\ job.step \in {"save", "replace", "report"}
    /\ job' = Ended
    /\ UNCHANGED <<taken, files, queue, view, pc, detail_key, widgets, told>>

-----------------------------------------------------------------------------
(***************************************************************************)
(* The operations of the application                                       *)
(***************************************************************************)
Began(command, centre) ==
    [command |-> command, step |-> IF command = "detail" THEN "save" ELSE "take",
     side |-> "even", centre |-> centre]

\* A pair is published, or the capture fails.
Take ==
    /\ job.step = "take"
    /\ \/ /\ job.command = "capture"
          /\ taken' = [page |-> taken.page + 1, take |-> taken.take + 1, rescanned |-> FALSE]
          /\ job' = [job EXCEPT !.step = "save"]
       \/ /\ job.command = "rescan"
          /\ taken' = [taken EXCEPT !.take = @ + 1, !.rescanned = TRUE]
          /\ job' = [job EXCEPT !.step = "save"]
       \/ job' = Ended /\ UNCHANGED taken
    /\ UNCHANGED <<files, queue, view, pc, detail_key, widgets, told>>

\* CAPTURE_SUCCEEDED or DETAIL_READY.
Report ==
    /\ job.step = "report"
    /\ job' = Ended
    /\ IF job.command = "detail"
       THEN queue' = Append(queue, [kind |-> "detail"]) /\ UNCHANGED told
       ELSE ReportCapture(PreviewName(taken.page))
    /\ UNCHANGED <<taken, files, view, pc, detail_key, widgets>>

\* The future completes and the runner is free.
Complete ==
    /\ job.step = "done"
    /\ job' = Idle
    /\ UNCHANGED <<taken, files, queue, view, pc, detail_key, widgets, told>>

-----------------------------------------------------------------------------
(***************************************************************************)
(* The view model                                                          *)
(***************************************************************************)
\* Mutant: a new pair leaves the detail of the one before.
ApplyKeeping(v, event) ==
    IF event.kind = "captured"
    THEN [v EXCEPT !.last = TRUE, !.preview = event.preview]
    ELSE [v EXCEPT !.detail = TRUE]

Apply(v, event) ==
    IF event.kind = "captured"
    THEN [v EXCEPT !.last = TRUE, !.preview = event.preview, !.detail = FALSE]
    ELSE [v EXCEPT !.detail = TRUE]

\* The operator captures, with the pedal at any time, or rescans.
Dispatch(command) ==
    /\ ~view.busy /\ job = Idle
    /\ taken.take < MaxTakes
    /\ command = "rescan" => pc = "idle" /\ view.last
    /\ job' = Began(command, 0)
    /\ view' = [view EXCEPT !.busy = TRUE]
    /\ UNCHANGED <<taken, files, queue, pc, detail_key, widgets, told>>

\* Keys change the viewport; each is followed by a refresh.
ZoomPreview ==
    /\ pc = "idle"
    /\ view' \in {[view EXCEPT !.enlarged = e] : e \in BOOLEAN}
    /\ pc' = "drain"
    /\ UNCHANGED <<taken, job, files, queue, detail_key, widgets, told>>

\* Mutant: the offset is not kept within the page.
PanFurther ==
    /\ pc = "idle"
    /\ \E delta \in {-PanStep, PanStep} : view' = [view EXCEPT !.offset = @ + delta]
    /\ pc' = "drain"
    /\ UNCHANGED <<taken, job, files, queue, detail_key, widgets, told>>

PanPreview ==
    /\ pc = "idle"
    /\ \E delta \in {-PanStep, PanStep} :
          view' = [view EXCEPT !.offset = Clamp(@ + delta, -100, 100)]
    /\ pc' = "drain"
    /\ UNCHANGED <<taken, job, files, queue, detail_key, widgets, told>>

ResetPreview ==
    /\ pc = "idle"
    /\ view' = [view EXCEPT !.enlarged = FALSE, !.offset = 0, !.detail = FALSE]
    /\ pc' = "drain"
    /\ UNCHANGED <<taken, job, files, queue, detail_key, widgets, told>>

-----------------------------------------------------------------------------
(***************************************************************************)
(* refresh                                                                 *)
(***************************************************************************)
\* At a key or at the clock's tick the events are drained and applied.  There are
\* never as many of them as drain takes at most.
Drain ==
    /\ pc \in {"idle", "drain"}
    /\ \/ /\ queue # <<>>
          /\ view' = Apply(view, Head(queue))
          /\ queue' = Tail(queue)
          /\ pc' = "drain"
       \/ /\ queue = <<>>
          /\ pc' = "show"
          /\ UNCHANGED <<queue, view>>
    /\ UNCHANGED <<taken, job, files, detail_key, widgets, told>>

Zoomed == view.enlarged /\ view.last

\* _request_detail: where the viewport has moved since the last request; detail_key is
\* kept where the request fails later.
Wanted == Zoomed /\ view.offset # detail_key /\ job = Idle

ShowingDetail == Zoomed /\ view.detail

\* _set_preview: a file is loaded where the widget has another source.
SetPreview(side) ==
    LET source == IF ShowingDetail THEN DetailName ELSE view.preview
    IN IF source \notin {None, widgets[side].source}
       THEN [source |-> source, picture |-> files[side][source]]
       ELSE widgets[side]

\* poll reads busy after it has drained the events; a detail is asked for and the
\* widgets are set.
Show ==
    /\ pc = "show"
    /\ pc' = "idle"
    /\ detail_key' = IF ~Zoomed THEN NoKey ELSE IF Wanted THEN view.offset ELSE detail_key
    /\ job' = IF Wanted THEN Began("detail", view.offset) ELSE job
    /\ view' = [view EXCEPT !.busy = job' # Idle]
    /\ widgets' = [s \in Sides |-> SetPreview(s)]
    /\ UNCHANGED <<taken, files, queue, told>>

-----------------------------------------------------------------------------
Init ==
    /\ taken = [page |-> 0, take |-> 0, rescanned |-> FALSE]
    /\ job = Idle
    /\ files = [s \in Sides |-> [n \in Names |-> Empty]]
    /\ queue = <<>>
    /\ view = [enlarged |-> FALSE, offset |-> 0, last |-> FALSE, preview |-> None,
               detail |-> FALSE, busy |-> FALSE]
    /\ pc = "idle"
    /\ detail_key = NoKey
    /\ widgets = [s \in Sides |-> [source |-> None, picture |-> Empty]]
    /\ told = [page |-> 0, take |-> 0]

NoneFails ==
    \/ Save \/ Replace \/ Take \/ Report \/ Complete
    \/ Dispatch("capture") \/ Dispatch("rescan")
    \/ ZoomPreview \/ PanPreview \/ ResetPreview
    \/ Drain \/ Show

Next == NoneFails \/ CutFails \/ CutRaises

Spec == Init /\ [][Next]_vars

\* Executions in which every picture is cut and reported.
WholeSpec == Init /\ [][NoneFails]_vars
-----------------------------------------------------------------------------
Jobs == [command : {"none", "capture", "rescan", "detail"},
         step : {"none", "take", "save", "replace", "report", "done"},
         side : Sides, centre : Centres]
Events == [kind : {"captured"}, preview : Pages \cup {None}] \cup [kind : {"detail"}]
View == [enlarged : BOOLEAN, offset : Centres, last : BOOLEAN, preview : Pages \cup {None},
         detail : BOOLEAN, busy : BOOLEAN]

TypeOK ==
    /\ taken \in [page : 0..MaxTakes, take : 0..MaxTakes, rescanned : BOOLEAN]
    /\ job \in Jobs
    /\ files \in [Sides -> [Names -> Pictures \cup {Torn}]]
    /\ queue \in Seq(Events)
    /\ view \in View
    /\ pc \in {"idle", "drain", "show"}
    /\ detail_key \in Centres \cup {NoKey}
    /\ widgets \in [Sides -> [source : Names \cup {None}, picture : Pictures \cup {Torn}]]
    /\ told \in [page : 0..MaxTakes, take : 0..MaxTakes]

\* All that was reported has been drained and shown, and nothing runs.
AtRest == queue = <<>> /\ job = Idle /\ pc = "idle" /\ ~view.busy

\* A widget never loads a picture while it is being written.
PictureIsWhole == \A s \in Sides : widgets[s].picture # Torn

\* Once a capture has reported its previews and the operator has not enlarged them,
\* both widgets show that capture, whatever was shown, cut or has failed before.
CaptureIsShown ==
    AtRest /\ ~view.enlarged /\ view.preview = PreviewName(taken.page) /\ ~taken.rescanned =>
        \A s \in Sides : widgets[s].picture = Picture(taken.take, Fitted)

\* Not older than the last take that was reported.
Recent(picture) == picture.take \in told.take..taken.take

\* Once the events have been applied, the preview that the view names is that of the pair
\* reported last, and the files it names, of the preview and of the detail, are of that
\* take on both sides, or of one after it that is not reported yet or has ended without
\* an event; one that could not be cut is not named, and the detail of the pair before is
\* named no more.
ViewIsOfLastPair ==
    queue = <<>> =>
        /\ view.preview # None => view.preview = PreviewName(told.page)
        /\ \A s \in Sides :
              /\ view.preview # None => Recent(files[s][view.preview])
              /\ view.detail => Recent(files[s][DetailName])

\* The windows that hold the point they are cut for.
HoldingWindows ==
    {DetailLeft(centre) : centre \in {c \in Centres :
        /\ 200 * DetailLeft(c) <= CentrePixel(c)
        /\ CentrePixel(c) <= 200 * (DetailLeft(c) + CropWidth)}}

\* A window that is shown lies in the page and holds the point it was asked for.
WindowHoldsCentre ==
    \A s \in Sides :
        LET at == widgets[s].picture.at
        IN at # Fitted => at >= 0 /\ at + CropWidth <= Width /\ at \in HoldingWindows

\* The comment in refresh: the unscaled crop replaces the preview, and panning moves
\* the crop window.  PreviewsPan.cfg asks it of WholeSpec, where no cut fails.
PanningMovesWindow ==
    AtRest /\ ShowingDetail =>
        \A s \in Sides : widgets[s].picture.at = DetailLeft(view.offset)
-----------------------------------------------------------------------------
(***************************************************************************)
(* The inductive invariant                                                 *)
(***************************************************************************)
\* A job goes through the steps of its command.  There is a pair once one is reported.
JobInv ==
    /\ job.command = "none" => job \in {Idle, Ended}
    /\ job.step \in {"none", "done"} => job.command = "none"
    /\ job.step = "take" => /\ job.command # "detail" /\ job.side = "even"
                            /\ taken.take < MaxTakes
    /\ job.step = "report" => job.side = "odd"
    /\ taken.page <= taken.take
    /\ \/ job.step \in {"save", "replace", "report"} \/ job.command = "rescan"
       \/ view.last \/ queue # <<>>
       => taken.page \in Pages /\ taken.take \in Pages

\* What a running job has cut so far.
CutInv ==
    /\ job.step \in {"save", "replace"} /\ job.side = "odd" => files["even"][Target] = Cut
    /\ job.step = "report" => \A s \in Sides : files[s][Target] = Cut

\* The last take has no previews to be cut or reported any more.
Reported == job.command = "detail" \/ job.step \notin {"save", "replace", "report"}

\* A preview and a detail that may be named.
Fresh(name) == name # None => name = told.page /\ \A s \in Sides : Recent(files[s][name])
DetailIsFresh == \A s \in Sides : Recent(files[s][DetailName])

\* No capture is reported from the i-th event on.
NoCapture(i) == \A k \in i..Len(queue) : queue[k].kind # "captured"

\* What the view names once the queue is drained is of the last take that was reported,
\* or of one after it.
NamedInv ==
    /\ told.take <= taken.take
    /\ \A i \in 1..Len(queue) :
          /\ queue[i].kind = "captured" /\ NoCapture(i + 1) => Fresh(queue[i].preview)
          /\ queue[i].kind = "detail" /\ NoCapture(i) => DetailIsFresh
    /\ NoCapture(1) => Fresh(view.preview) /\ (view.detail => DetailIsFresh)

\* A name is that of the last pair only where its previews are cut, and a rescan aside
\* they stay as they are.
Known(name) ==
    name # None =>
        /\ name <= taken.page
        /\ name = taken.page /\ ~taken.rescanned =>
              Reported /\ \A s \in Sides : files[s][name] = Picture(taken.take, Fitted)
KnownInv ==
    /\ Known(view.preview)
    /\ \A i \in 1..Len(queue) : queue[i].kind = "captured" => Known(queue[i].preview)
    /\ \A s \in Sides : widgets[s].source \in Pages =>
          /\ Known(widgets[s].source)
          /\ widgets[s].source = taken.page /\ ~taken.rescanned =>
                widgets[s].picture = Picture(taken.take, Fitted)

\* Between refreshes the widgets have the sources that the view names.
ShownInv ==
    pc = "idle" /\ ~ShowingDetail /\ view.preview # None =>
        \A s \in Sides : widgets[s].source = view.preview

\* All files and widgets hold whole pictures, of a page or of a window of it.
Whole(picture) ==
    /\ picture.take \in 0..MaxTakes
    /\ picture.at = Fitted \/ \E centre \in Centres : picture.at = DetailLeft(centre)
PicturesInv ==
    \A s \in Sides : Whole(widgets[s].picture) /\ \A n \in Names : Whole(files[s][n])

IInv == TypeOK /\ JobInv /\ CutInv /\ NamedInv /\ KnownInv /\ ShownInv /\ PicturesInv
=============================================================================
