---------------------------- MODULE PreviewsProofs ----------------------------
(***************************************************************************)
(* The inductive invariant IInv of Previews and what follows from it, for  *)
(* pages and windows of every size, every pan step and any number of       *)
(* takes, and the arithmetic of the window.                                *)
(***************************************************************************)
EXTENDS Previews, TLAPS

\* round is off by a half at most, and exact on whole numbers.
LEMMA RoundLemma ==
    ASSUME NEW n \in Int
    PROVE  /\ Round(n) \in Int
           /\ n - 100 <= 200 * Round(n) /\ 200 * Round(n) <= n + 100
BY DEF Round

LEMMA CropLemma == CropWidth \in 1..Width /\ CropWidth <= Window
BY SizeAssumption DEF CropWidth

LEMMA CentreLemma ==
    ASSUME NEW centre \in Centres
    PROVE  CentrePixel(centre) \in 0..(200 * Width)
<1> DEFINE c == centre + 100
<1>1. c \in 0..200
  BY DEF Centres
<1>2. c * Width >= 0 /\ c * Width \in Int
  BY <1>1, SizeAssumption
<1>3. (200 - c) * Width >= 0
  BY <1>1, SizeAssumption
<1>4. (200 - c) * Width = 200 * Width - c * Width
  BY <1>1, SizeAssumption
<1> QED
  BY <1>2, <1>3, <1>4, SizeAssumption DEF CentrePixel

\* The window of _detail_box lies in the page and holds the point it is asked for.
THEOREM DetailWindow ==
    ASSUME NEW centre \in Centres
    PROVE  /\ DetailLeft(centre) \in 0..(Width - CropWidth)
           /\ 200 * DetailLeft(centre) <= CentrePixel(centre)
           /\ CentrePixel(centre) <= 200 * (DetailLeft(centre) + CropWidth)
<1> DEFINE pixel == CentrePixel(centre)
           crop == CropWidth
           n == Clamp(pixel - 100 * crop, 0, 200 * (Width - crop))
<1>1. pixel \in Int /\ 0 <= pixel /\ pixel <= 200 * Width /\ crop \in Int /\ 1 <= crop
      /\ crop <= Width /\ Width \in Int
  BY CentreLemma, CropLemma, SizeAssumption
<1>2. DetailLeft(centre) = Round(n)
  BY DEF DetailLeft
<1> HIDE DEF pixel, crop
<1>3. n \in Int /\ 0 <= n /\ n <= 200 * (Width - crop)
      /\ (n = pixel - 100 * crop
          \/ (n = 0 /\ pixel < 100 * crop)
          \/ (n = 200 * (Width - crop) /\ pixel > 200 * Width - 100 * crop))
  BY <1>1 DEF Clamp
<1> HIDE DEF n
<1>4. /\ Round(n) \in Int /\ n - 100 <= 200 * Round(n) /\ 200 * Round(n) <= n + 100
  BY <1>3, RoundLemma
<1>5. 0 <= Round(n) /\ Round(n) <= Width - crop
  BY <1>1, <1>3, <1>4
<1>6. 200 * Round(n) <= pixel /\ pixel <= 200 * (Round(n) + crop)
  BY <1>1, <1>3, <1>4, <1>5
<1>7. pixel = CentrePixel(centre) /\ crop = CropWidth
  BY DEF pixel, crop
<1> QED
  BY <1>1, <1>2, <1>4, <1>5, <1>6, <1>7

\* What the worker puts under a file's name.
LEMMA CutType ==
    ASSUME IInv, job.step = "replace"
    PROVE  /\ Whole(Cut) /\ Cut \in Pictures /\ Cut.take = taken.take
           /\ Target \in Names
           /\ job.command # "detail" => Cut = Picture(taken.take, Fitted) /\ Target = taken.page
           /\ job.command = "detail" => Target = DetailName
<1>1. /\ taken.take \in 0..MaxTakes /\ job.centre \in Centres
      /\ taken.page \in Pages
  BY DEF IInv, TypeOK, JobInv, Jobs
<1>2. DetailLeft(job.centre) \in 0..Width
  BY <1>1, DetailWindow, CropLemma, SizeAssumption
<1> QED
  BY <1>1, <1>2, DetailWindow
     DEF Cut, Target, PreviewName, Whole, Pictures, Picture, Names, Fitted

LEMMA QueueType ==
    ASSUME TypeOK
    PROVE  /\ Len(queue) \in Nat
           /\ \A i \in 1..Len(queue) :
                 /\ queue[i] \in Events /\ queue[i].kind \in {"captured", "detail"}
                 /\ queue[i].kind = "captured" => queue[i].preview \in Pages \cup {None}
BY DEF TypeOK, Events

\* The events after the first one, and one more at the end.
LEMMA TailLemma ==
    ASSUME TypeOK, queue # <<>>, queue' = Tail(queue)
    PROVE  /\ queue' \in Seq(Events) /\ Head(queue) = queue[1] /\ 1 \in 1..Len(queue)
           /\ Len(queue') = Len(queue) - 1
           /\ \A i \in 1..Len(queue') : queue'[i] = queue[i + 1] /\ i + 1 \in 1..Len(queue)
BY DEF TypeOK

LEMMA AppendLemma ==
    ASSUME TypeOK, NEW event \in Events, queue' = Append(queue, event)
    PROVE  /\ queue' \in Seq(Events) /\ Len(queue') = Len(queue) + 1
           /\ queue'[Len(queue) + 1] = event
           /\ \A i \in 1..Len(queue) : queue'[i] = queue[i]
BY DEF TypeOK

\* What may be named stays so while nothing is reported, also where there is a new take.
LEMMA NamedKeeps ==
    ASSUME NamedInv, TypeOK, taken'.take \in Int, taken.take <= taken'.take,
           UNCHANGED <<queue, files, told>>,
           view'.preview = view.preview, view'.detail = view.detail
    PROVE  NamedInv'
<1>1. told.take \in Int /\ taken.take \in Int
  BY DEF TypeOK
<1>2. \A name : \A s \in Sides : Recent(files[s][name]) => Recent(files[s][name])'
  BY <1>1 DEF Recent
<1>3. /\ \A name : Fresh(name) => Fresh(name)'
      /\ DetailIsFresh => DetailIsFresh'
  BY <1>2 DEF Fresh, DetailIsFresh
<1>4. told.take <= taken.take => (told.take <= taken.take)'
  BY <1>1
<1>5. ASSUME NEW i \in 1..Len(queue')
      PROVE  /\ queue'[i].kind = "captured" /\ NoCapture(i + 1)' => Fresh(queue[i].preview)'
             /\ queue'[i].kind = "detail" /\ NoCapture(i)' => DetailIsFresh'
  <2>1. /\ i \in 1..Len(queue) /\ queue'[i] = queue[i]
        /\ NoCapture(i + 1)' => NoCapture(i + 1)
        /\ NoCapture(i)' => NoCapture(i)
    BY <1>5 DEF NoCapture
  <2> QED
    BY <1>3, <2>1 DEF NamedInv
<1>6. NoCapture(1)' => Fresh(view.preview)' /\ (view'.detail => DetailIsFresh')
  <2>1. NoCapture(1)' => NoCapture(1)
    BY DEF NoCapture
  <2> QED
    BY <1>3, <2>1 DEF NamedInv
<1> QED
  BY <1>4, <1>5, <1>6 DEF NamedInv

LEMMA InitIInv == ASSUME Init PROVE IInv
<1>1. TypeOK
  BY TakesAssumption
     DEF Init, TypeOK, View, Jobs, Events, Pictures, Names, Pages, Picture, Sides,
         None, NoKey, DetailName, Fitted, Torn, Idle, Centres, Empty
<1>2. JobInv
  BY DEF Init, JobInv, Idle, Sides, Pages, Names, None, DetailName, Empty, Picture,
         Fitted, NoKey
<1>3. CutInv
  BY DEF Init, CutInv, Cut, Target, PreviewName, Idle, Sides, Pages, Names, None,
         DetailName, Empty, Picture, Fitted, NoKey
<1>4. NamedInv
  BY DEF Init, NamedInv, Recent, NoCapture, Fresh, DetailIsFresh, Idle, Pages,
         Names, None, DetailName, Sides, Empty, Picture, Fitted, NoKey
<1>5. KnownInv
  BY DEF Init, KnownInv, Known, Reported, Idle, Sides, Pages, Names, None,
         DetailName, Empty, Picture, Fitted, NoKey
<1>6. ShownInv
  BY DEF Init, ShownInv, ShowingDetail, Zoomed, Pages, Names, None, DetailName,
         Sides, Idle, Empty, Picture, Fitted, NoKey
<1>7. PicturesInv
  BY TakesAssumption
     DEF Init, PicturesInv, Whole, Sides, Pages, Names, None, DetailName, Idle,
         Empty, Picture, Fitted, NoKey
<1> QED
  BY <1>1, <1>2, <1>3, <1>4, <1>5, <1>6, <1>7 DEF IInv

LEMMA SaveStep ==
    ASSUME IInv, Save
    PROVE  IInv'
<1> USE DEF IInv
<1>1. TypeOK'
  BY DEF Save, TypeOK, Jobs
<1>2. JobInv'
  BY DEF Save, JobInv, Idle, Ended, Pages
<1>3. CutInv'
  BY DEF Save, CutInv, Cut, Target, PreviewName, Sides, DetailName
<1>4. NamedInv'
  BY DEF Save, NamedInv, Recent, NoCapture, Fresh, DetailIsFresh, None,
         DetailName, Sides
<1>5. KnownInv'
  BY DEF Save, KnownInv, Known, Reported, Sides, Pages, None
<1>6. ShownInv'
  BY DEF Save, ShownInv, ShowingDetail, Zoomed, None, Sides
<1>7. PicturesInv'
  BY DEF Save, PicturesInv, Whole, Sides, Pages, Names, DetailName
<1> QED
  BY <1>1, <1>2, <1>3, <1>4, <1>5, <1>6, <1>7

LEMMA ReplaceStep ==
    ASSUME IInv, Replace
    PROVE  IInv'
<1> USE DEF IInv
<1>1. TypeOK'
  BY CutType DEF Replace, TypeOK, Jobs, Sides
<1>2. JobInv'
  BY DEF Replace, JobInv, TypeOK, Idle, Ended, Sides, Pages, Names, None, DetailName, View,
         Jobs
<1>3. CutInv'
  BY DEF Replace, CutInv, TypeOK, Cut, Target, PreviewName, Sides, Pages, Names,
         None, DetailName, View, Jobs
<1>4. NamedInv'
  <2>1. Recent(Cut)
    BY CutType DEF Replace, Recent, NamedInv, TypeOK
  <2>2. ASSUME NEW name \in Names, NEW s \in Sides, Recent(files[s][name])
        PROVE  Recent(files[s][name])'
    <3>1. files'[s][name] \in {files[s][name], Cut}
      BY CutType DEF Replace, TypeOK
    <3>2. told' = told /\ taken' = taken
      BY DEF Replace
    <3> QED
      BY <2>1, <2>2, <3>1, <3>2 DEF Recent
  <2>3. \A name \in Names \cup {None} : Fresh(name) => Fresh(name)'
    BY <2>2 DEF Fresh, Replace
  <2>4. DetailIsFresh => DetailIsFresh'
    BY <2>2 DEF DetailIsFresh, Names
  <2>5. /\ queue' = queue /\ view' = view /\ told' = told /\ taken' = taken
        /\ view.preview \in Names \cup {None}
    BY DEF Replace, TypeOK, View, Names
  <2>6. \A i \in 1..Len(queue) : queue[i].kind = "captured"
           => queue[i].preview \in Names \cup {None}
    BY QueueType DEF Names
  <2> QED
    BY <2>3, <2>4, <2>5, <2>6 DEF NamedInv, NoCapture
<1>5. KnownInv'
  BY CutType
     DEF Replace, KnownInv, TypeOK, JobInv, Known, Reported, Idle, Sides, Pages,
         Names, None, DetailName, View, Jobs
<1>6. ShownInv'
  BY DEF Replace, ShownInv, ShowingDetail, Zoomed, None, Sides
<1>7. PicturesInv'
  BY CutType DEF Replace, PicturesInv, Whole, Sides, Pages, Names, DetailName
<1> QED
  BY <1>1, <1>2, <1>3, <1>4, <1>5, <1>6, <1>7

\* A capture is reported, with previews that are cut on both sides or with none.
LEMMA ReportCaptureNamed ==
    ASSUME IInv, NEW preview \in Pages \cup {None}, ReportCapture(preview),
           UNCHANGED <<taken, files, view>>,
           preview # None => /\ preview = taken.page
                             /\ \A s \in Sides : files[s][preview].take = taken.take
    PROVE  /\ NamedInv' /\ queue' \in Seq(Events)
           /\ told' \in [page : 0..MaxTakes, take : 0..MaxTakes]
<1> DEFINE Captured == [kind |-> "captured", preview |-> preview]
<1> USE DEF IInv
<1>1. Captured \in Events /\ queue' = Append(queue, Captured)
  BY DEF Events, ReportCapture
<1>2. /\ taken.page \in 0..MaxTakes /\ taken.take \in 0..MaxTakes
      /\ told' = [page |-> taken.page, take |-> taken.take]
  BY DEF TypeOK, ReportCapture
<1>3. Captured.kind = "captured" /\ Captured.preview = preview
  OBVIOUS
<1> HIDE DEF Captured
<1>4. /\ Len(queue) \in Nat /\ Len(queue') = Len(queue) + 1
      /\ queue'[Len(queue) + 1] = Captured /\ queue' \in Seq(Events)
  BY <1>1, AppendLemma, QueueType
<1>5. Fresh(preview)'
  <2>1. taken.take \in told'.take..taken'.take
    BY <1>2, TakesAssumption
  <2> QED
    BY <1>2, <2>1 DEF Fresh, Recent
<1>6. \A i \in 1..Len(queue') : /\ NoCapture(i)' => FALSE
                                /\ NoCapture(i + 1)' => i = Len(queue')
  BY <1>3, <1>4 DEF NoCapture
<1>7. NoCapture(1)' => FALSE
  BY <1>4, <1>6
<1>8. told'.take <= taken'.take
  BY <1>2
<1>9. ASSUME NEW i \in 1..Len(queue')
      PROVE  /\ (queue[i].kind = "captured" /\ NoCapture(i + 1) => Fresh(queue[i].preview))'
             /\ (queue[i].kind = "detail" /\ NoCapture(i) => DetailIsFresh)'
  <2>1. ~NoCapture(i)'
    BY <1>6
  <2>2. CASE i = Len(queue) + 1
    BY <1>3, <1>4, <1>5, <2>1, <2>2
  <2>3. CASE i # Len(queue) + 1
    BY <1>4, <1>6, <2>1, <2>3
  <2> QED
    BY <2>2, <2>3
<1>10. NamedInv'
  BY <1>7, <1>8, <1>9 DEF NamedInv
<1> QED
  BY <1>2, <1>4, <1>10

LEMMA CutFailsStep ==
    ASSUME IInv, CutFails
    PROVE  IInv'
<1> USE DEF IInv
<1>1. TypeOK'
  <2>1. job' \in Jobs
    BY DEF CutFails, Jobs, Ended, Idle, Sides, Centres
  <2>2. CASE job.command = "detail"
    BY <2>1, <2>2 DEF CutFails, TypeOK
  <2>3. CASE job.command # "detail"
    BY <2>1, <2>3, ReportCaptureNamed DEF CutFails, TypeOK
  <2> QED
    BY <2>2, <2>3
<1>2. JobInv'
  BY DEF CutFails, JobInv, Idle, Ended, Pages
<1>3. CutInv'
  BY DEF CutFails, CutInv, Ended, Idle
<1>4. NamedInv'
  <2>1. CASE job.command = "detail"
    BY <2>1 DEF CutFails, NamedInv, Recent, NoCapture, Fresh, DetailIsFresh, Sides
  <2>2. CASE job.command # "detail"
    BY <2>2, ReportCaptureNamed DEF CutFails
  <2> QED
    BY <2>1, <2>2
<1>5. KnownInv'
  <2>1. CASE job.command = "detail"
    BY <2>1 DEF CutFails, KnownInv, Known, Reported, Ended, Idle, Sides, Pages, None
  <2>2. CASE job.command # "detail"
    <3>1. /\ Len(queue) \in Nat /\ Len(queue') = Len(queue) + 1
          /\ queue'[Len(queue) + 1].preview = None
          /\ \A i \in 1..Len(queue) : queue'[i] = queue[i]
      <4>1. /\ queue' = Append(queue, [kind |-> "captured", preview |-> None])
            /\ [kind |-> "captured", preview |-> None] \in Events
        BY <2>2 DEF CutFails, ReportCapture, Events
      <4> QED
        BY <4>1, AppendLemma, QueueType
    <3>2. /\ Reported' /\ taken' = taken /\ files' = files /\ view' = view
          /\ widgets' = widgets
      BY DEF CutFails, Reported, Ended, Idle
    <3>3. (\A name : Known(name) => Known(name)') /\ Known(None)'
      BY <3>2 DEF Known
    <3> QED
      BY <3>1, <3>2, <3>3 DEF KnownInv
  <2> QED
    BY <2>1, <2>2
<1>6. ShownInv'
  BY DEF CutFails, ShownInv, ShowingDetail, Zoomed, None, Sides
<1>7. PicturesInv'
  BY DEF CutFails, PicturesInv, Whole, Sides, Pages, Names, DetailName
<1> QED
  BY <1>1, <1>2, <1>3, <1>4, <1>5, <1>6, <1>7

LEMMA CutRaisesStep ==
    ASSUME IInv, CutRaises
    PROVE  IInv'
<1> USE DEF IInv
<1>1. TypeOK'
  BY DEF CutRaises, TypeOK, Jobs, Idle, Ended, Sides, Centres
<1>2. JobInv'
  BY DEF CutRaises, JobInv, Idle, Ended, Pages
<1>3. CutInv'
  BY DEF CutRaises, CutInv, Cut, Target, PreviewName, Sides, DetailName, Idle, Ended
<1>4. NamedInv'
  BY DEF CutRaises, NamedInv, Recent, NoCapture, Fresh, DetailIsFresh, None,
         DetailName, Sides
<1>5. KnownInv'
  BY DEF CutRaises, KnownInv, Known, Reported, Idle, Ended, Sides, Pages, None
<1>6. ShownInv'
  BY DEF CutRaises, ShownInv, ShowingDetail, Zoomed, None, Sides
<1>7. PicturesInv'
  BY DEF CutRaises, PicturesInv, Whole, Sides, Pages, Names, DetailName
<1> QED
  BY <1>1, <1>2, <1>3, <1>4, <1>5, <1>6, <1>7

LEMMA TakeStep ==
    ASSUME IInv, Take
    PROVE  IInv'
<1> USE DEF IInv
<1>a. /\ MaxTakes \in Nat /\ taken.page \in 0..MaxTakes /\ taken.take \in 0..MaxTakes
      /\ taken.take < MaxTakes /\ taken.page <= taken.take /\ taken.rescanned \in BOOLEAN
      /\ taken \in [page : 0..MaxTakes, take : 0..MaxTakes, rescanned : BOOLEAN]
      /\ taken.page + 1 \in 0..MaxTakes /\ taken.take + 1 \in 0..MaxTakes
  BY TakesAssumption DEF Take, TypeOK, JobInv
<1>b. \/ taken' = taken /\ job' = Ended
      \/ /\ taken' = [page |-> taken.page + 1, take |-> taken.take + 1, rescanned |-> FALSE]
         /\ job' = [job EXCEPT !.step = "save"]
      \/ /\ taken' = [page |-> taken.page, take |-> taken.take + 1, rescanned |-> TRUE]
         /\ taken.page \in Pages /\ job' = [job EXCEPT !.step = "save"]
  BY <1>a DEF Take, JobInv
<1>c. /\ job \in Jobs /\ job.step = "take" /\ job.command \in {"capture", "rescan"}
      /\ job.side = "even" /\ Ended \in Jobs /\ Ended.step = "done" /\ Ended.command = "none"
  BY DEF Take, TypeOK, JobInv, Jobs, Ended, Idle, Sides, Centres
<1>d. \/ job' = Ended /\ taken' = taken
      \/ /\ job'.step = "save" /\ job'.command = job.command /\ job'.side = "even"
         /\ job' \in Jobs /\ taken' # taken
  BY <1>a, <1>b, <1>c DEF Jobs
<1>1. TypeOK'
  <2>1. taken' \in [page : 0..MaxTakes, take : 0..MaxTakes, rescanned : BOOLEAN]
    <3>1. [page |-> taken.page + 1, take |-> taken.take + 1, rescanned |-> FALSE]
             \in [page : 0..MaxTakes, take : 0..MaxTakes, rescanned : BOOLEAN]
      BY <1>a
    <3>2. [page |-> taken.page, take |-> taken.take + 1, rescanned |-> TRUE]
             \in [page : 0..MaxTakes, take : 0..MaxTakes, rescanned : BOOLEAN]
      BY <1>a
    <3> QED
      BY <1>a, <1>b, <3>1, <3>2
  <2> QED
    BY <2>1, <1>c, <1>d DEF Take, TypeOK
<1>2. JobInv'
  <2>1. taken'.page <= taken'.take /\ taken'.take \in 0..MaxTakes
    BY <1>a, <1>b
  <2>2. ~(taken' = taken) => taken'.page \in Pages /\ taken'.take \in Pages
    BY <1>a, <1>b DEF Pages
  <2>3. view' = view /\ queue' = queue
    BY DEF Take
  <2> QED
    BY <1>c, <1>d, <2>1, <2>2, <2>3 DEF JobInv
<1>3. CutInv'
  BY <1>c, <1>d DEF CutInv
<1>4. NamedInv'
  <2>1. taken'.take \in Int /\ taken.take <= taken'.take
    BY <1>a, <1>b
  <2> QED
    BY <2>1, NamedKeeps DEF Take
<1>5. KnownInv'
  <2>1. /\ view' = view /\ queue' = queue /\ files' = files /\ widgets' = widgets
        /\ taken' = taken => Reported' = Reported
    BY <1>c, <1>d DEF Take, Reported
  <2>2. ASSUME NEW name \in Pages \cup {None}, Known(name)
        PROVE  Known(name)'
    <3>1. CASE taken' = taken
      BY <2>1, <2>2, <3>1 DEF Known
    <3>2. CASE taken' # taken
      BY <1>a, <1>b, <2>2, <3>2 DEF Known, Pages, None
    <3> QED
      BY <3>1, <3>2
  <2>3. \A s \in Sides : widgets[s].source \in Pages /\ widgets[s].source <= taken.page
             /\ widgets[s].source = taken'.page /\ ~taken'.rescanned => taken' = taken
    BY <1>a, <1>b
  <2>4. view.preview \in Pages \cup {None}
    BY DEF TypeOK, View
  <2>5. Known(view.preview)'
    BY <2>1, <2>2, <2>4 DEF KnownInv
  <2>6. \A i \in 1..Len(queue) : queue[i].kind = "captured" => Known(queue[i].preview)'
    BY <2>1, <2>2, QueueType DEF KnownInv
  <2>7. ASSUME NEW s \in Sides, widgets[s].source \in Pages
        PROVE  /\ Known(widgets[s].source)'
               /\ widgets[s].source = taken'.page /\ ~taken'.rescanned =>
                     widgets[s].picture = Picture(taken'.take, Fitted)
    <3>1. Known(widgets[s].source) /\ widgets[s].source <= taken.page
      BY <2>7 DEF KnownInv, Known, Pages, None
    <3>2. Known(widgets[s].source)'
      BY <2>1, <2>2, <2>7, <3>1
    <3> QED
      BY <2>3, <2>7, <3>1, <3>2 DEF KnownInv
  <2> QED
    BY <2>1, <2>5, <2>6, <2>7 DEF KnownInv, Known
<1>6. ShownInv'
  BY DEF Take, ShownInv, ShowingDetail, Zoomed, None, Sides
<1>7. PicturesInv'
  BY DEF Take, PicturesInv, Whole, Sides, Pages, Names, DetailName
<1> QED
  BY <1>1, <1>2, <1>3, <1>4, <1>5, <1>6, <1>7

LEMMA ReportStep ==
    ASSUME IInv, Report
    PROVE  IInv'
<1> USE DEF IInv
<1>a. /\ taken.page \in Pages /\ PreviewName(taken.page) = taken.page
      /\ job' = Ended /\ taken' = taken /\ files' = files /\ view' = view
      /\ widgets' = widgets /\ pc' = pc /\ detail_key' = detail_key
  BY DEF Report, JobInv, PreviewName
<1>b. CASE job.command # "detail"
  <2>1. /\ taken.page \in Pages \cup {None} /\ ReportCapture(taken.page)
        /\ \A s \in Sides : files[s][taken.page] = Picture(taken.take, Fitted)
    BY <1>a, <1>b DEF Report, CutInv, Cut, Target
  <2>2. \A s \in Sides : files[s][taken.page].take = taken.take
    BY <2>1 DEF Picture
  <2>3. /\ NamedInv' /\ queue' \in Seq(Events)
        /\ told' \in [page : 0..MaxTakes, take : 0..MaxTakes]
    BY <1>a, <2>1, <2>2, ReportCaptureNamed
  <2>4. TypeOK'
    <3>1. job' \in Jobs
      BY <1>a DEF Jobs, Ended, Idle, Sides, Centres
    <3> QED
      BY <1>a, <2>3, <3>1 DEF TypeOK
  <2>5. KnownInv'
    <3>1. /\ Len(queue) \in Nat /\ Len(queue') = Len(queue) + 1
          /\ queue'[Len(queue) + 1].preview = taken.page
          /\ \A i \in 1..Len(queue) : queue'[i] = queue[i]
      BY <2>1 DEF ReportCapture, TypeOK
    <3>2. Reported' /\ ~Reported
      BY <1>a, <1>b DEF Reported, Ended, Idle, Report
    <3>3. \A name : Known(name) => Known(name)'
      BY <1>a, <3>2 DEF Known
    <3>4. Known(taken.page)'
      BY <1>a, <2>1, <3>2 DEF Known, TypeOK
    <3> QED
      BY <1>a, <3>1, <3>3, <3>4 DEF KnownInv
  <2>6. JobInv' /\ CutInv'
    BY <1>a DEF JobInv, CutInv, Report, Ended, Idle
  <2>7. ShownInv' /\ PicturesInv'
    BY <1>a DEF ShownInv, ShowingDetail, Zoomed, PicturesInv, Whole, Sides
  <2> QED
    BY <2>3, <2>4, <2>5, <2>6, <2>7
<1>c. CASE job.command = "detail"
  <2>1. /\ queue' = Append(queue, [kind |-> "detail"]) /\ told' = told
        /\ [kind |-> "detail"] \in Events
    BY <1>c DEF Report, Events
  <2>2. /\ Len(queue) \in Nat /\ Len(queue') = Len(queue) + 1 /\ queue' \in Seq(Events)
        /\ queue'[Len(queue) + 1].kind = "detail"
        /\ \A i \in 1..Len(queue) : queue'[i] = queue[i]
    BY <2>1 DEF TypeOK
  <2>3. TypeOK'
    BY <1>a, <2>1, <2>2 DEF TypeOK, Jobs, Ended, Idle, Sides, Centres
  <2>4. NamedInv'
    <3>1. DetailIsFresh
      <4>1. \A s \in Sides : files[s][DetailName].take = taken.take
        BY <1>c DEF Report, CutInv, Cut, Target, Picture
      <4> QED
        BY <4>1 DEF DetailIsFresh, Recent, NamedInv, TypeOK
    <3>2. \A i \in 1..(Len(queue) + 1) : NoCapture(i)' => NoCapture(i)
      BY <2>2 DEF NoCapture
    <3>3. \A i \in 1..Len(queue) : NoCapture(i + 1)' => NoCapture(i + 1)
      BY <2>2 DEF NoCapture
    <3>4. NoCapture(1)' => NoCapture(1)
      BY <2>2, <3>2
    <3>5. (DetailIsFresh <=> DetailIsFresh') /\ \A name : Fresh(name) <=> Fresh(name)'
      BY <1>a, <2>1 DEF Fresh, DetailIsFresh, Recent
    <3> QED
      BY <1>a, <2>1, <2>2, <3>1, <3>2, <3>3, <3>4, <3>5 DEF NamedInv
  <2>5. KnownInv'
    <3>1. Reported' /\ Reported
      BY <1>a, <1>c DEF Reported, Ended, Idle
    <3>2. \A name : Known(name) <=> Known(name)'
      BY <1>a, <3>1 DEF Known
    <3> QED
      BY <1>a, <2>2, <3>2 DEF KnownInv
  <2>6. JobInv' /\ CutInv'
    BY <1>a DEF JobInv, CutInv, Report, Ended, Idle
  <2>7. ShownInv' /\ PicturesInv'
    BY <1>a DEF ShownInv, ShowingDetail, Zoomed, PicturesInv, Whole, Sides
  <2> QED
    BY <2>3, <2>4, <2>5, <2>6, <2>7
<1> QED
  BY <1>b, <1>c

LEMMA CompleteStep ==
    ASSUME IInv, Complete
    PROVE  IInv'
<1> USE DEF IInv
<1>1. TypeOK'
  <2>1. Idle \in Jobs
    BY DEF Idle, Jobs, Sides, Centres
  <2> QED
    BY <2>1 DEF Complete, TypeOK
<1>2. JobInv'
  BY DEF Complete, JobInv, Idle, Pages
<1>3. CutInv'
  BY DEF Complete, CutInv, Cut, Target, PreviewName, Idle, Sides, DetailName
<1>4. NamedInv'
  BY DEF Complete, NamedInv, Recent, NoCapture, Fresh, DetailIsFresh, Idle, None,
         DetailName, Sides
<1>5. KnownInv'
  BY DEF Complete, KnownInv, Known, Reported, Idle, Sides, Pages, None
<1>6. ShownInv'
  BY DEF Complete, ShownInv, ShowingDetail, Zoomed, None, Sides, Idle
<1>7. PicturesInv'
  BY DEF Complete, PicturesInv, Whole, Sides, Pages, Names, DetailName, Idle
<1> QED
  BY <1>1, <1>2, <1>3, <1>4, <1>5, <1>6, <1>7

LEMMA DispatchStep ==
    ASSUME IInv, NEW c \in {"capture", "rescan"}, Dispatch(c)
    PROVE  IInv'
<1> USE DEF IInv
<1>1. TypeOK'
  BY DEF Dispatch, TypeOK, View, Jobs, Events, Pictures, Names, Pages, Picture,
         Sides, None, NoKey, DetailName, Fitted, Torn, Idle, Centres, Began
<1>2. JobInv'
  BY DEF Dispatch, JobInv, Idle, Pages, Began
<1>3. CutInv'
  BY DEF Dispatch, CutInv, Cut, Target, PreviewName, Idle, Sides, DetailName, Began
<1>4. NamedInv'
  BY DEF Dispatch, NamedInv, Recent, NoCapture, Fresh, DetailIsFresh, Idle, None,
         DetailName, Sides, Began
<1>5. KnownInv'
  BY DEF Dispatch, KnownInv, Known, Reported, Idle, Sides, Pages, None, Began
<1>6. ShownInv'
  BY DEF Dispatch, ShownInv, ShowingDetail, Zoomed, None, Sides, Began, Idle
<1>7. PicturesInv'
  BY DEF Dispatch, PicturesInv, Whole, Sides, Pages, Names, DetailName, Began, Idle
<1> QED
  BY <1>1, <1>2, <1>3, <1>4, <1>5, <1>6, <1>7

LEMMA ZoomPreviewStep ==
    ASSUME IInv, ZoomPreview
    PROVE  IInv'
<1> USE DEF IInv
<1>1. TypeOK'
  BY DEF ZoomPreview, TypeOK, View
<1>2. JobInv'
  BY DEF ZoomPreview, JobInv, TypeOK, Idle, Sides, Pages, Names, None, DetailName,
         View, Jobs
<1>3. CutInv'
  BY DEF ZoomPreview, CutInv, Cut, Target, PreviewName, Sides, DetailName
<1>4. NamedInv'
  BY NamedKeeps DEF ZoomPreview, TypeOK, View
<1>5. KnownInv'
  BY DEF ZoomPreview, KnownInv, TypeOK, Known, Reported, Sides, Pages, Names, None,
         DetailName, View, Jobs
<1>6. ShownInv'
  BY DEF ZoomPreview, ShownInv, ShowingDetail, Zoomed, None, Sides
<1>7. PicturesInv'
  BY DEF ZoomPreview, PicturesInv, Whole, Sides, Pages, Names, DetailName
<1> QED
  BY <1>1, <1>2, <1>3, <1>4, <1>5, <1>6, <1>7

LEMMA PanPreviewStep ==
    ASSUME IInv, PanPreview
    PROVE  IInv'
<1> USE DEF IInv
<1>1. TypeOK'
  <2>1. view.offset \in Centres
    BY DEF TypeOK, View
  <2>2. \A x \in Int : Clamp(x, -100, 100) \in Centres
    BY DEF Clamp, Centres
  <2>3. \A d \in {-PanStep, PanStep} : view.offset + d \in Int
    BY <2>1, PanAssumption DEF Centres
  <2>4. view'.offset \in Centres /\ view' = [view EXCEPT !.offset = view'.offset]
    BY <2>2, <2>3 DEF PanPreview, TypeOK, View
  <2>5. view' \in View
    BY <2>4 DEF TypeOK, View
  <2> QED
    BY <2>5 DEF PanPreview, TypeOK
<1>2. JobInv'
  BY DEF PanPreview, JobInv, Idle, Pages, Clamp
<1>3. CutInv'
  BY DEF PanPreview, CutInv, Cut, Target, PreviewName, Sides, DetailName, Clamp
<1>4. NamedInv'
  BY DEF PanPreview, NamedInv, Recent, NoCapture, Fresh, DetailIsFresh, None,
         DetailName, Sides, Clamp
<1>5. KnownInv'
  BY DEF PanPreview, KnownInv, Known, Reported, Sides, Pages, None, Clamp
<1>6. ShownInv'
  BY DEF PanPreview, ShownInv, ShowingDetail, Zoomed, None, Sides, Clamp
<1>7. PicturesInv'
  BY DEF PanPreview, PicturesInv, Whole, Sides, Pages, Names, DetailName, Clamp
<1> QED
  BY <1>1, <1>2, <1>3, <1>4, <1>5, <1>6, <1>7

LEMMA ResetPreviewStep ==
    ASSUME IInv, ResetPreview
    PROVE  IInv'
<1> USE DEF IInv
<1>1. TypeOK'
  <2>1. 0 \in Centres
    BY DEF Centres
  <2> QED
    BY <2>1 DEF ResetPreview, TypeOK, View
<1>2. JobInv'
  BY DEF ResetPreview, JobInv, Idle, Pages
<1>3. CutInv'
  BY DEF ResetPreview, CutInv, Cut, Target, PreviewName, Sides, DetailName
<1>4. NamedInv'
  BY DEF ResetPreview, NamedInv, Recent, NoCapture, Fresh, DetailIsFresh, None,
         DetailName, Sides
<1>5. KnownInv'
  BY DEF ResetPreview, KnownInv, Known, Reported, Sides, Pages, None
<1>6. ShownInv'
  BY DEF ResetPreview, ShownInv, ShowingDetail, Zoomed, None, Sides
<1>7. PicturesInv'
  BY DEF ResetPreview, PicturesInv, Whole, Sides, Pages, Names, DetailName
<1> QED
  BY <1>1, <1>2, <1>3, <1>4, <1>5, <1>6, <1>7

LEMMA DrainStep ==
    ASSUME IInv, Drain
    PROVE  IInv'
<1> USE DEF IInv
<1>1. TypeOK'
  <2>1. CASE queue = <<>>
    BY <2>1 DEF Drain, TypeOK
  <2>2. CASE queue # <<>>
    <3>1. queue' = Tail(queue) /\ view' = Apply(view, queue[1])
      BY <2>2 DEF Drain
    <3>2. queue' \in Seq(Events) /\ 1 \in 1..Len(queue)
      BY <2>2, <3>1, TailLemma
    <3>3. view' \in View
      BY <3>1, <3>2, QueueType DEF Apply, TypeOK, View
    <3> QED
      BY <3>2, <3>3 DEF Drain, TypeOK
  <2> QED
    BY <2>1, <2>2
<1>2. JobInv'
  BY DEF Drain, JobInv, Idle, Pages, Apply
<1>3. CutInv'
  BY DEF Drain, CutInv, Cut, Target, PreviewName, Sides, DetailName, Apply
<1>4. NamedInv'
  <2>1. CASE queue = <<>>
    BY <2>1 DEF Drain, NamedInv, Recent, NoCapture, Fresh, DetailIsFresh
  <2>2. CASE queue # <<>>
    <3>1. queue' = Tail(queue) /\ view' = Apply(view, queue[1])
          /\ taken' = taken /\ files' = files /\ job' = job /\ told' = told
      BY <2>2 DEF Drain
    <3>2. /\ Len(queue) \in Nat /\ Len(queue') = Len(queue) - 1 /\ 1 \in 1..Len(queue)
          /\ \A i \in 1..Len(queue') : queue'[i] = queue[i + 1] /\ i + 1 \in 1..Len(queue)
      BY <2>2, <3>1, TailLemma, QueueType
    <3>3. ASSUME NEW i \in Nat \ {0}, NoCapture(i)'
          PROVE  NoCapture(i + 1)
      <4>1. ASSUME NEW k \in (i + 1)..Len(queue)
            PROVE  queue[k].kind # "captured"
        <5>1. /\ k - 1 \in i..Len(queue')
              /\ k - 1 \in 1..Len(queue')
              /\ (k - 1) + 1 = k
          BY <3>2
        <5>2. queue'[k - 1].kind # "captured"
          BY <3>3, <5>1 DEF NoCapture
        <5>3. queue'[k - 1] = queue[(k - 1) + 1]
          BY <3>2, <5>1
        <5> QED
          BY <5>1, <5>2, <5>3
      <4> QED
        BY <4>1 DEF NoCapture
    <3>4. (DetailIsFresh <=> DetailIsFresh') /\ \A name : Fresh(name) <=> Fresh(name)'
      BY <3>1 DEF Recent, DetailIsFresh, Fresh
    <3>5. ASSUME NEW i \in 1..Len(queue')
          PROVE  /\ queue'[i].kind = "captured" /\ NoCapture(i + 1)' => Fresh(queue'[i].preview)
                 /\ queue'[i].kind = "detail" /\ NoCapture(i)' => DetailIsFresh
      <4>1. /\ i \in Nat \ {0} /\ i + 1 \in Nat \ {0}
            /\ queue'[i] = queue[i + 1] /\ i + 1 \in 1..Len(queue)
        BY <3>2, <3>5
      <4>2. NoCapture(i + 1)' => NoCapture((i + 1) + 1)
        BY <3>3, <4>1
      <4>3. NoCapture(i)' => NoCapture(i + 1)
        BY <3>3, <4>1
      <4> QED
        BY <4>1, <4>2, <4>3 DEF NamedInv
    <3>6. ASSUME NoCapture(1)'
          PROVE  Fresh(view'.preview) /\ (view'.detail => DetailIsFresh)
      <4>1. NoCapture(2)
        BY <3>3, <3>6
      <4>2. CASE queue[1].kind = "captured"
        BY <3>1, <3>2, <3>6, <4>1, <4>2 DEF NamedInv, Apply, TypeOK, View
      <4>3. CASE queue[1].kind # "captured"
        <5>1. NoCapture(1) /\ queue[1].kind = "detail"
          BY <3>2, <4>1, <4>3, QueueType DEF NoCapture
        <5> QED
          BY <3>1, <3>2, <3>6, <4>3, <5>1 DEF NamedInv, Apply, TypeOK, View
      <4> QED
        BY <4>2, <4>3
    <3> QED
      BY <3>1, <3>4, <3>5, <3>6 DEF NamedInv
  <2> QED
    BY <2>1, <2>2
<1>5. KnownInv'
  <2>1. CASE queue = <<>>
    BY <2>1 DEF Drain, KnownInv, Known, Reported
  <2>2. CASE queue # <<>>
    <3>1. queue' = Tail(queue) /\ view' = Apply(view, queue[1])
      BY <2>2 DEF Drain
    <3>2. /\ 1 \in 1..Len(queue)
          /\ \A i \in 1..Len(queue') : queue'[i] = queue[i + 1] /\ i + 1 \in 1..Len(queue)
      BY <2>2, <3>1, TailLemma
    <3>3. view'.preview = view.preview
             \/ (queue[1].kind = "captured" /\ view'.preview = queue[1].preview)
      BY <3>1, <3>2, QueueType DEF Apply, TypeOK, View
    <3> QED
      BY <3>2, <3>3 DEF Drain, KnownInv, Known, Reported
  <2> QED
    BY <2>1, <2>2
<1>6. ShownInv'
  BY DEF Drain, ShownInv, ShowingDetail, Zoomed, None, Sides, Apply
<1>7. PicturesInv'
  BY DEF Drain, PicturesInv, Whole, Sides, Pages, Names, DetailName, Apply
<1> QED
  BY <1>1, <1>2, <1>3, <1>4, <1>5, <1>6, <1>7

LEMMA ShowStep ==
    ASSUME IInv, Show
    PROVE  IInv'
<1> USE DEF IInv
<1>1. TypeOK'
  <2>1. job' \in Jobs
    BY DEF Show, TypeOK, Jobs, View, Began, Wanted, Sides
  <2>2. widgets' \in [Sides -> [source : Names \cup {None}, picture : Pictures \cup {Torn}]]
    BY DEF Show, TypeOK, SetPreview, ShowingDetail, Names, View, None
  <2>3. view' \in View /\ detail_key' \in Centres \cup {NoKey}
    BY DEF Show, TypeOK, View
  <2> QED
    BY <2>1, <2>2, <2>3 DEF Show, TypeOK
<1>2. JobInv'
  BY DEF Show, JobInv, Idle, Sides, Pages, None, DetailName, SetPreview, Wanted,
         Began, ShowingDetail, Zoomed
<1>3. CutInv'
  BY DEF Show, CutInv, Cut, Target, PreviewName, Idle, Sides, None, DetailName,
         SetPreview, Wanted, Began, ShowingDetail, Zoomed
<1>4. NamedInv'
  BY DEF Show, NamedInv, Recent, NoCapture, Fresh, DetailIsFresh, Idle, None,
         DetailName, Sides, SetPreview, Wanted, Began, ShowingDetail, Zoomed
<1>5. KnownInv'
  <2>1. /\ files' = files /\ taken' = taken /\ queue' = queue
        /\ view'.preview = view.preview
        /\ widgets' = [s \in Sides |-> SetPreview(s)]
    BY DEF Show, TypeOK, View
  <2>2. Reported => Reported'
    BY DEF Show, Reported, Began, Idle
  <2>3. ASSUME NEW name, Known(name)
        PROVE  Known(name)'
    BY <2>1, <2>2, <2>3 DEF Known
  <2>4. ASSUME NEW s \in Sides, widgets'[s].source \in Pages
        PROVE  /\ Known(widgets[s].source)'
               /\ widgets'[s].source = taken.page /\ ~taken.rescanned =>
                     widgets'[s].picture = Picture(taken.take, Fitted)
    <3>1. widgets'[s] = SetPreview(s)
      BY <2>1
    <3>2. CASE widgets'[s] = widgets[s]
      BY <2>3, <2>4, <3>2 DEF KnownInv
    <3>3. CASE widgets'[s] # widgets[s]
      <4>1. /\ widgets'[s].source = view.preview /\ view.preview # None
            /\ widgets'[s].picture = files[s][view.preview]
        BY <2>4, <3>1, <3>3 DEF SetPreview, Pages, DetailName
      <4>2. Known(view.preview) /\ Known(widgets[s].source)'
        BY <2>3, <4>1 DEF KnownInv
      <4> QED
        BY <4>1, <4>2 DEF Known
    <3> QED
      BY <3>2, <3>3
  <2>5. Known(view.preview)'
    BY <2>1, <2>3 DEF KnownInv
  <2>6. ASSUME NEW i \in 1..Len(queue'), queue'[i].kind = "captured"
        PROVE  Known(queue[i].preview)'
    BY <2>1, <2>3, <2>6 DEF KnownInv
  <2> QED
    BY <2>1, <2>4, <2>5, <2>6 DEF KnownInv
<1>6. ShownInv'
  BY DEF Show, ShownInv, ShowingDetail, Zoomed, SetPreview, None, DetailName, Sides,
         Wanted, Began, Idle
<1>7. PicturesInv'
  <2>1. files' = files /\ taken' = taken /\ widgets' = [s \in Sides |-> SetPreview(s)]
    BY DEF Show
  <2>2. ASSUME NEW s \in Sides
        PROVE  Whole(widgets'[s].picture)
    <3>1. widgets'[s] = SetPreview(s)
      BY <2>1
    <3>2. DetailName \in Names /\ view.preview \in Names \cup {None}
      BY DEF TypeOK, View, Names, Pages, DetailName, None
    <3> QED
      BY <3>1, <3>2 DEF SetPreview, PicturesInv
  <2>3. \A s \in Sides, n \in Names : Whole(files'[s][n])
    BY <2>1 DEF PicturesInv
  <2> QED
    BY <2>1, <2>2, <2>3 DEF PicturesInv, Whole
<1> QED
  BY <1>1, <1>2, <1>3, <1>4, <1>5, <1>6, <1>7

LEMMA StutterStep == ASSUME IInv, UNCHANGED vars PROVE IInv'
BY DEF IInv, vars, TypeOK, JobInv, CutInv, NamedInv, KnownInv, ShownInv,
       PicturesInv, Cut, Target, Reported, Recent, NoCapture, Fresh, DetailIsFresh, Known,
       ShowingDetail, Zoomed

LEMMA NextStep == ASSUME IInv, [Next]_vars PROVE IInv'
BY SaveStep, ReplaceStep, CutFailsStep, CutRaisesStep, TakeStep, ReportStep,
   CompleteStep, DispatchStep, ZoomPreviewStep, PanPreviewStep, ResetPreviewStep,
   DrainStep, ShowStep, StutterStep DEF Next, NoneFails

\* IInv holds in every state, whatever the worker, the keys and the refreshes do.
THEOREM InvariantHolds == Spec => []IInv
<1>1. Init => IInv
  BY InitIInv
<1>2. IInv /\ [Next]_vars => IInv'
  BY NextStep
<1> QED
  BY <1>1, <1>2, PTL DEF Spec

\* Types are as declared.
THEOREM TypeCorrect == Spec => []TypeOK
<1>1. IInv => TypeOK
  BY DEF IInv
<1> QED
  BY <1>1, InvariantHolds, PTL

\* No widget loads a file while it is written.
THEOREM PicturesAreWhole == Spec => []PictureIsWhole
<1>1. IInv => PictureIsWhole
  BY DEF IInv, PicturesInv, PictureIsWhole, Whole, Torn, Picture
<1> QED
  BY <1>1, InvariantHolds, PTL

\* A capture whose previews were cut is what the operator sees.
THEOREM CapturesAreShown == Spec => []CaptureIsShown
<1>1. IInv => CaptureIsShown
  BY DEF IInv, JobInv, KnownInv, Known, ShownInv, CaptureIsShown, AtRest,
         ShowingDetail, Zoomed, PreviewName, TypeOK, View, Pages, None, Idle
<1> QED
  BY <1>1, InvariantHolds, PTL

\* The view names the pair that was reported last, and no file of an earlier take, also
\* where captures and rescans end without an event.
THEOREM ViewFollowsCaptures == Spec => []ViewIsOfLastPair
<1>1. IInv => ViewIsOfLastPair
  BY DEF IInv, NamedInv, ViewIsOfLastPair, NoCapture, Fresh, DetailIsFresh, PreviewName
<1> QED
  BY <1>1, InvariantHolds, PTL

\* Every window that is shown lies in the page and holds the point it was asked for.
THEOREM WindowsHoldCentre == Spec => []WindowHoldsCentre
<1>1. ASSUME IInv, NEW side \in Sides, widgets[side].picture.at # Fitted
      PROVE  LET at == widgets[side].picture.at
             IN at >= 0 /\ at + CropWidth <= Width /\ at \in HoldingWindows
  <2>1. PICK centre \in Centres : widgets[side].picture.at = DetailLeft(centre)
    BY <1>1 DEF IInv, PicturesInv, Whole
  <2>2. DetailLeft(centre) \in HoldingWindows
    BY DetailWindow DEF HoldingWindows
  <2>3. CropWidth \in Int /\ Width \in Int
    BY CropLemma, SizeAssumption
  <2> QED
    BY <2>1, <2>2, <2>3, DetailWindow
<1>2. IInv => WindowHoldsCentre
  BY <1>1 DEF WindowHoldsCentre
<1> QED
  BY <1>2, InvariantHolds, PTL
=============================================================================
