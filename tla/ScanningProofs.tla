--------------------------- MODULE ScanningProofs ---------------------------
(***************************************************************************)
(* The session and the coordinator together: the steps of the files are the *)
(* steps that ScannerSession takes them for, and the pages stand, for every *)
(* bound on the page numbers and every set of file types.                   *)
(***************************************************************************)
EXTENDS Scanning, TLAPS

\* The pages of the image directory before and after a step.
LEMMA NumberedPages == Numbered \subseteq Pages /\ Numbered' \subseteq Pages'
BY DEF Numbered

LEMMA PagesConstant == Pages' = Pages /\ Targets' = Targets /\ Pages \subseteq Nat
BY MaxPageAssumption DEF Pages, Targets

\* The number that a new session begins with.
LEMMA NextEvenPageFacts ==
    ASSUME NEW S, NEW n \in Session!NextEvenPage(S)
    PROVE  n \in Nat /\ n % 2 = 0 /\ \A p \in S : p < n
<1>1. n \in Nat /\ \A p \in S : p < n
  BY MaxPageAssumption DEF Session!NextEvenPage
<1>2. n % 2 = 0
  BY DEF Session!NextEvenPage
<1> QED
  BY <1>1, <1>2

-----------------------------------------------------------------------------
\* What the steps leave alone.

LEMMA AloneEffect ==
    ASSUME TypeOK, Alone
    PROVE  /\ UNCHANGED <<callVars, next, last, confirmed>>
           /\ running \in {"none", "prepare", "focus"}
           /\ running' \in {"none", "prepare", "focus"}
<1> USE DEF Alone, TypeOK, Session!pages, Session!images
<1>1. CASE Session!Prepare
  BY <1>1 DEF Session!Prepare, Session!RunBoth
<1>2. CASE Session!Focus
  BY <1>2 DEF Session!Focus, Session!RunBoth
<1>3. CASE Session!Recover
  BY <1>3 DEF Session!Recover, Session!RunBoth
<1>4. CASE \E side \in Session!Sides, outcome \in {"done", "raised"} :
             Session!CameraEnds(side, outcome)
  BY <1>4 DEF Session!CameraEnds
<1>5. CASE Session!BothFail
  BY <1>5 DEF Session!BothFail
<1>6. CASE Session!PrepareDone
  BY <1>6 DEF Session!PrepareDone, Session!RunBoth
<1>7. CASE Session!FocusDone
  BY <1>7 DEF Session!FocusDone
<1>8. CASE Session!DismissFailure
  BY <1>8 DEF Session!DismissFailure
<1>9. CASE Session!Finish
  BY <1>9 DEF Session!Finish
<1>10. CASE Session!SwapCameras
  BY <1>10 DEF Session!SwapCameras
<1> QED
  BY <1>1, <1>2, <1>3, <1>4, <1>5, <1>6, <1>7, <1>8, <1>9, <1>10

\* A call starts on the pages the session numbers, and touches no file yet.
LEMMA ShootEffect ==
    ASSUME Shoot
    PROVE  /\ UNCHANGED <<files, next, last, confirmed>>
           /\ status = "idle" /\ status' = "busy" /\ answer' = "none"
           /\ {page', page' + 1} \subseteq Pages
           /\ \/ running' = "capture" /\ page' = next
              \/ running' = "rescan" /\ page' = last
BY DEF Shoot, Pair!Start, Session!Capture, Session!Rescan, Session!pages, Session!images

\* While it runs, the page of the call is the one the session waits for.
LEMMA PageOfCall ==
    ASSUME IInv, status = "busy"
    PROVE  /\ page = Session!PairPage
           /\ page \in Nat /\ page \in Pages /\ page + 1 \in Pages
           /\ page <= next /\ {page, page + 1} \subseteq Pages
BY PagesConstant DEF IInv, TypeOK, CallInv, NumberInv, Session!PairPage, Session!None, Pages

\* What replacing files of the call's pages does to the set of pages.
LEMMA ReplacesEffect ==
    ASSUME IInv, status = "busy", Pair!Replaces
    PROVE  /\ files' \in [Targets -> Content \cup {NoFile}]
           /\ \A t \in Targets : files'[t] # files[t] => t[1] \in {page, page + 1}
           /\ Numbered' \ {page, page + 1} = Numbered \ {page, page + 1}
<1>1. /\ files' \in [Targets -> Content \cup {NoFile}]
      /\ \A t \in Targets : t[1] \notin {page, page + 1} => files'[t] = files[t]
  BY DEF Pair!Replaces, Pair!Targets, Targets
<1>2. ASSUME NEW p \in Pages, p \notin {page, page + 1}
      PROVE  p \in Numbered' <=> p \in Numbered
  <2>1. \A s \in PublishedSuffixes : files'[<<p, s>>] = files[<<p, s>>]
    BY <1>1, <1>2 DEF Targets
  <2> QED
    BY <2>1 DEF Numbered, Pages
<1> QED
  BY <1>1, <1>2, NumberedPages, PagesConstant

\* A pair that succeeds has both pages in the book afterwards.
LEMMA SucceedEffect ==
    ASSUME IInv, Pair!Succeed
    PROVE  /\ status = "busy" /\ status' = "idle" /\ page' = page
           /\ Pair!Replaces
           /\ Numbered' = Numbered \cup {page, page + 1}
<1>1. /\ status = "busy" /\ status' = "idle" /\ page' = page
      /\ Pair!Replaces
      /\ files'[<<page, "jpg">>] # NoFile /\ files'[<<page + 1, "jpg">>] # NoFile
  BY DEF Pair!Succeed, Pair!Ends
<1>2. {page, page + 1} \subseteq Numbered'
  BY <1>1, PageOfCall, FilesAssumption DEF Numbered, Pages
<1> QED
  BY <1>1, <1>2, ReplacesEffect

LEMMA TearEffect ==
    ASSUME Pair!Tear
    PROVE  status = "busy" /\ status' = "idle" /\ page' = page /\ Pair!Replaces
BY DEF Pair!Tear, Pair!Ends

LEMMA RefuseEffect ==
    ASSUME Pair!Refuse
    PROVE  status = "busy" /\ status' = "idle" /\ UNCHANGED <<files, page>>
BY DEF Pair!Refuse, Pair!Ends

-----------------------------------------------------------------------------
\* The refinement of ScannerSession.

\* A call that tears the pair is the session's Torn.
LEMMA TornFiles ==
    ASSUME IInv, status = "busy", Pair!Replaces, confirmed' = confirmed \cap Numbered'
    PROVE  Session!Torn
<1>1. page = Session!PairPage
  BY PageOfCall
<1>2. Numbered' = (Numbered \ {page, page + 1}) \cup (Numbered' \cap {page, page + 1})
  BY ReplacesEffect
<1>3. Numbered' \cap {page, page + 1} \in SUBSET {page, page + 1}
  OBVIOUS
<1> QED
  BY <1>1, <1>2, <1>3 DEF Session!Torn

\* Files that stay keep their pages and what is known of them.
LEMMA SameFiles ==
    ASSUME TypeOK, files' = files
    PROVE  Numbered' = Numbered /\ confirmed \cap Numbered' = confirmed
<1>1. Numbered' = Numbered
  BY DEF Numbered, Pages
<1> QED
  BY <1>1 DEF TypeOK

LEMMA AloneRefines == ASSUME Alone PROVE Session!Next
BY DEF Alone, Session!Next, Session!Step, Session!Call

LEMMA ShootRefines == ASSUME Shoot PROVE Session!Next
BY DEF Shoot, Session!Next, Session!Call

LEMMA ReturnedRefines == ASSUME IInv, Returned PROVE Session!Next
<1>1. page = Session!PairPage /\ Numbered' = Numbered \cup {page, page + 1}
  BY SucceedEffect, PageOfCall DEF Returned
<1>2. Session!CaptureDone
  BY <1>1 DEF Returned, Session!CaptureDone
<1> QED
  BY <1>2 DEF Session!Next, Session!Step

LEMMA FailedRefines == ASSUME IInv, Failed PROVE Session!Next
<1>1. CASE Pair!Refuse
  <2>1. UNCHANGED Session!images
    BY <1>1, RefuseEffect, SameFiles DEF Failed, IInv, Session!images
  <2> QED
    BY <2>1 DEF Failed, Session!CaptureFails, Session!Next, Session!Step
<1>2. CASE Pair!Tear
  <2>1. Session!Torn
    BY <1>2, TearEffect, TornFiles DEF Failed
  <2> QED
    BY <2>1 DEF Failed, Session!CaptureFails, Session!Next, Session!Step
<1> QED
  BY <1>1, <1>2 DEF Failed

LEMMA RaisedRefines == ASSUME Raised PROVE Session!Next
BY DEF Raised, Session!Next, Session!Step

LEMMA StoppedRefines == ASSUME IInv, Stopped PROVE Session!Next
<1>1. CASE status = "idle" /\ UNCHANGED callVars
  <2>1. UNCHANGED Session!images
    BY <1>1, SameFiles DEF Stopped, callVars, IInv, Session!images
  <2> QED
    BY <2>1 DEF Stopped, Session!Restart, Session!Next
<1>2. CASE Pair!Succeed \/ Pair!Tear
  <2>1. Session!Torn /\ running \in {"capture", "rescan"}
    BY <1>2, SucceedEffect, TearEffect, TornFiles DEF Stopped, IInv, CallInv
  <2> QED
    BY <2>1 DEF Stopped, Session!Restart, Session!Next
<1> QED
  BY <1>1, <1>2 DEF Stopped

LEMMA SessionNext == ASSUME IInv, [Next]_vars PROVE [Session!Next]_(Session!vars)
<1>1. CASE UNCHANGED vars
  <2>1. Numbered' = Numbered
    BY <1>1 DEF vars, callVars, Numbered, Pages
  <2> QED
    BY <1>1, <2>1 DEF vars, sessionVars, Session!vars
<1>2. CASE Next
  BY <1>2, AloneRefines, ShootRefines, ReturnedRefines, FailedRefines, RaisedRefines,
     StoppedRefines DEF Next
<1> QED
  BY <1>1, <1>2

-----------------------------------------------------------------------------
\* The inductive invariant of the two together.

\* The pages in the book after a call has replaced files of its pages.
LEMMA ReplacesKeeps ==
    ASSUME IInv, status = "busy", Pair!Replaces
    PROVE  /\ \A p \in Numbered' : p < next + 2
           /\ page <= next
<1>1. page \in Nat /\ page <= next /\ next \in Nat
  BY PageOfCall DEF IInv, TypeOK
<1>2. \A p \in Numbered' : p \in Numbered \/ p = page \/ p = page + 1
  BY ReplacesEffect
<1>3. \A p \in Numbered' : p \in Nat
  BY NumberedPages, PagesConstant
<1> QED
  BY <1>1, <1>2, <1>3 DEF IInv, NothingBeyond

LEMMA InitIInv == ASSUME Init PROVE IInv
<1> USE DEF Init, Pair!OInit, Session!Init
<1>1. next \in Nat /\ next % 2 = 0 /\ \A p \in Numbered : p < next
  BY MaxPageAssumption DEF Session!NextEvenPage
<1>2. TypeOK
  BY <1>1 DEF TypeOK, Pair!Targets, Targets
<1>3. CallInv
  BY DEF CallInv
<1>4. NumberInv /\ NothingBeyond
  BY <1>1, NumberedPages, PagesConstant DEF NumberInv, NothingBeyond
<1> QED
  BY <1>2, <1>3, <1>4 DEF IInv

LEMMA AloneStep == ASSUME IInv, Alone PROVE IInv'
<1>1. /\ UNCHANGED <<callVars, next, last, confirmed>>
      /\ running \in {"none", "prepare", "focus"}
      /\ running' \in {"none", "prepare", "focus"}
  BY AloneEffect DEF IInv
<1>2. Numbered' = Numbered /\ UNCHANGED Session!None
  BY <1>1 DEF callVars, Numbered, Pages, Session!None
<1> QED
  BY <1>1, <1>2, PagesConstant
     DEF IInv, TypeOK, CallInv, NumberInv, NothingBeyond, callVars, Session!None

LEMMA ShootStep == ASSUME IInv, Shoot PROVE IInv'
<1>1. Numbered' = Numbered
  BY ShootEffect DEF Numbered, Pages
<1>2. TypeOK'
  BY <1>1, ShootEffect, PagesConstant DEF IInv, TypeOK, Session!None
<1>3. CallInv'
  BY ShootEffect, PagesConstant DEF CallInv
<1>4. NumberInv' /\ NothingBeyond'
  BY <1>1, ShootEffect DEF IInv, NumberInv, NothingBeyond, Session!None
<1> QED
  BY <1>2, <1>3, <1>4 DEF IInv

LEMMA ReturnedStep == ASSUME IInv, Returned PROVE IInv'
<1>1. /\ status = "busy" /\ status' = "idle" /\ page' = page /\ Pair!Replaces
      /\ Numbered' = Numbered \cup {page, page + 1}
  BY SucceedEffect DEF Returned
<1>2. /\ page \in Pages /\ page + 1 \in Pages /\ page \in Nat /\ page <= next
      /\ page = Session!PairPage
  BY <1>1, PageOfCall
<1>3. files' \in [Targets -> Content \cup {NoFile}]
  BY <1>1, ReplacesEffect
<1>4. /\ running' = "none" /\ last' = page /\ answer' = "success"
      /\ confirmed' = confirmed \cup {page, page + 1}
      /\ next' = page + 2 
  BY <1>1, <1>2 DEF Returned, Session!PairReturned, IInv, TypeOK, CallInv, NumberInv,
     Session!PairPage, Session!None, Pages
<1>5. TypeOK'
  BY <1>1, <1>2, <1>3, <1>4, PagesConstant DEF IInv, TypeOK
<1>6. CallInv'
  BY <1>1, <1>4 DEF CallInv
<1>7. next <= next' /\ next \in Nat /\ next' \in Nat
  BY <1>1, <1>2, <1>4 DEF IInv, TypeOK, CallInv, NumberInv, Session!None, Pages
<1>8. NumberInv'
  <2>1. \A p \in confirmed : p \in Nat /\ p < next
    BY NumberedPages, PagesConstant DEF IInv, TypeOK, NumberInv
  <2>2. next' % 2 = 0
    BY <1>1, <1>2, <1>4, <1>7 DEF IInv, TypeOK, CallInv, NumberInv, Session!None, Pages
  <2> QED
    BY <1>2, <1>4, <1>7, <2>1, <2>2 DEF NumberInv
<1>9. NothingBeyond'
  <2>1. \A p \in Numbered : p \in Nat /\ p < next + 2
    BY NumberedPages, PagesConstant DEF IInv, NothingBeyond
  <2> QED
    BY <1>1, <1>2, <1>4, <1>7, <2>1 DEF NothingBeyond
<1> QED
  BY <1>5, <1>6, <1>8, <1>9 DEF IInv

LEMMA FailedStep == ASSUME IInv, Failed PROVE IInv'
<1>1. /\ UNCHANGED <<next, last>> /\ running' = "none"
      /\ answer' \in {"failed", "incomplete"}
      /\ confirmed' = confirmed \cap Numbered'
  BY DEF Failed, Session!PairFailed
<1>2. /\ status' = "idle" /\ page' = page
      /\ files' \in [Targets -> Content \cup {NoFile}]
      /\ \A p \in Numbered' : p < next + 2
  <2>1. CASE Pair!Refuse
    BY <2>1, RefuseEffect, SameFiles DEF IInv, TypeOK, NothingBeyond
  <2>2. CASE Pair!Tear
    BY <2>2, TearEffect, ReplacesEffect, ReplacesKeeps
  <2> QED
    BY <2>1, <2>2 DEF Failed
<1>3. TypeOK'
  BY <1>1, <1>2, PagesConstant DEF IInv, TypeOK, Session!None
<1>4. CallInv'
  BY <1>1, <1>2 DEF CallInv
<1>5. NumberInv' /\ NothingBeyond'
  BY <1>1, <1>2 DEF IInv, NumberInv, NothingBeyond, Session!None
<1> QED
  BY <1>3, <1>4, <1>5 DEF IInv

LEMMA RaisedStep == ASSUME IInv, Raised PROVE IInv'
<1>1. /\ UNCHANGED <<files, page, next, last, confirmed>>
      /\ status' = "idle" /\ running' = "none" /\ answer' = "error"
  BY RefuseEffect DEF Raised, Session!CaptureRaises, Session!pages, Session!images
<1>2. Numbered' = Numbered
  BY <1>1 DEF Numbered, Pages
<1> QED
  BY <1>1, <1>2, PagesConstant
     DEF IInv, TypeOK, CallInv, NumberInv, NothingBeyond, Session!None

LEMMA StoppedStep == ASSUME IInv, Stopped PROVE IInv'
<1>1. /\ next' \in Nat /\ next' % 2 = 0 /\ \A p \in Numbered' : p < next'
      /\ last' = Session!None /\ running' = "none"
      /\ confirmed' = confirmed \cap Numbered'
  <2>1. Session!NewSession /\ confirmed' = confirmed \cap Numbered'
    BY DEF Stopped
  <2>2. next' \in Session!NextEvenPage(Numbered')
    BY <2>1 DEF Session!NewSession
  <2>3. next' \in Nat /\ next' % 2 = 0 /\ \A p \in Numbered' : p < next'
    BY <2>2, NextEvenPageFacts
  <2> QED
    BY <2>1, <2>3 DEF Session!NewSession
<1>2. /\ files' \in [Targets -> Content \cup {NoFile}]
      /\ page' \in Pages /\ status' = "idle"
      /\ answer' \in {"none", "success", "failed", "error", "incomplete", "crashed"}
  <2>1. CASE status = "idle" /\ UNCHANGED callVars
    BY <2>1 DEF callVars, IInv, TypeOK
  <2>2. CASE (Pair!Succeed \/ Pair!Tear) /\ answer' = "crashed"
    BY <2>2, SucceedEffect, TearEffect, ReplacesEffect DEF IInv, TypeOK
  <2> QED
    BY <2>1, <2>2 DEF Stopped
<1>3. TypeOK'
  BY <1>1, <1>2, PagesConstant DEF TypeOK, Session!None
<1>4. CallInv'
  BY <1>1, <1>2 DEF CallInv
<1>5. NumberInv'
  BY <1>1 DEF NumberInv, Session!None
<1>6. NothingBeyond'
  <2>1. \A p \in Numbered' : p \in Nat
    BY NumberedPages, PagesConstant
  <2> QED
    BY <1>1, <2>1 DEF NothingBeyond
<1> QED
  BY <1>3, <1>4, <1>5, <1>6 DEF IInv

LEMMA StutterStep == ASSUME IInv, UNCHANGED vars PROVE IInv'
<1>1. Numbered' = Numbered
  BY DEF vars, callVars, Numbered, Pages
<1> QED
  BY <1>1, PagesConstant
     DEF vars, sessionVars, callVars, IInv, TypeOK, CallInv, NumberInv, NothingBeyond,
         Session!None

LEMMA NextIInv == ASSUME IInv, [Next]_vars PROVE IInv'
BY AloneStep, ShootStep, ReturnedStep, FailedStep, RaisedStep, StoppedStep, StutterStep
   DEF Next

\* The session and the coordinator agree on the call and on the numbers throughout.
THEOREM InvariantHolds == Spec => []IInv
BY InitIInv, NextIInv, PTL DEF Spec

\* Every variable stays within its type, and what is confirmed is in the book.
THEOREM TypeCorrect == Spec => []TypeOK
<1>1. IInv => TypeOK
  BY DEF IInv
<1> QED
  BY <1>1, InvariantHolds, PTL

\* Torn pairs, retries and restarts never leave a file beyond the next pair.
THEOREM NothingBeyondHolds == Spec => []NothingBeyond
<1>1. IInv => NothingBeyond
  BY DEF IInv
<1> QED
  BY <1>1, InvariantHolds, PTL

\* What ScannerSession says of one step per call is true of calls that replace files one
\* by one, fail, tear pairs and stop: its theorems speak of the files of the book.
THEOREM SessionRefinement == Spec => ImplementsSession
<1>1. Init => Session!Init
  BY DEF Init
<1>2. IInv /\ [Next]_vars => [Session!Next]_(Session!vars)
  BY SessionNext
<1> QED
  BY <1>1, <1>2, InvariantHolds, PTL DEF Spec, ImplementsSession, Session!Spec

-----------------------------------------------------------------------------
\* Pages that have been captured stand.

\* A call that is no rescan has pages above all confirmed ones.
LEMMA CallSparesPages ==
    ASSUME IInv, status = "busy", Pair!Replaces,
           NEW t \in Targets, t[1] \in confirmed, files'[t] # files[t]
    PROVE  running = "rescan" /\ t[1] \in {last, last + 1}
<1>1. t[1] \in {page, page + 1} /\ page \in Nat
  BY ReplacesEffect, PageOfCall
<1>2. t[1] < next /\ next \in Nat
  BY DEF IInv, TypeOK, NumberInv
<1>3. running # "capture"
  BY <1>1, <1>2 DEF IInv, CallInv
<1> QED
  BY <1>1, <1>3 DEF IInv, CallInv

LEMMA PagesStandStep ==
    ASSUME IInv, [Next]_vars,
           NEW t \in Targets, t[1] \in confirmed, files'[t] # files[t]
    PROVE  running = "rescan" /\ t[1] \in {last, last + 1}
<1>1. CASE Alone \/ UNCHANGED vars
  BY <1>1 DEF Alone, callVars, vars
<1>2. CASE Shoot
  BY <1>2, ShootEffect
<1>3. CASE Returned
  BY <1>3, SucceedEffect, CallSparesPages DEF Returned
<1>4. CASE Failed
  BY <1>4, RefuseEffect, TearEffect, CallSparesPages DEF Failed
<1>5. CASE Raised
  BY <1>5, RefuseEffect DEF Raised
<1>6. CASE Stopped
  BY <1>6, SucceedEffect, TearEffect, CallSparesPages DEF Stopped, callVars
<1> QED
  BY <1>1, <1>2, <1>3, <1>4, <1>5, <1>6 DEF Next

\* A page that a capture has published keeps its files, for as long as Pi Scan scans
\* the book, over failures of any kind and restarts, until the operator rescans the
\* last pair and it belongs to that pair.
THEOREM PagesStandHolds == Spec => PagesStand
<1>1. IInv /\ [Next]_vars =>
        [\A t \in Targets : t[1] \in confirmed /\ files'[t] # files[t] =>
            running = "rescan" /\ t[1] \in {last, last + 1}]_vars
  BY PagesStandStep
<1> QED
  BY <1>1, InvariantHolds, PTL DEF Spec, PagesStand

\* A rescan that returns a result has replaced both JPEGs, one that is told to have
\* failed has replaced none.
LEMMA PairsMatchStep ==
    ASSUME IInv, [Next]_vars,
           NEW p \in Pages, p % 2 = 0, {p, p + 1} \subseteq confirmed,
           Match(p), ~Match(p)'
    PROVE  running = "rescan" /\ p = last /\ answer' \in {"incomplete", "crashed"}
<1>1. p \in Nat /\ p + 1 \in Pages
  BY PagesConstant DEF IInv, TypeOK, Numbered
<1>2. PICK t \in {<<p, "jpg">>, <<p + 1, "jpg">>} : files'[t] # files[t]
  BY DEF Match
<1>3. t \in Targets /\ t[1] \in confirmed /\ t[1] \in {p, p + 1}
  BY <1>1, <1>2, FilesAssumption DEF Targets
<1>4. running = "rescan" /\ t[1] \in {last, last + 1}
  BY <1>2, <1>3, PagesStandStep
<1>5. p = last
  BY <1>1, <1>3, <1>4, PagesConstant DEF IInv, TypeOK, NumberInv, CallInv, Session!None
<1>6. status = "busy" /\ page = last
  BY <1>4 DEF IInv, CallInv
<1>7. CASE Alone \/ UNCHANGED vars
  BY <1>2, <1>7 DEF Alone, callVars, vars
<1>8. CASE Shoot
  BY <1>2, <1>8, ShootEffect
<1>9. CASE Returned
  <2>1. Match(p)'
    BY <1>5, <1>6, <1>9 DEF Returned, Pair!Succeed, Match
  <2> QED
    BY <2>1
<1>10. CASE Failed
  BY <1>2, <1>4, <1>5, <1>10, RefuseEffect DEF Failed
<1>11. CASE Raised
  BY <1>2, <1>11, RefuseEffect DEF Raised
<1>12. CASE Stopped
  BY <1>4, <1>5, <1>6, <1>12 DEF Stopped
<1> QED
  BY <1>7, <1>8, <1>9, <1>10, <1>11, <1>12 DEF Next

\* Facing pages stay those of one shot, unless a rescan of them is torn.
THEOREM PairsMatchHolds == Spec => PairsMatch
<1>1. IInv /\ [Next]_vars =>
        [\A p \in Pages :
           p % 2 = 0 /\ {p, p + 1} \subseteq confirmed /\ Match(p) /\ ~Match(p)' =>
               /\ running = "rescan" /\ p = last
               /\ answer' \in {"incomplete", "crashed"}]_vars
  BY PairsMatchStep
<1> QED
  BY <1>1, InvariantHolds, PTL DEF Spec, PairsMatch
=============================================================================
