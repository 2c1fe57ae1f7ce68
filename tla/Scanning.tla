------------------------------ MODULE Scanning ------------------------------
(***************************************************************************)
(* A ScannerSession with the CaptureCoordinator it calls and the files of   *)
(* the image directory: the session numbers the pages, the coordinator      *)
(* replaces their files, and a new process takes the numbers from the files *)
(* it finds.                                                                *)
(*                                                                          *)
(* ScannerSession takes the coordinator for one step that adds two pages to *)
(* a set.  Here it is the caller's side of PairOutcome, whose calls take    *)
(* their time, replace files, and end in each of the ways that capture_pair *)
(* has; CapturePair shows that it does so.                                  *)
(***************************************************************************)
EXTENDS Integers

CONSTANTS
    Cameras,            \* the two cameras
    MaxPage,            \* bound on page numbers
    PublishedSuffixes,  \* the file types of a page
    Content,            \* what a file may hold
    NoFile

ASSUME CamerasAssumption == \E a, b \in Cameras : a # b /\ Cameras = {a, b}

ASSUME MaxPageAssumption == MaxPage \in Nat

ASSUME FilesAssumption == "jpg" \in PublishedSuffixes /\ NoFile \notin Content

Pages == 0..(MaxPage + 1)

VARIABLES
    \* of the session
    state, next, last, error, roles, shooting, running, refocus, thread, camera,
    confirmed,
    \* of the call of capture_pair, and its files
    files, page, status, answer

sessionVars == <<state, next, last, error, roles, shooting, running, refocus,
                 thread, camera, confirmed>>
callVars    == <<files, page, status, answer>>
vars        == <<sessionVars, callVars>>

Targets == Pages \X PublishedSuffixes

\* What next_even_page takes for captures: a page with a file of any image type.
Numbered == {p \in Pages : \E s \in PublishedSuffixes : files[<<p, s>>] # NoFile}

Session == INSTANCE ScannerSession WITH book <- Numbered

Pair == INSTANCE PairOutcome WITH pages <- files

Init == Pair!OInit /\ Session!Init

-----------------------------------------------------------------------------

\* What the session does without the coordinator.
Alone ==
    /\ UNCHANGED callVars
    /\ \/ Session!Prepare
       \/ Session!Focus
       \/ Session!Recover
       \/ \E side \in Session!Sides, outcome \in {"done", "raised"} :
            Session!CameraEnds(side, outcome)
       \/ Session!BothFail
       \/ Session!PrepareDone
       \/ Session!FocusDone
       \/ Session!DismissFailure
       \/ Session!Finish
       \/ Session!SwapCameras

\* Mutant of Shoot: rescan photographs the next pages.
ShootNext == Pair!Start(next) /\ (Session!Capture \/ Session!Rescan)

\* capture and rescan call capture_pair.
Shoot ==
    \/ Pair!Start(next) /\ Session!Capture
    \/ Pair!Start(last) /\ Session!Rescan

\* It returns a result.
Returned ==
    /\ Pair!Succeed
    /\ answer' = "success"
    /\ confirmed' = confirmed \cup {page, page + 1}
    /\ Session!PairReturned

\* It raises CapturePairError, with a recovery directory if rolling back failed.
Failed ==
    /\ \/ Pair!Refuse /\ answer' = "failed"
       \/ Pair!Tear /\ answer' = "incomplete"
    /\ confirmed' = confirmed \cap Numbered'
    /\ Session!PairFailed

\* It raises anything else.
Raised == Pair!Refuse /\ answer' = "error" /\ Session!CaptureRaises

\* The process stops, within a call or between two, and a new one numbers on from
\* the files that are there.
Stopped ==
    /\ \/ (Pair!Succeed \/ Pair!Tear) /\ answer' = "crashed"
       \/ status = "idle" /\ UNCHANGED callVars
    /\ confirmed' = confirmed \cap Numbered'
    /\ Session!NewSession

Next == Alone \/ Shoot \/ Returned \/ Failed \/ Raised \/ Stopped

Spec == Init /\ [][Next]_vars

-----------------------------------------------------------------------------

TypeOK ==
    /\ files \in [Targets -> Content \cup {NoFile}]
    /\ page \in Pages
    /\ status \in {"idle", "busy"}
    /\ answer \in {"none", "success", "failed", "error", "incomplete", "crashed"}
    /\ confirmed \subseteq Numbered
    /\ next \in Nat
    /\ last \in Pages \cup {Session!None}
    /\ running \in {"none", "prepare", "focus", "capture", "rescan"}

\* The session takes for one step what the coordinator does by files: its numbers are
\* right although it never looks at the book while it runs.
ImplementsSession == Session!Spec

\* The files of a page that a capture has published change only when the operator
\* rescans the pair captured last, and then only by that pair's own rescan: not by a
\* later capture or its rollback, nor by what a new process makes of torn pairs.
PagesStand ==
    [][\A t \in Targets : t[1] \in confirmed /\ files'[t] # files[t] =>
           running = "rescan" /\ t[1] \in {last, last + 1}]_vars

\* The JPEGs of two facing pages are of the same call.
Match(p) == files[<<p, "jpg">>] = files[<<p + 1, "jpg">>]

\* Facing pages that have been captured together are not mixed with others by anything
\* but a rescan of theirs that could not be rolled back, of which the operator is told,
\* or that a stop of the process cut off.
PairsMatch ==
    [][\A p \in Pages :
           p % 2 = 0 /\ {p, p + 1} \subseteq confirmed /\ Match(p) /\ ~Match(p)' =>
               /\ running = "rescan" /\ p = last
               /\ answer' \in {"incomplete", "crashed"}]_vars

\* No file lies beyond the pair that the next capture takes: torn captures and
\* retries leave no page out of their sequence.
NothingBeyond == \A p \in Numbered : p < next + 2

-----------------------------------------------------------------------------
\* What makes the properties above inductive.

\* The session waits for exactly the call that it made.
CallInv ==
    /\ status = "busy" <=> running \in {"capture", "rescan"}
    /\ running = "capture" => page = next
    /\ running = "rescan" => page = last
    /\ status = "busy" => {page, page + 1} \subseteq Pages

\* Pages are numbered upwards in pairs.
NumberInv ==
    /\ next % 2 = 0
    /\ \A p \in confirmed : p < next
    /\ last # Session!None => last + 2 = next

IInv == TypeOK /\ CallInv /\ NumberInv /\ NothingBeyond
=============================================================================
