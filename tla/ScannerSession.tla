---------------------------- MODULE ScannerSession ----------------------------
(***************************************************************************)
(* ScannerSession (domain/session.py) with the page numbers of              *)
(* domain/numbering.py: the workflow of one book, its two cameras, and the  *)
(* pages in the image directory, over restarts of the process.              *)
(*                                                                          *)
(* CaptureCoordinator.capture_pair is one step here, with the outcomes that *)
(* PairTransaction allows it; CapturePair models what happens inside.  The  *)
(* prepare and focus threads of _run_both are modelled one by one.          *)
(***************************************************************************)
EXTENDS Integers, FiniteSets

CONSTANTS
    Cameras,    \* the two cameras
    MaxPage     \* bound on page numbers

Sides == {"even", "odd"}

ASSUME CamerasAssumption == \E a, b \in Cameras : a # b /\ Cameras = {a, b}

ASSUME MaxPageAssumption == MaxPage \in Nat

None == -1      \* no last_capture yet

VARIABLES
    state,      \* session.state
    next,       \* session.next_even_page
    last,       \* even page of session.last_capture, or None
    error,      \* session.last_error is set
    roles,      \* session.cameras
    shooting,   \* the cameras the coordinator was built with
    running,    \* the operation the worker thread is in, or "none"
    refocus,    \* recover is running: focus follows prepare
    thread,     \* the two threads of _run_both
    camera,     \* what each camera was last brought to
    book,       \* pages with an image in the image directory
    confirmed   \* auxiliary: those of them a returned CapturePairResult named

vars == <<state, next, last, error, roles, shooting, running, refocus, thread,
          camera, book, confirmed>>

images   == <<book, confirmed>>
pages    == <<next, last, images>>
pair     == <<roles, shooting>>
threads  == <<thread, camera>>

States == {"new", "preparing", "ready_to_focus", "focusing", "ready",
           "capturing", "capture_failed", "failed", "complete"}

\* Mutant of NextEvenPage: the largest number is reused if it is even.
NextEvenPageReusing(S) ==
    {n \in 0..(MaxPage + 2) :
        /\ n % 2 = 0
        /\ \A p \in S : p <= n + 1
        /\ n = 0 \/ n \in S \/ n + 1 \in S}

\* next_even_page: the first even number above all numbered captures, the only
\* member of the set.
NextEvenPage(S) ==
    {n \in 0..(MaxPage + 2) :
        /\ n % 2 = 0
        /\ \A p \in S : p < n
        /\ n = 0 \/ n - 1 \in S \/ n - 2 \in S}

NoThreads == [side \in Sides |-> "idle"]

Init ==
    /\ book \in SUBSET (0..1)
    /\ confirmed = book
    /\ next \in NextEvenPage(book)
    /\ state = "new"
    /\ last = None
    /\ error = FALSE
    /\ roles \in {f \in [Sides -> Cameras] : f["even"] # f["odd"]}
    /\ shooting = roles
    /\ running = "none"
    /\ refocus = FALSE
    /\ thread = NoThreads
    /\ camera = [c \in Cameras |-> "unknown"]

-----------------------------------------------------------------------------

\* _run_both submits one thread per side.
RunBoth(operation, during) ==
    /\ state' = during
    /\ running' = operation
    /\ thread' = [side \in Sides |-> "running"]

\* prepare is called.
Prepare ==
    /\ running = "none"
    /\ state \in {"new", "failed"}
    /\ RunBoth("prepare", "preparing")
    /\ UNCHANGED <<pages, pair, error, refocus, camera>>

\* focus is called.
Focus ==
    /\ running = "none"
    /\ state = "ready_to_focus"
    /\ RunBoth("focus", "focusing")
    /\ UNCHANGED <<pages, pair, error, refocus, camera>>

\* recover is called: prepare from NEW, then focus, in the same call.
Recover ==
    /\ running = "none"
    /\ state \in {"failed", "capture_failed"}
    /\ RunBoth("prepare", "preparing")
    /\ refocus' = TRUE
    /\ UNCHANGED <<pages, pair, error, camera>>

\* What a camera command leaves the camera at, done or raised.
Effect(outcome) ==
    CASE running = "prepare" /\ outcome = "done"   -> "prepared"
      [] running = "prepare" /\ outcome = "raised" -> "unknown"
      [] running = "focus"   /\ outcome = "done"   -> "locked"
      [] OTHER                                     -> "prepared"

\* The camera command of one thread returns or raises.
CameraEnds(side, outcome) ==
    /\ running \in {"prepare", "focus"}
    /\ thread[side] = "running"
    /\ thread' = [thread EXCEPT ![side] = outcome]
    /\ camera' = [camera EXCEPT ![roles[side]] = Effect(outcome)]
    /\ UNCHANGED <<state, pages, error, pair, running, refocus>>

\* Mutant of BothFail: only the even camera's failure counts.
BothFailOne ==
    /\ running \in {"prepare", "focus"}
    /\ \A side \in Sides : thread[side] # "running"
    /\ \E side \in Sides : thread[side] = "raised"
    /\ error' = TRUE
    /\ state' = IF running = "focus" /\ thread["even"] = "done" THEN "ready" ELSE "failed"
    /\ running' = "none"
    /\ refocus' = FALSE
    /\ thread' = NoThreads
    /\ UNCHANGED <<pages, pair, camera>>

\* Both threads have ended and one of them raised.
BothFail ==
    /\ running \in {"prepare", "focus"}
    /\ \A side \in Sides : thread[side] # "running"
    /\ \E side \in Sides : thread[side] = "raised"
    /\ error' = TRUE
    /\ state' = "failed"
    /\ running' = "none"
    /\ refocus' = FALSE
    /\ thread' = NoThreads
    /\ UNCHANGED <<pages, pair, camera>>

\* Mutant of PrepareDone: recover ends with its prepare.
PrepareDoneOnly ==
    /\ running = "prepare"
    /\ \A side \in Sides : thread[side] = "done"
    /\ error' = FALSE
    /\ state' = "ready_to_focus" /\ running' = "none" /\ thread' = NoThreads
    /\ refocus' = FALSE
    /\ UNCHANGED <<pages, pair, camera>>

\* prepare ends well; within recover, focus starts at once.
PrepareDone ==
    /\ running = "prepare"
    /\ \A side \in Sides : thread[side] = "done"
    /\ error' = FALSE
    /\ \/ refocus /\ RunBoth("focus", "focusing")
       \/ ~refocus /\ state' = "ready_to_focus" /\ running' = "none" /\ thread' = NoThreads
    /\ UNCHANGED <<pages, pair, refocus, camera>>

FocusDone ==
    /\ running = "focus"
    /\ \A side \in Sides : thread[side] = "done"
    /\ error' = FALSE
    /\ state' = "ready"
    /\ running' = "none"
    /\ refocus' = FALSE
    /\ thread' = NoThreads
    /\ UNCHANGED <<pages, pair, camera>>

-----------------------------------------------------------------------------

\* capture is called.
Capture ==
    /\ running = "none"
    /\ state \in {"ready", "capture_failed"}
    /\ next <= MaxPage
    /\ state' = "capturing"
    /\ running' = "capture"
    /\ UNCHANGED <<pages, pair, error, refocus, threads>>

\* Mutant of Rescan: there need not be a last capture.
RescanAnyway ==
    /\ running = "none"
    /\ state \in {"ready", "capture_failed"}
    /\ state' = "capturing"
    /\ running' = "rescan"
    /\ UNCHANGED <<pages, pair, error, refocus, threads>>

\* rescan is called.
Rescan ==
    /\ running = "none"
    /\ state \in {"ready", "capture_failed"}
    /\ last # None
    /\ state' = "capturing"
    /\ running' = "rescan"
    /\ UNCHANGED <<pages, pair, error, refocus, threads>>

\* The even_page handed to capture_pair.
PairPage == IF running = "rescan" THEN last ELSE next

\* The pair may be torn: each of its pages is there or not.
Torn ==
    /\ \E there \in SUBSET {PairPage, PairPage + 1} :
         book' = (book \ {PairPage, PairPage + 1}) \cup there
    /\ confirmed' = confirmed \cap book'

\* Mutant of PairReturned: a rescan after a failure counts a pair.
PairReturnedCounting ==
    /\ running \in {"capture", "rescan"}
    /\ last' = PairPage
    /\ next' = IF running = "capture" \/ error THEN next + 2 ELSE next
    /\ error' = FALSE
    /\ state' = "ready"
    /\ running' = "none"
    /\ UNCHANGED <<pair, refocus, threads>>

\* What capture and rescan make of a CapturePairResult.
PairReturned ==
    /\ running \in {"capture", "rescan"}
    /\ last' = PairPage
    /\ next' = IF running = "capture" THEN next + 2 ELSE next
    /\ error' = FALSE
    /\ state' = "ready"
    /\ running' = "none"
    /\ UNCHANGED <<pair, refocus, threads>>

CaptureDone ==
    /\ PairReturned
    /\ book' = book \cup {PairPage, PairPage + 1}
    /\ confirmed' = confirmed \cup {PairPage, PairPage + 1}

\* What they make of a CapturePairError.
PairFailed ==
    /\ running \in {"capture", "rescan"}
    /\ error' = TRUE
    /\ state' = "capture_failed"
    /\ running' = "none"
    /\ UNCHANGED <<next, last, pair, refocus, threads>>

\* Its rollback may have been incomplete.
CaptureFails == PairFailed /\ (Torn \/ UNCHANGED images)

\* capture_pair raises anything else, which neither capture nor rescan catches.
CaptureRaises ==
    /\ running \in {"capture", "rescan"}
    /\ running' = "none"
    /\ UNCHANGED <<state, pages, error, pair, refocus, threads>>

DismissFailure ==
    /\ running = "none"
    /\ state = "capture_failed"
    /\ error' = FALSE
    /\ state' = "ready"
    /\ UNCHANGED <<pages, pair, running, refocus, threads>>

\* finish, which ensure_can_finish guards.
Finish ==
    /\ running = "none"
    /\ state \in {"new", "ready_to_focus", "ready", "capture_failed", "failed"}
    /\ state' = "complete"
    /\ UNCHANGED <<pages, pair, error, running, refocus, threads>>

SwapCameras ==
    /\ running = "none"
    /\ state \in {"new", "ready_to_focus"}
    /\ roles' = [even |-> roles["odd"], odd |-> roles["even"]]
    /\ shooting' = roles'
    /\ UNCHANGED <<state, pages, error, running, refocus, threads>>

\* A new process builds a session, with the cameras on the sides that the saved
\* configuration gives them, and numbers on from the files it finds.
NewSession ==
    /\ next' \in NextEvenPage(book')
    /\ state' = "new"
    /\ last' = None
    /\ error' = FALSE
    /\ roles' \in {f \in [Sides -> Cameras] : f["even"] # f["odd"]}
    /\ shooting' = roles'
    /\ running' = "none"
    /\ refocus' = FALSE
    /\ thread' = NoThreads
    /\ UNCHANGED camera

\* The process stops, in the midst of a capture perhaps, and is started again.
Restart ==
    /\ \/ running \in {"capture", "rescan"} /\ Torn
       \/ UNCHANGED images
    /\ NewSession

\* A step of the running operation.
Step ==
    \/ \E side \in Sides, outcome \in {"done", "raised"} : CameraEnds(side, outcome)
    \/ BothFail
    \/ PrepareDone
    \/ FocusDone
    \/ CaptureDone
    \/ CaptureFails
    \/ CaptureRaises

\* A call from the application.
Call ==
    \/ Prepare
    \/ Focus
    \/ Recover
    \/ Capture
    \/ Rescan
    \/ DismissFailure
    \/ Finish
    \/ SwapCameras

Next == Step \/ Call \/ Restart

Spec == Init /\ [][Next]_vars

\* Camera transports time out, so a running operation goes on.
FairSpec == Spec /\ WF_vars(Step)

-----------------------------------------------------------------------------

TypeOK ==
    /\ state \in States
    /\ next \in Nat
    /\ last \in Nat \cup {None}
    /\ error \in BOOLEAN
    /\ roles \in [Sides -> Cameras]
    /\ shooting \in [Sides -> Cameras]
    /\ running \in {"none", "prepare", "focus", "capture", "rescan"}
    /\ refocus \in BOOLEAN
    /\ thread \in [Sides -> {"idle", "running", "done", "raised"}]
    /\ camera \in [Cameras -> {"unknown", "prepared", "locked"}]
    /\ book \subseteq Nat
    /\ confirmed \subseteq book

\* A capture that is no rescan never takes the number of a page that a successful
\* capture left in the book, over failures, torn pairs, rescans and restarts.
FreshNumbers == \A p \in confirmed : p < next

\* Within a session, rescan replaces the pair captured last, never another one.
RescanIsLatest == last # None => last + 2 = next /\ last % 2 = 0

\* While pages can be captured, the coordinator photographs each side with the camera
\* shown for it, and both cameras were focused and locked after they were last
\* prepared, whatever was swapped, failed and was recovered or dismissed before.
LockedWhileScanning ==
    state \in {"ready", "capturing", "capture_failed"} =>
        \A side \in Sides : shooting[side] = roles[side] /\ camera[roles[side]] = "locked"

\* "Close the workflow so no further camera operations can start": nothing but a
\* new process touches the cameras, the numbers or the book of a finished session.
CompleteIsFinal ==
    [][state = "complete" => Restart \/ UNCHANGED vars]_vars

\* recover brings the workflow back to scanning or to FAILED, never halfway.
RecoverConcludes ==
    (state = "preparing" /\ refocus) ~> (running = "none" /\ state \in {"ready", "failed", "new"})

\* Between operations the session is in a state that accepts some operation, as
\* the recovery instructions of the README presuppose.
RestsOperable == running = "none" => state \notin {"preparing", "focusing", "capturing"}

\* The application's view of the operations: recover is one, with the prepare and the
\* focus in it, and a state that an operation passes through is not seen.
Flow == INSTANCE Workflow WITH
    operation <- IF running = "none" THEN "none"
                 ELSE IF refocus THEN "recover" ELSE running,
    state     <- IF running = "none" THEN state ELSE "busy",
    captured  <- last # None

\* Every operation starts and ends where WorkflowTable says, over failures of either
\* camera, torn pairs and restarts.
ImplementsWorkflow == Flow!WSpec

-----------------------------------------------------------------------------
\* What makes the properties above inductive.

\* The state tells which operation runs, and nobody runs beside a thread.
RunningInv ==
    /\ running = "prepare" <=> state = "preparing"
    /\ running = "focus" <=> state = "focusing"
    /\ running \in {"capture", "rescan"} => state = "capturing"
    /\ running = "rescan" => last # None
    /\ refocus => running \in {"prepare", "focus"}
    /\ running \notin {"prepare", "focus"} => \A side \in Sides : thread[side] = "idle"

\* A finished thread has brought its side's camera to what the operation is for.
ThreadInv ==
    /\ running = "focus" => \A side \in Sides :
         thread[side] = "done" => camera[roles[side]] = "locked"

NumberInv == next % 2 = 0

LockedInv ==
    state \in {"ready", "capturing", "capture_failed"} =>
        \A c \in Cameras : camera[c] = "locked"

\* The coordinator was built with the cameras of the page roles.
ShootsAsAssigned ==
    /\ shooting = roles
    /\ roles["even"] # roles["odd"]

IInv ==
    /\ TypeOK
    /\ RunningInv
    /\ ThreadInv
    /\ NumberInv
    /\ FreshNumbers
    /\ RescanIsLatest
    /\ LockedInv
    /\ ShootsAsAssigned
=============================================================================
