------------------------- MODULE ScannerSessionProofs -------------------------
(***************************************************************************)
(* The inductive invariant IInv of ScannerSession and what follows from it, *)
(* for every bound on the page numbers and any number of restarts.          *)
(***************************************************************************)
EXTENDS ScannerSession, TLAPS

\* Whether first capture or rescan, capture_pair gets a page number.
LEMMA PairPageType ==
    ASSUME IInv, running \in {"capture", "rescan"}
    PROVE  PairPage \in Nat
BY DEF IInv, TypeOK, RunningInv, PairPage, None

LEMMA TornType ==
    ASSUME IInv, PairPage \in Nat, Torn
    PROVE  book' \subseteq Nat /\ confirmed' \subseteq book'
<1>1. PICK there \in SUBSET {PairPage, PairPage + 1} :
         book' = (book \ {PairPage, PairPage + 1}) \cup there
  BY DEF Torn
<1>2. book' \subseteq Nat
  BY <1>1 DEF IInv, TypeOK
<1> QED
  BY <1>2 DEF Torn

LEMMA PrepareStep == ASSUME IInv, Prepare PROVE IInv'
<1> USE DEF IInv
<1>1. TypeOK'
  BY DEF Prepare, TypeOK, RunBoth, pages, images, pair, None, Sides, States
<1>2. RunningInv'
  BY DEF Prepare, RunningInv, RunBoth, pages, pair, None, Sides
<1>3. ThreadInv'
  BY DEF Prepare, ThreadInv, RunBoth, pages, pair, Sides
<1>4. NumberInv'
  BY DEF Prepare, NumberInv, RunBoth, pages, pair
<1>5. FreshNumbers'
  BY DEF Prepare, FreshNumbers, RunBoth, pages, images, pair
<1>6. RescanIsLatest'
  BY DEF Prepare, RescanIsLatest, RunBoth, pages, pair, None
<1>7. LockedInv'
  BY DEF Prepare, LockedInv, RunBoth, pages, pair
<1>8. ShootsAsAssigned'
  BY DEF Prepare, ShootsAsAssigned, RunBoth, pages, pair
<1> QED
  BY <1>1, <1>2, <1>3, <1>4, <1>5, <1>6, <1>7, <1>8

LEMMA FocusStep == ASSUME IInv, Focus PROVE IInv'
<1> USE DEF IInv
<1>1. TypeOK'
  BY DEF Focus, TypeOK, RunBoth, pages, images, pair, None, Sides, States
<1>2. RunningInv'
  BY DEF Focus, RunningInv, RunBoth, pages, pair, None, Sides
<1>3. ThreadInv'
  BY DEF Focus, ThreadInv, RunBoth, pages, pair, Sides
<1>4. NumberInv'
  BY DEF Focus, NumberInv, RunBoth, pages, pair
<1>5. FreshNumbers'
  BY DEF Focus, FreshNumbers, RunBoth, pages, images, pair
<1>6. RescanIsLatest'
  BY DEF Focus, RescanIsLatest, RunBoth, pages, pair, None
<1>7. LockedInv'
  BY DEF Focus, LockedInv, RunBoth, pages, pair
<1>8. ShootsAsAssigned'
  BY DEF Focus, ShootsAsAssigned, RunBoth, pages, pair
<1> QED
  BY <1>1, <1>2, <1>3, <1>4, <1>5, <1>6, <1>7, <1>8

LEMMA RecoverStep == ASSUME IInv, Recover PROVE IInv'
<1> USE DEF IInv
<1>1. TypeOK'
  BY DEF Recover, TypeOK, RunBoth, pages, images, pair, None, Sides, States
<1>2. RunningInv'
  BY DEF Recover, RunningInv, RunBoth, pages, pair, None, Sides
<1>3. ThreadInv'
  BY DEF Recover, ThreadInv, RunBoth, pages, pair, Sides
<1>4. NumberInv'
  BY DEF Recover, NumberInv, RunBoth, pages, pair
<1>5. FreshNumbers'
  BY DEF Recover, FreshNumbers, RunBoth, pages, images, pair
<1>6. RescanIsLatest'
  BY DEF Recover, RescanIsLatest, RunBoth, pages, pair, None
<1>7. LockedInv'
  BY DEF Recover, LockedInv, RunBoth, pages, pair
<1>8. ShootsAsAssigned'
  BY DEF Recover, ShootsAsAssigned, RunBoth, pages, pair
<1> QED
  BY <1>1, <1>2, <1>3, <1>4, <1>5, <1>6, <1>7, <1>8

LEMMA CameraEndsStep == ASSUME IInv, NEW side \in Sides, NEW outcome \in {"done", "raised"}, CameraEnds(side, outcome) PROVE IInv'
<1> USE DEF IInv
<1>1. TypeOK'
  BY DEF CameraEnds, TypeOK, pages, images, pair, Effect, None, Sides, States
<1>2. RunningInv'
  BY DEF CameraEnds, RunningInv, pages, pair, Effect, None, Sides
<1>3. ThreadInv'
  BY DEF CameraEnds, ThreadInv, RunBoth, pages, pair, TypeOK, ShootsAsAssigned,
         Effect, PairPage, Torn, None, NoThreads, Sides, States, NextEvenPage
<1>4. NumberInv'
  BY DEF CameraEnds, NumberInv, pages, pair, Effect
<1>5. FreshNumbers'
  BY DEF CameraEnds, FreshNumbers, pages, images, pair, Effect
<1>6. RescanIsLatest'
  BY DEF CameraEnds, RescanIsLatest, pages, pair, Effect, None
<1>7. LockedInv'
  BY DEF CameraEnds, LockedInv, RunBoth, pages, pair, TypeOK, RunningInv,
         Effect, PairPage, Torn, None, NoThreads, Sides, States, NextEvenPage
<1>8. ShootsAsAssigned'
  BY DEF CameraEnds, ShootsAsAssigned, pages, pair, Effect
<1> QED
  BY <1>1, <1>2, <1>3, <1>4, <1>5, <1>6, <1>7, <1>8

LEMMA BothFailStep == ASSUME IInv, BothFail PROVE IInv'
<1> USE DEF IInv
<1>1. TypeOK'
  BY DEF BothFail, TypeOK, pages, images, pair, None, NoThreads, Sides, States
<1>2. RunningInv'
  BY DEF BothFail, RunningInv, pages, pair, None, NoThreads, Sides
<1>3. ThreadInv'
  BY DEF BothFail, ThreadInv, pages, pair, NoThreads, Sides
<1>4. NumberInv'
  BY DEF BothFail, NumberInv, pages, pair, NoThreads, Sides
<1>5. FreshNumbers'
  BY DEF BothFail, FreshNumbers, pages, images, pair, NoThreads, Sides
<1>6. RescanIsLatest'
  BY DEF BothFail, RescanIsLatest, pages, pair, None, NoThreads, Sides
<1>7. LockedInv'
  BY DEF BothFail, LockedInv, pages, pair, NoThreads, Sides
<1>8. ShootsAsAssigned'
  BY DEF BothFail, ShootsAsAssigned, pages, pair, NoThreads, Sides
<1> QED
  BY <1>1, <1>2, <1>3, <1>4, <1>5, <1>6, <1>7, <1>8

LEMMA PrepareDoneStep == ASSUME IInv, PrepareDone PROVE IInv'
<1> USE DEF IInv
<1>1. TypeOK'
  BY DEF PrepareDone, TypeOK, RunBoth, pages, images, pair, None, NoThreads, Sides,
         States
<1>2. RunningInv'
  BY DEF PrepareDone, RunningInv, RunBoth, pages, pair, None, NoThreads, Sides
<1>3. ThreadInv'
  BY DEF PrepareDone, ThreadInv, RunBoth, pages, pair, NoThreads, Sides
<1>4. NumberInv'
  BY DEF PrepareDone, NumberInv, RunBoth, pages, pair, NoThreads, Sides
<1>5. FreshNumbers'
  BY DEF PrepareDone, FreshNumbers, RunBoth, pages, images, pair, NoThreads, Sides
<1>6. RescanIsLatest'
  BY DEF PrepareDone, RescanIsLatest, RunBoth, pages, pair, None, NoThreads, Sides
<1>7. LockedInv'
  BY DEF PrepareDone, LockedInv, RunBoth, pages, pair, NoThreads, Sides
<1>8. ShootsAsAssigned'
  BY DEF PrepareDone, ShootsAsAssigned, RunBoth, pages, pair, NoThreads, Sides
<1> QED
  BY <1>1, <1>2, <1>3, <1>4, <1>5, <1>6, <1>7, <1>8

LEMMA FocusDoneStep == ASSUME IInv, FocusDone PROVE IInv'
<1> USE DEF IInv
<1>1. TypeOK'
  BY DEF FocusDone, TypeOK, pages, images, pair, None, NoThreads, Sides, States
<1>2. RunningInv'
  BY DEF FocusDone, RunningInv, pages, pair, None, NoThreads, Sides
<1>3. ThreadInv'
  BY DEF FocusDone, ThreadInv, pages, pair, NoThreads, Sides
<1>4. NumberInv'
  BY DEF FocusDone, NumberInv, pages, pair, NoThreads, Sides
<1>5. FreshNumbers'
  BY DEF FocusDone, FreshNumbers, pages, images, pair, NoThreads, Sides
<1>6. RescanIsLatest'
  BY DEF FocusDone, RescanIsLatest, pages, pair, None, NoThreads, Sides
<1>7. LockedInv'
  BY MaxPageAssumption, CamerasAssumption
     DEF FocusDone, LockedInv, RunBoth, pages, pair, TypeOK, RunningInv,
         ThreadInv, NumberInv, FreshNumbers, RescanIsLatest, ShootsAsAssigned,
         Effect, PairPage, Torn, None, NoThreads, Sides, States, NextEvenPage
<1>8. ShootsAsAssigned'
  BY DEF FocusDone, ShootsAsAssigned, pages, pair, NoThreads, Sides
<1> QED
  BY <1>1, <1>2, <1>3, <1>4, <1>5, <1>6, <1>7, <1>8

LEMMA CaptureStep == ASSUME IInv, Capture PROVE IInv'
<1> USE DEF IInv
<1>1. TypeOK'
  BY DEF Capture, TypeOK, pages, images, pair, threads, None, Sides, States
<1>2. RunningInv'
  BY DEF Capture, RunningInv, pages, pair, threads, None, Sides
<1>3. ThreadInv'
  BY DEF Capture, ThreadInv, pages, pair, threads, Sides
<1>4. NumberInv'
  BY DEF Capture, NumberInv, pages, pair, threads
<1>5. FreshNumbers'
  BY DEF Capture, FreshNumbers, pages, images, pair, threads
<1>6. RescanIsLatest'
  BY DEF Capture, RescanIsLatest, pages, pair, threads, None
<1>7. LockedInv'
  BY DEF Capture, LockedInv, pages, pair, threads
<1>8. ShootsAsAssigned'
  BY DEF Capture, ShootsAsAssigned, pages, pair, threads
<1> QED
  BY <1>1, <1>2, <1>3, <1>4, <1>5, <1>6, <1>7, <1>8

LEMMA RescanStep == ASSUME IInv, Rescan PROVE IInv'
<1> USE DEF IInv
<1>1. TypeOK'
  BY DEF Rescan, TypeOK, pages, images, pair, threads, None, Sides, States
<1>2. RunningInv'
  BY DEF Rescan, RunningInv, pages, pair, threads, None, Sides
<1>3. ThreadInv'
  BY DEF Rescan, ThreadInv, pages, pair, threads, None, Sides
<1>4. NumberInv'
  BY DEF Rescan, NumberInv, pages, pair, threads, None
<1>5. FreshNumbers'
  BY DEF Rescan, FreshNumbers, pages, images, pair, threads, None
<1>6. RescanIsLatest'
  BY DEF Rescan, RescanIsLatest, pages, pair, threads, None
<1>7. LockedInv'
  BY DEF Rescan, LockedInv, pages, pair, threads, None
<1>8. ShootsAsAssigned'
  BY DEF Rescan, ShootsAsAssigned, pages, pair, threads, None
<1> QED
  BY <1>1, <1>2, <1>3, <1>4, <1>5, <1>6, <1>7, <1>8

LEMMA CaptureDoneStep == ASSUME IInv, CaptureDone PROVE IInv'
<1> USE DEF IInv
<1>1. TypeOK'
  <2>1. PairPage \in Nat
    BY PairPageType DEF CaptureDone, PairReturned
  <2>2. book' \subseteq Nat /\ confirmed' \subseteq book'
    BY <2>1 DEF CaptureDone, PairReturned, TypeOK
  <2>3. next' \in Nat /\ last' \in Nat
    BY <2>1 DEF CaptureDone, PairReturned, TypeOK
  <2> QED
    BY <2>2, <2>3 DEF CaptureDone, PairReturned, TypeOK, pair, threads, States
<1>2. RunningInv'
  BY DEF CaptureDone, PairReturned, RunningInv, pair, threads, PairPage, None, Sides
<1>3. ThreadInv'
  BY DEF CaptureDone, PairReturned, ThreadInv, pair, threads, PairPage, Sides
<1>4. NumberInv'
  BY DEF CaptureDone, PairReturned, NumberInv, pair, threads, TypeOK, PairPage
<1>5. FreshNumbers'
  BY DEF CaptureDone, PairReturned, FreshNumbers, RunBoth, pair, threads, TypeOK, RunningInv,
         ThreadInv, NumberInv, RescanIsLatest, LockedInv,
         ShootsAsAssigned, Effect, PairPage, Torn, None, NoThreads, Sides, States,
         NextEvenPage
<1>6. RescanIsLatest'
  BY DEF CaptureDone, PairReturned, RescanIsLatest, RunBoth, pair, threads, TypeOK, NumberInv,
         Effect, PairPage, Torn, None, NoThreads, Sides, States, NextEvenPage
<1>7. LockedInv'
  BY DEF CaptureDone, PairReturned, LockedInv, RunBoth, pair, threads, TypeOK,
         RunningInv, Effect, PairPage, Torn, None, NoThreads, Sides, States,
         NextEvenPage
<1>8. ShootsAsAssigned'
  BY DEF CaptureDone, PairReturned, ShootsAsAssigned, pair, threads, PairPage
<1> QED
  BY <1>1, <1>2, <1>3, <1>4, <1>5, <1>6, <1>7, <1>8

LEMMA CaptureFailsStep == ASSUME IInv, CaptureFails PROVE IInv'
<1> USE DEF IInv
<1>1. TypeOK'
  <2>1. book' \subseteq Nat /\ confirmed' \subseteq book'
    BY PairPageType, TornType DEF CaptureFails, PairFailed, images, TypeOK
  <2> QED
    BY <2>1 DEF CaptureFails, PairFailed, TypeOK, pair, threads, States
<1>2. RunningInv'
  BY DEF CaptureFails, PairFailed, RunningInv, images, pair, threads, Torn, None, Sides
<1>3. ThreadInv'
  BY DEF CaptureFails, PairFailed, ThreadInv, images, pair, threads, Torn, Sides
<1>4. NumberInv'
  BY DEF CaptureFails, PairFailed, NumberInv, images, pair, threads, Torn
<1>5. FreshNumbers'
  BY DEF CaptureFails, PairFailed, FreshNumbers, images, pair, threads, Torn
<1>6. RescanIsLatest'
  BY DEF CaptureFails, PairFailed, RescanIsLatest, images, pair, threads, Torn, None
<1>7. LockedInv'
  BY DEF CaptureFails, PairFailed, LockedInv, RunBoth, images, pair, threads, TypeOK,
         RunningInv, Effect, PairPage, Torn, None, NoThreads, Sides, States,
         NextEvenPage
<1>8. ShootsAsAssigned'
  BY DEF CaptureFails, PairFailed, ShootsAsAssigned, images, pair, threads, Torn
<1> QED
  BY <1>1, <1>2, <1>3, <1>4, <1>5, <1>6, <1>7, <1>8

LEMMA CaptureRaisesStep == ASSUME IInv, CaptureRaises PROVE IInv'
<1> USE DEF IInv
<1>1. TypeOK'
  BY DEF CaptureRaises, TypeOK, pages, images, pair, threads, None, Sides, States
<1>2. RunningInv'
  BY DEF CaptureRaises, RunningInv, pages, pair, threads, None, Sides
<1>3. ThreadInv'
  BY DEF CaptureRaises, ThreadInv, pages, pair, threads, Sides
<1>4. NumberInv'
  BY DEF CaptureRaises, NumberInv, pages, pair, threads
<1>5. FreshNumbers'
  BY DEF CaptureRaises, FreshNumbers, pages, images, pair, threads
<1>6. RescanIsLatest'
  BY DEF CaptureRaises, RescanIsLatest, pages, pair, threads, None
<1>7. LockedInv'
  BY DEF CaptureRaises, LockedInv, pages, pair, threads
<1>8. ShootsAsAssigned'
  BY DEF CaptureRaises, ShootsAsAssigned, pages, pair, threads
<1> QED
  BY <1>1, <1>2, <1>3, <1>4, <1>5, <1>6, <1>7, <1>8

LEMMA DismissFailureStep == ASSUME IInv, DismissFailure PROVE IInv'
<1> USE DEF IInv
<1>1. TypeOK'
  BY DEF DismissFailure, TypeOK, pages, images, pair, threads, None, Sides, States
<1>2. RunningInv'
  BY DEF DismissFailure, RunningInv, pages, pair, threads, None, Sides
<1>3. ThreadInv'
  BY DEF DismissFailure, ThreadInv, pages, pair, threads, Sides
<1>4. NumberInv'
  BY DEF DismissFailure, NumberInv, pages, pair, threads
<1>5. FreshNumbers'
  BY DEF DismissFailure, FreshNumbers, pages, images, pair, threads
<1>6. RescanIsLatest'
  BY DEF DismissFailure, RescanIsLatest, pages, pair, threads, None
<1>7. LockedInv'
  BY DEF DismissFailure, LockedInv, pages, pair, threads
<1>8. ShootsAsAssigned'
  BY DEF DismissFailure, ShootsAsAssigned, pages, pair, threads
<1> QED
  BY <1>1, <1>2, <1>3, <1>4, <1>5, <1>6, <1>7, <1>8

LEMMA FinishStep == ASSUME IInv, Finish PROVE IInv'
<1> USE DEF IInv
<1>1. TypeOK'
  BY DEF Finish, TypeOK, pages, images, pair, threads, None, Sides, States
<1>2. RunningInv'
  BY DEF Finish, RunningInv, pages, pair, threads, None, Sides
<1>3. ThreadInv'
  BY DEF Finish, ThreadInv, pages, pair, threads, Sides
<1>4. NumberInv'
  BY DEF Finish, NumberInv, pages, pair, threads
<1>5. FreshNumbers'
  BY DEF Finish, FreshNumbers, pages, images, pair, threads
<1>6. RescanIsLatest'
  BY DEF Finish, RescanIsLatest, pages, pair, threads, None
<1>7. LockedInv'
  BY DEF Finish, LockedInv, pages, pair, threads
<1>8. ShootsAsAssigned'
  BY DEF Finish, ShootsAsAssigned, pages, pair, threads
<1> QED
  BY <1>1, <1>2, <1>3, <1>4, <1>5, <1>6, <1>7, <1>8

LEMMA SwapCamerasStep == ASSUME IInv, SwapCameras PROVE IInv'
<1> USE DEF IInv
<1>1. TypeOK'
  BY DEF SwapCameras, TypeOK, pages, images, threads, None, Sides, States
<1>2. RunningInv'
  BY DEF SwapCameras, RunningInv, pages, threads, None, Sides
<1>3. ThreadInv'
  BY DEF SwapCameras, ThreadInv, pages, threads, Sides
<1>4. NumberInv'
  BY DEF SwapCameras, NumberInv, pages, threads
<1>5. FreshNumbers'
  BY DEF SwapCameras, FreshNumbers, pages, images, threads
<1>6. RescanIsLatest'
  BY DEF SwapCameras, RescanIsLatest, pages, threads, None
<1>7. LockedInv'
  BY DEF SwapCameras, LockedInv, pages, threads
<1>8. ShootsAsAssigned'
  BY DEF SwapCameras, ShootsAsAssigned, pages, threads
<1> QED
  BY <1>1, <1>2, <1>3, <1>4, <1>5, <1>6, <1>7, <1>8

LEMMA RestartStep == ASSUME IInv, Restart PROVE IInv'
<1> USE DEF IInv
<1>1. TypeOK'
  <2>1. book' \subseteq Nat /\ confirmed' \subseteq book'
    BY PairPageType, TornType DEF Restart, NewSession, images, TypeOK
  <2>2. next' \in Nat
    BY MaxPageAssumption DEF Restart, NewSession, NextEvenPage
  <2> QED
    BY <2>1, <2>2 DEF Restart, NewSession, TypeOK, NoThreads, States
<1>2. RunningInv'
  BY DEF Restart, NewSession, RunningInv, images, Torn, None, NoThreads, Sides, NextEvenPage
<1>3. ThreadInv'
  BY DEF Restart, NewSession, ThreadInv, images, Torn, None, NoThreads, Sides, NextEvenPage
<1>4. NumberInv'
  BY DEF Restart, NewSession, NumberInv, images, Torn, None, NoThreads, Sides, NextEvenPage
<1>5. FreshNumbers'
  BY DEF Restart, NewSession, FreshNumbers, images, TypeOK, Torn, None, NoThreads, Sides,
         NextEvenPage
<1>6. RescanIsLatest'
  BY DEF Restart, NewSession, RescanIsLatest, images, Torn, None, NoThreads, Sides, NextEvenPage
<1>7. LockedInv'
  BY DEF Restart, NewSession, LockedInv, images, Torn, None, NoThreads, Sides,
         NextEvenPage
<1>8. ShootsAsAssigned'
  BY DEF Restart, NewSession, ShootsAsAssigned, images, Torn, None, NoThreads, Sides,
         NextEvenPage
<1> QED
  BY <1>1, <1>2, <1>3, <1>4, <1>5, <1>6, <1>7, <1>8

LEMMA InitIInv == ASSUME Init PROVE IInv
<1>1. TypeOK
  <2>1. next \in Nat
    BY MaxPageAssumption DEF Init, NextEvenPage
  <2>2. book \subseteq Nat /\ confirmed = book
    BY DEF Init
  <2>3. roles \in [Sides -> Cameras] /\ shooting = roles
    BY DEF Init
  <2> QED
    BY <2>1, <2>2, <2>3 DEF Init, TypeOK, States, NoThreads
<1>2. RunningInv /\ ThreadInv /\ ShootsAsAssigned /\ RescanIsLatest /\ LockedInv
  BY DEF Init, RunningInv, ThreadInv, ShootsAsAssigned, RescanIsLatest,
         LockedInv, NoThreads, None
<1>3. NumberInv /\ FreshNumbers
  BY DEF Init, NumberInv, FreshNumbers, NextEvenPage
<1> QED
  BY <1>1, <1>2, <1>3 DEF IInv

LEMMA StutterStep == ASSUME IInv, UNCHANGED vars PROVE IInv'
BY DEF IInv, vars, TypeOK, RunningInv, ThreadInv, NumberInv, FreshNumbers,
       RescanIsLatest, LockedInv, ShootsAsAssigned

LEMMA NextIInv == ASSUME IInv, [Next]_vars PROVE IInv'
<1>1. CASE Step
  BY <1>1, CameraEndsStep, BothFailStep, PrepareDoneStep, FocusDoneStep,
     CaptureDoneStep, CaptureFailsStep, CaptureRaisesStep DEF Step
<1>2. CASE Call
  BY <1>2, PrepareStep, FocusStep, RecoverStep, CaptureStep, RescanStep,
     DismissFailureStep, FinishStep, SwapCamerasStep DEF Call
<1> QED
  BY <1>1, <1>2, RestartStep, StutterStep DEF Next

\* The inductive invariant holds in every behaviour of the session.
THEOREM InvariantHolds == Spec => []IInv
BY InitIInv, NextIInv, PTL DEF Spec

\* Every variable of the session stays within its type.
THEOREM TypeCorrect == Spec => []TypeOK
<1>1. IInv => TypeOK
  BY DEF IInv
<1> QED
  BY <1>1, InvariantHolds, PTL

\* A capture that is no rescan never takes the number of a page that a successful
\* capture left in the book, whatever failed and however often Pi Scan restarted.
THEOREM FreshNumbersHold == Spec => []FreshNumbers
<1>1. IInv => FreshNumbers
  BY DEF IInv
<1> QED
  BY <1>1, InvariantHolds, PTL

\* Rescan always addresses the pair captured last.
THEOREM RescanIsLatestHolds == Spec => []RescanIsLatest
<1>1. IInv => RescanIsLatest
  BY DEF IInv
<1> QED
  BY <1>1, InvariantHolds, PTL

\* No page is captured before both cameras are prepared and locked, and the coordinator
\* has them on the sides shown.
THEOREM LockedHolds == Spec => []LockedWhileScanning
<1>1. IInv => LockedWhileScanning
  BY DEF IInv, TypeOK, LockedInv, ShootsAsAssigned, LockedWhileScanning
<1> QED
  BY <1>1, InvariantHolds, PTL

\* The coordinator follows every swap.
THEOREM ShootsAsAssignedHolds == Spec => []ShootsAsAssigned
<1>1. IInv => ShootsAsAssigned
  BY DEF IInv
<1> QED
  BY <1>1, InvariantHolds, PTL

\* After finish, only a new process does anything with the book or the cameras.
THEOREM CompleteHolds == Spec => CompleteIsFinal
<1>1. ASSUME IInv, [Next]_vars, state = "complete"
      PROVE  Restart \/ UNCHANGED vars
  <2>1. running = "none"
    BY <1>1 DEF IInv, TypeOK, RunningInv
  <2>2. ~Step
    BY <2>1
       DEF Step, CameraEnds, BothFail, PrepareDone, FocusDone, CaptureDone,
           PairReturned, CaptureFails, PairFailed, CaptureRaises
  <2>3. ~Call
    BY <1>1
       DEF Call, Prepare, Focus, Recover, Capture, Rescan, DismissFailure, Finish,
           SwapCameras
  <2> QED
    BY <1>1, <2>2, <2>3 DEF Next
<1>2. IInv /\ [Next]_vars => [state = "complete" => Restart \/ UNCHANGED vars]_vars
  BY <1>1
<1> QED
  BY <1>2, InvariantHolds, PTL DEF Spec, CompleteIsFinal

-----------------------------------------------------------------------------
\* The refinement of Workflow: every step of the session is a step of the application's
\* view of it, or changes nothing there.

LEMMA FlowInit == ASSUME Init PROVE Flow!WInit
BY DEF Init, Flow!WInit, None

\* An operation that starts is seen to start.
LEMMA FlowStarts ==
    ASSUME IInv, Prepare \/ Focus \/ Recover \/ Capture \/ Rescan
    PROVE  \E c \in Flow!Operations : Flow!Start(c)
<1> USE DEF IInv, RunningInv, pages, pair, threads, Flow!Operations, Flow!From
<1>1. CASE Prepare
  <2>1. Flow!Start("prepare")
    BY <1>1 DEF Prepare, RunBoth, Flow!Start
  <2> QED
    BY <2>1
<1>2. CASE Focus
  <2>1. Flow!Start("focus")
    BY <1>2 DEF Focus, RunBoth, Flow!Start
  <2> QED
    BY <2>1
<1>3. CASE Recover
  <2>1. Flow!Start("recover")
    BY <1>3 DEF Recover, RunBoth, Flow!Start
  <2> QED
    BY <2>1
<1>4. CASE Capture
  <2>1. Flow!Start("capture")
    BY <1>4 DEF Capture, Flow!Start
  <2> QED
    BY <2>1
<1>5. CASE Rescan
  <2>1. Flow!Start("rescan")
    BY <1>5 DEF Rescan, Flow!Start
  <2> QED
    BY <2>1
<1> QED
  BY <1>1, <1>2, <1>3, <1>4, <1>5

\* What goes on within an operation is not seen: the threads of the two cameras, and
\* the focus that recover goes on to.
LEMMA FlowWithin ==
    ASSUME IInv,
           \/ \E side \in Sides, outcome \in {"done", "raised"} : CameraEnds(side, outcome)
           \/ PrepareDone /\ refocus
           \/ SwapCameras
    PROVE  UNCHANGED Flow!wvars
<1> USE DEF IInv, RunningInv, Flow!wvars
<1>1. CASE \E side \in Sides, outcome \in {"done", "raised"} : CameraEnds(side, outcome)
  BY <1>1 DEF CameraEnds, pages
<1>2. CASE PrepareDone /\ refocus
  BY <1>2 DEF PrepareDone, RunBoth, pages
<1>3. CASE SwapCameras
  BY <1>3 DEF SwapCameras, pages
<1> QED
  BY <1>1, <1>2, <1>3

\* An operation that is done leaves the session where its row of the table leads.
LEMMA FlowReturns ==
    ASSUME IInv, (PrepareDone /\ ~refocus) \/ FocusDone \/ CaptureDone
    PROVE  Flow!Return
<1> USE DEF IInv, RunningInv, Flow!Return, Flow!To
<1>1. CASE PrepareDone /\ ~refocus
  BY <1>1 DEF PrepareDone, RunBoth, pages
<1>2. CASE FocusDone
  BY <1>2 DEF FocusDone, pages
<1>3. CASE CaptureDone
  <2>1. PairPage \in Nat
    BY <1>3, PairPageType DEF CaptureDone, PairReturned
  <2>2. last' # None
    BY <1>3, <2>1 DEF CaptureDone, PairReturned, None
  <2> QED
    BY <1>3, <2>2 DEF CaptureDone, PairReturned
<1> QED
  BY <1>1, <1>2, <1>3

\* One that fails leaves it in one of the states the table gives for that.
LEMMA FlowRaises ==
    ASSUME IInv, BothFail \/ CaptureFails \/ CaptureRaises
    PROVE  Flow!Raise
<1> USE DEF IInv, RunningInv, Flow!Raise, Flow!Raised
<1>1. CASE BothFail
  BY <1>1 DEF BothFail, pages
<1>2. CASE CaptureFails
  BY <1>2 DEF CaptureFails, PairFailed
<1>3. CASE CaptureRaises
  BY <1>3 DEF CaptureRaises, pages
<1> QED
  BY <1>1, <1>2, <1>3

LEMMA FlowPasses ==
    ASSUME IInv, DismissFailure \/ Finish
    PROVE  \E c \in {"dismiss", "finish"} : Flow!Pass(c)
<1> USE DEF IInv, RunningInv, pages, Flow!From, Flow!To
<1>1. CASE DismissFailure
  <2>1. Flow!Pass("dismiss")
    BY <1>1 DEF DismissFailure, Flow!Pass
  <2> QED
    BY <2>1
<1>2. CASE Finish
  <2>1. Flow!Pass("finish")
    BY <1>2 DEF Finish, Flow!Pass
  <2> QED
    BY <2>1
<1> QED
  BY <1>1, <1>2

LEMMA FlowNext == ASSUME IInv, [Next]_vars PROVE [Flow!WNext]_(Flow!wvars)
<1>1. CASE UNCHANGED vars
  BY <1>1 DEF vars, Flow!wvars
<1>2. CASE Restart
  <2>1. Flow!Renew
    BY <1>2 DEF Restart, NewSession, Flow!Renew, None
  <2> QED
    BY <2>1 DEF Flow!WNext
<1>3. CASE Call
  BY <1>3, FlowStarts, FlowPasses, FlowWithin DEF Call, Flow!WNext
<1>4. CASE Step
  BY <1>4, FlowReturns, FlowRaises, FlowWithin DEF Step, Flow!WNext
<1> QED
  BY <1>1, <1>2, <1>3, <1>4 DEF Next

\* Every operation of the session starts and ends where WorkflowTable says it does, and
\* nothing but an operation or a new process moves the session: what ScannerUi and
\* the buttons of the screens take for granted of it.
THEOREM WorkflowRefinement == Spec => ImplementsWorkflow
<1>1. Init => Flow!WInit
  BY FlowInit
<1>2. IInv /\ [Next]_vars => [Flow!WNext]_(Flow!wvars)
  BY FlowNext
<1> QED
  BY <1>1, <1>2, InvariantHolds, PTL DEF Spec, ImplementsWorkflow, Flow!WSpec
=============================================================================
