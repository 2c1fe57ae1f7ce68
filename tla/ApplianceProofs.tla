--------------------------- MODULE ApplianceProofs ---------------------------
(***************************************************************************)
(* Proofs about Appliance, for every number of attempts, insertions and     *)
(* kills: who ejects when, and that the disk is let go.                     *)
(***************************************************************************)
EXTENDS Appliance, TLAPS

\* The phases of initialize before there is a runtime.
Early == {"new", "wait", "poll", "mount", "check"}

\* Up to then the process has no session and has ejected nothing.
NothingYet ==
    /\ work \in Early => ~runtime /\ ~ejected /\ session = "none"
    /\ work \in Early \ {"check"} => ~held

\* Commands need a session, and a session needs the runtime.
RuntimeFirst == session # "none" \/ work \in {"assign", "install"} => runtime

\* An ejection is asked for by the worker, which is then busy with it, or by close,
\* once the worker has nothing left to do.
EjectionHasOwner ==
    /\ work = "eject" <=> eject.by \in {"abort", "finish", "update"}
    /\ ui = "closing" <=> eject.by = "close"
    /\ ui \in {"closing", "exited"} => work \in {"new", "idle"}
    /\ eject.by \in {"finish", "update", "close"} => runtime /\ ~ejected

\* create_appliance gives up before it has set the runtime.
AbortIsEarly == eject.by = "abort" => ~runtime /\ ~ejected

\* A disk that the process has ejected stays unmounted, unless others mount it.
EjectedIsUnmounted == ejected => disk # "mounted"

\* A mounted disk that the process holds is on its way into the runtime, in it, or
\* could not be ejected.
HeldIsKnown ==
    held /\ disk = "mounted" /\ ~gaveUp =>
      \/ work = "check"
      \/ eject.by = "abort"
      \/ runtime

Inv ==
    /\ TypeOK
    /\ NothingYet
    /\ RuntimeFirst
    /\ EjectionHasOwner
    /\ AbortIsEarly
    /\ EjectedIsUnmounted
    /\ HeldIsKnown
    /\ ReleasedAtExit

-----------------------------------------------------------------------------
\* What the records of ejections look like after a step.

LEMMA EjectForFacts ==
    ASSUME NEW purpose \in Purposes
    PROVE  EjectFor(purpose) \in Ejection /\ EjectFor(purpose).by = purpose
BY BoundsAssumption DEF EjectFor, Ejection

\* The three ways in which a step of an ejection leaves it: it goes on, it has failed,
\* or the disk is let go.
Again == eject'.by = eject.by /\ UNCHANGED <<work, ui, ejected, session, gaveUp>>

Over ==
    /\ eject'.by = "none"
    /\ work' = IF eject.by = "close" THEN work ELSE "idle"
    /\ ui' = IF eject.by = "close" THEN "exited" ELSE ui

GivenUp == Over /\ gaveUp' = TRUE /\ UNCHANGED <<ejected, session>>

LetGo ==
    /\ Over
    /\ disk' = "off"
    /\ gaveUp' = FALSE
    /\ ejected' = (eject.by # "abort")
    /\ session' = IF eject.by = "finish" THEN "complete" ELSE session

EjectionStep ==
    /\ eject.by # "none"
    /\ eject' \in Ejection
    /\ known' \in BOOLEAN
    /\ disk' \in {disk, "plugged", "off"}
    /\ UNCHANGED <<volume, runtime, held, environment>>
    /\ Again \/ GivenUp \/ LetGo

LEMMA EjectFailsFacts ==
    ASSUME TypeOK, EjectFails
    PROVE  eject' \in Ejection /\ (Again \/ GivenUp)
<1>1. CASE Raised
  BY <1>1, EjectForFacts DEF Raised, Return, GivenUp, Over, Purposes
<1>2. CASE /\ eject.tries < MaxTries
           /\ eject' = [eject EXCEPT !.step = "unmount", !.tries = @ + 1]
           /\ UNCHANGED <<work, ui, ejected, session, gaveUp>>
  <2>1. eject.tries + 1 \in 1..MaxTries
    BY <1>2, BoundsAssumption DEF TypeOK, Ejection
  <2>2. eject' \in Ejection /\ eject'.by = eject.by
    BY <1>2, <2>1 DEF TypeOK, Ejection
  <2> QED
    BY <1>2, <2>2 DEF Again
<1>3. CASE /\ eject' = [eject EXCEPT !.step = "force"]
           /\ UNCHANGED <<work, ui, ejected, session, gaveUp>>
  <2>1. eject' \in Ejection /\ eject'.by = eject.by
    BY <1>3 DEF TypeOK, Ejection
  <2> QED
    BY <1>3, <2>1 DEF Again
<1> QED
  BY <1>1, <1>2, <1>3 DEF EjectFails

LEMMA UnmountFacts == ASSUME TypeOK, Unmount PROVE EjectionStep
<1>1. CASE /\ disk' = IF known THEN disk ELSE Unmounted(disk)
           /\ known' = TRUE
           /\ eject' = [eject EXCEPT !.step = "poweroff"]
           /\ UNCHANGED <<work, ui, ejected, session, gaveUp>>
  <2>1. eject' \in Ejection /\ eject'.by = eject.by
    BY <1>1 DEF TypeOK, Ejection
  <2> QED
    BY <1>1, <2>1 DEF Unmount, Unmounted, Ejecting, EjectionStep, Again
<1>2. CASE /\ disk' \in {disk, Unmounted(disk)}
           /\ EjectFails
           /\ UNCHANGED known
  BY <1>2, EjectFailsFacts DEF Unmount, Unmounted, Ejecting, EjectionStep, TypeOK
<1> QED
  BY <1>1, <1>2 DEF Unmount

LEMMA PowerOffFacts == ASSUME TypeOK, PowerOff PROVE EjectionStep
<1>1. CASE disk' = "off" /\ known' = FALSE /\ Released
  <2>1. eject' \in Ejection /\ eject'.by = "none"
    BY <1>1, EjectForFacts DEF Released, Return, Purposes
  <2> QED
    BY <1>1, <2>1
       DEF PowerOff, Ejecting, Released, Return, EjectionStep, LetGo, Over
<1>2. CASE /\ disk' \in {disk} \cup (IF disk = "plugged" THEN {"off"} ELSE {})
           /\ EjectFails
           /\ UNCHANGED known
  BY <1>2, EjectFailsFacts DEF PowerOff, Ejecting, EjectionStep, TypeOK
<1> QED
  BY <1>1, <1>2 DEF PowerOff

LEMMA ForceUnmountFacts == ASSUME TypeOK, ForceUnmount PROVE EjectionStep
<1>1. eject' \in Ejection /\ eject'.by = eject.by
  BY DEF ForceUnmount, TypeOK, Ejection
<1>2. disk' \in {disk, "plugged", "off"} /\ known' \in BOOLEAN
  BY DEF ForceUnmount, Unmounted, TypeOK
<1> QED
  BY <1>1, <1>2 DEF ForceUnmount, Ejecting, EjectionStep, Again, process

-----------------------------------------------------------------------------
\* Inv is inductive.

LEMMA InitInv == Init => Inv
<1> SUFFICES ASSUME Init PROVE Inv
  OBVIOUS
<1>1. eject \in Ejection /\ eject.by = "none"
  BY EjectForFacts DEF Init, Purposes
<1>2. TypeOK
  <2>1. inserts \in 0..MaxInserts /\ crashes \in 0..MaxCrashes
    BY BoundsAssumption DEF Init
  <2> QED
    BY <1>1, <2>1 DEF Init, TypeOK
<1> QED
  BY <1>1, <1>2
     DEF Init, Inv, NothingYet, RuntimeFirst, EjectionHasOwner, AbortIsEarly,
         EjectedIsUnmounted, HeldIsKnown, ReleasedAtExit

LEMMA EjectionStepInv == ASSUME Inv, EjectionStep PROVE Inv'
<1> USE DEF Inv, EjectionStep
<1>1. TypeOK'
  BY DEF TypeOK, Again, GivenUp, LetGo, Over, environment
<1>2. NothingYet'
  BY DEF NothingYet, EjectionHasOwner, Early, Again, GivenUp, LetGo, Over
<1>3. RuntimeFirst'
  BY DEF RuntimeFirst, EjectionHasOwner, Again, GivenUp, LetGo, Over
<1>4. EjectionHasOwner'
  BY DEF EjectionHasOwner, Again, GivenUp, LetGo, Over
<1>5. AbortIsEarly'
  BY DEF AbortIsEarly, Again, GivenUp, LetGo, Over
<1>6. EjectedIsUnmounted'
  BY DEF EjectedIsUnmounted, Again, GivenUp, LetGo
<1>7. HeldIsKnown'
  BY DEF HeldIsKnown, Again, GivenUp, LetGo
<1>8. ReleasedAtExit'
  BY DEF ReleasedAtExit, Again, GivenUp, LetGo
<1> QED
  BY <1>1, <1>2, <1>3, <1>4, <1>5, <1>6, <1>7, <1>8

LEMMA InitializeStep == ASSUME Inv, Initialize PROVE Inv'
<1> USE DEF Inv, process, environment
<1>1. TypeOK'
  BY DEF Initialize, TypeOK
<1>2. NothingYet'
  BY DEF Initialize, NothingYet, Early
<1>3. /\ RuntimeFirst'
      /\ EjectionHasOwner'
      /\ AbortIsEarly'
      /\ EjectedIsUnmounted'
      /\ HeldIsKnown'
      /\ ReleasedAtExit'
  BY DEF Initialize, RuntimeFirst, EjectionHasOwner, AbortIsEarly, EjectedIsUnmounted,
         HeldIsKnown, ReleasedAtExit
<1> QED
  BY <1>1, <1>2, <1>3

LEMMA WaitCheckStep == ASSUME Inv, WaitCheck PROVE Inv'
<1> USE DEF Inv, process, environment
<1>1. TypeOK'
  BY DEF WaitCheck, TypeOK
<1>2. NothingYet'
  BY DEF WaitCheck, NothingYet, Early
<1>3. /\ RuntimeFirst'
      /\ EjectionHasOwner'
      /\ AbortIsEarly'
      /\ EjectedIsUnmounted'
      /\ HeldIsKnown'
      /\ ReleasedAtExit'
  BY DEF WaitCheck, RuntimeFirst, EjectionHasOwner, AbortIsEarly, EjectedIsUnmounted,
         HeldIsKnown, ReleasedAtExit
<1> QED
  BY <1>1, <1>2, <1>3

LEMMA WaitPollStep == ASSUME Inv, WaitPoll PROVE Inv'
<1> USE DEF Inv, process, environment
<1>1. TypeOK'
  BY DEF WaitPoll, TypeOK
<1>2. NothingYet'
  BY DEF WaitPoll, NothingYet, Early
<1>3. /\ RuntimeFirst'
      /\ EjectionHasOwner'
      /\ AbortIsEarly'
      /\ EjectedIsUnmounted'
      /\ HeldIsKnown'
      /\ ReleasedAtExit'
  BY DEF WaitPoll, RuntimeFirst, EjectionHasOwner, AbortIsEarly, EjectedIsUnmounted,
         HeldIsKnown, ReleasedAtExit
<1> QED
  BY <1>1, <1>2, <1>3

LEMMA MountStep == ASSUME Inv, Mount PROVE Inv'
<1> USE DEF Inv, process, environment
<1>1. TypeOK'
  BY DEF Mount, TypeOK
<1>2. NothingYet'
  BY DEF Mount, NothingYet, Early
<1>3. EjectedIsUnmounted'
  BY DEF Mount, EjectedIsUnmounted, NothingYet, Early
<1>4. HeldIsKnown'
  BY DEF Mount, HeldIsKnown, NothingYet, Early
<1>5. ReleasedAtExit'
  BY DEF Mount, ReleasedAtExit, EjectionHasOwner
<1>6. RuntimeFirst' /\ EjectionHasOwner' /\ AbortIsEarly'
  BY DEF Mount, RuntimeFirst, EjectionHasOwner, AbortIsEarly
<1> QED
  BY <1>1, <1>2, <1>3, <1>4, <1>5, <1>6

LEMMA CheckDiskStep == ASSUME Inv, CheckDisk PROVE Inv'
<1> USE DEF Inv, process, environment
<1>0. EjectFor("abort") \in Ejection /\ EjectFor("abort").by = "abort"
  BY EjectForFacts DEF Purposes
<1>1. TypeOK'
  <2>1. eject' \in Ejection
    BY <1>0 DEF CheckDisk, TypeOK
  <2>2. runtime' \in BOOLEAN
    BY DEF CheckDisk, TypeOK
  <2> QED
    BY <2>1, <2>2 DEF CheckDisk, TypeOK
<1>2. NothingYet'
  BY DEF CheckDisk, NothingYet, Early
<1>3. EjectionHasOwner'
  BY <1>0 DEF CheckDisk, EjectionHasOwner
<1>4. AbortIsEarly'
  BY DEF CheckDisk, AbortIsEarly, NothingYet, Early, EjectionHasOwner
<1>5. HeldIsKnown'
  BY <1>0 DEF CheckDisk, HeldIsKnown
<1>6. RuntimeFirst' /\ EjectedIsUnmounted' /\ ReleasedAtExit'
  BY DEF CheckDisk, RuntimeFirst, EjectedIsUnmounted, ReleasedAtExit
<1> QED
  BY <1>1, <1>2, <1>3, <1>4, <1>5, <1>6

LEMMA AssignCamerasStep == ASSUME Inv, AssignCameras PROVE Inv'
<1> USE DEF Inv, process, environment
<1>1. TypeOK'
  BY DEF AssignCameras, TypeOK
<1>2. NothingYet'
  BY DEF AssignCameras, NothingYet, Early
<1>3. /\ RuntimeFirst'
      /\ EjectionHasOwner'
      /\ AbortIsEarly'
      /\ EjectedIsUnmounted'
      /\ HeldIsKnown'
      /\ ReleasedAtExit'
  BY DEF AssignCameras, RuntimeFirst, EjectionHasOwner, AbortIsEarly,
         EjectedIsUnmounted, HeldIsKnown, ReleasedAtExit
<1> QED
  BY <1>1, <1>2, <1>3

LEMMA FocusStep == ASSUME Inv, Focus PROVE Inv'
<1> USE DEF Inv, process, environment
<1>1. TypeOK'
  BY DEF Focus, TypeOK
<1>2. /\ NothingYet'
      /\ RuntimeFirst'
      /\ EjectionHasOwner'
      /\ AbortIsEarly'
      /\ EjectedIsUnmounted'
      /\ HeldIsKnown'
      /\ ReleasedAtExit'
  BY DEF Focus, NothingYet, RuntimeFirst, EjectionHasOwner, AbortIsEarly,
         EjectedIsUnmounted, HeldIsKnown, ReleasedAtExit
<1> QED
  BY <1>1, <1>2

LEMMA CaptureStep == ASSUME Inv, Capture PROVE Inv'
<1> USE DEF Inv, process, environment
<1>1. TypeOK'
  BY DEF Capture, TypeOK
<1>2. NothingYet'
  BY DEF Capture, NothingYet, Early
<1>3. EjectionHasOwner'
  BY DEF Capture, Idle, EjectionHasOwner
<1>4. HeldIsKnown'
  BY DEF Capture, Idle, HeldIsKnown
<1>5. RuntimeFirst' /\ AbortIsEarly' /\ EjectedIsUnmounted' /\ ReleasedAtExit'
  BY DEF Capture, RuntimeFirst, AbortIsEarly, EjectedIsUnmounted, ReleasedAtExit
<1> QED
  BY <1>1, <1>2, <1>3, <1>4, <1>5

LEMMA CaptureEndsStep == ASSUME Inv, CaptureEnds PROVE Inv'
<1> USE DEF Inv, process, environment
<1>1. TypeOK'
  BY DEF CaptureEnds, TypeOK
<1>2. NothingYet'
  BY DEF CaptureEnds, NothingYet, Early
<1>3. /\ RuntimeFirst'
      /\ EjectionHasOwner'
      /\ AbortIsEarly'
      /\ EjectedIsUnmounted'
      /\ HeldIsKnown'
      /\ ReleasedAtExit'
  BY DEF CaptureEnds, RuntimeFirst, EjectionHasOwner, AbortIsEarly,
         EjectedIsUnmounted, HeldIsKnown, ReleasedAtExit
<1> QED
  BY <1>1, <1>2, <1>3

LEMMA FinishStep == ASSUME Inv, Finish PROVE Inv'
<1> USE DEF Inv, process, environment
<1>0. EjectFor("finish") \in Ejection /\ EjectFor("finish").by = "finish"
  BY EjectForFacts DEF Purposes
<1>1. TypeOK'
  BY <1>0 DEF Finish, TypeOK
<1>2. NothingYet'
  BY DEF Finish, NothingYet, Early
<1>3. EjectionHasOwner'
  BY <1>0 DEF Finish, Idle, EjectionHasOwner, RuntimeFirst
<1>4. AbortIsEarly'
  BY <1>0 DEF Finish, AbortIsEarly
<1>5. HeldIsKnown'
  BY DEF Finish, Idle, HeldIsKnown, EjectionHasOwner
<1>6. RuntimeFirst' /\ EjectedIsUnmounted' /\ ReleasedAtExit'
  BY DEF Finish, RuntimeFirst, EjectedIsUnmounted, ReleasedAtExit
<1> QED
  BY <1>1, <1>2, <1>3, <1>4, <1>5, <1>6

LEMMA UpdateStep == ASSUME Inv, Update PROVE Inv'
<1> USE DEF Inv, process, environment
<1>1. TypeOK'
  BY DEF Update, TypeOK
<1>2. NothingYet'
  BY DEF Update, NothingYet, Early
<1>3. EjectionHasOwner'
  BY DEF Update, Idle, EjectionHasOwner
<1>4. HeldIsKnown'
  BY DEF Update, Idle, HeldIsKnown
<1>5. RuntimeFirst' /\ AbortIsEarly' /\ EjectedIsUnmounted' /\ ReleasedAtExit'
  BY DEF Update, RuntimeFirst, AbortIsEarly, EjectedIsUnmounted, ReleasedAtExit
<1> QED
  BY <1>1, <1>2, <1>3, <1>4, <1>5

LEMMA UpdateInstalledStep == ASSUME Inv, UpdateInstalled PROVE Inv'
<1> USE DEF Inv, process, environment
<1>0. EjectFor("update") \in Ejection /\ EjectFor("update").by = "update"
  BY EjectForFacts DEF Purposes
<1>1. TypeOK'
  BY <1>0 DEF UpdateInstalled, TypeOK
<1>2. NothingYet'
  BY DEF UpdateInstalled, NothingYet, Early
<1>3. EjectionHasOwner'
  BY <1>0 DEF UpdateInstalled, EjectionHasOwner, RuntimeFirst
<1>4. AbortIsEarly'
  BY <1>0 DEF UpdateInstalled, AbortIsEarly
<1>5. HeldIsKnown'
  BY DEF UpdateInstalled, HeldIsKnown, EjectionHasOwner
<1>6. RuntimeFirst' /\ EjectedIsUnmounted' /\ ReleasedAtExit'
  BY DEF UpdateInstalled, RuntimeFirst, EjectedIsUnmounted, ReleasedAtExit
<1> QED
  BY <1>1, <1>2, <1>3, <1>4, <1>5, <1>6

LEMMA StopStep == ASSUME Inv, Stop PROVE Inv'
<1> USE DEF Inv, process, environment
<1>1. TypeOK'
  BY DEF Stop, TypeOK
<1>2. /\ NothingYet'
      /\ RuntimeFirst'
      /\ EjectionHasOwner'
      /\ AbortIsEarly'
      /\ EjectedIsUnmounted'
      /\ HeldIsKnown'
      /\ ReleasedAtExit'
  BY DEF Stop, NothingYet, RuntimeFirst, EjectionHasOwner, AbortIsEarly,
         EjectedIsUnmounted, HeldIsKnown, ReleasedAtExit
<1> QED
  BY <1>1, <1>2

LEMMA CloseStep == ASSUME Inv, Close PROVE Inv'
<1> USE DEF Inv, process, environment
<1>0. EjectFor("close") \in Ejection /\ EjectFor("close").by = "close"
  BY EjectForFacts DEF Purposes
<1>1. TypeOK'
  BY <1>0 DEF Close, TypeOK
<1>2. EjectionHasOwner'
  BY <1>0 DEF Close, EjectionHasOwner
<1>3. AbortIsEarly'
  BY <1>0 DEF Close, AbortIsEarly
<1>4. ReleasedAtExit'
  BY DEF Close, ReleasedAtExit, HeldIsKnown, EjectionHasOwner, EjectedIsUnmounted
<1>5. NothingYet' /\ RuntimeFirst' /\ EjectedIsUnmounted' /\ HeldIsKnown'
  BY DEF Close, NothingYet, RuntimeFirst, EjectedIsUnmounted, HeldIsKnown
<1> QED
  BY <1>1, <1>2, <1>3, <1>4, <1>5

LEMMA InsertStep == ASSUME ~Automount, Inv, Insert PROVE Inv'
<1> USE DEF Inv, process, environment
<1>1. TypeOK'
  BY BoundsAssumption DEF Insert, TypeOK
<1>2. /\ NothingYet'
      /\ RuntimeFirst'
      /\ EjectionHasOwner'
      /\ AbortIsEarly'
      /\ EjectedIsUnmounted'
      /\ HeldIsKnown'
      /\ ReleasedAtExit'
  BY DEF Insert, NothingYet, RuntimeFirst, EjectionHasOwner, AbortIsEarly,
         EjectedIsUnmounted, HeldIsKnown, ReleasedAtExit
<1> QED
  BY <1>1, <1>2

LEMMA RemoveStep == ASSUME Inv, Remove PROVE Inv'
<1> USE DEF Inv, process, environment
<1>1. TypeOK'
  BY DEF Remove, TypeOK
<1>2. /\ NothingYet'
      /\ RuntimeFirst'
      /\ EjectionHasOwner'
      /\ AbortIsEarly'
      /\ EjectedIsUnmounted'
      /\ HeldIsKnown'
      /\ ReleasedAtExit'
  BY DEF Remove, NothingYet, RuntimeFirst, EjectionHasOwner, AbortIsEarly,
         EjectedIsUnmounted, HeldIsKnown, ReleasedAtExit
<1> QED
  BY <1>1, <1>2

LEMMA CrashStep == ASSUME Inv, Crash PROVE Inv'
<1> USE DEF Inv, process, environment
<1>0. EjectFor("none") \in Ejection /\ EjectFor("none").by = "none"
  BY EjectForFacts DEF Purposes
<1>1. TypeOK'
  <2>1. crashes' \in 0..MaxCrashes
    BY BoundsAssumption DEF Crash, TypeOK
  <2>2. eject' \in Ejection
    BY <1>0 DEF Crash
  <2> QED
    BY <2>1, <2>2 DEF Crash, TypeOK
<1>2. EjectionHasOwner'
  BY <1>0 DEF Crash, EjectionHasOwner
<1>3. /\ NothingYet'
      /\ RuntimeFirst'
      /\ AbortIsEarly'
      /\ EjectedIsUnmounted'
      /\ HeldIsKnown'
      /\ ReleasedAtExit'
  BY DEF Crash, NothingYet, RuntimeFirst, AbortIsEarly, EjectedIsUnmounted,
         HeldIsKnown, ReleasedAtExit
<1> QED
  BY <1>1, <1>2, <1>3

LEMMA NextInv == ASSUME ~Automount, Inv, [Next]_vars PROVE Inv'
<1>1. CASE UNCHANGED vars
  BY <1>1
     DEF vars, process, environment, Inv, TypeOK, NothingYet, RuntimeFirst,
         EjectionHasOwner, AbortIsEarly, EjectedIsUnmounted, HeldIsKnown,
         ReleasedAtExit
<1>2. CASE Eject
  BY <1>2, UnmountFacts, PowerOffFacts, ForceUnmountFacts, EjectionStepInv
     DEF Eject, Inv
<1>3. CASE Startup
  BY <1>3, WaitCheckStep, WaitPollStep, MountStep, CheckDiskStep, AssignCamerasStep
     DEF Startup
<1>4. CASE Command
  BY <1>4, FocusStep, CaptureStep, FinishStep, UpdateStep DEF Command
<1> QED
  BY <1>1, <1>2, <1>3, <1>4, InitializeStep, CaptureEndsStep, UpdateInstalledStep,
     StopStep, CloseStep, InsertStep, RemoveStep, CrashStep DEF Next

-----------------------------------------------------------------------------

\* Inv holds wherever only the program mounts the disk.
THEOREM InvariantHolds == ASSUME ~Automount PROVE Spec => []Inv
BY InitInv, NextInv, PTL DEF Spec

\* Every variable stays within its type.
THEOREM TypeCorrect == ASSUME ~Automount PROVE Spec => []TypeOK
<1>1. Inv => TypeOK
  BY DEF Inv
<1> QED
  BY <1>1, InvariantHolds, PTL

\* However startup, commands, stop and crashes interleave, a process that has taken
\* hold of the disk exits with the disk mounted only if ejecting it has failed.
THEOREM ReleasedHolds == ASSUME ~Automount PROVE Spec => []ReleasedAtExit
<1>1. Inv => ReleasedAtExit
  BY DEF Inv
<1> QED
  BY <1>1, InvariantHolds, PTL

\* Where only the program mounts the disk, the screen that says it can be removed
\* safely is not reached while it is mounted.
THEOREM SafeToRemoveHolds == ASSUME ~Automount PROVE Spec => SafeToRemove
<1>1. ASSUME Inv, [Next]_vars, session' = "complete", session # "complete"
      PROVE  disk' # "mounted"
  <2>1. CASE Eject
    <3>1. EjectionStep
      BY <1>1, <2>1, UnmountFacts, PowerOffFacts, ForceUnmountFacts DEF Eject, Inv
    <3> QED
      BY <1>1, <3>1 DEF EjectionStep, Again, GivenUp, LetGo
  <2>2. CASE Finish
    BY <1>1, <2>2 DEF Finish, Inv, EjectedIsUnmounted
  <2>3. CASE Startup
    BY <1>1, <2>3
       DEF Startup, WaitCheck, WaitPoll, Mount, CheckDisk, AssignCameras, process
  <2>4. CASE Focus \/ Capture \/ Update
    BY <1>1, <2>4 DEF Focus, Capture, Update, process
  <2>5. CASE Initialize \/ CaptureEnds \/ UpdateInstalled \/ Stop \/ Close
    BY <1>1, <2>5 DEF Initialize, CaptureEnds, UpdateInstalled, Stop, Close, process
  <2>6. CASE Insert \/ Remove \/ Crash
    BY <1>1, <2>6 DEF Insert, Remove, Crash
  <2>7. CASE UNCHANGED vars
    BY <1>1, <2>7 DEF vars, process
  <2> QED
    BY <1>1, <2>1, <2>2, <2>3, <2>4, <2>5, <2>6, <2>7 DEF Next, Command
<1>2. Inv /\ [Next]_vars =>
        [session' = "complete" /\ session # "complete" => disk' # "mounted"]_vars
  BY <1>1
<1> QED
  BY <1>2, InvariantHolds, PTL DEF Spec, SafeToRemove

\* Neither a stop nor a command unmounts the disk under a capture.
THEOREM NoEjectHolds == ASSUME ~Automount PROVE Spec => NoEjectUnderCapture
<1>1. ASSUME Inv, [Next]_vars, work = "capture", disk = "mounted"
      PROVE  disk' # "plugged"
  <2>1. ~Eject
    <3>1. eject.by = "none"
      BY <1>1 DEF Inv, EjectionHasOwner, TypeOK, Ejection, Purposes
    <3> QED
      BY <3>1 DEF Eject, Unmount, PowerOff, ForceUnmount, Ejecting
  <2>2. CASE Startup \/ Initialize
    BY <1>1, <2>2
       DEF Startup, WaitCheck, WaitPoll, Mount, CheckDisk, AssignCameras, Initialize
  <2>3. CASE Command
    BY <1>1, <2>3 DEF Command, Focus, Capture, Finish, Update
  <2>4. CASE CaptureEnds \/ UpdateInstalled \/ Stop \/ Close
    BY <1>1, <2>4 DEF CaptureEnds, UpdateInstalled, Stop, Close
  <2>5. CASE Insert \/ Remove \/ Crash
    BY <1>1, <2>5 DEF Insert, Remove, Crash
  <2>6. CASE UNCHANGED vars
    BY <1>1, <2>6 DEF vars
  <2> QED
    BY <1>1, <2>1, <2>2, <2>3, <2>4, <2>5, <2>6 DEF Next
<1>2. Inv /\ [Next]_vars =>
        [work = "capture" /\ disk = "mounted" => disk' # "plugged"]_vars
  BY <1>1
<1> QED
  BY <1>2, InvariantHolds, PTL DEF Spec, NoEjectUnderCapture
=============================================================================
