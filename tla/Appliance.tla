------------------------------ MODULE Appliance ------------------------------
(***************************************************************************)
(* The scan disk, from its selection to its ejection: HardwareApplication,  *)
(* create_appliance and ApplianceRuntime (appliance.py), the waiter and the *)
(* udisksctl commands (storage/wait.py, storage/removable.py), and the stop *)
(* of the application (ui/kivy_app.py).                                     *)
(*                                                                          *)
(* Two threads touch the disk: the worker, for a command of the operator,   *)
(* and the UI thread, which ejects the disk when the application stops.     *)
(* The operator may also pull the disk out, and the process may be killed   *)
(* and restarted by systemd.  Each udisksctl command is a step.  One that   *)
(* runs out of its time fails for the program although UDisks may still     *)
(* have done the work.                                                      *)
(***************************************************************************)
EXTENDS Naturals

CONSTANTS
    Automount,      \* the desktop session mounts a disk that is put in
    MaxTries,       \* ejections that fit in force_eject_after
    MaxInserts,     \* bound on how often a disk is put in
    MaxCrashes      \* bound on how often the process is killed

ASSUME AutomountAssumption == Automount \in BOOLEAN

ASSUME BoundsAssumption == MaxTries \in Nat \ {0} /\ MaxInserts \in Nat /\ MaxCrashes \in Nat

VARIABLES
    disk,       \* "off" (absent or powered off), "plugged" or "mounted"
    ui,         \* the UI thread: "running", "stopping", "closing" or "exited"
    work,       \* what the worker does
    volume,     \* the disk's state when the waiter found it
    known,      \* the disk is in storage._known_unmounted
    runtime,    \* HardwareApplication.runtime is set
    ejected,    \* runtime._ejected
    session,    \* "none", "new", "scanning" or "complete"
    eject,      \* the ejection under way, see Ejection
    held,       \* auxiliary: storage.mount has returned the disk to this process
    gaveUp,     \* auxiliary: the last ejection of this process failed
    inserts,    \* disks put in so far
    crashes     \* processes killed so far

environment == <<inserts, crashes>>
process     == <<runtime, ejected, session, held, gaveUp>>
vars        == <<disk, ui, work, volume, known, eject, process, environment>>

Purposes == {"none", "abort", "finish", "update", "close"}

\* One runtime.eject, or the single storage.eject with which create_appliance gives
\* up.  last is set once the grace period has expired.
Ejection == [by : Purposes, step : {"unmount", "poweroff", "force"},
             last : BOOLEAN, tries : 1..MaxTries]

EjectFor(purpose) == [by |-> purpose, step |-> "unmount", last |-> FALSE, tries |-> 1]

Init ==
    /\ disk \in IF Automount THEN {"off", "mounted"} ELSE {"off", "plugged"}
    /\ ui = "running"
    /\ work = "new"
    /\ volume = "off"
    /\ known = FALSE
    /\ runtime = FALSE
    /\ ejected = FALSE
    /\ session = "none"
    /\ eject = EjectFor("none")
    /\ held = FALSE
    /\ gaveUp = FALSE
    /\ inserts = 0
    /\ crashes = 0

-----------------------------------------------------------------------------
\* initialize, on the worker thread.

\* build schedules it once, and nothing calls it again.
Initialize ==
    /\ work = "new"
    /\ ui = "running"
    /\ work' = "wait"
    /\ UNCHANGED <<disk, ui, volume, known, eject, process, environment>>

\* Mutant: the waiter does not notice that it is cancelled.
WaitCheckNever ==
    /\ work = "wait"
    /\ work' = "poll"
    /\ UNCHANGED <<disk, ui, volume, known, eject, process, environment>>

\* The waiter looks whether it is cancelled only before it polls.
WaitCheck ==
    /\ work = "wait"
    /\ work' = IF ui = "running" THEN "poll" ELSE "idle"
    /\ UNCHANGED <<disk, ui, volume, known, eject, process, environment>>

\* The one volume is found; or there is none, or several, or lsblk fails, until
\* storage_timeout.
WaitPoll ==
    /\ work = "poll"
    /\ \/ /\ disk # "off"
          /\ volume' = disk
          /\ work' = "mount"
       \/ work' \in {"wait", "idle"} /\ UNCHANGED volume
    /\ UNCHANGED <<disk, ui, known, eject, process, environment>>

\* storage.mount, before the try block of create_appliance.  A volume that was found
\* mounted is returned as it is.  The command, or finding the disk again after it, may
\* fail although the disk is mounted.
Mount ==
    /\ work = "mount"
    /\ \/ /\ volume = "mounted" \/ disk = "plugged"
          /\ disk' = IF volume = "mounted" THEN disk ELSE "mounted"
          /\ known' = FALSE
          /\ held' = TRUE
          /\ work' = "check"
       \/ /\ volume = "plugged"
          /\ disk' \in {disk} \cup (IF disk = "plugged" THEN {"mounted"} ELSE {})
          /\ work' = "idle"
          /\ UNCHANGED <<known, held>>
    /\ UNCHANGED <<ui, volume, runtime, ejected, session, gaveUp, eject, environment>>

\* The rest of create_appliance: the probe is written, the managed paths are checked
\* and created, the configuration is read, or the disk is given up.
CheckDisk ==
    /\ work = "check"
    /\ \/ /\ disk = "mounted"
          /\ runtime' = TRUE
          /\ work' = "assign"
          /\ UNCHANGED eject
       \/ /\ work' = "eject"
          /\ eject' = EjectFor("abort")
          /\ UNCHANGED runtime
    /\ UNCHANGED <<disk, ui, volume, known, ejected, session, held, gaveUp, environment>>

\* application.initialize finds two cameras or fails; it is not tried again.
AssignCameras ==
    /\ work = "assign"
    /\ session' \in {"new", "none"}
    /\ work' = "idle"
    /\ UNCHANGED <<disk, ui, volume, known, runtime, ejected, held, gaveUp, eject,
                   environment>>

-----------------------------------------------------------------------------
\* The commands of a session.

Idle == work = "idle" /\ ui = "running"

\* prepare and focus; ScannerSession has the states in between.
Focus ==
    /\ Idle
    /\ session = "new"
    /\ session' = "scanning"
    /\ UNCHANGED <<disk, ui, work, volume, known, runtime, ejected, held, gaveUp, eject,
                   environment>>

\* StorageCapacityGuard.check raises where the mount point is gone.
Capture ==
    /\ Idle
    /\ session = "scanning"
    /\ disk = "mounted"
    /\ work' = "capture"
    /\ UNCHANGED <<disk, ui, volume, known, eject, process, environment>>

CaptureEnds ==
    /\ work = "capture"
    /\ work' = "idle"
    /\ UNCHANGED <<disk, ui, volume, known, eject, process, environment>>

\* finish: the session completes only once the disk is ejected.
Finish ==
    /\ Idle
    /\ session = "scanning"
    /\ IF ejected
       THEN session' = "complete" /\ UNCHANGED <<work, eject>>
       ELSE work' = "eject" /\ eject' = EjectFor("finish") /\ UNCHANGED session
    /\ UNCHANGED <<disk, ui, volume, known, runtime, ejected, held, gaveUp, environment>>

\* apply_update: the wheel is extracted from the disk and installed ...
Update ==
    /\ Idle
    /\ session = "new"
    /\ disk = "mounted"
    /\ work' = "install"
    /\ UNCHANGED <<disk, ui, volume, known, eject, process, environment>>

\* ... and the disk is ejected; or pip fails.
UpdateInstalled ==
    /\ work = "install"
    /\ \/ work' = "idle" /\ UNCHANGED eject
       \/ /\ ~ejected
          /\ work' = "eject"
          /\ eject' = EjectFor("update")
    /\ UNCHANGED <<disk, ui, volume, known, process, environment>>

-----------------------------------------------------------------------------
\* Ejection, by whichever thread asked for it.

Ejecting(step) == eject.by # "none" /\ eject.step = step

\* The thread that asked for the ejection goes on: close ends the process.
Return ==
    /\ eject' = EjectFor("none")
    /\ work' = IF eject.by = "close" THEN work ELSE "idle"
    /\ ui' = IF eject.by = "close" THEN "exited" ELSE ui

Released ==
    /\ Return
    /\ ejected' = (eject.by # "abort")
    /\ session' = IF eject.by = "finish" THEN "complete" ELSE session
    /\ gaveUp' = FALSE

\* Mutant: finish goes on although the ejection has failed.
RaisedSuppressed ==
    /\ Return
    /\ gaveUp' = TRUE
    /\ session' = IF eject.by = "finish" THEN "complete" ELSE session
    /\ UNCHANGED ejected

\* runtime.eject raises, create_appliance suppresses the error and close reports it.
Raised ==
    /\ Return
    /\ gaveUp' = TRUE
    /\ UNCHANGED <<ejected, session>>

\* Mutant: one ejection too many in the grace period.
EjectFailsOnce ==
    \/ /\ eject.by = "abort" \/ eject.last
       /\ Raised
    \/ /\ eject.by # "abort"
       /\ ~eject.last
       /\ \/ /\ eject.tries <= MaxTries
             /\ eject' = [eject EXCEPT !.step = "unmount", !.tries = @ + 1]
          \/ eject' = [eject EXCEPT !.step = "force"]
       /\ UNCHANGED <<work, ui, ejected, session, gaveUp>>

\* A failure of storage.eject: once more within the grace period, or by force after it.
EjectFails ==
    \/ /\ eject.by = "abort" \/ eject.last
       /\ Raised
    \/ /\ eject.by # "abort"
       /\ ~eject.last
       /\ \/ /\ eject.tries < MaxTries
             /\ eject' = [eject EXCEPT !.step = "unmount", !.tries = @ + 1]
          \/ eject' = [eject EXCEPT !.step = "force"]
       /\ UNCHANGED <<work, ui, ejected, session, gaveUp>>

Unmounted(d) == IF d = "mounted" THEN "plugged" ELSE d

\* storage.eject unmounts unless it knows that it has; UDisks reports a disk that is
\* not mounted, which is no failure.
Unmount ==
    /\ Ejecting("unmount")
    /\ \/ /\ known \/ disk # "off"
          /\ disk' = IF known THEN disk ELSE Unmounted(disk)
          /\ known' = TRUE
          /\ eject' = [eject EXCEPT !.step = "poweroff"]
          /\ UNCHANGED <<work, ui, ejected, session, gaveUp>>
       \/ /\ ~known
          /\ disk' \in {disk, Unmounted(disk)}
          /\ EjectFails
          /\ UNCHANGED known
    /\ UNCHANGED <<volume, runtime, held, environment>>

\* UDisks does not power off a drive that has a mounted file system.
PowerOff ==
    /\ Ejecting("poweroff")
    /\ \/ /\ disk = "plugged"
          /\ disk' = "off"
          /\ known' = FALSE
          /\ Released
       \/ /\ disk' \in {disk} \cup (IF disk = "plugged" THEN {"off"} ELSE {})
          /\ EjectFails
          /\ UNCHANGED known
    /\ UNCHANGED <<volume, runtime, held, environment>>

\* storage.unmount(force=True); the ejection after it is the last, either way.
ForceUnmount ==
    /\ Ejecting("force")
    /\ \/ disk # "off" /\ disk' = Unmounted(disk) /\ known' = TRUE
       \/ disk' \in {disk, Unmounted(disk)} /\ UNCHANGED known
    /\ eject' = [eject EXCEPT !.step = "unmount", !.last = TRUE]
    /\ UNCHANGED <<ui, work, volume, process, environment>>

-----------------------------------------------------------------------------
\* The UI thread stops the application.

\* cancel_startup, and the runner accepts no more commands.
Stop ==
    /\ ui = "running"
    /\ ui' = "stopping"
    /\ UNCHANGED <<disk, work, volume, known, eject, process, environment>>

\* Mutant: shutdown(wait=False).
CloseEarly ==
    /\ ui = "stopping"
    /\ IF runtime /\ ~ejected
       THEN ui' = "closing" /\ eject' = EjectFor("close")
       ELSE ui' = "exited" /\ UNCHANGED eject
    /\ UNCHANGED <<disk, work, volume, known, process, environment>>

\* shutdown(wait=True) has returned; close ejects what is not ejected.
Close ==
    /\ ui = "stopping"
    /\ work \in {"new", "idle"}
    /\ IF runtime /\ ~ejected
       THEN ui' = "closing" /\ eject' = EjectFor("close")
       ELSE ui' = "exited" /\ UNCHANGED eject
    /\ UNCHANGED <<disk, work, volume, known, process, environment>>

-----------------------------------------------------------------------------
\* The operator's hands, and systemd.

Insert ==
    /\ disk = "off"
    /\ inserts < MaxInserts
    /\ disk' = IF Automount THEN "mounted" ELSE "plugged"
    /\ inserts' = inserts + 1
    /\ UNCHANGED <<ui, work, volume, known, eject, process, crashes>>

Remove ==
    /\ disk # "off"
    /\ disk' = "off"
    /\ UNCHANGED <<ui, work, volume, known, eject, process, environment>>

\* The process is killed; Restart=on-failure starts another, the disk stays as it is.
Crash ==
    /\ ui # "exited"
    /\ crashes < MaxCrashes
    /\ crashes' = crashes + 1
    /\ ui' = "running"
    /\ work' = "new"
    /\ volume' = "off"
    /\ known' = FALSE
    /\ runtime' = FALSE
    /\ ejected' = FALSE
    /\ session' = "none"
    /\ eject' = EjectFor("none")
    /\ held' = FALSE
    /\ gaveUp' = FALSE
    /\ UNCHANGED <<disk, inserts>>

-----------------------------------------------------------------------------

Eject == Unmount \/ PowerOff \/ ForceUnmount

Startup == WaitCheck \/ WaitPoll \/ Mount \/ CheckDisk \/ AssignCameras

Command == Focus \/ Capture \/ Finish \/ Update

Next ==
    \/ Initialize
    \/ Startup
    \/ Command
    \/ CaptureEnds
    \/ UpdateInstalled
    \/ Eject
    \/ Stop
    \/ Close
    \/ Insert
    \/ Remove
    \/ Crash

Spec == Init /\ [][Next]_vars

\* Both threads are scheduled, and commands end: each has a timeout.
Fairness ==
    /\ WF_vars(Startup \/ CaptureEnds \/ UpdateInstalled)
    /\ WF_vars(Eject)
    /\ WF_vars(Close)

FairSpec == Spec /\ Fairness

-----------------------------------------------------------------------------

TypeOK ==
    /\ disk \in {"off", "plugged", "mounted"}
    /\ ui \in {"running", "stopping", "closing", "exited"}
    /\ work \in {"new", "wait", "poll", "mount", "check", "assign", "idle", "capture",
                 "install", "eject"}
    /\ volume \in {"off", "plugged", "mounted"}
    /\ known \in BOOLEAN
    /\ runtime \in BOOLEAN
    /\ ejected \in BOOLEAN
    /\ session \in {"none", "new", "scanning", "complete"}
    /\ eject \in Ejection
    /\ held \in BOOLEAN
    /\ gaveUp \in BOOLEAN
    /\ inserts \in 0..MaxInserts
    /\ crashes \in 0..MaxCrashes

\* "Scans are synchronized. Storage can now be removed safely.": no session completes,
\* and so shows this screen, over a disk that is mounted.
SafeToRemove == [][session' = "complete" /\ session # "complete" => disk' # "mounted"]_vars

\* A stop or a finish at any moment never unmounts the disk under a capture.
NoEjectUnderCapture == [][work = "capture" /\ disk = "mounted" => disk' # "plugged"]_vars

\* However startup, commands and a stop interleave, a process that has taken hold of the
\* disk leaves it mounted at its exit only if ejecting it failed.
ReleasedAtExit == ui = "exited" /\ held /\ disk = "mounted" => gaveUp

\* A stop ends the process, also while it waits for a disk that never comes or ejects
\* one that never lets go.
StopEnds == ui = "stopping" ~> (ui = "exited" \/ ui = "running")
=============================================================================
