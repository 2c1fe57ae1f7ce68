--------------------------- MODULE Configuration ---------------------------
(***************************************************************************)
(* pi-scan.conf, the configuration object and the cameras: the save of     *)
(* domain/configuration.py step by step, configure_camera and swap_cameras *)
(* of application.py with their undo, and the start of a session from the  *)
(* file.  Every file operation may fail, the process may be killed and the *)
(* power may fail between any two steps.                                   *)
(*                                                                         *)
(* Zoom and shutter are one value: a change of either gives another one.   *)
(* A camera that the file does not list is one with the defaults, which is *)
(* what ScannerConfiguration.camera makes of it.  The names of temporary   *)
(* and backup are new in each save, so what an interrupted save leaves     *)
(* under the old ones has no effect and is dropped.  The cameras are CHDK  *)
(* cameras: others have no settings to change.                             *)
(***************************************************************************)
EXTENDS Integers, FiniteSets, Sequences

CONSTANTS
    Cameras,    \* the serial numbers of all cameras that are ever plugged in
    Settings,   \* the choices of zoom and shutter
    Default,    \* the choice of CameraConfiguration()
    Nowhere,    \* the position of a camera that has none
    Absent,     \* the content of a file that does not exist
    Torn,       \* the content of a file that is not written or flushed whole
    Files,      \* what earlier sessions may have left of pi-scan.conf
    MaxSaves,   \* bound on the saves
    MaxStarts   \* bound on the starts of the process

ASSUME SettingsAssumption == Default \in Settings
ASSUME CamerasAssumption == \E c, d \in Cameras : c # d
ASSUME BoundsAssumption == MaxSaves \in Nat /\ MaxStarts \in Nat \ {0}

VARIABLES
    file,           \* what pi-scan.conf holds
    onDisk,         \* what it may hold once the power has failed
    temporary,      \* the temporary file of the running save
    backup,         \* its backup
    flushed,        \* those of the two whose content is flushed
    backup_created, \* the flags of save_legacy_configuration
    published,
    pc,             \* the next step of the running operation, or "idle"
    failed,         \* the running save has raised
    operation,      \* the running operation,
    target,         \* the camera it configures,
    previous,       \* the settings that camera had, and
    updated,        \* the configuration it saves
    outcome,        \* what became of the last save of this process
    diverged,       \* auxiliary: a save has raised although its file stands, for want of
                    \* a rollback or because of the finally; nothing is saved since
    configuration,  \* the configuration object of the application
    pair,           \* the cameras of the session by side
    settings,       \* ChdkCamera.settings
    applied,        \* the settings a camera was last prepared with
    state,          \* the state of the session
    saves,
    starts

disk == <<file, onDisk>>
saving == <<temporary, backup, flushed, backup_created, published, failed>>
call == <<operation, target, previous, updated>>
session == <<pair, settings, applied, state>>
bounds == <<saves, starts>>
vars == <<disk, saving, pc, call, outcome, diverged, configuration, session, bounds>>

Sides == {"even", "odd"}
Other(side) == IF side = "even" THEN "odd" ELSE "even"
CameraConfiguration == [position : Sides \cup {Nowhere}, settings : Settings]
ScannerConfiguration == [Cameras -> CameraConfiguration]

ASSUME NamesAssumption ==
    /\ Nowhere \notin Sides
    /\ Absent \notin ScannerConfiguration
    /\ Torn \notin ScannerConfiguration \cup {Absent}

Contents == ScannerConfiguration \cup {Absent}
SomeCamera == CHOOSE c \in Cameras : TRUE
Empty == [c \in Cameras |-> [position |-> Nowhere, settings |-> Default]]

\* from_legacy_paths: a file that does not exist is an empty configuration.
Load(content) == IF content = Absent THEN Empty ELSE content

\* No side has two cameras.
UniqueRoles(c) ==
    \A x, y \in Cameras : c[x].position = c[y].position => x = y \/ c[x].position = Nowhere

\* A file that gives a side to two cameras is none of this program's: each swap
\* clears the roles of all other cameras.
ASSUME FilesAssumption == Files \subseteq {f \in Contents : UniqueRoles(Load(f))}

InPair == {pair[s] : s \in Sides}

(***************************************************************************)
(* The operators of ScannerConfiguration and assign_camera_pair.           *)
(***************************************************************************)
\* Mutants: the other cameras keep their positions; or lose their settings.
WithPositionsAdded(c, roles) ==
    [x \in Cameras |-> [position |-> IF x = roles["even"] THEN "even"
                                     ELSE IF x = roles["odd"] THEN "odd" ELSE c[x].position,
                        settings |-> c[x].settings]]

WithPositionsOnly(c, roles) ==
    [x \in Cameras |-> [position |-> IF x = roles["even"] THEN "even"
                                     ELSE IF x = roles["odd"] THEN "odd" ELSE Nowhere,
                        settings |-> IF x \in {roles["even"], roles["odd"]}
                                     THEN c[x].settings ELSE Default]]

WithCameraPositions(c, roles) ==
    [x \in Cameras |-> [position |-> IF x = roles["even"] THEN "even"
                                     ELSE IF x = roles["odd"] THEN "odd" ELSE Nowhere,
                        settings |-> c[x].settings]]

WithCameraSettings(c, camera, choice) ==
    [c EXCEPT ![camera] = [position |-> c[camera].position, settings |-> choice]]

\* Both cameras are configured as the same side.
Conflict(c, first, second) ==
    c[first].position = c[second].position /\ c[first].position # Nowhere

\* Cameras without a position take the sides that are left, odd first.
AssignCameraPair(c, first, second) ==
    LET firstIsOdd == \/ c[first].position = "odd"
                      \/ c[first].position = Nowhere /\ c[second].position # "odd"
    IN [s \in Sides |-> IF firstIsOdd <=> s = "odd" THEN first ELSE second]

-----------------------------------------------------------------------------
(***************************************************************************)
(* save_legacy_configuration                                               *)
(***************************************************************************)
Begin(new) ==
    /\ pc = "idle" /\ saves < MaxSaves
    /\ saves' = saves + 1
    /\ pc' = "write"
    /\ updated' = new
    /\ outcome' = "running"
    /\ UNCHANGED saving

\* The operation ends, or the process does: its variables are gone.
Return ==
    /\ pc' = "idle"
    /\ temporary' = Absent /\ backup' = Absent /\ flushed' = {}
    /\ backup_created' = FALSE /\ published' = FALSE /\ failed' = FALSE
    /\ operation' = "none" /\ target' = SomeCamera /\ previous' = Default /\ updated' = Empty

\* A step raises: the except clause restores the old file, or removes the backup.
Raise == failed' = TRUE /\ pc' = "except"

\* Mutant: no fsync of the temporary file.
WriteUnflushed ==
    /\ pc = "write"
    /\ \/ /\ temporary' = updated /\ pc' = "backup"
          /\ UNCHANGED failed
       \/ temporary' \in {Absent, Torn, updated} /\ Raise
    /\ UNCHANGED <<disk, backup, flushed, backup_created, published, call, outcome, diverged,
                   configuration, session, bounds>>

WriteTemporary ==
    /\ pc = "write"
    /\ \/ /\ temporary' = updated /\ flushed' = flushed \cup {"temporary"}
          /\ pc' = "backup"
          /\ UNCHANGED failed
       \/ /\ temporary' \in {Absent, Torn, updated}
          /\ Raise
          /\ UNCHANGED flushed
    /\ UNCHANGED <<disk, backup, backup_created, published, call, outcome, diverged, configuration, session, bounds>>

CopyBackup ==
    /\ pc = "backup"
    /\ \/ /\ file = Absent
          /\ pc' = "publish"
          /\ UNCHANGED <<backup, flushed, backup_created, failed>>
       \/ /\ file # Absent
          /\ backup' = file /\ flushed' = flushed \cup {"backup"}
          /\ backup_created' = TRUE
          /\ pc' = "publish"
          /\ UNCHANGED failed
       \/ /\ file # Absent
          /\ backup' \in {Absent, Torn, file}
          /\ Raise
          /\ UNCHANGED <<flushed, backup_created>>
    /\ UNCHANGED <<disk, temporary, published, call, outcome, diverged, configuration, session, bounds>>

\* What the power failure leaves of a file that has taken the name.
Flushed(name, content) == IF name \in flushed THEN content ELSE Torn

\* The new name is in the directory, which is not flushed yet.
Publish ==
    /\ pc = "publish"
    /\ \/ /\ file' = temporary
          /\ onDisk' = onDisk \cup {Flushed("temporary", temporary)}
          /\ temporary' = Absent
          /\ published' = TRUE
          /\ pc' = "sync"
          /\ UNCHANGED failed
       \/ Raise /\ UNCHANGED <<disk, temporary, published>>
    /\ UNCHANGED <<backup, flushed, backup_created, call, outcome, diverged, configuration, session, bounds>>

\* Mutant: the directory is not flushed.
SyncNothing ==
    /\ pc = "sync"
    /\ pc' = IF backup_created THEN "discard" ELSE "finally"
    /\ UNCHANGED <<disk, saving, call, outcome, diverged, configuration, session, bounds>>

SyncDirectory ==
    /\ pc = "sync"
    /\ \/ /\ onDisk' = {Flushed("temporary", file)}
          /\ pc' = IF backup_created THEN "discard" ELSE "finally"
          /\ UNCHANGED failed
       \/ Raise /\ UNCHANGED onDisk
    /\ UNCHANGED <<file, temporary, backup, flushed, backup_created, published, call, outcome, diverged,
                   configuration, session, bounds>>

\* The directory's flush after it may fail without effect on the save.
DiscardBackup ==
    /\ pc = "discard"
    /\ \/ backup' = Absent /\ pc' = "finally" /\ UNCHANGED failed
       \/ Raise /\ UNCHANGED backup
    /\ UNCHANGED <<disk, temporary, flushed, backup_created, published, call, outcome, diverged,
                   configuration, session, bounds>>

\* The except clause.  Where it raises itself, the file stays as it is.
Rollback ==
    /\ pc = "except"
    /\ pc' = "finally"
    /\ \/ LET old == IF backup_created THEN backup ELSE Absent
              kept == IF backup_created THEN Flushed("backup", backup) ELSE Absent
          IN /\ published
             /\ file' = old
             /\ onDisk' \in {{kept}, onDisk \cup {kept}}
             /\ backup' = Absent
             /\ UNCHANGED diverged
       \/ published /\ diverged' = TRUE /\ UNCHANGED <<disk, backup>>
       \/ ~published /\ backup_created /\ backup' \in {Absent, backup} /\ UNCHANGED <<disk, diverged>>
       \/ ~published /\ ~backup_created /\ UNCHANGED <<disk, backup, diverged>>
    /\ UNCHANGED <<temporary, flushed, backup_created, published, failed, call, outcome, configuration,
                   session, bounds>>

\* The finally clause.  The removal may raise, and with it the save, also after a publication
\* that has succeeded and that nothing takes back.
RemoveTemporary ==
    /\ pc = "finally"
    /\ pc' = "conclude"
    /\ \/ temporary' = Absent /\ UNCHANGED <<failed, diverged>>
       \/ failed' = TRUE /\ diverged' = (diverged \/ ~failed) /\ UNCHANGED temporary
    /\ UNCHANGED <<disk, backup, flushed, backup_created, published, call, outcome,
                   configuration, session, bounds>>

-----------------------------------------------------------------------------
(***************************************************************************)
(* configure_camera and swap_cameras                                       *)
(***************************************************************************)
\* Mutant: settings may change after preparation.
ConfigureAnytime(camera, choice) ==
    /\ state \in {"new", "ready_to_focus"} /\ camera \in InPair
    /\ Begin(WithCameraSettings(configuration, camera, choice))
    /\ operation' = "configure_camera" /\ target' = camera /\ previous' = settings[camera]
    /\ settings' = [settings EXCEPT ![camera] = choice]
    /\ UNCHANGED <<disk, diverged, configuration, pair, applied, state, starts>>

\* Mutant: the whole configuration of the camera is kept for the undo.
ConfigureKeeping(camera, choice) ==
    /\ state = "new" /\ camera \in InPair
    /\ Begin(WithCameraSettings(configuration, camera, choice))
    /\ operation' = "configure_camera" /\ target' = camera /\ previous' = configuration[camera]
    /\ settings' = [settings EXCEPT ![camera] = choice]
    /\ UNCHANGED <<disk, diverged, configuration, pair, applied, state, starts>>

\* The camera gets its settings before they are saved.
ConfigureCamera(camera, choice) ==
    /\ state = "new" /\ camera \in InPair
    /\ Begin(WithCameraSettings(configuration, camera, choice))
    /\ operation' = "configure_camera" /\ target' = camera /\ previous' = settings[camera]
    /\ settings' = [settings EXCEPT ![camera] = choice]
    /\ UNCHANGED <<disk, diverged, configuration, pair, applied, state, starts>>

\* Mutant: the roles before the swap are saved.
SwapSavingOld ==
    /\ state \in {"new", "ready_to_focus"}
    /\ Begin(WithCameraPositions(configuration, pair))
    /\ operation' = "swap_cameras"
    /\ pair' = [s \in Sides |-> pair[Other(s)]]
    /\ UNCHANGED <<disk, target, previous, diverged, configuration, settings, applied, state,
                   starts>>

\* The session's cameras change places before their positions are saved.
SwapCameras ==
    LET swapped == [s \in Sides |-> pair[Other(s)]]
    IN /\ state \in {"new", "ready_to_focus"}
       /\ Begin(WithCameraPositions(configuration, swapped))
       /\ operation' = "swap_cameras"
       /\ pair' = swapped
       /\ UNCHANGED <<disk, target, previous, diverged, configuration, settings, applied, state,
                      starts>>

\* The save has returned: the object is replaced.
Commit ==
    /\ pc = "conclude" /\ ~failed
    /\ Return
    /\ outcome' = "saved"
    /\ configuration' = updated
    /\ diverged' = FALSE
    /\ UNCHANGED <<disk, session, bounds>>

\* Mutant: the camera keeps settings that could not be saved.
UndoSwapOnly ==
    /\ pc = "conclude" /\ failed
    /\ Return
    /\ outcome' = "failed"
    /\ pair' = IF operation = "swap_cameras" THEN [s \in Sides |-> pair[Other(s)]] ELSE pair
    /\ UNCHANGED <<disk, diverged, configuration, settings, applied, state, bounds>>

\* Mutant: a save that has failed is tried again.
UndoRetrying ==
    /\ pc = "conclude" /\ failed
    /\ pc' = "write" /\ failed' = FALSE /\ published' = FALSE /\ backup_created' = FALSE
    /\ UNCHANGED <<disk, temporary, backup, flushed, call, outcome, diverged, configuration,
                   session, bounds>>

\* The save has raised: the camera, or the pair, is put back.
Undo ==
    /\ pc = "conclude" /\ failed
    /\ Return
    /\ outcome' = "failed"
    /\ \/ /\ operation = "configure_camera"
          /\ settings' = [settings EXCEPT ![target] = previous]
          /\ UNCHANGED pair
       \/ /\ operation = "swap_cameras"
          /\ pair' = [s \in Sides |-> pair[Other(s)]]
          /\ UNCHANGED settings
    /\ UNCHANGED <<disk, diverged, configuration, applied, state, bounds>>

-----------------------------------------------------------------------------
(***************************************************************************)
(* The session, as far as settings and roles go, and the process           *)
(***************************************************************************)
idle == pc = "idle"
unsaved == <<disk, saving, call, outcome, diverged, configuration, bounds>>

\* A test photograph prepares one camera.
TestCapture(camera) ==
    /\ idle /\ state = "new" /\ camera \in InPair
    /\ applied' = [applied EXCEPT ![camera] = settings[camera]]
    /\ UNCHANGED <<unsaved, pc, pair, settings, state>>

Prepared(cameras) ==
    applied' = [c \in Cameras |-> IF c \in cameras THEN settings[c] ELSE applied[c]]

\* Both cameras are prepared, or one fails before or after its zoom is set.
Prepare ==
    /\ idle /\ state \in {"new", "failed"}
    /\ \/ Prepared(InPair) /\ state' = "ready_to_focus"
       \/ \E cameras \in SUBSET InPair : Prepared(cameras) /\ state' = "failed"
    /\ UNCHANGED <<unsaved, pc, pair, settings>>

Focus ==
    /\ idle /\ state = "ready_to_focus"
    /\ state' \in {"ready", "failed"}
    /\ UNCHANGED <<unsaved, pc, pair, settings, applied>>

\* After a failed operation, or a failed capture of a session that is ready.
Recover ==
    /\ idle /\ state \in {"failed", "ready"}
    /\ \/ Prepared(InPair) /\ state' \in {"ready", "failed"}
       \/ \E cameras \in SUBSET InPair : Prepared(cameras) /\ state' = "failed"
    /\ UNCHANGED <<unsaved, pc, pair, settings>>

\* The process is killed, or ends.
Stop ==
    /\ state # "down"
    /\ state' = "down" /\ outcome' = "none"
    /\ Return
    /\ UNCHANGED <<disk, diverged, configuration, pair, settings, applied, bounds>>

PowerFailure ==
    /\ state' = "down" /\ outcome' = "none"
    /\ Return
    /\ file' \in onDisk
    /\ onDisk' = {file'}
    /\ UNCHANGED <<diverged, configuration, pair, settings, applied, bounds>>

\* A process loads the file, finds two cameras and gives them their roles.
Start(first, second) ==
    /\ state = "down" /\ starts < MaxStarts
    /\ starts' = starts + 1
    /\ first # second
    /\ configuration' = Load(file)
    /\ diverged' = FALSE
    /\ settings' = [c \in Cameras |-> configuration'[c].settings]
    /\ \/ /\ Conflict(configuration', first, second)
          /\ state' = "unassigned"
          /\ UNCHANGED pair
       \/ /\ ~Conflict(configuration', first, second)
          /\ state' = "new"
          /\ pair' = AssignCameraPair(configuration', first, second)
    /\ UNCHANGED <<disk, saving, pc, call, outcome, applied, saves>>

-----------------------------------------------------------------------------
Init ==
    /\ file \in Files
    /\ onDisk = {file}
    /\ temporary = Absent /\ backup = Absent /\ flushed = {}
    /\ backup_created = FALSE /\ published = FALSE /\ failed = FALSE
    /\ pc = "idle" /\ operation = "none" /\ outcome = "none"
    /\ target = SomeCamera
    /\ previous = Default /\ updated = Empty
    /\ diverged = FALSE
    /\ configuration = Empty
    /\ pair = [s \in Sides |-> SomeCamera]
    /\ settings = [c \in Cameras |-> Default]
    /\ applied = [c \in Cameras |-> Default]
    /\ state = "down"
    /\ saves = 0 /\ starts = 0

SaveStep == WriteTemporary \/ CopyBackup \/ Publish \/ SyncDirectory \/ DiscardBackup
            \/ Rollback \/ RemoveTemporary \/ Commit \/ Undo

Next ==
    \/ SaveStep
    \/ \E camera \in Cameras, choice \in Settings : ConfigureCamera(camera, choice)
    \/ SwapCameras
    \/ \E camera \in Cameras : TestCapture(camera)
    \/ Prepare \/ Focus \/ Recover
    \/ Stop \/ PowerFailure
    \/ \E first, second \in Cameras : Start(first, second)

Spec == Init /\ [][Next]_vars

\* File operations return.
FairSpec == Spec /\ WF_vars(SaveStep)
-----------------------------------------------------------------------------
Locations == {"idle", "write", "backup", "publish", "sync", "discard", "except", "finally",
              "conclude"}
SessionStates == {"down", "unassigned", "new", "failed", "ready_to_focus", "ready"}
Operational == state \in SessionStates \ {"down", "unassigned"}

TypeOK ==
    /\ file \in Contents \cup {Torn}
    /\ onDisk \in SUBSET (Contents \cup {Torn})
    /\ temporary \in Contents \cup {Torn}
    /\ backup \in Contents \cup {Torn}
    /\ flushed \in SUBSET {"temporary", "backup"}
    /\ backup_created \in BOOLEAN /\ published \in BOOLEAN /\ failed \in BOOLEAN
    /\ pc \in Locations
    /\ operation \in {"none", "configure_camera", "swap_cameras"}
    /\ target \in Cameras /\ previous \in Settings
    /\ updated \in ScannerConfiguration
    /\ outcome \in {"none", "running", "saved", "failed"}
    /\ diverged \in BOOLEAN
    /\ configuration \in ScannerConfiguration
    /\ pair \in [Sides -> Cameras]
    /\ settings \in [Cameras -> Settings]
    /\ applied \in [Cameras -> Settings]
    /\ state \in SessionStates
    /\ saves \in 0..MaxSaves /\ starts \in 0..MaxStarts

\* A reader of pi-scan.conf, now or after a power failure, finds a whole
\* configuration, or no file where there has never been one.
FileIsWhole == Torn \notin onDisk \cup {file}

\* A save that has returned is in the file, and a power failure leaves it there.
SavedIsDurable == outcome = "saved" => file = configuration /\ onDisk = {configuration}

\* Between operations the file, the configuration object and the settings of the
\* session's cameras are the same, whatever operation failed and in which step.  Only the
\* file may differ, where the last save has raised after it was published: its rollback
\* has failed too, or the removal in its finally.
CopiesAgree ==
    Operational /\ idle =>
        /\ Load(file) = configuration \/ (diverged /\ outcome = "failed")
        /\ \A c \in InPair : settings[c] = configuration[c].settings

\* Between operations a camera that has a position in the configuration has that
\* role in the session: a swap that could not be saved is undone.
RolesAgree ==
    Operational /\ idle =>
        \A s \in Sides : configuration[pair[s]].position \in {s, Nowhere}

\* Once prepared, the cameras photograph with the settings of the configuration:
\* neither a test photograph, nor a failed save, nor a recovery leaves others.
ScansAsConfigured ==
    state \in {"ready_to_focus", "ready"} =>
        \A c \in InPair : applied[c] = configuration[c].settings

\* Whichever two cameras are plugged in after any swaps, replacements of cameras,
\* failures and restarts, they get their roles.
AlwaysAssignable == state # "unassigned"

\* Nothing but a change of a camera's own settings, its withdrawal, or a power failure
\* before it was flushed changes its settings in the file: a swap, its rollback and
\* another pair of cameras keep those of the cameras that are not plugged in.  (After a
\* save that has raised although its file stands, the next one, of a swap too, puts the
\* settings of the configuration object into the file, and its rollback takes them out.)
SettingsSurvive ==
    [][\A c \in Cameras :
          Load(file')[c].settings # Load(file)[c].settings
             => \/ operation = "configure_camera" /\ target = c
                \/ diverged /\ (failed \/ Load(file')[c].settings = configuration[c].settings)
                \/ PowerFailure]_vars

\* An operation that saves comes to an end.
SaveEnds == pc # "idle" ~> pc = "idle"

-----------------------------------------------------------------------------
(***************************************************************************)
(* The inductive invariant                                                 *)
(***************************************************************************)
\* The variables of a save are gone between operations, and no process is in none.
ProcessInv ==
    /\ pc = "idle" => /\ temporary = Absent /\ backup = Absent /\ flushed = {}
                      /\ ~backup_created /\ ~published /\ ~failed
    /\ pc # "idle" => Operational /\ outcome = "running"
    /\ state = "down" => outcome = "none"
    /\ pc = "idle" => outcome # "running"

\* What is on the disk is whole, and the file is there.
DiskInv == onDisk \subseteq Contents /\ file \in onDisk

\* How far the save has come.
SaveInv ==
    /\ pc \in {"write", "backup", "publish"} => ~published /\ ~failed
    /\ pc \in {"write", "backup"} => ~backup_created
    /\ pc \in {"backup", "publish"} => temporary = updated /\ "temporary" \in flushed
    /\ pc = "publish" /\ ~backup_created => file = Absent
    /\ published => "temporary" \in flushed
    /\ pc \in {"sync", "discard"} => published /\ ~failed
    /\ published /\ pc \in {"sync", "discard", "except"} => file = updated
    /\ pc = "discard" => onDisk = {updated}
    /\ pc = "except" => failed
    /\ pc \in {"finally", "conclude"} /\ ~failed => file = updated /\ onDisk = {updated}

\* Until it is used or removed, the backup is a flushed copy of an earlier file.
BackupInv ==
    backup_created /\ pc \in {"publish", "sync", "discard", "except"} =>
        /\ "backup" \in flushed
        /\ backup \in Contents /\ UniqueRoles(Load(backup))

\* The file, or what the rollback makes of it, is the configuration object.
Old == IF published THEN IF backup_created THEN backup ELSE Absent ELSE file
ObjectInv ==
    /\ Operational /\ ~diverged
         /\ (pc \in {"idle", "write", "backup", "publish", "sync", "discard", "except"})
         => Load(Old) = configuration
    /\ ~diverged /\ pc = "publish" /\ backup_created => backup = file
    /\ ~diverged /\ pc \in {"finally", "conclude"} /\ failed => Load(file) = configuration
    /\ diverged /\ Operational /\ pc = "idle" => outcome = "failed"
    /\ outcome = "saved" => file = configuration /\ onDisk = {configuration}

\* No content gives a side to two cameras.
UniqueInv ==
    /\ \A f \in onDisk : UniqueRoles(Load(f))
    /\ UniqueRoles(updated) /\ UniqueRoles(configuration)

\* The session's cameras have the settings of the configuration, and those of
\* the target are on their way there or back.
SettingsInv ==
    /\ pc # "idle" => operation \in {"configure_camera", "swap_cameras"}
    /\ pc # "idle" /\ operation = "configure_camera" =>
          /\ state = "new" /\ target \in InPair
          /\ previous = configuration[target].settings
          /\ updated = WithCameraSettings(configuration, target, settings[target])
    /\ Operational => \A c \in InPair :
          \/ settings[c] = configuration[c].settings
          \/ pc # "idle" /\ operation = "configure_camera" /\ c = target

\* Two cameras, in the roles of the configuration or on their way to the others.
RolesInv ==
    /\ Operational => pair["even"] # pair["odd"]
    /\ pc # "idle" /\ operation = "swap_cameras" =>
          /\ state \in {"new", "ready_to_focus"}
          /\ updated = WithCameraPositions(configuration, pair)
          /\ \A s \in Sides : configuration[pair[s]].position \in {Other(s), Nowhere}
    /\ Operational /\ (pc = "idle" \/ operation = "configure_camera") =>
          \A s \in Sides : configuration[pair[s]].position \in {s, Nowhere}

IInv == /\ TypeOK /\ ProcessInv /\ DiskInv /\ SaveInv /\ BackupInv /\ ObjectInv /\ UniqueInv
        /\ SettingsInv /\ RolesInv /\ ScansAsConfigured /\ AlwaysAssignable
=============================================================================
