# TLA+ models of Pi Scan 2

Pi Scan runs a book scanner: two cameras photograph the left and the right page of an
open book, the pictures are moved to numbered files on a removable disk, and the disk is
ejected at the end.  This directory holds TLA+ specifications of the program, TLC
configurations that check them on small instances, and TLAPS proofs of what matters most
for every instance.  Paths below are relative to `src/src/pi_scan/` unless they name a
document, which is in `src/`.

    tlc -config MCCapturePair.cfg MCCapturePair      # check one run
    tlapm CapturePairProofs.tla                      # check one module of proofs

`PROJECT.json` lists runs, mutants, hazards, findings and theorems, and maps each
definition to the lines it was translated from.

## 1. The system

### Components

| component | state | operations | must hold |
|---|---|---|---|
| capture transaction `domain/capture.py` | image directory, staging directory, `backups`, `committed` | `capture_pair`: two camera threads, checks, flush, backup, publish, rollback | a pair is replaced whole or not at all; no published page is destroyed |
| session `domain/session.py`, numbering `domain/numbering.py` | workflow state, next page, last pair, page roles, coordinator | prepare, focus, capture, rescan, dismiss, recover, swap, finish | numbers stay fresh; both cameras are locked while scanning; roles and coordinator agree |
| configuration `domain/configuration.py` | `pi-scan.conf`, temporary and backup beside it | load, atomic save with a backup, roles, settings | the file is whole at any stop; file, object and cameras agree after a failed save; any two cameras get roles |
| application `application.py` | the session | one method per command, each emitting events | every change of state is reported |
| runner `commands.py` | `_active`, `_closed`, one worker thread | submit, shutdown | one operation at a time, none after a stop |
| view model `viewmodel.py` | event queue, `state` | dispatch, drain, apply, poll | the screen ends up at the session's state, failures are shown |
| input `input.py`, pedal `hardware/pedal.py` | last pedal level | key, pedal edge | only what the screen offers is dispatched |
| Kivy application `ui/kivy_app.py` | widgets | build, refresh every 50 ms, buttons, `on_stop` | the operator gets the controls back; the disk is released at a stop |
| appliance `appliance.py` | `runtime`, `_ejected`, `_closed` | initialize, finish, apply_update, eject, close | the disk is ejected before the session completes, never under a capture |
| storage `storage/*.py` | `_known_unmounted`, `_cancelled` | wait, mount, unmount, power off, check of free space | retries neither lose the power-off nor complete early |
| update `update.py` | none | find, install | an installed update ejects the disk |
| cameras `cameras/**` | zoom, focus lock (in the camera) | probe, prepare, focus, capture, romlog | a camera answers or times out |
| previews `preview.py` | preview and detail files | generate, generate_detail | whole pictures, of the last pair; a window holds the point asked for |
| logs, simulator, input profiles, deployment | files | output only | see "Not modelled" |

### How they interact

The **UI thread** (Kivy) and the **pedal's thread** (gpiozero) read `view_model.state` and
submit a command to the runner.  The runner's **worker thread** calls the application, which
calls the session, which starts **two camera threads** for each operation on both cameras.
Events come back through a queue that the UI thread drains in `refresh`.  On a stop the UI
thread cancels the storage waiter, shuts the runner down, waits for the worker, and ejects
the disk itself.  UDisks (through `udisksctl`), a desktop's automounter, the operator's
hands on the disk, and systemd (which starts a failed process again) are outside.

### What is hard to get right

* Any file operation of the transaction, or of its rollback, may fail, and the process may
  stop between any two.
* Camera threads end in either order, one failing; `recover` is two operations in a row.
* Numbering restarts from what the disk holds, which a torn pair or a stop has changed.
* `dispatch` and `poll` replace the view without a lock; the done callback is registered
  after the runner's lock is released; `busy` is read after the events are drained.
* Camera, session and file are changed one after the other when a setting or a role is saved;
  each file operation of the save, those of its rollback and of its `finally` included, may
  fail, and the power may fail between them.
* The previews of a pair are cut after it is counted.  `_emit_capture` reports a capture without
  them after a `PreviewError`; after any other error nothing is reported at all.
* The worker writes preview files under names that the UI thread is showing, and a widget
  loads a file only when its name changes.
* Ejection is two commands, each of which may fail or time out after it took effect, with
  retries, a forced unmount, two threads that may ask for it, and a flag that remembers it.

The hazards of `PROJECT.json` go through these line by line.

## 2. Modules

| module | models | state and steps |
|---|---|---|
| `PairOutcome` | what a caller of `capture_pair` sees | the pages and the call; a call starts, then succeeds, refuses or tears the pair |
| `PairTransaction` | what `capture_pair` promises beyond that | `PairOutcome` and the files kept for recovery: a torn pair loses nothing |
| `CapturePair` | `domain/capture.py` | `book` is the image directory, `vault` is `backups/`, `kept` what lies in abandoned staging directories; each file operation and each loop iteration is a step |
| `MCCapturePair` | instance of it | the reports a camera may return |
| `WorkflowTable` | the operations of `domain/session.py` | a table: the states each starts from, leads to, and is left in when it raises |
| `Workflow` | what these operations promise | a state machine over the table: an operation starts, then returns or raises |
| `ScannerSession` | `domain/session.py`, `domain/numbering.py` | the workflow with its camera threads; `capture_pair` is one step; `Restart` builds a new session |
| `Scanning` | the session and the coordinator it calls, over the files | the session's actions, with calls of `PairOutcome` in place of that step, which take their time, replace files and may be cut off |
| `MCScanning` | instance of it | the symmetries |
| `ScannerUi` | `commands.py`, `viewmodel.py`, `input.py`, `ui/kivy_app.py`, the events of `application.py` | three threads; each read and each write of the shared view is a step |
| `Configuration` | `domain/configuration.py`; `configure_camera`, `swap_cameras`, `test_capture`, `initialize` of `application.py`; `assign_camera_pair` | `file` and `onDisk` are `pi-scan.conf` now and after a power failure; each file operation of the save is a step; the session is what settings and roles depend on |
| `MCConfiguration` | instance of it | the files an earlier session may have left |
| `Previews` | `preview.py`; `inspect_detail`, `_emit_capture`; viewport and pictures of `viewmodel.py`; `refresh`, `_request_detail`, `_set_preview` of `ui/kivy_app.py` | `files` by side and name, `widgets` with the source and the picture they have loaded; the worker's saves and renames interleave with keys and refreshes |
| `Appliance` | `appliance.py`, `storage/*.py`, `update.py`, `on_stop` | the disk, the UI thread, the worker; each `udisksctl` command is a step |
| `CapturePairProofs`, `ScannerSessionProofs`, `ScannerUiProofs`, `ConfigurationProofs`, `PreviewsProofs`, `ApplianceProofs`, `ScanningProofs` | | theorems about the modules they extend |

The modules meet where the code does.  Two chains of refinement meet in the session:

    CapturePair -> PairTransaction = PairOutcome + recovery
                                          |
                                       Scanning -> ScannerSession -> Workflow

`CapturePair` implements `PairTransaction` by the mapping `Transaction` (a running call has
not touched the pages yet; a stopped one has torn them).  `Scanning` composes the session
with the caller's half of that, `PairOutcome`, over real files: `book` of the session becomes
the pages that have a file, and `ImplementsSession` says that `ScannerSession`, where the
whole call is one step on a set of numbers, is a fair account of it.  `ScannerSession` in turn
implements `Workflow` by the mapping `Flow` (`recover` is one operation, and the states that
an operation passes through are "busy").  `ScannerUi` takes the outcomes of its commands from
the same `WorkflowTable`.  The recovery directories are left out of `Scanning` because nothing
in the program looks at them.

`ScannerUi` keeps of the session its state and whether there is a last pair, with every
outcome a command may have; `Appliance` keeps whether a session is new, scanning or complete.
`Configuration` keeps the session's states in which settings and roles may change and in which
the cameras photograph, and `Previews` the page and the take of the last pair; their
operations are among the outcomes `ScannerUi` has for `"settings"`, `"swap"`, `"capture"` and
`"detail"`.

### Abstractions

* A file's content is the number of the call that took it and the fault it may have; an
  existing page has number 0.  Targets are pages with a published suffix.  The lists
  `backups` and `committed` are sets: `IsLast` gives their order back.
* A "crash" in `CapturePair` is a stop of the process.  File operations it has completed
  stay completed; loss of unflushed directory entries in a power failure is not modelled,
  only that contents are flushed before names change.
* `rmtree(ignore_errors=True)` may leave any part of a staging directory behind.
* In `Scanning` a call replaces its files in one step at its end, as `PairTransaction` has it:
  nobody reads the book while a call runs.
* `ScannerUi` fixes a command's outcome and its events when the worker takes it: the worker
  alone changes the session, and nobody else reads it.  The view's labels,
  previews and page numbers are dropped; `captured` stands for `last_even_page`.
  The field `reported` of the session is auxiliary: a capture has emitted CAPTURE_SUCCEEDED.
  `apply_update` is covered by `"turn_off"`, which is enabled wherever it is, and ends in
  one of the same ways.  With a media update absent or cameras not CHDK the code enables
  fewer commands than the model.  `level` is `NoPedal` where none is configured or none opens.
  `command` and `seen` are local variables of the code, so they are reset after their last use.
* In `Configuration` zoom and shutter are one value, and a file is the configuration it was
  written from, absent, or torn.  Both operators are total: a camera that is not listed is one
  with the defaults, as in `ScannerConfiguration.camera`.  Names of temporary and backup files
  are new in each save, so what a killed save leaves under them has no effect and is dropped.
  `onDisk` is a set of contents because an unflushed rename may or may not survive a power
  failure; what takes a name unflushed may be torn.  `diverged` is auxiliary: a save has raised
  although its file stands, because the rollback failed or because the `finally` did.
* In `Previews` a refresh takes two steps: the events, and the request of a detail with the
  loading of the widgets, which run on one thread without waiting.  One axis of the viewport
  stands for both: `_detail_box` treats them alike.  Offsets are in hundredths, to which
  `_request_detail` rounds them.  Which error is displayed is `ScannerUi`'s matter.  `told` is
  auxiliary: the pair and the take of the last CAPTURE_SUCCEEDED.  `CutFails` is a
  `PreviewError`, `CutRaises` what `generate` and `generate_detail` let through: `mkdir`
  (preview.py:105, 159), `unlink` in the `finally` (128, 182), and errors of the picture that
  the `except` does not list (125, 179).
* In `Appliance` a disk is absent, plugged or mounted.  The grace period is a number of
  attempts, or any smaller one.  Preparing and focusing are one step: they do not touch the
  disk.
* A disk is removed and put in as the same volume: another device name or UUID would be
  another key of `_known_unmounted`.

## 3. Runs

| run | configuration | question | answer |
|---|---|---|---|
| `pair` | `MCCapturePair.cfg` | is a pair replaced as a transaction, for every failure and stop, and does every call end? | yes; 738,418 states |
| `pair_stop` | `MCCapturePairStop.cfg` | do published pairs survive a stop? | no, see finding 1 |
| `session` | `ScannerSession.cfg` | do rescans, locks and roles stay right, and does each operation start and end where the workflow says? | yes; 44,028 |
| `scanning` | `MCScanning.cfg` | do captured pages stand and pairs match, over files, torn calls and restarts, and are the session's numbers those of the files? | yes; 430,778 |
| `session_rests` | `ScannerSessionRests.cfg` | does a session rest where an operation is accepted? | no, finding 2 |
| `configuration` | `MCConfiguration.cfg` | do file, object, session and cameras agree, over failures, stops, power failures and other cameras? | yes; 495,383 |
| `ui` | `ScannerUi.cfg` | one operation at a time, none after a stop, and do the controls return, with and without a pedal?  Does the screen follow the session without one? | yes; 1,273,168 |
| `ui_failure` | `ScannerUiFailure.cfg` | does the pedal spare a displayed failure? | no, finding 3 |
| `previews` | `Previews.cfg` | are the pictures whole, of the pair reported last, and do windows hold their point? | yes; 2,106,223 |
| `previews_pan` | `PreviewsPan.cfg` | does panning move the window that is shown, where no cut fails (`WholeSpec`)? | no, finding 4 |
| `appliance` | `Appliance.cfg` | is the disk released, and never too early? | yes; 5,662 |
| `appliance_automount` | `ApplianceAutomount.cfg` | also where the desktop mounts disks? | no, finding 5 |

Bounds and why they are enough:

* `EvenPages = {0}`, `MaxTakes = 2`.  A call touches the two pages of one pair and nothing
  else; what an earlier session left is any subset of the four targets, so one call already
  meets every content, and the second call meets what a first one left, torn or not.
  `AnyReports` has a JPEG alone, a raw file before a `.jpeg`, and one report for each
  reason to refuse.  A second call is enough for liveness too: each begins
  where the one before began.
* `MaxPage = 2`: two captured pairs and rescans of the last, over any number of failures,
  recoveries and restarts, which are unbounded.  The initial book is any subset of one pair.
* `Scanning`: `MaxPage = 2` again, so that a capture can be beside a captured pair and after
  a torn one.  A page has one file, its JPEG, which numbering and `PairsMatch` are about; raw
  files beside it are covered by the proof, which is for any `PublishedSuffixes`.  Three
  contents always leave one that is new.  Cameras and contents are symmetric: no definition
  names one of them.
* `MaxCommands = 5`: initialize, prepare, focus, capture, and a command about its failure, from
  whichever thread.  `DrainLimit = 2` stands for 100: commands emit up to
  four events, so the limit is hit.
* Three cameras, of which two are plugged in at a start, are the fewest with one that is away
  and comes back; two settings are a change and its undo.  `MaxSaves = 2` lets a save follow
  one that failed and was rolled back, or whose rollback failed; `MaxStarts = 3` lets the
  third camera come and go.  The earlier files are none, a swapped pair, and one in which
  only the absent camera has a role.
* `Width = 3` and `Window = 2` make the window smaller than the page by an odd number, so that
  the edge is a half and is rounded both ways; `PanStep = 100` has the corners and the
  centre.  `MaxTakes = 2` is a capture followed by a capture or a rescan.
* `MaxTries = 2` is a first attempt and a retry; `MaxInserts = 2` allows the disk to
  be pulled and put back twice, `MaxCrashes = 1` one restart.  The proofs remove all
  bounds named here.

`CHECK_DEADLOCK FALSE` where the system may rest: after the last call, after the process
has exited, after the last page.  `ScannerSession` can always restart, so deadlock is checked there.

### Fairness

* `CapturePair`: weak fairness of the steps of a running call.  `chdkptp` and `gphoto2` run
  under a timeout (`cameras/*/transport.py`), and file operations return.
* `Configuration`: weak fairness of the steps of a save: file operations return.  Nothing is
  assumed of the operator, the power or the process.
* `ScannerSession`: weak fairness of the steps of the running operation, for the same reason.
  No operation is assumed to be called.
* `ScannerUi`: the worker, the UI thread's current command or refresh (the clock calls
  `refresh` every 50 ms) and the pedal's callback go on.  `initialize` is left out: it waits for
  a disk, by default without limit (wait.py:106-120).  `ControlsReturn` says of every other
  operation that the screen is free again unless the application closes; an `initialize` that
  does end takes the same way.  No key, press or stop is assumed.
* `Previews` is checked for safety only.
* `Appliance`: the worker's startup and commands (camera commands, `pip` and `lsblk` have
  timeouts), ejection (`udisksctl` has one, and the grace period ends) and the closing UI
  thread go on.  The operator is not assumed to do anything.

## 4. Proofs

All safety properties that the passing runs check, refinements included, are proved for
every value of the constants, from the named assumptions in the modules: pages are even
naturals, `jpg` and `jpeg` are images, `jpg` is a published suffix, reports are sequences of
paths, `NoFile` is no content, there are two distinct cameras, bounds are naturals, the
default is a setting, no earlier `pi-scan.conf` gives one side to two cameras, a page has a
width, a step pans between one and a hundred hundredths, `drain` takes at least one event.
`ApplianceProofs` assumes `~Automount` in each theorem: finding 5 shows that it is needed.

* **CapturePair.** `IInv` says how the book, `backups/` and the two lists of `_commit`
  determine the old pages at each point.  `UndoInv` is the heart: each target holds its old
  content, or `vault` does; a target in `committed` has its old content, if any, in the
  vault; and while nothing went wrong in the rollback a target that is in neither list is as
  before.  `PhaseInv` adds which lists are empty where and how far a loop has come,
  `FlushInv` what is flushed, `FilesInv` that all files are this call's and checked, `BookInv`
  that calls are told apart by their number.  None of the properties is inductive alone: that
  a rollback restores a page needs to know that the vault holds it, which needs the order of
  the loops.  `Refinement` uses `IInv` to map each step to a step of `PairTransaction` or a
  stutter: only the end of a call, or a stop, is a step.  `ContentHolds` says
  what the files are in between: each target has its old file, none, or the call's own, so
  that a torn pair holds nothing of a third call.
* **ScannerSession.** `IInv` adds to the properties which operation a state belongs to
  (`RunningInv`), that a finished focus thread has locked its camera (`ThreadInv`), and that
  numbers are even.  `FreshNumbers` survives a restart because `NextEvenPage` is above every
  page in the book, and a torn pair because a page leaves `confirmed` with the book.  `LockedHolds` combines two parts of it:
  cameras are locked (`LockedInv`), and the coordinator has those of the roles
  (`ShootsAsAssigned`).  `WorkflowRefinement` maps each step to one of `Workflow`: a camera
  thread's end and the prepare within a `recover` are stutters.  Two more facts are proved that
  the composition subsumes for the files: `FreshNumbers`, and `CompleteIsFinal`.
* **Scanning.** `CallInv` says that the session waits for exactly the call it made (the call's
  page is `next` in a capture and `last` in a rescan), `NumberInv` that confirmed pages are below
  `next`, and `NothingBeyond` that no file, torn ones included, lies beyond the pair to be taken
  next.  From these `SessionRefinement` maps each step to one of `ScannerSession`; `PagesStand`
  and `PairsMatch` follow because a call touches its own two pages only, and a capture's are not
  confirmed.
* **Appliance.** `Inv` adds who owns an ejection (`EjectionHasOwner`), what is set before
  `runtime` is (`NothingYet`, `RuntimeFirst`), that giving up at startup is before it
  (`AbortIsEarly`), that a disk that was ejected is not mounted (`EjectedIsUnmounted`), and
  that a disk this process holds is known to it (`HeldIsKnown`).  They turn on the fact that
  only the process mounts the disk.
* **ScannerUi.** `IInv` adds to `OneOperation` and `NothingRunsAfterStop` what the threads'
  places mean: a thread that has not registered its callback owns an active future
  (`HookInv`, so two never do), a stopping runner is closed and has nothing queued
  (`StopInv`), and what is queued or drained is an event (`EventsInv`).  `OneOperation` is
  not inductive without `HookInv`: registering would free the runner under a second job.
* **The screen.** Events travel from the worker (`todo`) over the queue and the drained batch
  to the view.  `NewsInv` speaks of their concatenation: the last event of a kind in it, or the
  view if there is none, tells the session's state.  The lemmas about `Settles` say that
  appending, moving and applying events keep that.  `CopiesInv` says that what the UI thread has
  read is not out of date when it is written back, which is where a pedal's thread comes in:
  `ScreenFollowsSession` has the screen follow the session under `CarefulSpec`, where that
  thread does not write back a view that was replaced in between, and
  `ScreenWithoutPedal` (`ScreenIsCurrent`) without a pedal.  `FailureInv` does for the failure of
  the last command what `NewsInv` does for states; since `dispatch` clears the error, it needs
  that no failure is queued before its operation is accepted and hooked.  The screen has a last
  pair as soon as one is reported, and only where the session has one: a capture that ends
  without an event leaves it as it was.
* **Configuration.** `SaveInv` says how far a save has come and which flags, files and
  flushes that implies, `BackupInv` that the backup is a flushed copy, `ObjectInv` that what
  a rollback would make of the file (`Old`) is the configuration object, which is the heart
  of `CopiesAgree`; `SettingsInv` and `RolesInv` that camera and session are on their way
  there or back; `UniqueInv` that no content on the disk gives a side to two cameras, from
  which `AssignmentLemma` gets `AlwaysAssignable`.  `SettingsSurvive` is an action property
  over the same invariant.  Where a save raises over a file that stands, the caller undoes the
  object and the camera but not the file: `CopiesAgree` allows the file to differ only where
  the last save has raised, and `SettingsSurvive` lets the next save change other cameras'
  settings only to those of the object.
* **Previews.** `RoundLemma` (Python's `round` is off by a half at most) gives `DetailWindow`,
  the arithmetic of `_detail_box` for every size.  `NamedInv` says what the view will name
  once the queue is drained, by the last report in the queue, and that its files are of the
  take that was reported or of one after it (`Fresh`), which a capture that ends without an
  event cannot break: it takes a new number, or its files are newer; `KnownInv` and `ShownInv` carry
  a page's picture from the file over the view to the widget; `CutInv` says which side is cut.

Only model-checked: the liveness properties (`CallEnds`, `RecoverConcludes`, `ControlsReturn`,
`SaveEnds`, `StopEnds`), which are out of the prover's reach.

## 5. Findings

1. `pair_stop`: a process that stops between `capture.py:154` and the publication leaves a
   rescanned pair neither old nor new in the book.  The old files are in
   `.pi-scan-capture-*/backups` (`NoPageLost` holds), but nothing looks for them again, and
   README.md:207 says "Existing published page pairs remain intact."  A session that starts
   then numbers from the files that stand, and may give out the missing pair's number.
2. `session_rests`: an `OSError` of `capture_pair` is not a `CapturePairError`; the session
   stays in `CAPTURING`, which neither recover nor finish accepts.
3. `ui_failure`: the pedal's callback checks the view and then dispatches; a failure
   displayed in between does not stop it.
4. `previews_pan`: details have fixed file names, and a widget loads a file when its name
   changes.  After the first detail of a pair, panning cuts new windows that are never shown;
   the operator judges another part of the page than the one asked for.  The run has
   executions in which every cut succeeds, and its counterexample ends with the second window
   cut on both sides, reported and applied.  With a widget that always loads its file the same
   run has no counterexample.
5. `appliance_automount`: `_ejected` outlives the disk.  After an update installed with key
   "2", a disk that is put in again and mounted by the desktop is captured to, and `finish`
   completes without ejecting it.

Observations that contradict no document:

* With a pedal, `dispatch` on its thread reads the view and writes it back without a lock.  When
  a refresh applies events in between, the write undoes them: a new state is not shown until
  the next one is reported, or an error is lost.  `ScreenIsCurrent` and `FailureIsShown` are
  stated without a pedal for this reason, and `CarefulSpec` shows that nothing else loses a state.
* The preview of a rescan has the name of the one it replaces and is not loaded either, unless
  a detail was shown in between; the two sides may then be of different takes
  (`CaptureIsShown` speaks of captures that are no rescans).
* `_request_detail` remembers what it has asked for (kivy_app.py:395) even where cutting fails
  or a new pair arrives: no detail is asked for again until the viewport moves or is left.
  A detail occupies the runner like any command.
* When `PreviewError` leaves a capture without previews the picture before stays on the screen,
  beside the error.
* When `generate` raises anything else, the pair is counted and nothing is reported: the view
  goes on with the pair before, and after the first capture rescan is not offered.  A detail,
  which is cut from the session's last pair, is then shown under the older preview; a rescan
  may leave the two sides of different takes.
* Roles found by the order of discovery are not saved until the first swap (session.py:89),
  so without one the order of discovery decides again at the next start.
* A copy of the configuration that fails halfway leaves its file, and so does a killed save;
  nothing removes them.
* A rollback that fails itself, or an `unlink` in the `finally` (configuration.py:186) that
  raises after the file was published, leaves the new file beside the old object.  The call
  has raised, a swap's without an event; the next save, of a swap too, writes the object's
  settings over the file's, and a start in between takes the file's.

## 6. Not modelled, and the plan

Next, in this order:

1. An abstract specification of `Configuration` (a file that is saved as a whole or not at all)
   and the refinement.
2. `ScannerUi` and `Appliance` over `Workflow`: what they keep of the session as an instance of it.
3. Fairness and liveness for `Previews`: does a window that is asked for arrive?
4. `Algorithms`: pure operators against reference definitions over bounded inputs: page
   numbering from file names, `find_update`, zoom steps and sensitivities,
   `_resolve_transports`, the choice between CHDK and gPhoto2 cameras.  They are sequential and
   within reach of unit tests, which the repository has.
5. A camera that is power-cycled behind the program's back (`dismiss_failure`).

Left out for good: decoding and scaling of images, the append-only logs, the simulator and
fakes, Kivy's layout and the text of its configuration, parsing of JSON and of `lsblk`,
`chdkptp` and `gphoto2` output, packaging and installation.
