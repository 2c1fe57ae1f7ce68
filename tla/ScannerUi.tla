------------------------------ MODULE ScannerUi ------------------------------
(***************************************************************************)
(* What the operator sees and does while an operation runs: the command     *)
(* runner (commands.py), the events the application emits from the runner's *)
(* worker thread (application.py), and the view model, the input controller *)
(* and the Kivy application that bring them to the screen (viewmodel.py,    *)
(* input.py, ui/kivy_app.py).                                               *)
(*                                                                          *)
(* Three threads interleave: the UI thread, the thread on which the pedal   *)
(* calls back, and the worker.  ScannerViewModel.state is read and written  *)
(* by the first two without a lock, so each read and each write is a step.  *)
(* Of the view the model keeps what decides over the controls, and whether  *)
(* an error is shown.  Of the session it keeps the state and whether there  *)
(* is a last capture; ScannerSession models the rest.  A capture may end    *)
(* without an event: then the session has a pair the screen has not heard   *)
(* of, and the auxiliary field session.reported tells which pairs it has.   *)
(***************************************************************************)
EXTENDS Integers, Sequences, WorkflowTable

CONSTANTS
    DrainLimit,     \* events UiEventBridge.drain takes at most
    MaxCommands     \* bound on the number of commands accepted

ASSUME LimitAssumption == DrainLimit \in Nat \ {0} /\ MaxCommands \in Nat

Threads == {"ui", "pedal"}

NoPedal == -1   \* no GPIO pedal is configured, or it does not open

\* "settings" stands for configure_camera and test_capture, "detail" for inspect_detail,
\* "logs" for save_debug_logs, and "turn_off" also for apply_update, offered under "2".
Commands == {"initialize", "prepare", "focus", "capture", "rescan", "dismiss",
             "recover", "swap", "finish", "turn_off", "logs", "settings", "detail"}

ScannerStates == {"uninitialized", "new", "ready_to_focus", "ready", "capturing",
                  "capture_failed", "failed", "complete"}

VARIABLES
    session,    \* [state, captured] of application.session, and the auxiliary reported:
                \* a CAPTURE_SUCCEEDED has been, or is about to be, emitted
    queue,      \* UiEventBridge._events
    active,     \* runner._active is a future
    hooked,     \* _completed is registered with that future
    closed,     \* runner._closed
    jobs,       \* what the executor has not begun
    running,    \* the command on the worker thread, or "none"
    todo,       \* the events it has still to emit
    view,       \* view_model.state
    shown,      \* the view of the last refresh
    pc,         \* where the UI and the pedal thread are
    command,    \* the command each of them submits, until it has done so
    seen,       \* the view each of them has read, until it has written it back
    batch,      \* drained events that are not applied yet
    level,      \* InputController._last_pedal_level, or NoPedal
    count,      \* commands accepted so far
    failed      \* auxiliary: the last command has reported a failure

runner  == <<active, hooked, closed, jobs, count>>
worker  == <<session, running, todo>>
screen  == <<view, shown>>
locals  == <<pc, command, seen, batch>>
vars    == <<queue, runner, worker, screen, locals, level, failed>>

View == [scanner : ScannerStates, captured : BOOLEAN, busy : BOOLEAN, error : BOOLEAN]

Started      == [kind |-> "started"]     \* clears the error shown
Failed       == [kind |-> "failed"]
Captured     == [kind |-> "captured"]
Note         == [kind |-> "note"]        \* changes nothing the model keeps
Changed(s)   == [kind |-> "changed", state |-> s]

FirstView == [scanner |-> "uninitialized", captured |-> FALSE, busy |-> FALSE, error |-> FALSE]

Init ==
    /\ session = [state |-> "uninitialized", captured |-> FALSE, reported |-> FALSE]
    /\ queue = <<>>
    /\ active = FALSE
    /\ hooked = FALSE
    /\ closed = FALSE
    /\ jobs = <<>>
    /\ running = "none"
    /\ todo = <<>>
    /\ view = FirstView
    /\ shown = FirstView
    /\ pc = [t \in Threads |-> "idle"]
    /\ command = [t \in Threads |-> "initialize"]
    /\ seen = [t \in Threads |-> FirstView]
    /\ batch = <<>>
    /\ level \in {0, 1, NoPedal}
    /\ count = 0
    /\ failed = FALSE

-----------------------------------------------------------------------------
\* The worker thread.

Outcome(s, events) == [session |-> s, events |-> events]

\* _operation with the events around it; capture and rescan report the new pair, and
\* before it a PreviewError.  Anything else that generate raises, of mkdir or of the
\* unlink in its finally, goes up: the pair is counted, and no event tells of it.
Operation(c, s) ==
    LET ready    == s.state \in From[c] /\ (c = "rescan" => s.captured)
        pair     == c \in {"capture", "rescan"}
        previews == IF pair THEN {<<Captured>>, <<Failed, Captured>>, <<>>} ELSE {<<>>}
        done(m)  == [state |-> To[c], captured |-> s.captured \/ pair,
                     reported |-> s.reported \/ m # <<>>]
        left     == IF ready THEN Raised[c] \cup (IF pair THEN {s.state} ELSE {})
                             ELSE {s.state}
    IN  {Outcome(done(more), <<Started, Changed(To[c])>> \o more) :
           more \in {m \in previews : ready}}
        \cup {Outcome([s EXCEPT !.state = x], <<Started, Failed, Changed(x)>>) : x \in left}

\* The commands that do not go through _operation.  While initialize waits for the
\* scan disk, a STORAGE_STATUS clears the error or sets one.  Ejecting the disk, saving
\* the configuration and some refusals fail without an event.
Initialized(s) ==
    {Outcome([s EXCEPT !.state = "new"], <<Started, Note, Changed("new")>>),
     Outcome(s, <<Started, Failed>>), Outcome(s, <<Started>>), Outcome(s, <<Failed>>)}

Swapped(s) ==
    {Outcome(s, <<>>)} \cup
    {Outcome(s, <<Note, Changed(s.state)>>) : x \in {s.state} \cap {"new", "ready_to_focus"}}

Reconfigured(s) == {Outcome(s, <<>>), Outcome(s, <<Failed>>), Outcome(s, <<Started>>)}

TurnedOff(s) == {Outcome(s, <<>>), Outcome(s, <<Failed>>), Outcome(s, <<Started>>)}

Inspected(s) == {Outcome(s, <<>>), Outcome(s, <<Failed>>), Outcome(s, <<Note>>)}

\* Every way a command may end, and what it emits on the way.
Outcomes(c, s) ==
    CASE c = "initialize"            -> Initialized(s)
      [] c = "finish"                -> Operation(c, s) \cup {Outcome(s, <<>>)}
      [] c \in DOMAIN From \ {"finish"} -> Operation(c, s)
      [] c = "swap"                  -> Swapped(s)
      [] c = "settings"              -> Reconfigured(s)
      [] c = "turn_off"              -> TurnedOff(s)
      [] OTHER                       -> Inspected(s)

\* The executor's thread takes the next job.  The session is its own until the
\* job ends, so the outcome is fixed here.
Take ==
    /\ running = "none"
    /\ jobs # <<>>
    /\ running' = Head(jobs)
    /\ jobs' = Tail(jobs)
    /\ \E result \in Outcomes(Head(jobs), session) :
         session' = result.session /\ todo' = result.events
    /\ UNCHANGED <<queue, active, hooked, closed, count, screen, locals, level, failed>>

Emit ==
    /\ running # "none"
    /\ todo # <<>>
    /\ queue' = Append(queue, Head(todo))
    /\ todo' = Tail(todo)
    /\ failed' = CASE Head(todo).kind = "failed"  -> TRUE
                   [] Head(todo).kind = "started" -> FALSE
                   [] OTHER                       -> failed
    /\ UNCHANGED <<session, running, runner, screen, locals, level>>

\* The future is done; its callback clears _active, if it is registered already.
End ==
    /\ running # "none"
    /\ todo = <<>>
    /\ running' = "none"
    /\ active' = ~hooked
    /\ UNCHANGED <<session, todo, queue, hooked, closed, jobs, count, screen,
                   locals, level, failed>>

-----------------------------------------------------------------------------
\* The two threads that dispatch commands.

\* _with_controls, and the screens' buttons: the command is offered in this view.
\* finish is allowed in more states, but only the capture screen offers it.
Enabled(v, c) ==
    CASE c \in {"prepare", "settings"}  -> v.scanner = "new"
      [] c = "focus"                    -> v.scanner = "ready_to_focus"
      [] c \in {"capture", "finish"}    -> v.scanner = "ready"
      [] c = "rescan"                   -> v.scanner = "ready" /\ v.captured
      [] c = "dismiss"                  -> v.scanner = "capture_failed"
      [] c \in {"recover", "logs"}      -> v.scanner \in {"failed", "capture_failed"}
      [] c = "swap"                     -> v.scanner \in {"new", "ready_to_focus"}
      [] c = "turn_off"                 -> v.scanner \in {"new", "complete"}
      [] c = "detail"                   -> v.captured
      [] OTHER                          -> FALSE

GoesOn(t, c) ==
    /\ pc' = [pc EXCEPT ![t] = "submit"]
    /\ command' = [command EXCEPT ![t] = c]

\* build schedules the first command.
Start ==
    /\ pc["ui"] = "idle"
    /\ count = 0
    /\ GoesOn("ui", "initialize")
    /\ UNCHANGED <<queue, runner, worker, screen, seen, batch, level, failed>>

\* A key is checked against the view, a button is enabled as of the last refresh.
Press(c) ==
    /\ pc["ui"] = "idle"
    /\ count < MaxCommands
    /\ \/ ~view.busy /\ Enabled(view, c) /\ c \notin {"settings", "detail"}
       \/ ~shown.busy /\ Enabled(shown, c)
    /\ GoesOn("ui", c)
    /\ UNCHANGED <<queue, runner, worker, screen, seen, batch, level, failed>>

\* The pedal's callback: only a release followed by a press is an event.
PedalMoves ==
    /\ level # NoPedal
    /\ count < MaxCommands
    /\ pc["ui"] \notin {"stopping", "stopped"}
    /\ pc["pedal"] = "idle"
    /\ level' = 1 - level
    /\ IF level = 1 /\ ~view.busy /\ Enabled(view, "capture")
       THEN GoesOn("pedal", "capture")
       ELSE UNCHANGED <<pc, command>>
    /\ UNCHANGED <<queue, runner, worker, screen, seen, batch, failed>>

\* Mutant: _active is not consulted.
SubmitUnlocked(t) ==
    /\ pc[t] = "submit"
    /\ \/ /\ closed
          /\ pc' = [pc EXCEPT ![t] = "idle"]
          /\ UNCHANGED <<runner, failed>>
       \/ /\ ~closed
          /\ count' = count + 1
          /\ jobs' = Append(jobs, command[t])
          /\ active' = TRUE
          /\ hooked' = FALSE
          /\ pc' = [pc EXCEPT ![t] = "hook"]
          /\ failed' = FALSE
          /\ UNCHANGED closed
    /\ command' = [command EXCEPT ![t] = "initialize"]
    /\ UNCHANGED <<queue, worker, screen, seen, batch, level>>

\* submit_action, under the runner's lock.
Submit(t) ==
    /\ pc[t] = "submit"
    /\ \/ /\ closed \/ active
          /\ pc' = [pc EXCEPT ![t] = "idle"]
          /\ UNCHANGED <<runner, failed>>
       \/ /\ ~closed /\ ~active
          /\ count' = count + 1
          /\ jobs' = Append(jobs, command[t])
          /\ active' = TRUE
          /\ hooked' = FALSE
          /\ pc' = [pc EXCEPT ![t] = "hook"]
          /\ failed' = FALSE
          /\ UNCHANGED closed
    /\ command' = [command EXCEPT ![t] = "initialize"]
    /\ UNCHANGED <<queue, worker, screen, seen, batch, level>>

\* Mutant: the callback of a future that is done already is lost.
HookLate(t) ==
    /\ pc[t] = "hook"
    /\ hooked' = TRUE
    /\ pc' = [pc EXCEPT ![t] = "read"]
    /\ UNCHANGED <<queue, worker, active, closed, jobs, count, screen, command, seen,
                   batch, level, failed>>

\* add_done_callback, after the lock is released; a future that is done already
\* calls back at once.
Hook(t) ==
    /\ pc[t] = "hook"
    /\ hooked' = TRUE
    /\ active' = (running # "none" \/ jobs # <<>>)
    /\ pc' = [pc EXCEPT ![t] = "read"]
    /\ UNCHANGED <<queue, worker, closed, jobs, count, screen, command, seen, batch,
                   level, failed>>

\* dispatch replaces busy and error in the view.
DispatchRead(t) ==
    /\ pc[t] = "read"
    /\ seen' = [seen EXCEPT ![t] = [view EXCEPT !.busy = TRUE, !.error = FALSE]]
    /\ pc' = [pc EXCEPT ![t] = "write"]
    /\ UNCHANGED <<queue, runner, worker, screen, command, batch, level, failed>>

DispatchWrite(t) ==
    /\ pc[t] = "write"
    /\ view' = seen[t]
    /\ seen' = [seen EXCEPT ![t] = FirstView]
    /\ pc' = [pc EXCEPT ![t] = IF t = "ui" THEN "poll" ELSE "idle"]
    /\ UNCHANGED <<queue, runner, worker, shown, command, batch, level, failed>>

-----------------------------------------------------------------------------
\* The UI thread's refresh.

Least(m, n) == IF m < n THEN m ELSE n

\* Mutant: the events beyond the limit are dropped.
DrainAll ==
    /\ pc["ui"] \in {"idle", "poll"}
    /\ batch' = SubSeq(queue, 1, Least(DrainLimit, Len(queue)))
    /\ queue' = <<>>
    /\ pc' = [pc EXCEPT !["ui"] = "apply"]
    /\ UNCHANGED <<runner, worker, screen, command, seen, level, failed>>

\* drain, on the clock's interval or right after a command.
Drain ==
    /\ pc["ui"] \in {"idle", "poll"}
    /\ LET n == Least(DrainLimit, Len(queue))
       IN  /\ batch' = SubSeq(queue, 1, n)
           /\ queue' = SubSeq(queue, n + 1, Len(queue))
    /\ pc' = [pc EXCEPT !["ui"] = "apply"]
    /\ UNCHANGED <<runner, worker, screen, command, seen, level, failed>>

\* _apply reads the view ...
ApplyRead ==
    /\ pc["ui"] = "apply"
    /\ seen' = [seen EXCEPT !["ui"] = view]
    /\ pc' = [pc EXCEPT !["ui"] = IF batch = <<>> THEN "busy" ELSE "replace"]
    /\ UNCHANGED <<queue, runner, worker, screen, command, batch, level, failed>>

\* Mutant: a change of state clears the error that came before it.
AppliedClearing(v, event) ==
    CASE event.kind = "started"  -> [v EXCEPT !.error = FALSE]
      [] event.kind = "failed"   -> [v EXCEPT !.error = TRUE]
      [] event.kind = "captured" -> [v EXCEPT !.captured = TRUE]
      [] event.kind = "changed"  -> [v EXCEPT !.scanner = event.state, !.error = FALSE]
      [] OTHER                   -> v

\* Mutant: the state shown is the kind of the event.
AppliedUnknown(v, event) ==
    CASE event.kind = "started"  -> [v EXCEPT !.error = FALSE]
      [] event.kind = "failed"   -> [v EXCEPT !.error = TRUE]
      [] event.kind = "captured" -> [v EXCEPT !.captured = TRUE]
      [] event.kind = "changed"  -> [v EXCEPT !.scanner = event.kind]
      [] OTHER                   -> v

Applied(v, event) ==
    CASE event.kind = "started"  -> [v EXCEPT !.error = FALSE]
      [] event.kind = "failed"   -> [v EXCEPT !.error = TRUE]
      [] event.kind = "captured" -> [v EXCEPT !.captured = TRUE]
      [] event.kind = "changed"  -> [v EXCEPT !.scanner = event.state]
      [] OTHER                   -> v

\* ... and replaces it.
ApplyWrite ==
    /\ pc["ui"] = "replace"
    /\ view' = Applied(seen["ui"], Head(batch))
    /\ batch' = Tail(batch)
    /\ seen' = [seen EXCEPT !["ui"] = FirstView]
    /\ pc' = [pc EXCEPT !["ui"] = "apply"]
    /\ UNCHANGED <<queue, runner, worker, shown, command, level, failed>>

\* poll asks the runner whether it is busy only after the events are applied.
BusyRead ==
    /\ pc["ui"] = "busy"
    /\ seen' = [seen EXCEPT !["ui"].busy = active]
    /\ pc' = [pc EXCEPT !["ui"] = "show"]
    /\ UNCHANGED <<queue, runner, worker, screen, command, batch, level, failed>>

Show ==
    /\ pc["ui"] = "show"
    /\ view' = seen["ui"]
    /\ shown' = seen["ui"]
    /\ seen' = [seen EXCEPT !["ui"] = FirstView]
    /\ pc' = [pc EXCEPT !["ui"] = "idle"]
    /\ UNCHANGED <<queue, runner, worker, command, batch, level, failed>>

\* Mutant: the runner stays open.
StopOpen ==
    /\ pc["ui"] = "idle"
    /\ count > 0
    /\ jobs' = <<>>
    /\ active' = (active /\ ~ (hooked /\ jobs # <<>>))
    /\ pc' = [pc EXCEPT !["ui"] = "stopping"]
    /\ UNCHANGED <<queue, worker, hooked, closed, count, screen, command, seen, batch,
                   level, failed>>

\* on_stop: the runner is closed and what it has not begun is cancelled; the
\* pedal's callback may still be under way.
Stop ==
    /\ pc["ui"] = "idle"
    /\ count > 0
    /\ closed' = TRUE
    /\ jobs' = <<>>
    /\ active' = (active /\ ~ (hooked /\ jobs # <<>>))
    /\ pc' = [pc EXCEPT !["ui"] = "stopping"]
    /\ UNCHANGED <<queue, worker, hooked, count, screen, command, seen, batch,
                   level, failed>>

\* executor.shutdown(wait=True) returns when the worker has ended.
Stopped ==
    /\ pc["ui"] = "stopping"
    /\ running = "none"
    /\ pc' = [pc EXCEPT !["ui"] = "stopped"]
    /\ UNCHANGED <<queue, runner, worker, screen, command, seen, batch, level, failed>>

-----------------------------------------------------------------------------

Work == Take \/ Emit \/ End

Dispatch(t) == Submit(t) \/ Hook(t) \/ DispatchRead(t) \/ DispatchWrite(t)

Refresh == Drain \/ ApplyRead \/ ApplyWrite \/ BusyRead \/ Show

Next ==
    \/ Work
    \/ \E t \in Threads : Dispatch(t)
    \/ Refresh
    \/ Start
    \/ \E c \in Commands : Press(c)
    \/ PedalMoves
    \/ Stop
    \/ Stopped

Spec == Init /\ [][Next]_vars

\* Threads are scheduled, the clock calls refresh every 50 ms, and operations end, but
\* for initialize: it waits for a scan disk, by default without limit.
Fairness ==
    /\ WF_vars(Work /\ running # "initialize")
    /\ WF_vars(Dispatch("ui") \/ Refresh \/ Stopped)
    /\ WF_vars(Dispatch("pedal"))

FairSpec == Spec /\ Fairness

-----------------------------------------------------------------------------

PedalPlaces == {"idle", "submit", "hook", "read", "write"}

Places == PedalPlaces \cup {"poll", "apply", "replace", "busy", "show", "stopping", "stopped"}

TypeOK ==
    /\ session \in [state : ScannerStates, captured : BOOLEAN, reported : BOOLEAN]
    /\ view \in View
    /\ shown \in View
    /\ seen \in [Threads -> View]
    /\ active \in BOOLEAN
    /\ hooked \in BOOLEAN
    /\ closed \in BOOLEAN
    /\ jobs \in Seq(Commands)
    /\ running \in Commands \cup {"none"}
    /\ count \in Nat
    /\ pc \in [Threads -> Places]
    /\ pc["pedal"] \in PedalPlaces
    /\ command \in [Threads -> Commands]
    /\ level \in {0, 1, NoPedal}
    /\ failed \in BOOLEAN

\* Two threads dispatch commands, yet the executor never has a second one while
\* one is pending or running, and an idle runner has none at all.
OneOperation ==
    LET unfinished == Len(jobs) + (IF running = "none" THEN 0 ELSE 1)
    IN  unfinished <= IF active THEN 1 ELSE 0

\* Once on_stop has returned from shutdown, nothing touches the cameras or the scan
\* disk, which close ejects next, although a pedal press may have been under way.
NothingRunsAfterStop ==
    pc["ui"] = "stopped" => running = "none" /\ jobs = <<>>

\* No command is running, and everything the operator did has reached the screen.
Quiescent ==
    /\ ~active
    /\ queue = <<>>
    /\ \A t \in Threads : pc[t] = "idle"

\* When all is quiet the controls on the screen are those of the session's state; those
\* that need a pair are there once a pair has been reported, and the session has one.
ScreenAgrees ==
    Quiescent => /\ shown.scanner = session.state
                 /\ shown.captured = session.reported
                 /\ shown.captured => session.captured

\* So it is with keyboard and touch screen, whatever the order of commands, events,
\* polls and refreshes, and whichever captures end without an event.
ScreenIsCurrent == level = NoPedal => ScreenAgrees

\* With these, when all is quiet, a failure that the last command reported stands on
\* the screen: neither a dispatch nor a refresh clears one that came later.
FailureIsShown == level = NoPedal /\ Quiescent /\ failed => shown.error

\* The screen does not stay busy: the operator gets the controls back, unless
\* initialize, which runs once, is still waiting for a scan disk.
ControlsReturn == shown.busy ~> (~shown.busy \/ closed \/ running = "initialize")

\* "It does nothing [...] while a capture failure is displayed": the pedal starts no
\* capture while the screen shows a failed one.
PedalSparesFailures ==
    [][Submit("pedal") /\ count' > count => shown.scanner # "capture_failed"]_vars

-----------------------------------------------------------------------------
\* The inductive invariant of OneOperation and NothingRunsAfterStop.

Events == [kind : {"started", "failed", "captured", "note"}]
          \cup [kind : {"changed"}, state : ScannerStates]

EventsInv ==
    /\ todo \in Seq(Events) /\ queue \in Seq(Events) /\ batch \in Seq(Events)
    /\ pc["ui"] = "replace" => batch # <<>>

\* One thread at most has a future whose callback is not registered, and until it is,
\* no other is accepted.
HookInv ==
    /\ \A t \in Threads : pc[t] = "hook" => active /\ ~hooked
    /\ ~(pc["ui"] = "hook" /\ pc["pedal"] = "hook")

\* From on_stop on, a command is neither accepted nor waiting.
StopInv == pc["ui"] \in {"stopping", "stopped"} => closed /\ jobs = <<>>

IInv == TypeOK /\ EventsInv /\ HookInv /\ OneOperation /\ StopInv /\ NothingRunsAfterStop

-----------------------------------------------------------------------------
\* The inductive invariants of ScreenAgrees, ScreenIsCurrent and FailureIsShown.

\* The last of the events E in a sequence is one of G; if there is none, b holds.
Settles(q, E, G, b) ==
    \/ b /\ \A i \in 1..Len(q) : q[i] \notin E
    \/ \E i \in 1..Len(q) : q[i] \in G /\ \A k \in (i + 1)..Len(q) : q[k] \notin E

Changes == {Changed(s) : s \in ScannerStates}

\* What the view agrees on with the session once the worker's events have arrived:
\* those drained, those queued, and those the running command has still to emit.
NewsInv ==
    LET coming == (batch \o queue) \o todo
    IN  /\ Settles(coming, Changes, {Changed(session.state)}, view.scanner = session.state)
        /\ Settles(coming, {Captured}, {e \in {Captured} : session.reported},
                   view.captured = session.reported)
        /\ session.reported => session.captured

\* Events are in one place at a time.
BatchInv ==
    /\ running = "none" => todo = <<>>
    /\ pc["ui"] \notin {"apply", "replace"} => batch = <<>>

Agree(v, w) == v.scanner = w.scanner /\ v.captured = w.captured

\* The view that the UI thread has read is still current, and so is the screen.
CopiesInv ==
    /\ pc["ui"] \in {"write", "replace", "busy", "show"} => Agree(seen["ui"], view)
    /\ pc["ui"] \notin {"poll", "apply", "replace", "busy", "show"} => Agree(shown, view)

ScreenInv == NewsInv /\ BatchInv /\ CopiesInv

\* The pedal's thread puts back what the UI thread has replaced meanwhile.
StaleWrite == DispatchWrite("pedal") /\ ~Agree(seen["pedal"], view)

\* Executions in which that does not happen.
CarefulSpec == Init /\ [][Next /\ ~StaleWrite]_vars

PedalRests == level = NoPedal /\ pc["pedal"] = "idle"

\* Without a pedal: a reported failure is in the view, or on its way there; dispatch,
\* which is about to clear the view's error, does not see it before it is queued.
FailureInv ==
    /\ failed => Settles(batch \o queue, {Started, Failed}, {Failed},
                         view.error /\ pc["ui"] \notin {"hook", "read", "write"})
    /\ pc["ui"] \in {"replace", "busy", "show"} => seen["ui"].error = view.error
    /\ pc["ui"] \notin {"poll", "apply", "replace", "busy", "show"} => shown.error = view.error
    /\ PedalRests
=============================================================================
