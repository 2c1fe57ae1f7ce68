---------------------------- MODULE ScannerUiProofs ----------------------------
(***************************************************************************)
(* The command runner under its two threads: at most one operation, and    *)
(* none after on_stop.  The screen: whenever all is quiet it shows the     *)
(* state of the session and a failure that was reported.  For any number   *)
(* of commands and any limit of drain.                                     *)
(***************************************************************************)
EXTENDS ScannerUi, TLAPS, SequenceTheorems

Session == [state : ScannerStates, captured : BOOLEAN, reported : BOOLEAN]

LEMMA EventTypes ==
    /\ Started \in Events /\ Failed \in Events /\ Captured \in Events /\ Note \in Events
    /\ \A s \in ScannerStates : Changed(s) \in Events
BY DEF Started, Failed, Captured, Note, Changed, Events

Results == [session : Session, events : Seq(Events)]

LEMMA OutcomeResult ==
    ASSUME NEW s \in Session, NEW events \in Seq(Events)
    PROVE  Outcome(s, events) \in Results
BY DEF Outcome, Results

LEMMA LeftInState ==
    ASSUME NEW s \in Session, NEW x \in ScannerStates
    PROVE  [s EXCEPT !.state = x] \in Session
BY DEF Session

\* What _operation leaves and emits.
LEMMA OperationTypes ==
    ASSUME NEW c \in DOMAIN From, NEW s \in Session, NEW r \in Operation(c, s)
    PROVE  r \in Results
<1>1. To[c] \in ScannerStates /\ Raised[c] \subseteq ScannerStates
  BY DEF From, To, Raised, ScannerStates
<1> DEFINE done(m) == [state |-> To[c], captured |-> s.captured \/ c \in {"capture", "rescan"},
                       reported |-> s.reported \/ m # <<>>]
           begin == <<Started, Changed(To[c])>>
<1>2. \A m : done(m) \in Session
  BY <1>1 DEF Session
<1>3. CASE \E more \in {<<>>, <<Captured>>, <<Failed, Captured>>} :
              r = Outcome(done(more), begin \o more)
  <2>1. PICK more \in {<<>>, <<Captured>>, <<Failed, Captured>>} :
              r = Outcome(done(more), begin \o more)
    BY <1>3
  <2>2. <<Captured>> \in Seq(Events) /\ <<Failed, Captured>> \in Seq(Events)
    BY EventTypes
  <2>3. begin \in Seq(Events)
    BY <1>1, EventTypes
  <2> HIDE DEF done, begin
  <2>4. more \in Seq(Events)
    <3>1. <<>> \in Seq(Events)
      OBVIOUS
    <3> QED
      BY <2>1, <2>2, <3>1, Zenon
  <2>5. begin \o more \in Seq(Events)
    BY <2>3, <2>4, ConcatProperties
  <2> QED
    BY <1>2, <2>1, <2>5, OutcomeResult
<1>4. CASE \E x \in ScannerStates :
              r = Outcome([s EXCEPT !.state = x], <<Started, Failed, Changed(x)>>)
  <2>1. PICK x \in ScannerStates :
              r = Outcome([s EXCEPT !.state = x], <<Started, Failed, Changed(x)>>)
    BY <1>4
  <2>2. <<Started, Failed, Changed(x)>> \in Seq(Events)
    BY EventTypes
  <2> QED
    BY <2>1, <2>2, LeftInState, OutcomeResult
<1> QED
  BY <1>1, <1>3, <1>4 DEF Operation, Session

\* Every outcome of a command is a session and a sequence of events.
LEMMA OutcomeTypes ==
    ASSUME NEW c \in Commands, NEW s \in Session, NEW r \in Outcomes(c, s)
    PROVE  r.session \in Session /\ r.events \in Seq(Events)
<1> SUFFICES r \in Results
  BY DEF Results
<1>1. /\ <<>> \in Seq(Events) /\ <<Started>> \in Seq(Events)
      /\ <<Failed>> \in Seq(Events) /\ <<Note>> \in Seq(Events)
  BY EventTypes
<1>2. /\ Outcome(s, <<>>) \in Results /\ Outcome(s, <<Started>>) \in Results
      /\ Outcome(s, <<Failed>>) \in Results /\ Outcome(s, <<Note>>) \in Results
  BY <1>1, OutcomeResult
<1>3. CASE r \in Initialized(s)
  <2>1. [s EXCEPT !.state = "new"] \in Session
    BY LeftInState DEF ScannerStates
  <2>2. <<Started, Note, Changed("new")>> \in Seq(Events) /\ <<Started, Failed>> \in Seq(Events)
    BY EventTypes DEF ScannerStates
  <2>3. /\ Outcome([s EXCEPT !.state = "new"], <<Started, Note, Changed("new")>>) \in Results
        /\ Outcome(s, <<Started, Failed>>) \in Results
    BY <2>1, <2>2, OutcomeResult
  <2> QED
    BY <1>2, <1>3, <2>3 DEF Initialized
<1>4. CASE r \in Swapped(s)
  <2>1. <<Note, Changed(s.state)>> \in Seq(Events)
    BY EventTypes DEF Session
  <2>2. Outcome(s, <<Note, Changed(s.state)>>) \in Results
    BY <2>1, OutcomeResult
  <2> QED
    BY <1>2, <1>4, <2>2 DEF Swapped
<1>5. CASE r \in Reconfigured(s) \cup TurnedOff(s) \cup Inspected(s)
  BY <1>2, <1>5 DEF Reconfigured, TurnedOff, Inspected
<1>6. CASE c \in DOMAIN From /\ r \in Operation(c, s)
  BY <1>6, OperationTypes
<1> QED
  BY <1>2, <1>3, <1>4, <1>5, <1>6 DEF Outcomes, From

\* The views that the three writers of view_model.state put there.
LEMMA ViewTypes ==
    ASSUME NEW v \in View
    PROVE  /\ [v EXCEPT !.busy = TRUE, !.error = FALSE] \in View
           /\ \A b \in BOOLEAN : [v EXCEPT !.busy = b] \in View
           /\ \A event \in Events : Applied(v, event) \in View
<1>1. [v EXCEPT !.busy = TRUE, !.error = FALSE] \in View
  BY DEF View
<1>2. \A b \in BOOLEAN : [v EXCEPT !.busy = b] \in View
  BY DEF View
<1>3. ASSUME NEW event \in Events PROVE Applied(v, event) \in View
  <2>1. \A b \in BOOLEAN : [v EXCEPT !.error = b] \in View /\ [v EXCEPT !.captured = b] \in View
    BY DEF View
  <2>2. event.kind = "changed" => event.state \in ScannerStates
    BY DEF Events
  <2>3. \A x \in ScannerStates : [v EXCEPT !.scanner = x] \in View
    BY DEF View
  <2> QED
    BY <2>1, <2>2, <2>3 DEF Applied
<1> QED
  BY <1>1, <1>2, <1>3

LEMMA FirstIsView == FirstView \in View
BY DEF FirstView, View, ScannerStates

\* A thread that has written back its view forgets it.
LEMMA Forgotten ==
    ASSUME TypeOK, NEW t \in Threads, seen' = [seen EXCEPT ![t] = FirstView]
    PROVE  seen' \in [Threads -> View]
BY FirstIsView DEF TypeOK

LEMMA InitIInv == ASSUME Init PROVE IInv
<1> USE DEF Init
<1>1. TypeOK
  <2>1. view \in View /\ session \in Session
    BY FirstIsView DEF ScannerStates, Session
  <2>2. /\ "initialize" \in Commands /\ "pedal" \in Threads
        /\ "idle" \in PedalPlaces /\ "idle" \in Places
    BY DEF Commands, PedalPlaces, Places, Threads
  <2>3. shown \in View /\ seen \in [Threads -> View]
    BY FirstIsView
  <2>4. pc \in [Threads -> Places] /\ pc["pedal"] \in PedalPlaces
    BY <2>2
  <2>5. command \in [Threads -> Commands] /\ jobs \in Seq(Commands) /\ count \in Nat
    BY <2>2
  <2> QED
    BY <2>1, <2>3, <2>4, <2>5 DEF TypeOK, Session
<1>2. EventsInv
  BY DEF EventsInv, View, ScannerStates, Threads, Commands, Places, PedalPlaces
<1>3. HookInv
  BY DEF HookInv, Threads
<1>4. OneOperation
  BY DEF OneOperation
<1>5. StopInv
  BY DEF StopInv, View, ScannerStates, Threads, Commands, Places, PedalPlaces
<1>6. NothingRunsAfterStop
  BY DEF NothingRunsAfterStop
<1> QED
  BY <1>1, <1>2, <1>3, <1>4, <1>5, <1>6 DEF IInv

LEMMA TakeStep ==
    ASSUME IInv, Take
    PROVE  IInv'
<1> USE DEF IInv
<1>1. TypeOK'
  <2>1. Head(jobs) \in Commands /\ Tail(jobs) \in Seq(Commands)
    BY DEF Take, TypeOK
  <2>2. session' \in Session
    <3>1. PICK r \in Outcomes(Head(jobs), session) : session' = r.session
      BY DEF Take
    <3>2. session \in Session
      BY DEF TypeOK, Session
    <3> QED
      BY <2>1, <3>1, <3>2, OutcomeTypes
  <2> QED
    BY <2>1, <2>2 DEF Take, TypeOK, Session, screen, locals
<1>2. EventsInv'
  <2>1. Head(jobs) \in Commands
    BY DEF Take, TypeOK
  <2>2. todo' \in Seq(Events)
    BY <2>1, OutcomeTypes DEF Take, TypeOK, Session
  <2> QED
    BY <2>2 DEF Take, EventsInv, locals
<1>3. HookInv'
  BY DEF Take, HookInv, screen, locals, Threads
<1>4. OneOperation'
  BY DEF Take, OneOperation, screen, locals
<1>5. StopInv'
  BY DEF Take, StopInv, screen, locals
<1>6. NothingRunsAfterStop'
  BY DEF Take, NothingRunsAfterStop, screen, locals
<1> QED
  BY <1>1, <1>2, <1>3, <1>4, <1>5, <1>6

LEMMA EmitStep ==
    ASSUME IInv, Emit
    PROVE  IInv'
<1> USE DEF IInv
<1>1. TypeOK'
  BY DEF Emit, TypeOK, screen, locals, runner
<1>2. EventsInv'
  BY DEF Emit, EventsInv, runner, screen, locals, Events
<1>3. HookInv'
  BY DEF Emit, HookInv, runner, screen, locals, Threads
<1>4. OneOperation'
  BY DEF Emit, OneOperation, runner, screen, locals
<1>5. StopInv'
  BY DEF Emit, StopInv, runner, screen, locals
<1>6. NothingRunsAfterStop'
  BY DEF Emit, NothingRunsAfterStop, runner, screen, locals
<1> QED
  BY <1>1, <1>2, <1>3, <1>4, <1>5, <1>6

LEMMA EndStep ==
    ASSUME IInv, End
    PROVE  IInv'
<1> USE DEF IInv
<1>1. TypeOK'
  BY DEF End, TypeOK, screen, locals, Places, PedalPlaces, Threads, View
<1>2. EventsInv'
  BY DEF End, EventsInv, screen, locals, Events
<1>3. HookInv'
  BY DEF End, HookInv, screen, locals, Threads
<1>4. OneOperation'
  BY DEF End, OneOperation, screen, locals
<1>5. StopInv'
  BY DEF End, StopInv, screen, locals
<1>6. NothingRunsAfterStop'
  BY DEF End, NothingRunsAfterStop, screen, locals
<1> QED
  BY <1>1, <1>2, <1>3, <1>4, <1>5, <1>6

LEMMA SubmitStep ==
    ASSUME IInv, NEW t \in Threads, Submit(t)
    PROVE  IInv'
<1> USE DEF IInv
<1>1. TypeOK'
  <2>1. jobs' \in Seq(Commands) /\ count' \in Nat
    <3>1. command[t] \in Commands /\ count + 1 \in Nat
      BY DEF TypeOK
    <3>2. Append(jobs, command[t]) \in Seq(Commands)
      BY <3>1, AppendProperties DEF TypeOK
    <3>3. (jobs' = jobs /\ count' = count) \/ (jobs' = Append(jobs, command[t]) /\ count' = count + 1)
      BY DEF Submit, runner
    <3> QED
      BY <3>1, <3>2, <3>3 DEF TypeOK
  <2>2. pc' \in [Threads -> Places] /\ pc'["pedal"] \in PedalPlaces
    BY DEF Submit, TypeOK, Threads, Places, PedalPlaces
  <2>3. command' \in [Threads -> Commands]
    BY DEF Submit, TypeOK, Commands
  <2> QED
    BY <2>1, <2>2, <2>3 DEF Submit, TypeOK, worker, screen, runner
<1>2. EventsInv'
  BY DEF Submit, EventsInv, TypeOK, runner, worker, screen, Places, PedalPlaces,
         Threads, View, Events
<1>3. HookInv'
  BY DEF Submit, HookInv, TypeOK, runner, worker, screen, Places, PedalPlaces,
         Threads, View
<1>4. OneOperation'
  BY DEF Submit, OneOperation, runner, worker, screen
<1>5. StopInv'
  BY DEF Submit, StopInv, TypeOK, runner, worker, screen, Places, PedalPlaces,
         Threads, View
<1>6. NothingRunsAfterStop'
  BY DEF Submit, NothingRunsAfterStop, TypeOK, EventsInv, HookInv, OneOperation,
         StopInv, runner, worker, screen, Places, PedalPlaces, Threads, View, Events
<1> QED
  BY <1>1, <1>2, <1>3, <1>4, <1>5, <1>6

LEMMA HookStep ==
    ASSUME IInv, NEW t \in Threads, Hook(t)
    PROVE  IInv'
<1> USE DEF IInv
<1>1. TypeOK'
  BY DEF Hook, TypeOK, worker, screen, Places, PedalPlaces, Threads, View
<1>2. EventsInv'
  BY DEF Hook, EventsInv, worker, screen, Events
<1>3. HookInv'
  BY DEF Hook, HookInv, TypeOK, worker, screen, Places, PedalPlaces, Threads, View
<1>4. OneOperation'
  BY DEF Hook, OneOperation, TypeOK, worker, screen, Places, PedalPlaces, Threads,
         View
<1>5. StopInv'
  BY DEF Hook, StopInv, worker, screen
<1>6. NothingRunsAfterStop'
  BY DEF Hook, NothingRunsAfterStop, worker, screen
<1> QED
  BY <1>1, <1>2, <1>3, <1>4, <1>5, <1>6

LEMMA DispatchReadStep ==
    ASSUME IInv, NEW t \in Threads, DispatchRead(t)
    PROVE  IInv'
<1> USE DEF IInv
<1>1. TypeOK'
  <2>1. seen' \in [Threads -> View]
    BY ViewTypes DEF DispatchRead, TypeOK
  <2> QED
    BY <2>1
       DEF DispatchRead, TypeOK, worker, screen, runner, Threads, Places,
           PedalPlaces
<1>2. EventsInv'
  BY DEF DispatchRead, EventsInv, runner, worker, screen, Events
<1>3. HookInv'
  BY DEF DispatchRead, HookInv, runner, worker, screen, Threads
<1>4. OneOperation'
  BY DEF DispatchRead, OneOperation, runner, worker, screen
<1>5. StopInv'
  BY DEF DispatchRead, StopInv, runner, worker, screen
<1>6. NothingRunsAfterStop'
  BY DEF DispatchRead, NothingRunsAfterStop, runner, worker, screen
<1> QED
  BY <1>1, <1>2, <1>3, <1>4, <1>5, <1>6

LEMMA DispatchWriteStep ==
    ASSUME IInv, NEW t \in Threads, DispatchWrite(t)
    PROVE  IInv'
<1> USE DEF IInv
<1>1. TypeOK'
  <2>1. seen' \in [Threads -> View]
    BY Forgotten DEF DispatchWrite
  <2>2. view' \in View
    BY DEF DispatchWrite, TypeOK
  <2>3. pc' \in [Threads -> Places] /\ pc'["pedal"] \in PedalPlaces
    BY DEF DispatchWrite, TypeOK, Threads, Places, PedalPlaces
  <2> QED
    BY <2>1, <2>2, <2>3 DEF DispatchWrite, TypeOK, runner, worker
<1>2. EventsInv'
  BY DEF DispatchWrite, EventsInv, runner, worker, Events
<1>3. HookInv'
  BY DEF DispatchWrite, HookInv, runner, worker, Threads
<1>4. OneOperation'
  BY DEF DispatchWrite, OneOperation, runner, worker
<1>5. StopInv'
  BY DEF DispatchWrite, StopInv, runner, worker
<1>6. NothingRunsAfterStop'
  BY DEF DispatchWrite, NothingRunsAfterStop, runner, worker
<1> QED
  BY <1>1, <1>2, <1>3, <1>4, <1>5, <1>6

LEMMA DrainStep ==
    ASSUME IInv, Drain
    PROVE  IInv'
<1> USE DEF IInv
<1>1. TypeOK'
  BY DEF Drain, TypeOK, runner, worker, screen, Places, PedalPlaces, Threads, View
<1>2. EventsInv'
  <2>1. batch' \in Seq(Events) /\ queue' \in Seq(Events)
    BY LimitAssumption DEF Drain, EventsInv, Least
  <2> QED
    BY <2>1 DEF Drain, EventsInv, worker
<1>3. HookInv'
  BY DEF Drain, HookInv, runner, worker, screen, Threads
<1>4. OneOperation'
  BY DEF Drain, OneOperation, runner, worker, screen
<1>5. StopInv'
  BY DEF Drain, StopInv, runner, worker, screen
<1>6. NothingRunsAfterStop'
  BY DEF Drain, NothingRunsAfterStop, runner, worker, screen
<1> QED
  BY <1>1, <1>2, <1>3, <1>4, <1>5, <1>6

LEMMA ApplyReadStep ==
    ASSUME IInv, ApplyRead
    PROVE  IInv'
<1> USE DEF IInv
<1>1. TypeOK'
  BY DEF ApplyRead, TypeOK, runner, worker, screen, Places, PedalPlaces, Threads,
         View
<1>2. EventsInv'
  BY DEF ApplyRead, EventsInv, runner, worker, screen, Events
<1>3. HookInv'
  BY DEF ApplyRead, HookInv, runner, worker, screen, Threads
<1>4. OneOperation'
  BY DEF ApplyRead, OneOperation, runner, worker, screen
<1>5. StopInv'
  BY DEF ApplyRead, StopInv, runner, worker, screen
<1>6. NothingRunsAfterStop'
  BY DEF ApplyRead, NothingRunsAfterStop, runner, worker, screen
<1> QED
  BY <1>1, <1>2, <1>3, <1>4, <1>5, <1>6

LEMMA ApplyWriteStep ==
    ASSUME IInv, ApplyWrite
    PROVE  IInv'
<1> USE DEF IInv
<1>1. TypeOK'
  <2>1. Head(batch) \in Events
    BY DEF ApplyWrite, EventsInv
  <2>2. view' \in View
    BY <2>1, ViewTypes DEF ApplyWrite, TypeOK, Threads
  <2>3. seen' \in [Threads -> View]
    BY Forgotten DEF ApplyWrite, Threads
  <2> QED
    BY <2>2, <2>3 DEF ApplyWrite, TypeOK, worker, runner, Threads, Places, PedalPlaces
<1>2. EventsInv'
  BY DEF ApplyWrite, EventsInv, TypeOK, runner, worker, Places, PedalPlaces,
         Threads, View, Applied, Events
<1>3. HookInv'
  BY DEF ApplyWrite, HookInv, runner, worker, Threads, Applied
<1>4. OneOperation'
  BY DEF ApplyWrite, OneOperation, runner, worker, Applied
<1>5. StopInv'
  BY DEF ApplyWrite, StopInv, runner, worker, Applied
<1>6. NothingRunsAfterStop'
  BY DEF ApplyWrite, NothingRunsAfterStop, runner, worker, Applied
<1> QED
  BY <1>1, <1>2, <1>3, <1>4, <1>5, <1>6

LEMMA BusyReadStep ==
    ASSUME IInv, BusyRead
    PROVE  IInv'
<1> USE DEF IInv
<1>1. TypeOK'
  <2>1. [seen["ui"] EXCEPT !.busy = active] \in View
    BY ViewTypes DEF TypeOK, Threads
  <2>2. seen' = [seen EXCEPT !["ui"] = [seen["ui"] EXCEPT !.busy = active]]
    BY DEF BusyRead
  <2>3. seen' \in [Threads -> View]
    BY <2>1, <2>2 DEF TypeOK
  <2> QED
    BY <2>3
       DEF BusyRead, TypeOK, worker, screen, runner, Threads, Places, PedalPlaces
<1>2. EventsInv'
  BY DEF BusyRead, EventsInv, runner, worker, screen, Events
<1>3. HookInv'
  BY DEF BusyRead, HookInv, runner, worker, screen, Threads
<1>4. OneOperation'
  BY DEF BusyRead, OneOperation, runner, worker, screen
<1>5. StopInv'
  BY DEF BusyRead, StopInv, runner, worker, screen
<1>6. NothingRunsAfterStop'
  BY DEF BusyRead, NothingRunsAfterStop, runner, worker, screen
<1> QED
  BY <1>1, <1>2, <1>3, <1>4, <1>5, <1>6

LEMMA ShowStep ==
    ASSUME IInv, Show
    PROVE  IInv'
<1> USE DEF IInv
<1>1. TypeOK'
  <2>1. seen' \in [Threads -> View]
    BY Forgotten DEF Show, Threads
  <2>2. view' \in View /\ shown' \in View
    BY DEF Show, TypeOK, Threads
  <2> QED
    BY <2>1, <2>2 DEF Show, TypeOK, runner, worker, Places, PedalPlaces, Threads
<1>2. EventsInv'
  BY DEF Show, EventsInv, runner, worker, Events
<1>3. HookInv'
  BY DEF Show, HookInv, runner, worker, Threads
<1>4. OneOperation'
  BY DEF Show, OneOperation, runner, worker
<1>5. StopInv'
  BY DEF Show, StopInv, runner, worker
<1>6. NothingRunsAfterStop'
  BY DEF Show, NothingRunsAfterStop, runner, worker
<1> QED
  BY <1>1, <1>2, <1>3, <1>4, <1>5, <1>6

LEMMA StartStep ==
    ASSUME IInv, Start
    PROVE  IInv'
<1> USE DEF IInv
<1>1. TypeOK'
  BY DEF Start, TypeOK, GoesOn, worker, screen, runner, Threads, Commands, Places,
         PedalPlaces
<1>2. EventsInv'
  BY DEF Start, EventsInv, runner, worker, screen, GoesOn, Events
<1>3. HookInv'
  BY DEF Start, HookInv, runner, worker, screen, Threads, GoesOn
<1>4. OneOperation'
  BY DEF Start, OneOperation, runner, worker, screen, GoesOn
<1>5. StopInv'
  BY DEF Start, StopInv, runner, worker, screen, GoesOn
<1>6. NothingRunsAfterStop'
  BY DEF Start, NothingRunsAfterStop, runner, worker, screen, GoesOn
<1> QED
  BY <1>1, <1>2, <1>3, <1>4, <1>5, <1>6

LEMMA PressStep ==
    ASSUME IInv, NEW c \in Commands, Press(c)
    PROVE  IInv'
<1> USE DEF IInv
<1>1. TypeOK'
  BY DEF Press, TypeOK, runner, worker, screen, Places, PedalPlaces, Threads, View,
         GoesOn
<1>2. EventsInv'
  BY DEF Press, EventsInv, runner, worker, screen, GoesOn, Events
<1>3. HookInv'
  BY DEF Press, HookInv, runner, worker, screen, Threads, GoesOn
<1>4. OneOperation'
  BY DEF Press, OneOperation, runner, worker, screen, GoesOn
<1>5. StopInv'
  BY DEF Press, StopInv, runner, worker, screen, GoesOn
<1>6. NothingRunsAfterStop'
  BY DEF Press, NothingRunsAfterStop, runner, worker, screen, GoesOn
<1> QED
  BY <1>1, <1>2, <1>3, <1>4, <1>5, <1>6

LEMMA PedalMovesStep ==
    ASSUME IInv, PedalMoves
    PROVE  IInv'
<1> USE DEF IInv
<1>1. TypeOK'
  <2>1. pc' \in [Threads -> Places] /\ pc'["pedal"] \in PedalPlaces
    BY DEF PedalMoves, TypeOK, GoesOn, Threads, Places, PedalPlaces
  <2>2. command' \in [Threads -> Commands] /\ level' \in {0, 1, NoPedal}
    BY DEF PedalMoves, TypeOK, GoesOn, Threads, Commands
  <2> QED
    BY <2>1, <2>2 DEF PedalMoves, TypeOK, worker, screen, runner
<1>2. EventsInv'
  BY DEF PedalMoves, EventsInv, TypeOK, runner, worker, screen, Places, PedalPlaces,
         Threads, View, GoesOn, Events
<1>3. HookInv'
  BY DEF PedalMoves, HookInv, TypeOK, runner, worker, screen, Places, PedalPlaces,
         Threads, View, GoesOn
<1>4. OneOperation'
  BY DEF PedalMoves, OneOperation, runner, worker, screen, GoesOn
<1>5. StopInv'
  BY DEF PedalMoves, StopInv, TypeOK, runner, worker, screen, Places, PedalPlaces,
         Threads, View, GoesOn
<1>6. NothingRunsAfterStop'
  BY DEF PedalMoves, NothingRunsAfterStop, TypeOK, runner, worker, screen, Places,
         PedalPlaces, Threads, View, GoesOn
<1> QED
  BY <1>1, <1>2, <1>3, <1>4, <1>5, <1>6

LEMMA StopStep ==
    ASSUME IInv, Stop
    PROVE  IInv'
<1> USE DEF IInv
<1>1. TypeOK'
  BY DEF Stop, TypeOK, worker, screen, Places, PedalPlaces, Threads, View
<1>2. EventsInv'
  BY DEF Stop, EventsInv, worker, screen, Events
<1>3. HookInv'
  BY DEF Stop, HookInv, TypeOK, worker, screen, Places, PedalPlaces, Threads, View
<1>4. OneOperation'
  BY DEF Stop, OneOperation, TypeOK, worker, screen, Places, PedalPlaces, Threads,
         View
<1>5. StopInv'
  BY DEF Stop, StopInv, worker, screen
<1>6. NothingRunsAfterStop'
  BY DEF Stop, NothingRunsAfterStop, worker, screen
<1> QED
  BY <1>1, <1>2, <1>3, <1>4, <1>5, <1>6

LEMMA StoppedStep ==
    ASSUME IInv, Stopped
    PROVE  IInv'
<1> USE DEF IInv
<1>1. TypeOK'
  BY DEF Stopped, TypeOK, runner, worker, screen, Places, PedalPlaces, Threads, View
<1>2. EventsInv'
  BY DEF Stopped, EventsInv, runner, worker, screen, Events
<1>3. HookInv'
  BY DEF Stopped, HookInv, runner, worker, screen, Threads
<1>4. OneOperation'
  BY DEF Stopped, OneOperation, runner, worker, screen
<1>5. StopInv'
  BY DEF Stopped, StopInv, runner, worker, screen
<1>6. NothingRunsAfterStop'
  BY DEF Stopped, NothingRunsAfterStop, TypeOK, EventsInv, HookInv, OneOperation,
         StopInv, runner, worker, screen, Places, PedalPlaces, Threads, View, Events
<1> QED
  BY <1>1, <1>2, <1>3, <1>4, <1>5, <1>6

LEMMA StutterStep == ASSUME IInv, UNCHANGED vars PROVE IInv'
BY DEF IInv, vars, runner, worker, screen, locals, TypeOK, EventsInv, HookInv,
       OneOperation, StopInv, NothingRunsAfterStop

LEMMA NextStep == ASSUME IInv, [Next]_vars PROVE IInv'
BY TakeStep, EmitStep, EndStep, SubmitStep, HookStep, DispatchReadStep,
   DispatchWriteStep, DrainStep, ApplyReadStep, ApplyWriteStep, BusyReadStep,
   ShowStep, StartStep, PressStep, PedalMovesStep, StopStep, StoppedStep,
   StutterStep DEF Next, Work, Dispatch, Refresh

\* IInv holds in every state, however the three threads interleave.
THEOREM InvariantHolds == Spec => []IInv
<1>1. Init => IInv
  BY InitIInv
<1>2. IInv /\ [Next]_vars => IInv'
  BY NextStep
<1> QED
  BY <1>1, <1>2, PTL DEF Spec

\* Types are as declared.
THEOREM TypeCorrect == Spec => []TypeOK
<1>1. IInv => TypeOK
  BY DEF IInv
<1> QED
  BY <1>1, InvariantHolds, PTL

\* The runner never has two operations, whichever thread submits and whenever the
\* callback is registered.
THEOREM RunnerHasOneOperation == Spec => []OneOperation
<1>1. IInv => OneOperation
  BY DEF IInv
<1> QED
  BY <1>1, InvariantHolds, PTL

\* After on_stop no operation is running or waiting.
THEOREM StopEndsWork == Spec => []NothingRunsAfterStop
<1>1. IInv => NothingRunsAfterStop
  BY DEF IInv
<1> QED
  BY <1>1, InvariantHolds, PTL

-----------------------------------------------------------------------------
\* Sequences of events and what settles with the last of them.

LEMMA SettlesEmpty ==
    ASSUME NEW E, NEW G, NEW b
    PROVE  Settles(<<>>, E, G, b) <=> b
BY DEF Settles

LEMMA SettlesConcat ==
    ASSUME NEW S, NEW q \in Seq(S), NEW r \in Seq(S), NEW E, NEW G, NEW H,
           NEW b, NEW c, NEW d,
           Settles(q, E, G, b), Settles(r, E, H, c),
           c => G \subseteq H /\ (b => d)
    PROVE  Settles(q \o r, E, H, d)
<1> DEFINE m == Len(q)
           n == Len(r)
           s == q \o r
<1>1. m \in Nat /\ n \in Nat /\ Len(s) = m + n
  BY ConcatProperties, LenProperties
<1>2. /\ \A i \in 1..m : s[i] = q[i]
      /\ \A i \in (m + 1)..(m + n) : s[i] = r[i - m]
  BY <1>1, ConcatProperties
<1> HIDE DEF m, n, s
<1>3. CASE \E i \in 1..n : r[i] \in H /\ \A k \in (i + 1)..n : r[k] \notin E
  <2>1. PICK i \in 1..n : r[i] \in H /\ \A k \in (i + 1)..n : r[k] \notin E
    BY <1>3
  <2>2. m + i \in 1..(m + n) /\ s[m + i] \in H
    BY <1>1, <1>2, <2>1
  <2>3. ASSUME NEW k \in (m + i + 1)..(m + n) PROVE s[k] \notin E
    <3>1. k - m \in (i + 1)..n /\ k \in (m + 1)..(m + n)
      BY <1>1
    <3> QED
      BY <1>2, <2>1, <3>1
  <2> QED
    BY <1>1, <2>2, <2>3 DEF Settles, s
<1>4. CASE c /\ \A i \in 1..n : r[i] \notin E
  <2>1. ASSUME NEW k \in (m + 1)..(m + n) PROVE s[k] \notin E
    <3>1. k - m \in 1..n
      BY <1>1
    <3> QED
      BY <1>2, <1>4, <3>1
  <2>2. CASE b /\ \A i \in 1..m : q[i] \notin E
    <3>1. \A i \in 1..(m + n) : s[i] \notin E
      <4> TAKE i \in 1..(m + n)
      <4>1. i \in 1..m \/ i \in (m + 1)..(m + n)
        BY <1>1
      <4> QED
        BY <1>2, <2>1, <2>2, <4>1
    <3> QED
      BY <1>1, <1>4, <2>2, <3>1 DEF Settles, s
  <2>3. CASE \E i \in 1..m : q[i] \in G /\ \A k \in (i + 1)..m : q[k] \notin E
    <3>1. PICK i \in 1..m : q[i] \in G /\ \A k \in (i + 1)..m : q[k] \notin E
      BY <2>3
    <3>2. i \in 1..(m + n) /\ s[i] \in H
      BY <1>1, <1>2, <1>4, <3>1
    <3>3. ASSUME NEW k \in (i + 1)..(m + n) PROVE s[k] \notin E
      <4>1. k \in (i + 1)..m \/ k \in (m + 1)..(m + n)
        BY <1>1
      <4>2. k \in (i + 1)..m => k \in 1..m
        BY <1>1
      <4> QED
        BY <1>2, <2>1, <3>1, <4>1, <4>2
    <3> QED
      BY <1>1, <3>2, <3>3 DEF Settles, s
  <2> QED
    BY <2>2, <2>3 DEF Settles, m
<1> QED
  BY <1>3, <1>4 DEF Settles, n

\* The head of a sequence is applied, and the rest settles from there.
LEMMA SettlesTail ==
    ASSUME NEW S, NEW q \in Seq(S), q # <<>>, NEW E, NEW G, G \subseteq E, NEW b, NEW d,
           Settles(q, E, G, b),
           Head(q) \in G => d,
           Head(q) \notin E /\ b => d
    PROVE  Settles(Tail(q), E, G, d)
<1> DEFINE t == Tail(q)
           m == Len(t)
<1>1. /\ Len(q) \in Nat /\ Len(q) # 0 /\ m \in Nat /\ m = Len(q) - 1
      /\ Head(q) = q[1] /\ 1 \in 1..Len(q)
  BY HeadTailProperties, LenProperties, EmptySeq
<1>2. \A i \in 1..m : t[i] = q[i + 1] /\ i + 1 \in 2..Len(q)
  BY <1>1, HeadTailProperties
<1> HIDE DEF t, m
<1>3. CASE b /\ \A i \in 1..Len(q) : q[i] \notin E
  <2>1. \A i \in 1..m : t[i] \notin E
    BY <1>1, <1>2, <1>3
  <2>2. d
    BY <1>1, <1>3
  <2> QED
    BY <2>1, <2>2 DEF Settles, t, m
<1>4. CASE \E i \in 1..Len(q) : q[i] \in G /\ \A k \in (i + 1)..Len(q) : q[k] \notin E
  <2>1. PICK i \in 1..Len(q) : q[i] \in G /\ \A k \in (i + 1)..Len(q) : q[k] \notin E
    BY <1>4
  <2>2. \A k \in 1..m : k + 1 > i => t[k] \notin E
    BY <1>1, <1>2, <2>1
  <2>3. CASE i = 1
    <3>1. \A k \in 1..m : t[k] \notin E
      BY <1>1, <2>2, <2>3
    <3>2. d
      BY <1>1, <2>1, <2>3
    <3> QED
      BY <3>1, <3>2 DEF Settles, t, m
  <2>4. CASE i > 1
    <3>1. i - 1 \in 1..m /\ t[i - 1] \in G
      BY <1>1, <1>2, <2>1, <2>4
    <3>2. \A k \in ((i - 1) + 1)..m : t[k] \notin E
      BY <1>1, <2>2, <2>4
    <3> QED
      BY <3>1, <3>2 DEF Settles, t, m
  <2> QED
    BY <2>3, <2>4
<1> QED
  BY <1>3, <1>4 DEF Settles

\* The kinds tell events apart.
LEMMA Kinds ==
    /\ Started \notin Changes /\ Failed \notin Changes /\ Captured \notin Changes
    /\ Note \notin Changes /\ Started # Captured /\ Failed # Captured /\ Note # Captured
    /\ Started # Failed /\ Captured # Failed /\ Note # Failed /\ Note # Started
    /\ Captured # Started
    /\ \A s \in ScannerStates : /\ Changed(s) \in Changes /\ Changed(s) # Captured
                                /\ Changed(s) # Failed /\ Changed(s) # Started
                                /\ Changed(s).kind = "changed" /\ Changed(s).state = s
BY DEF Started, Failed, Captured, Note, Changed, Changes

\* The events of a result tell how its session differs from the one before.
Tells(s, result) ==
    /\ Settles(result.events, Changes, {Changed(result.session.state)},
               s.state = result.session.state)
    /\ Settles(result.events, {Captured}, {e \in {Captured} : result.session.reported},
               s.reported = result.session.reported)
    /\ (s.reported => s.captured) => (result.session.reported => result.session.captured)

LEMMA OperationTells ==
    ASSUME NEW c \in DOMAIN From, NEW s \in Session, NEW r \in Operation(c, s)
    PROVE  Tells(s, r)
<1>1. To[c] \in ScannerStates /\ Raised[c] \subseteq ScannerStates
  BY DEF From, To, Raised, ScannerStates
<1> DEFINE pair == c \in {"capture", "rescan"}
           done(m) == [state |-> To[c], captured |-> s.captured \/ pair,
                       reported |-> s.reported \/ m # <<>>]
           begin == <<Started, Changed(To[c])>>
<1>2. begin \in Seq(Events)
  BY <1>1, EventTypes
<1>3. Settles(begin, Changes, {Changed(To[c])}, s.state = To[c])
  BY <1>1, Kinds DEF Settles
<1>4. Settles(begin, {Captured}, {}, TRUE)
  BY <1>1, Kinds DEF Settles
<1>5. ASSUME NEW more \in {<<Captured>>, <<Failed, Captured>>}, pair,
             r = Outcome(done(more), begin \o more)
      PROVE  Tells(s, r)
  <2>1. more \in Seq(Events)
    <3>1. <<Captured>> \in Seq(Events) /\ <<Failed, Captured>> \in Seq(Events)
      BY EventTypes
    <3> QED
      BY <1>5, <3>1, Zenon
  <2>2. Settles(more, Changes, {}, TRUE)
    BY Kinds DEF Settles
  <2>3. Settles(more, {Captured}, {Captured}, FALSE)
    BY Kinds DEF Settles
  <2>4. /\ r.session.state = To[c] /\ r.session.captured = TRUE
        /\ r.session.reported = TRUE /\ r.events = begin \o more
    <3>1. more # <<>>
      BY <1>5
    <3>2. r.session = done(more) /\ r.events = begin \o more
      BY <1>5 DEF Outcome
    <3>3. (s.captured \/ pair) = TRUE /\ (s.reported \/ more # <<>>) = TRUE
      BY <1>5, <3>1, Zenon
    <3>4. r.session = [state |-> To[c], captured |-> TRUE, reported |-> TRUE]
      BY <3>2, <3>3, Zenon
    <3> QED
      BY <3>2, <3>4
  <2> HIDE DEF begin
  <2>5. Settles(more, Changes, {Changed(To[c])}, TRUE)
    BY <2>2 DEF Settles
  <2>6. Settles(begin \o more, Changes, {Changed(To[c])}, s.state = To[c])
    BY <1>2, <1>3, <2>1, <2>5, SettlesConcat
  <2>7. Settles(begin \o more, {Captured}, {Captured}, s.reported = TRUE)
    BY <1>2, <1>4, <2>1, <2>3, SettlesConcat
  <2> QED
    BY <2>4, <2>6, <2>7 DEF Tells
<1>6. ASSUME r = Outcome(done(<<>>), begin \o <<>>) PROVE Tells(s, r)
  <2>1. begin \o <<>> = begin
    BY <1>2, ConcatEmptySeq
  <2>2. /\ r.session.state = To[c] /\ r.session.reported = s.reported /\ r.events = begin
        /\ s.captured => r.session.captured
    BY <1>6, <2>1 DEF Outcome, Session
  <2>3. Settles(begin, {Captured}, {e \in {Captured} : r.session.reported},
                s.reported = r.session.reported)
    BY <1>1, <2>2, Kinds DEF Settles
  <2> QED
    BY <1>3, <2>2, <2>3 DEF Tells
<1>7. ASSUME NEW x \in ScannerStates,
             r = Outcome([s EXCEPT !.state = x], <<Started, Failed, Changed(x)>>)
      PROVE  Tells(s, r)
  <2>1. /\ r.session.state = x /\ r.session.captured = s.captured
        /\ r.session.reported = s.reported
        /\ r.events = <<Started, Failed, Changed(x)>>
    BY <1>7 DEF Outcome, Session
  <2>2. Settles(r.events, Changes, {Changed(x)}, s.state = x)
    BY <2>1, Kinds DEF Settles
  <2>3. Settles(r.events, {Captured}, {e \in {Captured} : r.session.reported},
                s.reported = r.session.reported)
    BY <2>1, Kinds DEF Settles
  <2> QED
    BY <2>1, <2>2, <2>3 DEF Tells
<1>8. \/ pair /\ \E more \in {<<Captured>>, <<Failed, Captured>>} :
                   r = Outcome(done(more), begin \o more)
      \/ r = Outcome(done(<<>>), begin \o <<>>)
      \/ \E x \in ScannerStates :
           r = Outcome([s EXCEPT !.state = x], <<Started, Failed, Changed(x)>>)
  BY <1>1 DEF Operation, Session
<1> QED
  BY <1>5, <1>6, <1>7, <1>8

\* So do those of every command.
LEMMA OutcomeTells ==
    ASSUME NEW c \in Commands, NEW s \in Session, NEW r \in Outcomes(c, s)
    PROVE  Tells(s, r)
<1>1. ASSUME NEW events \in {<<>>, <<Started>>, <<Failed>>, <<Note>>, <<Started, Failed>>},
             r = Outcome(s, events)
      PROVE  Tells(s, r)
  <2>1. r.session = s /\ r.events = events
    BY <1>1 DEF Outcome
  <2>2. \A i \in 1..Len(events) : events[i] \notin Changes /\ events[i] # Captured
    BY Kinds
  <2> QED
    BY <2>1, <2>2 DEF Tells, Settles
<1>2. CASE r \in Initialized(s)
  <2>1. CASE r = Outcome([s EXCEPT !.state = "new"], <<Started, Note, Changed("new")>>)
    <3>1. /\ r.session.state = "new" /\ r.session.captured = s.captured
          /\ r.session.reported = s.reported
          /\ r.events = <<Started, Note, Changed("new")>> /\ "new" \in ScannerStates
      BY <2>1 DEF Outcome, Session, ScannerStates
    <3>2. Settles(r.events, Changes, {Changed("new")}, s.state = "new")
      BY <3>1, Kinds DEF Settles
    <3>3. Settles(r.events, {Captured}, {e \in {Captured} : r.session.reported},
                  s.reported = r.session.reported)
      BY <3>1, Kinds DEF Settles
    <3> QED
      BY <3>1, <3>2, <3>3 DEF Tells
  <2> QED
    BY <1>1, <1>2, <2>1 DEF Initialized
<1>3. CASE r \in Swapped(s)
  <2>1. CASE r = Outcome(s, <<Note, Changed(s.state)>>)
    <3>1. r.session = s /\ r.events = <<Note, Changed(s.state)>> /\ s.state \in ScannerStates
      BY <2>1 DEF Outcome, Session
    <3>2. Settles(r.events, Changes, {Changed(s.state)}, s.state = s.state)
      BY <3>1, Kinds DEF Settles
    <3>3. Settles(r.events, {Captured}, {e \in {Captured} : s.reported},
                  s.reported = s.reported)
      BY <3>1, Kinds DEF Settles
    <3> QED
      BY <3>1, <3>2, <3>3 DEF Tells
  <2> QED
    BY <1>1, <1>3, <2>1 DEF Swapped
<1>4. CASE r \in Reconfigured(s) \cup TurnedOff(s) \cup Inspected(s)
  BY <1>1, <1>4 DEF Reconfigured, TurnedOff, Inspected
<1>5. CASE c \in DOMAIN From /\ r \in Operation(c, s)
  BY <1>5, OperationTells
<1>6. r = Outcome(s, <<>>) => Tells(s, r)
  BY <1>1
<1> QED
  BY <1>2, <1>3, <1>4, <1>5, <1>6 DEF Outcomes, From

-----------------------------------------------------------------------------
\* The screen follows the session.

ScreenIInv == IInv /\ ScreenInv

\* Where the worker's events stand and what the view shows are as before.
LEMMA SameNews ==
    ASSUME NewsInv, UNCHANGED <<batch, queue, todo, session>>, Agree(view', view)
    PROVE  NewsInv'
BY DEF NewsInv, Agree

LEMMA InitScreen == ASSUME Init PROVE ScreenInv
<1>1. (batch \o queue) \o todo = <<>>
  BY DEF Init
<1>2. NewsInv
  BY <1>1, SettlesEmpty DEF Init, NewsInv, FirstView
<1>3. BatchInv /\ CopiesInv
  BY DEF Init, BatchInv, CopiesInv, Agree, Threads
<1> QED
  BY <1>2, <1>3 DEF ScreenInv

LEMMA TakeScreen ==
    ASSUME ScreenIInv, Take
    PROVE  ScreenInv'
<1> USE DEF ScreenIInv, ScreenInv
<1>1. PICK r \in Outcomes(Head(jobs), session) : session' = r.session /\ todo' = r.events
  BY DEF Take
<1>2. session \in Session /\ Head(jobs) \in Commands
  BY DEF IInv, TypeOK, Session, Take
<1>3. /\ session' \in Session /\ todo' \in Seq(Events) /\ Tells(session, r)
  BY <1>1, <1>2, OutcomeTypes, OutcomeTells
<1>4. batch \o queue \in Seq(Events) /\ (batch \o queue) \o todo = batch \o queue
  <2>1. batch \o queue \in Seq(Events)
    BY ConcatProperties DEF IInv, EventsInv
  <2> QED
    BY <2>1, ConcatEmptySeq DEF Take, BatchInv
<1>5. batch' = batch /\ queue' = queue /\ view' = view
  BY DEF Take, screen, locals
<1>6. Settles((batch \o queue) \o todo', Changes, {Changed(session'.state)},
              view.scanner = session'.state)
  <2>1. Settles(batch \o queue, Changes, {Changed(session.state)},
                view.scanner = session.state)
    BY <1>4 DEF NewsInv
  <2>2. Settles(todo', Changes, {Changed(session'.state)}, session.state = session'.state)
    BY <1>1, <1>3 DEF Tells
  <2> QED
    BY <1>3, <1>4, <2>1, <2>2, SettlesConcat
<1>7. Settles((batch \o queue) \o todo', {Captured}, {e \in {Captured} : session'.reported},
              view.captured = session'.reported)
  <2>1. Settles(batch \o queue, {Captured}, {e \in {Captured} : session.reported},
                view.captured = session.reported)
    BY <1>4 DEF NewsInv
  <2>2. Settles(todo', {Captured}, {e \in {Captured} : session'.reported},
                session.reported = session'.reported)
    BY <1>1, <1>3 DEF Tells
  <2>3. session.reported = session'.reported =>
          /\ {e \in {Captured} : session.reported} \subseteq {e \in {Captured} : session'.reported}
          /\ view.captured = session.reported => view.captured = session'.reported
    OBVIOUS
  <2> QED
    BY <1>3, <1>4, <2>1, <2>2, <2>3, SettlesConcat
<1>8. NewsInv'
  <2>1. session'.reported => session'.captured
    BY <1>1, <1>3 DEF NewsInv, Tells
  <2> QED
    BY <1>5, <1>6, <1>7, <2>1 DEF NewsInv
<1>9. BatchInv'
  <2>1. running' \in Commands
    BY HeadTailProperties DEF Take, IInv, TypeOK
  <2>2. running' # "none"
    BY <2>1 DEF Commands
  <2>3. pc' = pc /\ batch' = batch
    BY DEF Take, locals
  <2> QED
    BY <2>2, <2>3 DEF BatchInv
<1>10. CopiesInv'
  BY DEF Take, CopiesInv, screen, locals, Agree
<1> QED
  BY <1>8, <1>9, <1>10

\* An event moves from the command to the queue.
LEMMA EmitKeeps ==
    ASSUME EventsInv, Emit
    PROVE  (batch' \o queue') \o todo' = (batch \o queue) \o todo
<1> DEFINE e == Head(todo)
<1>1. /\ e \in Events /\ Tail(todo) \in Seq(Events) /\ <<e>> \in Seq(Events)
      /\ batch \in Seq(Events) /\ queue \in Seq(Events) /\ todo \in Seq(Events)
  BY HeadTailProperties DEF Emit, EventsInv
<1>2. /\ batch' = batch /\ queue' = queue \o <<e>> /\ todo' = Tail(todo)
  BY <1>1, AppendIsConcat DEF Emit, locals
<1>3. todo = <<e>> \o Tail(todo)
  <2>1. todo # <<>> /\ Len(todo) \in Nat /\ Len(todo) # 0
    BY <1>1, EmptySeq DEF Emit
  <2>2. 1 \in 1..Len(todo) /\ Len(todo) \in 1..Len(todo) /\ e = todo[1]
    BY <2>1
  <2>3. SubSeq(todo, 1, Len(todo)) = <<todo[1]>> \o SubSeq(todo, 2, Len(todo))
    BY <1>1, <2>1, <2>2, SubSeqRecursiveFirst
  <2> QED
    BY <1>1, <2>1, <2>2, <2>3, SubSeqFull, TailIsSubSeq
<1> HIDE DEF e
<1>4. batch \o queue \in Seq(Events)
  BY <1>1, ConcatProperties
<1>5. batch \o (queue \o <<e>>) = (batch \o queue) \o <<e>>
  BY <1>1, ConcatAssociative
<1>6. ((batch \o queue) \o <<e>>) \o Tail(todo) = (batch \o queue) \o (<<e>> \o Tail(todo))
  <2>1. \A q, r, t \in Seq(Events) : (q \o r) \o t = q \o (r \o t)
    BY ConcatAssociative
  <2> QED
    BY <1>1, <1>4, <2>1
<1> QED
  BY <1>2, <1>3, <1>5, <1>6

LEMMA EmitScreen ==
    ASSUME ScreenIInv, Emit
    PROVE  ScreenInv'
<1>1. NewsInv'
  BY EmitKeeps DEF ScreenIInv, ScreenInv, IInv, Emit, NewsInv, screen
<1>2. BatchInv' /\ CopiesInv'
  BY DEF ScreenIInv, ScreenInv, Emit, BatchInv, CopiesInv, screen, locals, Agree
<1> QED
  BY <1>1, <1>2 DEF ScreenInv

LEMMA EndScreen ==
    ASSUME ScreenIInv, End
    PROVE  ScreenInv'
<1>1. NewsInv'
  BY SameNews DEF ScreenIInv, ScreenInv, End, screen, locals, Agree
<1>2. BatchInv' /\ CopiesInv'
  BY DEF ScreenIInv, ScreenInv, End, BatchInv, CopiesInv, screen, locals, Agree
<1> QED
  BY <1>1, <1>2 DEF ScreenInv

\* A thread moves to a place where no view is held and no events are drained.
LEMMA QuietScreen ==
    ASSUME ScreenIInv, UNCHANGED <<batch, queue, todo, session, running, screen, seen>>,
           \/ pc'["ui"] = pc["ui"]
           \/ /\ pc["ui"] \in {"idle", "submit", "hook", "stopping"}
              /\ pc'["ui"] \in {"idle", "submit", "hook", "read", "stopping", "stopped"}
    PROVE  ScreenInv'
<1>1. NewsInv'
  BY SameNews DEF ScreenIInv, ScreenInv, screen, Agree
<1>2. BatchInv' /\ CopiesInv'
  BY DEF ScreenIInv, ScreenInv, BatchInv, CopiesInv, screen, Agree
<1> QED
  BY <1>1, <1>2 DEF ScreenInv

LEMMA DispatchReadScreen ==
    ASSUME ScreenIInv, NEW t \in Threads, DispatchRead(t)
    PROVE  ScreenInv'
<1>1. NewsInv'
  BY SameNews DEF ScreenIInv, ScreenInv, DispatchRead, screen, worker, Agree
<1>2. BatchInv'
  BY DEF ScreenIInv, ScreenInv, DispatchRead, BatchInv, IInv, TypeOK, worker, Threads
<1>3. CopiesInv'
  BY DEF ScreenIInv, ScreenInv, DispatchRead, CopiesInv, IInv, TypeOK, screen, Agree,
         Threads, View
<1> QED
  BY <1>1, <1>2, <1>3 DEF ScreenInv

\* Either thread puts back what still stands, unless the pedal's has been overtaken.
LEMMA DispatchWriteScreen ==
    ASSUME ScreenIInv, NEW t \in Threads, DispatchWrite(t), ~StaleWrite
    PROVE  ScreenInv'
<1>1. Agree(view', view)
  BY DEF ScreenIInv, ScreenInv, DispatchWrite, StaleWrite, CopiesInv, Agree, Threads
<1>2. NewsInv'
  BY <1>1, SameNews DEF ScreenIInv, ScreenInv, DispatchWrite, worker
<1>3. BatchInv'
  BY DEF ScreenIInv, ScreenInv, DispatchWrite, BatchInv, IInv, TypeOK, worker, Threads
<1>4. CopiesInv'
  BY <1>1
     DEF ScreenIInv, ScreenInv, DispatchWrite, CopiesInv, IInv, TypeOK, Agree, Threads
<1> QED
  BY <1>2, <1>3, <1>4 DEF ScreenInv

\* Drained events stay in order before the rest.
LEMMA DrainKeeps ==
    ASSUME EventsInv, Drain, batch = <<>>
    PROVE  batch' \o queue' = batch \o queue
<1> DEFINE n == Least(DrainLimit, Len(queue))
<1>1. queue \in Seq(Events) /\ Len(queue) \in Nat
  BY LenProperties DEF EventsInv
<1>2. n \in 0..Len(queue)
  BY <1>1, LimitAssumption DEF Least
<1>3. batch' = SubSeq(queue, 1, n) /\ queue' = SubSeq(queue, n + 1, Len(queue))
  BY DEF Drain
<1> HIDE DEF n
<1>4. SubSeq(queue, 1, n) \o SubSeq(queue, n + 1, Len(queue)) = SubSeq(queue, 1, Len(queue))
  <2>1. 1 \in 1..Len(queue) + 1 /\ n \in 1 - 1..Len(queue) /\ Len(queue) \in n..Len(queue)
    BY <1>1, <1>2
  <2> QED
    BY <1>1, <2>1, ConcatAdjacentSubSeq
<1>5. batch \o queue = queue /\ SubSeq(queue, 1, Len(queue)) = queue
  BY <1>1, ConcatEmptySeq, SubSeqFull
<1> QED
  BY <1>3, <1>4, <1>5

LEMMA DrainScreen ==
    ASSUME ScreenIInv, Drain
    PROVE  ScreenInv'
<1>1. batch = <<>>
  BY DEF ScreenIInv, ScreenInv, BatchInv, Drain
<1>2. NewsInv'
  BY <1>1, DrainKeeps DEF ScreenIInv, ScreenInv, IInv, Drain, NewsInv, worker, screen
<1>3. BatchInv'
  BY DEF ScreenIInv, ScreenInv, Drain, BatchInv, IInv, TypeOK, worker, Threads
<1>4. CopiesInv'
  BY DEF ScreenIInv, ScreenInv, Drain, CopiesInv, IInv, TypeOK, screen, Agree, Threads
<1> QED
  BY <1>2, <1>3, <1>4 DEF ScreenInv

LEMMA ApplyReadScreen ==
    ASSUME ScreenIInv, ApplyRead
    PROVE  ScreenInv'
<1>1. NewsInv'
  BY SameNews DEF ScreenIInv, ScreenInv, ApplyRead, screen, worker, Agree
<1>2. BatchInv'
  BY DEF ScreenIInv, ScreenInv, ApplyRead, BatchInv, IInv, TypeOK, worker, Threads
<1>3. CopiesInv'
  BY DEF ScreenIInv, ScreenInv, ApplyRead, CopiesInv, IInv, TypeOK, screen, Agree, Threads
<1> QED
  BY <1>1, <1>2, <1>3 DEF ScreenInv

\* What an event changes in the two parts of the view that follow the session.
LEMMA AppliedParts ==
    ASSUME NEW v \in View, NEW e \in Events
    PROVE  /\ e \in Changes => Applied(v, e).scanner = e.state
           /\ e \notin Changes => Applied(v, e).scanner = v.scanner
           /\ e = Captured => Applied(v, e).captured = TRUE
           /\ e # Captured => Applied(v, e).captured = v.captured
<1>1. e.kind = "changed" <=> e \in Changes
  BY DEF Events, Changes, Changed
<1>2. e.kind = "captured" <=> e = Captured
  BY DEF Events, Captured
<1> QED
  BY <1>1, <1>2 DEF Applied, View

\* The head of a sequence is the head of what it begins.
LEMMA HeadOfConcat ==
    ASSUME NEW S, NEW q \in Seq(S), q # <<>>, NEW r \in Seq(S)
    PROVE  /\ q \o r \in Seq(S) /\ q \o r # <<>>
           /\ Head(q \o r) = Head(q) /\ Tail(q \o r) = Tail(q) \o r
<1>1. Len(q) \in Nat \ {0} /\ Len(r) \in Nat
  BY EmptySeq, LenProperties
<1>2. /\ q \o r \in Seq(S) /\ Len(q \o r) = Len(q) + Len(r)
      /\ \A i \in 1..Len(q) + Len(r) :
           (q \o r)[i] = IF i <= Len(q) THEN q[i] ELSE r[i - Len(q)]
  BY ConcatProperties
<1>3. q \o r # <<>> /\ Head(q \o r) = Head(q)
  BY <1>1, <1>2
<1>4. /\ Tail(q \o r) \in Seq(S)
      /\ Len(Tail(q \o r)) = Len(q) + Len(r) - 1
      /\ \A i \in 1..(Len(q) + Len(r) - 1) :
           Tail(q \o r)[i] = (q \o r)[i + 1]
  BY <1>2, <1>3, HeadTailProperties
<1>5. /\ Len(Tail(q)) = Len(q) - 1
      /\ \A i \in 1..Len(q) - 1 : Tail(q)[i] = q[i + 1]
  BY HeadTailProperties
<1>6. /\ Tail(q) \o r \in Seq(S)
      /\ Len(Tail(q) \o r) = Len(q) - 1 + Len(r)
      /\ \A i \in 1..(Len(q) - 1 + Len(r)) : (Tail(q) \o r)[i] =
           IF i <= Len(q) - 1 THEN Tail(q)[i] ELSE r[i - (Len(q) - 1)]
  <2>1. Tail(q) \in Seq(S)
    BY HeadTailProperties
  <2> QED
    BY <1>5, <2>1, ConcatProperties
<1>7. Len(Tail(q \o r)) = Len(Tail(q) \o r)
  BY <1>1, <1>4, <1>6
<1>8. ASSUME NEW i \in 1..Len(Tail(q \o r))
       PROVE  Tail(q \o r)[i] = (Tail(q) \o r)[i]
  <2>1. /\ i \in 1..(Len(q) + Len(r) - 1) /\ i + 1 \in 1..Len(q) + Len(r)
        /\ i \in 1..(Len(q) - 1 + Len(r))
        /\ i <= Len(q) - 1 <=> i + 1 <= Len(q)
        /\ i <= Len(q) - 1 => i \in 1..Len(q) - 1
        /\ i + 1 - Len(q) = i - (Len(q) - 1)
    BY <1>1, <1>4
  <2> QED
    BY <1>2, <1>4, <1>5, <1>6, <2>1
<1>9. Tail(q \o r) = Tail(q) \o r
  BY <1>4, <1>6, <1>7, <1>8, SeqEqual
<1> QED
  BY <1>2, <1>3, <1>9

LEMMA ApplyWriteScreen ==
    ASSUME ScreenIInv, ApplyWrite
    PROVE  ScreenInv'
<1> USE DEF ScreenIInv, ScreenInv
<1> DEFINE e == Head(batch)
           rest == queue \o todo
           coming == (batch \o queue) \o todo
<1>1. /\ batch # <<>> /\ batch \in Seq(Events) /\ queue \in Seq(Events) /\ todo \in Seq(Events)
      /\ e \in Events /\ Tail(batch) \in Seq(Events)
  BY HeadTailProperties DEF ApplyWrite, IInv, EventsInv
<1>2. /\ batch' = Tail(batch) /\ queue' = queue /\ todo' = todo /\ session' = session
      /\ view' = Applied(seen["ui"], e)
  BY DEF ApplyWrite, worker
<1>3. seen["ui"] \in View /\ Agree(seen["ui"], view)
  BY DEF ApplyWrite, CopiesInv, IInv, TypeOK, Threads
<1>4. /\ coming \in Seq(Events) /\ coming # <<>> /\ Head(coming) = e
      /\ Tail(coming) = (Tail(batch) \o queue) \o todo
  <2>1. rest \in Seq(Events) /\ coming = batch \o rest
    BY <1>1, ConcatProperties, ConcatAssociative
  <2>2. (Tail(batch) \o queue) \o todo = Tail(batch) \o rest
    BY <1>1, ConcatAssociative
  <2> HIDE DEF rest, coming, e
  <2>3. /\ batch \o rest \in Seq(Events) /\ batch \o rest # <<>>
        /\ Head(batch \o rest) = Head(batch) /\ Tail(batch \o rest) = Tail(batch) \o rest
    BY <1>1, <2>1, HeadOfConcat
  <2> QED
    BY <2>1, <2>2, <2>3 DEF e
<1>5. Settles(coming, Changes, {Changed(session.state)}, view.scanner = session.state)
  BY DEF NewsInv
<1>6. Settles(coming, {Captured}, {x \in {Captured} : session.reported},
              view.captured = session.reported)
  BY DEF NewsInv
<1>7. /\ e \in Changes => view'.scanner = e.state
      /\ e \notin Changes => view'.scanner = view.scanner
      /\ e = Captured => view'.captured = TRUE
      /\ e # Captured => view'.captured = view.captured
  BY <1>1, <1>2, <1>3, AppliedParts DEF Agree
<1>8. session.state \in ScannerStates /\ session.reported \in BOOLEAN
  BY DEF IInv, TypeOK
<1> HIDE DEF e, coming
<1>9. Settles(Tail(coming), Changes, {Changed(session.state)}, view'.scanner = session.state)
  <2>1. {Changed(session.state)} \subseteq Changes
    BY <1>8, Kinds
  <2>2. e = Changed(session.state) => view'.scanner = session.state
    BY <1>7, <1>8, Kinds
  <2>3. e \notin Changes /\ view.scanner = session.state => view'.scanner = session.state
    BY <1>7
  <2> QED
    BY <1>4, <1>5, <2>1, <2>2, <2>3, SettlesTail
<1>10. Settles(Tail(coming), {Captured}, {x \in {Captured} : session.reported},
               view'.captured = session.reported)
  <2>1. e \in {x \in {Captured} : session.reported} => view'.captured = session.reported
    BY <1>7, <1>8
  <2>2. e \notin {Captured} /\ view.captured = session.reported
          => view'.captured = session.reported
    BY <1>7
  <2> QED
    BY <1>4, <1>6, <2>1, <2>2, SettlesTail
<1>11. NewsInv'
  BY <1>2, <1>4, <1>9, <1>10 DEF NewsInv
<1>12. BatchInv' /\ CopiesInv'
  BY DEF ApplyWrite, BatchInv, CopiesInv, IInv, TypeOK, worker, Threads
<1> QED
  BY <1>11, <1>12

LEMMA BusyReadScreen ==
    ASSUME ScreenIInv, BusyRead
    PROVE  ScreenInv'
<1>1. NewsInv'
  BY SameNews DEF ScreenIInv, ScreenInv, BusyRead, screen, worker, Agree
<1>2. BatchInv'
  BY DEF ScreenIInv, ScreenInv, BusyRead, BatchInv, IInv, TypeOK, worker, Threads
<1>3. CopiesInv'
  <2>1. seen["ui"] \in View /\ seen'["ui"] = [seen["ui"] EXCEPT !.busy = active]
    BY DEF ScreenIInv, IInv, TypeOK, BusyRead, Threads
  <2>2. Agree(seen'["ui"], seen["ui"])
    BY <2>1 DEF Agree, View
  <2> QED
    BY <2>2
       DEF ScreenIInv, ScreenInv, BusyRead, CopiesInv, IInv, TypeOK, screen, Agree, Threads
<1> QED
  BY <1>1, <1>2, <1>3 DEF ScreenInv

LEMMA ShowScreen ==
    ASSUME ScreenIInv, Show
    PROVE  ScreenInv'
<1>1. Agree(view', view)
  BY DEF ScreenIInv, ScreenInv, Show, CopiesInv
<1>2. NewsInv'
  BY <1>1, SameNews DEF ScreenIInv, ScreenInv, Show, worker
<1>3. BatchInv'
  BY DEF ScreenIInv, ScreenInv, Show, BatchInv, IInv, TypeOK, worker, Threads
<1>4. CopiesInv'
  BY DEF Show, CopiesInv, ScreenIInv, IInv, TypeOK, Agree, Threads
<1> QED
  BY <1>2, <1>3, <1>4 DEF ScreenInv

LEMMA ScreenStep ==
    ASSUME ScreenIInv, [Next /\ ~StaleWrite]_vars
    PROVE  ScreenInv'
<1>1. CASE Take \/ Emit \/ End
  BY <1>1, TakeScreen, EmitScreen, EndScreen
<1>2. ASSUME NEW t \in Threads, Dispatch(t), ~StaleWrite PROVE ScreenInv'
  <2>1. CASE Submit(t) \/ Hook(t)
    BY <2>1, QuietScreen
       DEF Submit, Hook, worker, screen, ScreenIInv, IInv, TypeOK, Threads
  <2> QED
    BY <1>2, <2>1, DispatchReadScreen, DispatchWriteScreen DEF Dispatch
<1>3. CASE Refresh
  BY <1>3, DrainScreen, ApplyReadScreen, ApplyWriteScreen, BusyReadScreen, ShowScreen
     DEF Refresh
<1>4. CASE Start \/ \E c \in Commands : Press(c)
  BY <1>4, QuietScreen
     DEF Start, Press, GoesOn, worker, screen, ScreenIInv, IInv, TypeOK, Threads
<1>5. CASE PedalMoves
  BY <1>5, QuietScreen
     DEF PedalMoves, GoesOn, worker, screen, ScreenIInv, IInv, TypeOK, Threads
<1>6. CASE Stop \/ Stopped
  BY <1>6, QuietScreen DEF Stop, Stopped, worker, screen, ScreenIInv, IInv, TypeOK, Threads
<1>7. CASE UNCHANGED vars
  BY <1>7, QuietScreen DEF vars, worker, screen, locals
<1> QED
  BY <1>1, <1>2, <1>3, <1>4, <1>5, <1>6, <1>7 DEF Next, Work

LEMMA ScreenQuiet == ASSUME ScreenIInv PROVE ScreenAgrees
<1> SUFFICES ASSUME Quiescent
             PROVE  /\ shown.scanner = session.state /\ shown.captured = session.reported
                    /\ shown.captured => session.captured
  BY DEF ScreenAgrees
<1>1. pc["ui"] = "idle" /\ batch = <<>> /\ queue = <<>> /\ running = "none" /\ todo = <<>>
  BY DEF Quiescent, ScreenIInv, ScreenInv, IInv, TypeOK, OneOperation, BatchInv, Threads
<1>2. (batch \o queue) \o todo = <<>>
  BY <1>1
<1>3. view.scanner = session.state /\ view.captured = session.reported
  BY <1>2, SettlesEmpty DEF ScreenIInv, ScreenInv, NewsInv
<1>4. shown.scanner = session.state /\ shown.captured = session.reported
  BY <1>1, <1>3 DEF ScreenIInv, ScreenInv, CopiesInv, Agree
<1>5. session.reported => session.captured
  BY DEF ScreenIInv, ScreenInv, NewsInv
<1>6. shown.captured => session.captured
  BY <1>4, <1>5, Zenon
<1> QED
  BY <1>4, <1>6

\* The controls on the screen are those of the session's state and of the pairs that were
\* reported whenever all is quiet, whichever captures end without an event, with or
\* without a pedal, as long as the pedal's thread does not put back a view that the UI
\* thread has replaced between its read and its write (viewmodel.dispatch, no lock).
THEOREM ScreenFollowsSession == CarefulSpec => []ScreenAgrees
<1>1. Init => ScreenIInv
  BY InitIInv, InitScreen DEF ScreenIInv
<1>2. ScreenIInv /\ [Next /\ ~StaleWrite]_vars => ScreenIInv'
  BY NextStep, ScreenStep DEF ScreenIInv
<1>3. ScreenIInv => ScreenAgrees
  BY ScreenQuiet
<1> QED
  BY <1>1, <1>2, <1>3, PTL DEF CarefulSpec

-----------------------------------------------------------------------------
\* Without a pedal.

LEMMA PedalNeverMoves ==
    ASSUME IInv, PedalRests, [Next]_vars
    PROVE  PedalRests' /\ ~StaleWrite
<1>1. ~StaleWrite
  BY DEF PedalRests, StaleWrite, DispatchWrite
<1>2. ASSUME NEW t \in Threads, Dispatch(t) PROVE PedalRests'
  BY <1>2
     DEF PedalRests, Dispatch, Submit, Hook, DispatchRead, DispatchWrite, Threads, IInv, TypeOK
<1>3. CASE Work \/ UNCHANGED vars
  <2>1. pc' = pc /\ level' = level
    BY <1>3 DEF Work, Take, Emit, End, locals, vars
  <2> QED
    BY <1>1, <2>1 DEF PedalRests
<1>4. ASSUME NEW place, pc' = [pc EXCEPT !["ui"] = place], level' = level
      PROVE  PedalRests'
  BY <1>4 DEF PedalRests, IInv, TypeOK, Threads
<1>5. CASE Refresh \/ Start \/ Stop \/ Stopped
  BY <1>1, <1>4, <1>5
     DEF Refresh, Drain, ApplyRead, ApplyWrite, BusyRead, Show, Start, GoesOn, Stop, Stopped
<1>6. CASE \E c \in Commands : Press(c)
  BY <1>1, <1>4, <1>6 DEF Press, GoesOn
<1>7. ~PedalMoves
  BY DEF PedalMoves, PedalRests
<1> QED
  BY <1>1, <1>2, <1>3, <1>5, <1>6, <1>7 DEF Next

\* A pedal that is there stays there.
LEMMA NoPedalBefore ==
    ASSUME IInv, [Next]_vars, level' = NoPedal
    PROVE  level = NoPedal
<1>1. CASE Work \/ Refresh \/ \E t \in Threads : Dispatch(t)
  BY <1>1 DEF Work, Take, Emit, End, Refresh, Drain, ApplyRead, ApplyWrite, BusyRead, Show,
              Dispatch, Submit, Hook, DispatchRead, DispatchWrite
<1>2. CASE Start \/ Stop \/ Stopped \/ (\E c \in Commands : Press(c)) \/ UNCHANGED vars
  BY <1>2 DEF Start, Stop, Stopped, Press, vars
<1>3. ~PedalMoves
  BY DEF PedalMoves, NoPedal, IInv, TypeOK
<1> QED
  BY <1>1, <1>2, <1>3 DEF Next

WithoutPedal == ScreenIInv /\ PedalRests

\* With keyboard and touch screen only, the screen is current whenever all is quiet.
THEOREM ScreenWithoutPedal == Spec => []ScreenIsCurrent
<1> DEFINE Inv == IInv /\ (level = NoPedal => WithoutPedal)
<1>1. Init => Inv
  BY InitIInv, InitScreen DEF WithoutPedal, ScreenIInv, PedalRests, Init, Threads
<1>2. Inv /\ [Next]_vars => Inv'
  <2> SUFFICES ASSUME Inv, [Next]_vars PROVE Inv'
    OBVIOUS
  <2>1. IInv'
    BY NextStep
  <2>2. ASSUME level' = NoPedal PROVE WithoutPedal'
    <3>1. WithoutPedal
      BY <2>2, NoPedalBefore
    <3> QED
      BY <2>1, <3>1, ScreenStep, PedalNeverMoves DEF WithoutPedal, ScreenIInv
  <2> QED
    BY <2>1, <2>2
<1>3. Inv => ScreenIsCurrent
  BY ScreenQuiet DEF WithoutPedal, ScreenIsCurrent
<1> QED
  BY <1>1, <1>2, <1>3, PTL DEF Spec

-----------------------------------------------------------------------------
\* The failure of the last command stays on the screen.

FailureIInv == ScreenIInv /\ FailureInv

Reports == {Started, Failed}

\* The view's error counts until dispatch is about to clear it.
Standing == view.error /\ pc["ui"] \notin {"hook", "read", "write"}

LEMMA SameFailure ==
    ASSUME FailureInv, failed' => failed, batch' \o queue' = batch \o queue,
           failed' /\ Standing => Standing'
    PROVE  failed' => Settles(batch' \o queue', Reports, {Failed}, Standing')
BY DEF FailureInv, Standing, Settles, Reports

\* A thread moves between the places where no view is held.
LEMMA QuietFailure ==
    ASSUME FailureInv, UNCHANGED <<batch, queue, screen, seen>>,
           failed' => failed /\ (Standing => Standing'),
           \/ pc'["ui"] = pc["ui"]
           \/ /\ pc["ui"] \in {"idle", "submit", "hook", "stopping"}
              /\ pc'["ui"] \in {"idle", "submit", "hook", "read", "stopping", "stopped"},
           PedalRests'
    PROVE  FailureInv'
<1>1. failed' => Settles(batch' \o queue', Reports, {Failed}, Standing')
  BY SameFailure
<1> QED
  BY <1>1 DEF FailureInv, Standing, Reports, screen, PedalRests

LEMMA EmitFailure ==
    ASSUME FailureIInv, Emit
    PROVE  FailureInv'
<1> USE DEF FailureIInv, ScreenIInv
<1> DEFINE e == Head(todo)
           q == batch \o queue
<1>1. e \in Events /\ <<e>> \in Seq(Events) /\ q \in Seq(Events)
  BY HeadTailProperties, ConcatProperties DEF Emit, IInv, EventsInv
<1>2. batch' \o queue' = q \o <<e>>
  <2>1. queue' = queue \o <<e>> /\ batch' = batch
    BY <1>1, AppendIsConcat DEF Emit, IInv, EventsInv, locals
  <2> QED
    BY <1>1, <2>1, ConcatAssociative DEF IInv, EventsInv
<1>3. /\ e.kind = "failed" <=> e = Failed
      /\ e.kind = "started" <=> e = Started
  BY <1>1 DEF Events, Failed, Started
<1>4. /\ view' = view /\ pc' = pc /\ seen' = seen /\ shown' = shown /\ level' = level
      /\ failed' = CASE e.kind = "failed" -> TRUE [] e.kind = "started" -> FALSE
                     [] OTHER -> failed
  BY DEF Emit, screen, locals
<1> HIDE DEF e, q
<1>5. ASSUME e = Failed
      PROVE  Settles(q \o <<e>>, Reports, {Failed}, Standing')
  <2>1. Len(q) \in Nat /\ Len(q \o <<e>>) = Len(q) + 1 /\ (q \o <<e>>)[Len(q) + 1] = e
    BY <1>1, ConcatProperties, LenProperties
  <2> QED
    BY <1>5, <2>1 DEF Settles
<1>6. ASSUME e \notin Reports, failed
      PROVE  Settles(q \o <<e>>, Reports, {Failed}, Standing')
  <2>1. Settles(<<e>>, Reports, {Failed}, TRUE)
    BY <1>6 DEF Settles
  <2>2. Settles(q, Reports, {Failed}, Standing)
    BY <1>6 DEF FailureInv, Standing, Reports, q
  <2>3. Standing => Standing'
    BY <1>4 DEF Standing
  <2> QED
    BY <1>1, <2>1, <2>2, <2>3, SettlesConcat
<1>7. failed' => Settles(batch' \o queue', Reports, {Failed}, Standing')
  BY <1>2, <1>3, <1>4, <1>5, <1>6 DEF Reports
<1> QED
  BY <1>4, <1>7 DEF FailureInv, PedalRests, Standing, Reports

LEMMA DispatchFailure ==
    ASSUME FailureIInv, Dispatch("ui")
    PROVE  FailureInv'
<1> USE DEF FailureIInv, ScreenIInv
<1>1. pc \in [Threads -> Places] /\ "ui" \in Threads /\ pc'["pedal"] = pc["pedal"] /\ PedalRests'
  BY DEF Dispatch, Submit, Hook, DispatchRead, DispatchWrite, IInv, TypeOK, Threads,
         FailureInv, PedalRests
<1>2. CASE Submit("ui")
  <2>1. failed' => failed /\ (Standing => Standing')
    BY <1>1, <1>2 DEF Submit, Standing, screen
  <2> QED
    BY <1>1, <1>2, <2>1, QuietFailure DEF Submit, worker, screen
<1>3. CASE Hook("ui")
  <2>1. failed' => failed /\ (Standing => Standing')
    BY <1>1, <1>3 DEF Hook, Standing, screen
  <2> QED
    BY <1>1, <1>3, <2>1, QuietFailure DEF Hook, worker, screen
<1>4. CASE DispatchRead("ui")
  <2>1. failed' => Settles(batch' \o queue', Reports, {Failed}, Standing')
    BY <1>4, SameFailure DEF DispatchRead, Standing, worker, screen
  <2> QED
    BY <1>1, <1>4, <2>1 DEF DispatchRead, FailureInv, Standing, Reports, screen, PedalRests
<1>5. CASE DispatchWrite("ui")
  <2>1. failed' => Settles(batch' \o queue', Reports, {Failed}, Standing')
    BY <1>5, SameFailure DEF DispatchWrite, Standing, worker
  <2> QED
    BY <1>1, <1>5, <2>1 DEF DispatchWrite, FailureInv, Standing, Reports, PedalRests
<1> QED
  BY <1>2, <1>3, <1>4, <1>5 DEF Dispatch

LEMMA ApplyWriteFailure ==
    ASSUME FailureIInv, ApplyWrite
    PROVE  FailureInv'
<1> USE DEF FailureIInv, ScreenIInv
<1> DEFINE e == Head(batch)
           q == batch \o queue
<1>1. /\ batch # <<>> /\ batch \in Seq(Events) /\ queue \in Seq(Events)
      /\ e \in Events /\ seen["ui"] \in View
  BY HeadTailProperties DEF ApplyWrite, IInv, EventsInv, TypeOK, Threads
<1>2. /\ batch' = Tail(batch) /\ queue' = queue /\ failed' = failed /\ shown' = shown
      /\ view' = Applied(seen["ui"], e) /\ pc["ui"] = "replace"
      /\ pc' = [pc EXCEPT !["ui"] = "apply"]
  BY DEF ApplyWrite
<1>3. pc'["ui"] = "apply" /\ PedalRests'
  BY <1>2 DEF ApplyWrite, IInv, TypeOK, Threads, FailureInv, PedalRests
<1>4. /\ q \in Seq(Events) /\ q # <<>> /\ Head(q) = e /\ Tail(q) = Tail(batch) \o queue
  BY <1>1, HeadOfConcat
<1>5. /\ e = Failed => view'.error = TRUE
      /\ e \notin Reports => view'.error = view.error
  <2>1. e.kind = "failed" <=> e = Failed
    BY <1>1 DEF Events, Failed
  <2>2. e.kind = "started" <=> e = Started
    BY <1>1 DEF Events, Started
  <2>3. seen["ui"].error = view.error
    BY <1>2 DEF FailureInv
  <2> QED
    BY <1>1, <1>2, <2>1, <2>2, <2>3 DEF Applied, View, Reports
<1> HIDE DEF e, q
<1>6. ASSUME failed PROVE Settles(Tail(q), Reports, {Failed}, Standing')
  <2>1. Settles(q, Reports, {Failed}, Standing)
    BY <1>6 DEF FailureInv, Standing, Reports, q
  <2>2. e \in {Failed} => Standing'
    BY <1>3, <1>5 DEF Standing
  <2>3. e \notin Reports /\ Standing => Standing'
    BY <1>3, <1>5 DEF Standing
  <2>4. {Failed} \subseteq Reports
    BY DEF Reports
  <2> QED
    BY <1>4, <2>1, <2>2, <2>3, <2>4, SettlesTail
<1> QED
  BY <1>2, <1>3, <1>4, <1>6 DEF FailureInv, Standing, Reports

LEMMA RefreshFailure ==
    ASSUME FailureIInv, Refresh
    PROVE  FailureInv'
<1> USE DEF FailureIInv, ScreenIInv
<1>1. pc \in [Threads -> Places] /\ seen \in [Threads -> View] /\ "ui" \in Threads
      /\ pc["pedal"] = "idle"
  BY DEF IInv, TypeOK, Threads, FailureInv, PedalRests
<1>2. CASE Drain
  <2>1. batch' \o queue' = batch \o queue
    BY <1>2, DrainKeeps DEF ScreenInv, BatchInv, IInv, Drain
  <2>2. failed' => Settles(batch' \o queue', Reports, {Failed}, Standing')
    BY <1>1, <1>2, <2>1, SameFailure DEF Drain, Standing, screen
  <2> QED
    BY <1>1, <1>2, <2>2 DEF Drain, FailureInv, PedalRests, Standing, Reports, screen
<1>3. CASE ApplyRead
  <2>1. failed' => Settles(batch' \o queue', Reports, {Failed}, Standing')
    BY <1>1, <1>3, SameFailure DEF ApplyRead, Standing, screen
  <2> QED
    BY <1>1, <1>3, <2>1 DEF ApplyRead, FailureInv, PedalRests, Standing, Reports, screen
<1>4. CASE ApplyWrite
  BY <1>4, ApplyWriteFailure
<1>5. CASE BusyRead
  <2>1. failed' => Settles(batch' \o queue', Reports, {Failed}, Standing')
    BY <1>1, <1>5, SameFailure DEF BusyRead, Standing, screen
  <2>2. seen'["ui"].error = seen["ui"].error
    BY <1>1, <1>5 DEF BusyRead, View
  <2> QED
    BY <1>1, <1>5, <2>1, <2>2 DEF BusyRead, FailureInv, PedalRests, Standing, Reports, screen
<1>6. CASE Show
  <2>1. view'.error = view.error /\ shown'.error = view.error
    BY <1>6 DEF Show, FailureInv
  <2>2. failed' => Settles(batch' \o queue', Reports, {Failed}, Standing')
    BY <1>1, <1>6, <2>1, SameFailure DEF Show, Standing
  <2> QED
    BY <1>1, <1>6, <2>1, <2>2 DEF Show, FailureInv, PedalRests, Standing, Reports
<1> QED
  BY <1>2, <1>3, <1>4, <1>5, <1>6 DEF Refresh

LEMMA FailureStep ==
    ASSUME FailureIInv, [Next]_vars
    PROVE  FailureInv'
<1>1. PedalRests /\ PedalRests' /\ IInv
  BY PedalNeverMoves DEF FailureIInv, ScreenIInv, FailureInv, PedalRests
<1>2. pc \in [Threads -> Places] /\ "ui" \in Threads
  BY <1>1 DEF IInv, TypeOK, Threads
<1>3. CASE Take \/ End \/ UNCHANGED vars
  <2>1. UNCHANGED <<batch, queue, screen, seen, failed, pc>>
    BY <1>3 DEF Take, End, vars, screen, locals
  <2>2. Standing => Standing'
    BY <2>1 DEF Standing, screen
  <2> QED
    BY <1>1, <2>1, <2>2, QuietFailure DEF FailureIInv
<1>4. CASE Emit
  BY <1>4, EmitFailure
<1>5. CASE \E t \in Threads : Dispatch(t)
  <2>1. ~Dispatch("pedal")
    BY <1>1 DEF Dispatch, Submit, Hook, DispatchRead, DispatchWrite, PedalRests
  <2> QED
    BY <1>5, <2>1, DispatchFailure DEF Threads
<1>6. CASE Refresh
  BY <1>6, RefreshFailure
<1>7. CASE Start \/ Stop \/ Stopped \/ \E c \in Commands : Press(c)
  <2>1. /\ UNCHANGED <<batch, queue, screen, seen, failed>>
        /\ pc["ui"] \in {"idle", "stopping"}
        /\ pc'["ui"] \in {"submit", "stopping", "stopped"}
    BY <1>2, <1>7 DEF Start, Stop, Stopped, Press, GoesOn
  <2>2. Standing => Standing'
    BY <2>1 DEF Standing, screen
  <2> QED
    BY <1>1, <2>1, <2>2, QuietFailure DEF FailureIInv
<1>8. ~PedalMoves
  BY <1>1 DEF PedalMoves, PedalRests
<1> QED
  BY <1>3, <1>4, <1>5, <1>6, <1>7, <1>8 DEF Next, Work

\* Without a pedal, a failure that the last command reported is on the screen whenever
\* all is quiet: neither dispatch nor a refresh clears one that came later.
THEOREM FailureStaysShown == Spec => []FailureIsShown
<1> DEFINE Inv == IInv /\ (level = NoPedal => FailureIInv)
<1>1. Init => Inv
  BY InitIInv, InitScreen
     DEF FailureIInv, ScreenIInv, FailureInv, PedalRests, Init, Threads
<1>2. Inv /\ [Next]_vars => Inv'
  <2> SUFFICES ASSUME Inv, [Next]_vars PROVE Inv'
    OBVIOUS
  <2>1. IInv'
    BY NextStep
  <2>2. ASSUME level' = NoPedal PROVE FailureIInv'
    <3>1. FailureIInv
      BY <2>2, NoPedalBefore
    <3>2. ~StaleWrite
      BY <3>1, PedalNeverMoves DEF FailureIInv, ScreenIInv, FailureInv
    <3> QED
      BY <2>1, <3>1, <3>2, ScreenStep, FailureStep DEF FailureIInv, ScreenIInv
  <2> QED
    BY <2>1, <2>2
<1>3. Inv => FailureIsShown
  <2> SUFFICES ASSUME FailureIInv, Quiescent, failed PROVE shown.error
    BY DEF FailureIsShown
  <2>1. pc["ui"] = "idle" /\ batch \o queue = <<>>
    BY DEF Quiescent, FailureIInv, ScreenIInv, ScreenInv, BatchInv, Threads
  <2>2. view.error
    BY <2>1, SettlesEmpty DEF FailureIInv, FailureInv
  <2> QED
    BY <2>1, <2>2 DEF FailureIInv, FailureInv
<1> QED
  BY <1>1, <1>2, <1>3, PTL DEF Spec
=============================================================================
