-------------------------- MODULE CapturePairProofs --------------------------
(***************************************************************************)
(* The inductive invariant IInv of CapturePair and what follows from it, for *)
(* every set of pages, file types and camera reports and any number of calls.*)
(***************************************************************************)
EXTENDS CapturePair, SequenceTheorems, TLAPS

LEMMA FunctionIsSeq ==
    ASSUME NEW S, NEW n \in Nat, NEW f \in [1..n -> S] PROVE f \in Seq(S)
BY SeqDef

\* A page of a pair and the published name of a camera's file make a target.
LEMMA PagesType == EvenPages \subseteq Pages /\ \A p \in EvenPages : p \in Nat /\ p + 1 \in Pages
BY PagesAssumption DEF Pages

LEMMA JpegTargets == \A p \in EvenPages : <<p, "jpg">> \in Targets /\ <<p + 1, "jpg">> \in Targets
<1>1. "jpg" \in PublishedSuffixes
  BY SuffixAssumption DEF PublishedSuffixes, PublishedSuffix
<1> QED
  BY <1>1, PagesType DEF Targets

\* The names _targets computes for files that _validate_artifacts accepted.
LEMMA TargetsOfValid ==
    ASSUME TypeOK, NEW p \in Pages, NEW paths \in Seq(Path), Valid(paths)
    PROVE  LET fs == TargetsOf(p, paths)
           IN  /\ fs \in Seq([target : Targets, content : Content])
               /\ fs # <<>>
               /\ \A k \in DOMAIN fs : fs[k].content = New /\ fs[k].target[1] = p
               /\ \E k \in DOMAIN fs : fs[k].target = <<p, "jpg">>
<1> DEFINE fs == TargetsOf(p, paths)
<1>1. paths \in [1..Len(paths) -> Path] /\ Len(paths) \in Nat /\ DOMAIN paths = 1..Len(paths)
  OBVIOUS
<1>2. \A k \in DOMAIN paths : PublishedSuffix(paths[k].suffix) \in PublishedSuffixes
  BY DEF Valid, PublishedSuffixes
<1>3. \A k \in DOMAIN paths : paths[k].fault = "none"
  BY DEF Valid
<1>4. \A k \in DOMAIN paths : fs[k] \in [target : Targets, content : Content]
  BY <1>2, <1>3 DEF TargetsOf, Targets, Content, TypeOK, Faults
<1>5. fs \in [1..Len(paths) -> [target : Targets, content : Content]]
  BY <1>1, <1>4 DEF TargetsOf
<1>6. fs \in Seq([target : Targets, content : Content])
  <2> HIDE DEF fs
  <2> QED BY <1>1, <1>5, FunctionIsSeq
<1>7. \A k \in DOMAIN fs : fs[k].content = New /\ fs[k].target[1] = p
  BY <1>3 DEF TargetsOf, New
<1>8. PICK k \in DOMAIN paths : PublishedSuffix(paths[k].suffix) = "jpg"
  BY DEF Valid
<1>9. k \in DOMAIN fs /\ fs[k].target = <<p, "jpg">>
  BY <1>8 DEF TargetsOf
<1>10. fs # <<>>
  BY <1>9
<1> QED
  BY <1>6, <1>7, <1>9, <1>10

\* What the loops of _commit find at their position.
LEMMA CurrentFile ==
    ASSUME IInv, pc \in {"sync", "backup", "publish"}
    PROVE  /\ Current.target \in Targets /\ Current.target \in NewTargets
           /\ Current.content = New /\ New \in Content
           /\ Len(files) \in Nat /\ DOMAIN files = 1..Len(files)
           /\ cursor \in 1..Len(files)
<1>1. files \in Seq([target : Targets, content : Content]) /\ cursor \in DOMAIN files
  BY DEF IInv, TypeOK, FilesInv
<1>2. Len(files) \in Nat /\ DOMAIN files = 1..Len(files)
  BY <1>1
<1>3. files[cursor] \in [target : Targets, content : Content]
  BY <1>1, <1>2, ElementOfSeq
<1>4. files[cursor].content = New
  BY <1>1 DEF IInv, FilesInv
<1> QED
  BY <1>1, <1>2, <1>3, <1>4 DEF Current, NewTargets

\* What stays behind when a staging directory is left.
LEMMA VaultedType ==
    ASSUME TypeOK
    PROVE  /\ Vaulted \subseteq Targets \X Content
           /\ NoVault \in [Targets -> Content \cup {NoFile}]
<1>1. \A t \in Targets : vault[t] # NoFile => vault[t] \in Content
  BY DEF TypeOK
<1> QED
  BY <1>1 DEF Vaulted, NoVault

LEMMA BeginStep == ASSUME IInv, NEW p \in EvenPages, Begin(p) PROVE IInv'
<1> USE DEF IInv
<1>1. TypeOK'
  BY DEF TypeOK, Begin, threads, undo, Phases, Answers, Content
<1>2. FilesInv'
  BY DEF Begin, threads, undo, FilesInv, NewTargets, New
<1>3. BookInv'
  BY DEF BookInv, Begin, TypeOK, Content
<1>4. UndoInv'
  <2>1. \A t \in Targets : vault[t] = NoFile
    BY DEF PhaseInv, NoVault, Begin
  <2> QED
    BY <2>1 DEF UndoInv, Begin, PhaseInv, undo, NewTargets
<1>5. PhaseInv'
  BY DEF Begin, threads, undo, PhaseInv, NewTargets, New, NoVault
<1>6. FlushInv'
  BY DEF Begin, threads, undo, FlushInv, NewTargets
<1>7. AnswerInv'
  BY DEF Begin, threads, undo, AnswerInv, New
<1>8. NoPageLost'
  BY DEF Begin, threads, undo, NoPageLost, Complete
<1>9. FailureChangesNothing'
  BY DEF Begin, threads, undo, FailureChangesNothing
<1>10. FlushedBeforePublished'
  BY DEF Begin, threads, undo, FlushedBeforePublished
<1> QED
  BY <1>1, <1>2, <1>3, <1>4, <1>5, <1>6, <1>7, <1>8, <1>9, <1>10

LEMMA CameraEndsStep == ASSUME IInv, NEW side \in Sides, CameraEnds(side) PROVE IInv'
<1> USE DEF IInv
<1>1. TypeOK'
  <2>1. report' \in [Sides -> Seq(Path)] /\ camera' \in [Sides -> {"running", "raised", "returned"}]
    BY ReportsAssumption DEF CameraEnds, TypeOK
  <2> QED
    BY <2>1 DEF TypeOK, CameraEnds, call, commit, undo
<1>2. FilesInv'
  BY DEF CameraEnds, call, commit, undo, FilesInv, NewTargets, New
<1>3. BookInv'
  BY DEF CameraEnds, call, commit, undo, BookInv
<1>4. UndoInv'
  BY DEF CameraEnds, call, commit, undo, UndoInv, NewTargets
<1>5. PhaseInv'
  BY DEF CameraEnds, call, commit, undo, PhaseInv, NewTargets, New, NoVault
<1>6. FlushInv'
  BY DEF CameraEnds, call, commit, undo, FlushInv, NewTargets
<1>7. AnswerInv'
  BY DEF CameraEnds, call, commit, undo, AnswerInv, New
<1>8. NoPageLost'
  BY DEF CameraEnds, call, commit, undo, NoPageLost, Complete
<1>9. FailureChangesNothing'
  BY DEF CameraEnds, call, commit, undo, FailureChangesNothing
<1>10. FlushedBeforePublished'
  BY DEF CameraEnds, call, commit, undo, FlushedBeforePublished
<1> QED
  BY <1>1, <1>2, <1>3, <1>4, <1>5, <1>6, <1>7, <1>8, <1>9, <1>10

LEMMA MakeBackupDirectoryStep == ASSUME IInv, MakeBackupDirectory PROVE IInv'
<1> USE DEF IInv
<1>1. TypeOK'
  BY DEF TypeOK, MakeBackupDirectory, call, threads, commit, undo, Phases, Answers,
         Content
<1>2. FilesInv'
  <2>1. files # <<>> => 1 \in DOMAIN files
    BY DEF TypeOK
  <2> QED
    BY <2>1 DEF FilesInv, NewTargets, New, MakeBackupDirectory, call, commit
<1>3. BookInv'
  BY DEF MakeBackupDirectory, call, threads, commit, undo, BookInv
<1>4. UndoInv'
  BY DEF MakeBackupDirectory, call, threads, commit, undo, UndoInv, NewTargets
<1>5. PhaseInv'
  BY DEF MakeBackupDirectory, call, threads, commit, undo, PhaseInv, NewTargets,
         New, NoVault
<1>6. FlushInv'
  BY DEF TypeOK, MakeBackupDirectory, call, threads, commit, undo, FlushInv,
         NewTargets, FilesInv
<1>7. AnswerInv'
  BY DEF MakeBackupDirectory, call, threads, commit, undo, AnswerInv, New
<1>8. NoPageLost'
  BY DEF MakeBackupDirectory, call, threads, commit, undo, NoPageLost, Complete
<1>9. FailureChangesNothing'
  BY DEF TypeOK, MakeBackupDirectory, call, threads, commit, undo,
         FailureChangesNothing, UndoInv, PhaseInv, AnswerInv
<1>10. FlushedBeforePublished'
  BY DEF MakeBackupDirectory, call, threads, commit, undo, FlushedBeforePublished
<1> QED
  BY <1>1, <1>2, <1>3, <1>4, <1>5, <1>6, <1>7, <1>8, <1>9, <1>10

LEMMA SyncFileStep == ASSUME IInv, SyncFile PROVE IInv'
<1> USE DEF IInv
<1>0. /\ Current.target \in Targets /\ Current.target \in NewTargets
      /\ Current.content = New /\ New \in Content
      /\ Len(files) \in Nat /\ DOMAIN files = 1..Len(files)
      /\ cursor \in 1..Len(files)
  BY CurrentFile DEF SyncFile
<1>1. TypeOK'
  BY <1>0 DEF TypeOK, SyncFile, Advance, Phases, call, threads, undo
<1>2. FilesInv'
  BY <1>0 DEF FilesInv, NewTargets, New, SyncFile, Advance, call, threads, undo
<1>3. BookInv'
  BY DEF SyncFile, Current, Advance, call, threads, undo, BookInv
<1>4. UndoInv'
  BY DEF SyncFile, Current, Advance, call, threads, undo, UndoInv, NewTargets
<1>5. PhaseInv'
  BY <1>0
     DEF PhaseInv, NewTargets, New, NoVault, TypeOK, SyncFile, Current, Advance,
         call, threads, undo
<1>6. FlushInv'
  BY <1>0
     DEF TypeOK, FilesInv, PhaseInv, SyncFile, Current, Advance, call, threads, undo,
         FlushInv, NewTargets
<1>7. AnswerInv'
  BY DEF SyncFile, Current, Advance, call, threads, undo, AnswerInv, New
<1>8. NoPageLost'
  BY DEF SyncFile, Current, Advance, call, threads, undo, NoPageLost, Complete
<1>9. FailureChangesNothing'
  BY DEF SyncFile, Current, Advance, call, threads, undo, FailureChangesNothing
<1>10. FlushedBeforePublished'
  BY DEF SyncFile, Current, Advance, call, threads, undo, FlushedBeforePublished
<1> QED
  BY <1>1, <1>2, <1>3, <1>4, <1>5, <1>6, <1>7, <1>8, <1>9, <1>10

LEMMA BackupStep == ASSUME IInv, Backup PROVE IInv'
<1> USE DEF IInv
<1>0. /\ Current.target \in Targets /\ Current.target \in NewTargets
      /\ Current.content = New /\ New \in Content
      /\ Len(files) \in Nat /\ DOMAIN files = 1..Len(files)
      /\ cursor \in 1..Len(files)
  BY CurrentFile DEF Backup
<1>1. TypeOK'
  BY <1>0 DEF TypeOK, Backup, Advance, Phases, vars, call, threads, commit, undo
<1>2. FilesInv'
  BY <1>0
     DEF FilesInv, NewTargets, New, Backup, Advance, vars, call, threads, commit,
         undo
<1>3. BookInv'
  BY DEF TypeOK, Backup, Current, Advance, call, threads, BookInv
<1>4. UndoInv'
  BY NoFileAssumption, PagesAssumption
     DEF TypeOK, Backup, Current, Advance, call, threads, UndoInv, NewTargets,
         PhaseInv, FilesInv
<1>5. PhaseInv'
  <2>1. committed = {} /\ ~torn /\ pc = "backup"
    BY DEF Backup, PhaseInv
  <2>2. vault'[Current.target] = before[Current.target]
    BY <1>0, <2>1 DEF Backup, UndoInv, TypeOK
  <2>3. \A k \in 1..(cursor - 1) : vault'[files[k].target] = before[files[k].target]
    <3>1. \A k \in DOMAIN files : files[k].target \in Targets
      <4>1. files \in Seq([target : Targets, content : Content])
        BY DEF TypeOK
      <4>2. \A k \in DOMAIN files : files[k] \in [target : Targets, content : Content]
        BY <1>0, <4>1, ElementOfSeq
      <4> QED
        BY <4>2
    <3>2. \A k \in 1..(cursor - 1) : vault[files[k].target] = before[files[k].target]
      BY <2>1 DEF PhaseInv
    <3>3. \A t \in Targets : t # Current.target => vault'[t] = vault[t]
      BY <1>0 DEF Backup, TypeOK
    <3> QED
      BY <1>0, <2>2, <3>1, <3>2, <3>3
  <2>4. \A k \in 1..cursor : vault'[files[k].target] = before[files[k].target]
    BY <1>0, <2>2, <2>3 DEF Current
  <2>5. CASE cursor < Len(files)
    BY <1>0, <2>1, <2>3, <2>4, <2>5 DEF Backup, Advance, PhaseInv, call
  <2>6. CASE ~ (cursor < Len(files))
    BY <1>0, <2>1, <2>4, <2>6 DEF Backup, Advance, PhaseInv, call
  <2> QED
    BY <2>5, <2>6
<1>6. FlushInv'
  BY DEF Backup, Current, Advance, call, threads, FlushInv, NewTargets
<1>7. AnswerInv'
  BY DEF Backup, Current, Advance, call, threads, AnswerInv, New
<1>8. NoPageLost'
  BY DEF TypeOK, Backup, Current, Advance, call, threads, NoPageLost, Complete,
         Vaulted, UndoInv, AnswerInv, New, FilesInv, PhaseInv
<1>9. FailureChangesNothing'
  BY DEF Backup, Current, Advance, call, threads, FailureChangesNothing
<1>10. FlushedBeforePublished'
  BY DEF TypeOK, Backup, Current, Advance, call, threads, FlushedBeforePublished,
         FlushInv, NewTargets
<1> QED
  BY <1>1, <1>2, <1>3, <1>4, <1>5, <1>6, <1>7, <1>8, <1>9, <1>10

LEMMA PublishStep == ASSUME IInv, Publish PROVE IInv'
<1> USE DEF IInv
<1>0. /\ Current.target \in Targets /\ Current.target \in NewTargets
      /\ Current.content = New /\ New \in Content
      /\ Len(files) \in Nat /\ DOMAIN files = 1..Len(files)
      /\ cursor \in 1..Len(files)
  BY CurrentFile DEF Publish
<1>1. TypeOK'
  BY <1>0 DEF TypeOK, Publish, Advance, Phases, call, threads
<1>2. FilesInv'
  BY <1>0
     DEF FilesInv, NewTargets, New, Publish, Advance, vars, call, threads, commit,
         undo
<1>3. BookInv'
  BY DEF TypeOK, Publish, Current, Advance, call, threads, BookInv, New, FilesInv
<1>4. UndoInv'
  BY DEF TypeOK, Publish, Current, Advance, call, threads, UndoInv, NewTargets,
         PhaseInv, FilesInv
<1>5. PhaseInv'
  BY <1>0
     DEF PhaseInv, NewTargets, New, NoVault, TypeOK, Publish, Current, Advance,
         call, threads
<1>6. FlushInv'
  BY DEF Publish, Current, Advance, call, threads, FlushInv, NewTargets
<1>7. AnswerInv'
  BY DEF Publish, Current, Advance, call, threads, AnswerInv, New
<1>8. NoPageLost'
  BY DEF TypeOK, Publish, Current, Advance, call, threads, NoPageLost, Complete,
         Vaulted, UndoInv, AnswerInv, New, FilesInv, PhaseInv
<1>9. FailureChangesNothing'
  BY DEF Publish, Current, Advance, call, threads, FailureChangesNothing
<1>10. FlushedBeforePublished'
  BY DEF TypeOK, Publish, Current, Advance, call, threads, FlushedBeforePublished,
         FlushInv, NewTargets
<1> QED
  BY <1>1, <1>2, <1>3, <1>4, <1>5, <1>6, <1>7, <1>8, <1>9, <1>10

LEMMA SyncDirectoryStep == ASSUME IInv, SyncDirectory PROVE IInv'
<1> USE DEF IInv
<1>1. TypeOK'
  BY DEF TypeOK, SyncDirectory, call, threads, commit, undo, Phases, Answers,
         Content
<1>2. FilesInv'
  BY DEF SyncDirectory, call, threads, commit, undo, FilesInv, NewTargets, New
<1>3. BookInv'
  BY DEF SyncDirectory, call, threads, commit, undo, BookInv
<1>4. UndoInv'
  BY DEF SyncDirectory, call, threads, commit, undo, UndoInv, NewTargets
<1>5. PhaseInv'
  BY DEF SyncDirectory, call, threads, commit, undo, PhaseInv, NewTargets, New,
         NoVault
<1>6. FlushInv'
  BY DEF SyncDirectory, call, threads, commit, undo, FlushInv, NewTargets
<1>7. AnswerInv'
  BY DEF TypeOK, SyncDirectory, call, threads, commit, undo, AnswerInv, New,
         PhaseInv, FilesInv, NewTargets
<1>8. NoPageLost'
  BY DEF SyncDirectory, call, threads, commit, undo, NoPageLost, Complete
<1>9. FailureChangesNothing'
  BY DEF SyncDirectory, call, threads, commit, undo, FailureChangesNothing
<1>10. FlushedBeforePublished'
  BY DEF SyncDirectory, call, threads, commit, undo, FlushedBeforePublished
<1> QED
  BY <1>1, <1>2, <1>3, <1>4, <1>5, <1>6, <1>7, <1>8, <1>9, <1>10

LEMMA CommitFailsStep == ASSUME IInv, CommitFails PROVE IInv'
<1> USE DEF IInv
<1>1. TypeOK'
  BY DEF TypeOK, CommitFails, call, threads, commit, undo, Phases, Answers, Content
<1>2. FilesInv'
  BY DEF CommitFails, call, threads, commit, undo, FilesInv, NewTargets, New
<1>3. BookInv'
  BY DEF CommitFails, call, threads, commit, undo, BookInv
<1>4. UndoInv'
  BY DEF CommitFails, call, threads, commit, undo, UndoInv, NewTargets
<1>5. PhaseInv'
  BY DEF CommitFails, call, threads, commit, undo, PhaseInv, NewTargets, New,
         NoVault
<1>6. FlushInv'
  BY DEF CommitFails, call, threads, commit, undo, FlushInv, NewTargets
<1>7. AnswerInv'
  BY DEF CommitFails, call, threads, commit, undo, AnswerInv, New
<1>8. NoPageLost'
  BY DEF CommitFails, call, threads, commit, undo, NoPageLost, Complete
<1>9. FailureChangesNothing'
  BY DEF CommitFails, call, threads, commit, undo, FailureChangesNothing
<1>10. FlushedBeforePublished'
  BY DEF CommitFails, call, threads, commit, undo, FlushedBeforePublished
<1> QED
  BY <1>1, <1>2, <1>3, <1>4, <1>5, <1>6, <1>7, <1>8, <1>9, <1>10

LEMMA UnlinkStep == ASSUME IInv, Unlink PROVE IInv'
<1> USE DEF IInv
<1>1. TypeOK'
  BY DEF TypeOK, Unlink, IsLast, call, threads, commit, Phases, Answers, Content
<1>2. FilesInv'
  BY DEF Unlink, IsLast, call, threads, commit, FilesInv, NewTargets, New
<1>3. BookInv'
  BY DEF TypeOK, Unlink, IsLast, call, threads, commit, BookInv
<1>4. UndoInv'
  BY DEF TypeOK, Unlink, IsLast, call, threads, commit, UndoInv, NewTargets,
         FilesInv
<1>5. PhaseInv'
  BY DEF Unlink, IsLast, call, threads, commit, PhaseInv, NewTargets, New, NoVault
<1>6. FlushInv'
  BY DEF Unlink, IsLast, call, threads, commit, FlushInv, NewTargets
<1>7. AnswerInv'
  BY DEF Unlink, IsLast, call, threads, commit, AnswerInv, New
<1>8. NoPageLost'
  BY DEF TypeOK, Unlink, IsLast, call, threads, commit, NoPageLost, Complete,
         Vaulted, UndoInv, New
<1>9. FailureChangesNothing'
  BY DEF Unlink, IsLast, call, threads, commit, FailureChangesNothing
<1>10. FlushedBeforePublished'
  BY DEF Unlink, IsLast, call, threads, commit, FlushedBeforePublished
<1> QED
  BY <1>1, <1>2, <1>3, <1>4, <1>5, <1>6, <1>7, <1>8, <1>9, <1>10

LEMMA RestoreBackupStep == ASSUME IInv, RestoreBackup PROVE IInv'
<1> USE DEF IInv
<1>1. TypeOK'
  BY DEF TypeOK, RestoreBackup, IsLast, call, threads, commit, Phases, Answers,
         Content
<1>2. FilesInv'
  BY DEF RestoreBackup, IsLast, call, threads, commit, FilesInv, NewTargets, New
<1>3. BookInv'
  <2>1. \A t \in Targets : book'[t] = book[t] \/ (vault[t] = before[t] /\ book'[t] = vault[t])
    BY DEF RestoreBackup, TypeOK, UndoInv, PhaseInv
  <2> QED
    BY <2>1 DEF BookInv, RestoreBackup, call, TypeOK, Content
<1>4. UndoInv'
  BY DEF TypeOK, RestoreBackup, IsLast, call, threads, commit, UndoInv, NewTargets,
         PhaseInv
<1>5. PhaseInv'
  BY DEF RestoreBackup, IsLast, call, threads, commit, PhaseInv, NewTargets, New,
         NoVault
<1>6. FlushInv'
  BY DEF RestoreBackup, IsLast, call, threads, commit, FlushInv, NewTargets
<1>7. AnswerInv'
  BY DEF RestoreBackup, IsLast, call, threads, commit, AnswerInv, New
<1>8. NoPageLost'
  BY DEF TypeOK, RestoreBackup, IsLast, call, threads, commit, NoPageLost, Complete,
         Vaulted, UndoInv, New
<1>9. FailureChangesNothing'
  BY DEF RestoreBackup, IsLast, call, threads, commit, FailureChangesNothing
<1>10. FlushedBeforePublished'
  BY DEF RestoreBackup, IsLast, call, threads, commit, FlushedBeforePublished
<1> QED
  BY <1>1, <1>2, <1>3, <1>4, <1>5, <1>6, <1>7, <1>8, <1>9, <1>10

LEMMA EndRollbackStep == ASSUME IInv, EndRollback PROVE IInv'
<1> USE DEF IInv
<1>1. TypeOK'
  BY VaultedType DEF TypeOK, EndRollback, NoCommit, Phases, Answers, call, threads
<1>2. FilesInv'
  BY DEF EndRollback, NoCommit, call, threads, FilesInv, NewTargets, New
<1>3. BookInv'
  BY DEF EndRollback, NoCommit, call, threads, BookInv
<1>4. UndoInv'
  BY DEF TypeOK, EndRollback, NoCommit, call, threads, UndoInv, NewTargets, PhaseInv
<1>5. PhaseInv'
  BY DEF EndRollback, NoCommit, call, threads, PhaseInv, NewTargets, New, NoVault
<1>6. FlushInv'
  BY DEF EndRollback, NoCommit, call, threads, FlushInv, NewTargets
<1>7. AnswerInv'
  BY DEF EndRollback, NoCommit, call, threads, AnswerInv, New
<1>8. NoPageLost'
  BY DEF EndRollback, NoCommit, call, threads, NoPageLost, Complete, Vaulted
<1>9. FailureChangesNothing'
  BY DEF TypeOK, EndRollback, NoCommit, call, threads, FailureChangesNothing,
         UndoInv, PhaseInv, AnswerInv
<1>10. FlushedBeforePublished'
  BY DEF EndRollback, NoCommit, call, threads, FlushedBeforePublished
<1> QED
  BY <1>1, <1>2, <1>3, <1>4, <1>5, <1>6, <1>7, <1>8, <1>9, <1>10

LEMMA RemoveStagingStep == ASSUME IInv, RemoveStaging PROVE IInv'
<1> USE DEF IInv
<1>1. TypeOK'
  BY VaultedType DEF TypeOK, RemoveStaging, NoCommit, Phases, Answers, call, threads
<1>2. FilesInv'
  BY DEF RemoveStaging, NoCommit, call, threads, FilesInv, NewTargets, New
<1>3. BookInv'
  BY DEF RemoveStaging, NoCommit, call, threads, BookInv
<1>4. UndoInv'
  BY DEF RemoveStaging, NoCommit, call, threads, UndoInv, NewTargets
<1>5. PhaseInv'
  BY DEF RemoveStaging, NoCommit, call, threads, PhaseInv, NewTargets, New, NoVault
<1>6. FlushInv'
  BY DEF RemoveStaging, NoCommit, call, threads, FlushInv, NewTargets
<1>7. AnswerInv'
  BY DEF RemoveStaging, NoCommit, call, threads, AnswerInv, New
<1>8. NoPageLost'
  <2> SUFFICES ASSUME NEW t \in Targets, before[t] # NoFile,
                      ~ (files # <<>> /\ Complete)
               PROVE  book[t] = before[t] \/ <<t, before[t]>> \in kept'
    BY DEF NoPageLost, RemoveStaging, Complete, call
  <2>1. CASE pc # "cleanup"
    <3>1. book[t] = before[t] \/ vault[t] = before[t]
      BY <2>1, UndoInv DEF RemoveStaging, UndoInv
    <3>2. vault[t] = before[t] => <<t, before[t]>> \in Vaulted
      BY DEF Vaulted
    <3> QED
      BY <2>1, <3>1, <3>2 DEF RemoveStaging
  <2>2. CASE pc = "cleanup"
    <3>1. answer # "success"
      BY DEF AnswerInv, Complete, FilesInv, IInv
    <3>2. book = before
      BY <2>2, <3>1 DEF AnswerInv, FailureChangesNothing
    <3> QED
      BY <3>2
  <2> QED
    BY <2>1, <2>2
<1>9. FailureChangesNothing'
  BY DEF RemoveStaging, NoCommit, call, threads, FailureChangesNothing
<1>10. FlushedBeforePublished'
  BY DEF RemoveStaging, NoCommit, call, threads, FlushedBeforePublished
<1> QED
  BY <1>1, <1>2, <1>3, <1>4, <1>5, <1>6, <1>7, <1>8, <1>9, <1>10

LEMMA CrashStep == ASSUME IInv, Crash PROVE IInv'
<1> USE DEF IInv
<1>1. TypeOK'
  <2>1. kept' \subseteq Targets \X Content /\ vault' \in [Targets -> Content \cup {NoFile}]
    BY VaultedType DEF TypeOK, Crash
  <2>2. camera' \in [Sides -> {"running", "raised", "returned"}] /\ report' \in [Sides -> Seq(Path)]
    BY DEF Crash, NoThreads
  <2>3. pc' \in Phases /\ answer' \in Answers
    BY DEF Crash, Phases, Answers
  <2> QED
    BY <2>1, <2>2, <2>3 DEF TypeOK, Crash, NoCommit, call
<1>2. FilesInv'
  BY DEF Crash, NoCommit, NoThreads, call, FilesInv, NewTargets, New
<1>3. BookInv'
  BY DEF Crash, NoCommit, NoThreads, call, BookInv
<1>4. UndoInv'
  BY DEF Crash, NoCommit, NoThreads, call, UndoInv, NewTargets
<1>5. PhaseInv'
  BY DEF Crash, NoCommit, NoThreads, call, PhaseInv, NewTargets, New, NoVault
<1>6. FlushInv'
  BY DEF Crash, NoCommit, NoThreads, call, FlushInv, NewTargets
<1>7. AnswerInv'
  BY DEF Crash, NoCommit, NoThreads, call, AnswerInv, New
<1>8. NoPageLost'
  <2> SUFFICES ASSUME NEW t \in Targets, before[t] # NoFile,
                      ~ (files # <<>> /\ Complete)
               PROVE  book[t] = before[t] \/ <<t, before[t]>> \in kept'
    BY DEF NoPageLost, Crash, Complete, call
  <2>1. CASE pc # "cleanup"
    <3>1. book[t] = before[t] \/ vault[t] = before[t]
      BY <2>1, UndoInv DEF Crash, UndoInv
    <3>2. vault[t] = before[t] => <<t, before[t]>> \in Vaulted
      BY DEF Vaulted
    <3> QED
      BY <2>1, <3>1, <3>2 DEF Crash
  <2>2. CASE pc = "cleanup"
    <3>1. answer # "success"
      BY DEF AnswerInv, Complete, FilesInv, IInv
    <3>2. book = before
      BY <2>2, <3>1 DEF AnswerInv, FailureChangesNothing
    <3> QED
      BY <3>2
  <2> QED
    BY <2>1, <2>2
<1>9. FailureChangesNothing'
  BY DEF Crash, NoCommit, NoThreads, call, FailureChangesNothing
<1>10. FlushedBeforePublished'
  BY DEF Crash, NoCommit, NoThreads, call, FlushedBeforePublished
<1> QED
  BY <1>1, <1>2, <1>3, <1>4, <1>5, <1>6, <1>7, <1>8, <1>9, <1>10

\* The even files followed by the odd ones are what FilesInv asks for.
LEMMA FilesOfValid ==
    ASSUME TypeOK, Valid(report["even"]), Valid(report["odd"])
    PROVE  LET fs == TargetsOf(page, report["even"]) \o TargetsOf(page + 1, report["odd"])
           IN  /\ fs \in Seq([target : Targets, content : Content])
               /\ fs # <<>>
               /\ \A k \in DOMAIN fs : /\ fs[k].content = New
                                       /\ fs[k].target[1] \in {page, page + 1}
               /\ \E k \in DOMAIN fs : fs[k].target = <<page, "jpg">>
               /\ \E k \in DOMAIN fs : fs[k].target = <<page + 1, "jpg">>
<1> DEFINE R == [target : Targets, content : Content]
           es == TargetsOf(page, report["even"])
           os == TargetsOf(page + 1, report["odd"])
           fs == es \o os
<1>1. page \in Pages /\ page + 1 \in Pages /\ page \in Nat
  BY PagesType DEF TypeOK
<1>2. report["even"] \in Seq(Path) /\ report["odd"] \in Seq(Path)
  BY DEF TypeOK, Sides
<1>3. /\ es \in Seq(R) /\ es # <<>>
      /\ \A k \in DOMAIN es : es[k].content = New /\ es[k].target[1] = page
      /\ \E k \in DOMAIN es : es[k].target = <<page, "jpg">>
  BY <1>1, <1>2, TargetsOfValid
<1>4. /\ os \in Seq(R) /\ os # <<>>
      /\ \A k \in DOMAIN os : os[k].content = New /\ os[k].target[1] = page + 1
      /\ \E k \in DOMAIN os : os[k].target = <<page + 1, "jpg">>
  BY <1>1, <1>2, TargetsOfValid
<1> HIDE DEF R, es, os
<1>5. /\ fs \in Seq(R) /\ Len(fs) = Len(es) + Len(os)
      /\ \A k \in 1..(Len(es) + Len(os)) :
           fs[k] = IF k <= Len(es) THEN es[k] ELSE os[k - Len(es)]
  BY <1>3, <1>4, ConcatProperties
<1>6. /\ Len(es) \in Nat /\ DOMAIN es = 1..Len(es)
      /\ Len(os) \in Nat /\ DOMAIN os = 1..Len(os)
      /\ DOMAIN fs = 1..(Len(es) + Len(os))
  BY <1>3, <1>4, <1>5
<1> HIDE DEF fs
<1>7. ASSUME NEW k \in DOMAIN fs
      PROVE  fs[k].content = New /\ fs[k].target[1] \in {page, page + 1}
  <2>1. CASE k <= Len(es)
    BY <1>3, <1>5, <1>6, <2>1
  <2>2. CASE ~ (k <= Len(es))
    <3>1. k - Len(es) \in DOMAIN os /\ fs[k] = os[k - Len(es)]
      BY <1>5, <1>6, <2>2
    <3> QED
      BY <1>4, <3>1
  <2> QED
    BY <2>1, <2>2
<1>8. \E k \in DOMAIN fs : fs[k].target = <<page, "jpg">>
  <2>1. PICK k \in DOMAIN es : es[k].target = <<page, "jpg">>
    BY <1>3
  <2>2. k \in DOMAIN fs /\ fs[k] = es[k]
    BY <1>5, <1>6
  <2> QED
    BY <2>1, <2>2
<1>9. \E k \in DOMAIN fs : fs[k].target = <<page + 1, "jpg">>
  <2>1. PICK k \in DOMAIN os : os[k].target = <<page + 1, "jpg">>
    BY <1>4
  <2>2. k + Len(es) \in DOMAIN fs /\ fs[k + Len(es)] = os[k]
    BY <1>5, <1>6
  <2> QED
    BY <2>1, <2>2
<1>10. fs # <<>>
  BY <1>8
<1> QED
  BY <1>5, <1>7, <1>8, <1>9, <1>10 DEF fs, es, os, R

LEMMA CollectStep == ASSUME IInv, Collect PROVE IInv'
<1> DEFINE fs == TargetsOf(page, report["even"]) \o TargetsOf(page + 1, report["odd"])
<1> USE DEF IInv
<1>1. /\ pc = "cameras" /\ files = <<>> /\ cursor = 1 /\ answer = "none"
      /\ backups = {} /\ committed = {} /\ ~torn
  BY DEF Collect, FilesInv, PhaseInv, AnswerInv
<1>2. \A t \in Targets : vault[t] = NoFile /\ book[t] = before[t]
  BY <1>1 DEF UndoInv
<1>3. book = before
  BY <1>2 DEF TypeOK
<1>4. /\ pc' \in {"mkdir", "cleanup"}
      /\ pc' = "cleanup" => answer' \in {"failed", "error"} /\ files' = files
      /\ pc' = "mkdir" => answer' = "none" /\ files' = fs
                          /\ Valid(report["even"]) /\ Valid(report["odd"])
  BY <1>1 DEF Collect, Sides
<1>5. UNCHANGED <<book, kept, vault, take, page, before, cursor, flushed, backups, committed, torn>>
  BY DEF Collect, call, undo
<1>6. /\ camera' \in [Sides -> {"running", "raised", "returned"}]
      /\ report' \in [Sides -> Seq(Path)]
  BY DEF Collect, NoThreads
<1>7. /\ files' \in Seq([target : Targets, content : Content])
      /\ \A k \in DOMAIN files' : /\ files'[k].content = New
                                  /\ files'[k].target[1] \in {page, page + 1}
      /\ pc' = "mkdir" => files' # <<>>
      /\ files' # <<>> =>
           {<<page, "jpg">>, <<page + 1, "jpg">>}
             \subseteq {files'[k].target : k \in DOMAIN files'}
  <2>1. CASE pc' = "mkdir"
    <3> HIDE DEF fs
    <3>1. /\ fs \in Seq([target : Targets, content : Content])
          /\ fs # <<>>
          /\ \A k \in DOMAIN fs : /\ fs[k].content = New
                                  /\ fs[k].target[1] \in {page, page + 1}
          /\ \E k \in DOMAIN fs : fs[k].target = <<page, "jpg">>
          /\ \E k \in DOMAIN fs : fs[k].target = <<page + 1, "jpg">>
      BY <1>4, <2>1, FilesOfValid DEF fs
    <3> QED
      BY <1>4, <2>1, <3>1
  <2>2. CASE pc' = "cleanup"
    BY <1>1, <1>4, <2>2 DEF TypeOK
  <2> QED
    BY <1>4, <2>1, <2>2
<1>8. TypeOK'
  BY <1>1, <1>4, <1>5, <1>6, <1>7 DEF TypeOK, Phases, Answers
<1>9. FilesInv'
  BY <1>1, <1>4, <1>5, <1>7 DEF FilesInv, New, NewTargets
<1>10. BookInv'
  BY <1>1, <1>5 DEF BookInv
<1>11. UndoInv'
  BY <1>1, <1>2, <1>5 DEF UndoInv
<1>12. PhaseInv' /\ FlushInv'
  BY <1>1, <1>4, <1>5 DEF PhaseInv, FlushInv
<1>13. AnswerInv'
  BY <1>1, <1>4 DEF AnswerInv
<1>14. NoPageLost' /\ FailureChangesNothing' /\ FlushedBeforePublished'
  BY <1>1, <1>3, <1>5 DEF NoPageLost, FailureChangesNothing, FlushedBeforePublished
<1> QED
  BY <1>8, <1>9, <1>10, <1>11, <1>12, <1>13, <1>14

LEMMA InitIInv == ASSUME Init PROVE IInv
<1>1. [take |-> 0, fault |-> "none"] \in Content
  BY DEF Content, Faults
<1>2. book \in [Targets -> Content \cup {NoFile}] /\ before = book
  BY <1>1 DEF Init
<1>3. files \in Seq([target : Targets, content : Content]) /\ report \in [Sides -> Seq(Path)]
  BY DEF Init
<1>4. TypeOK
  BY <1>2, <1>3 DEF Init, TypeOK, Phases, Answers, NoVault
<1>5. FilesInv /\ BookInv /\ UndoInv
  BY <1>1 DEF Init, FilesInv, BookInv, UndoInv, NewTargets
<1>6. PhaseInv /\ FlushInv /\ AnswerInv
  BY DEF Init, PhaseInv, FlushInv, AnswerInv
<1>7. NoPageLost /\ FailureChangesNothing /\ FlushedBeforePublished
  BY DEF Init, NoPageLost, FailureChangesNothing, FlushedBeforePublished
<1> QED
  BY <1>4, <1>5, <1>6, <1>7 DEF IInv

LEMMA StutterStep == ASSUME IInv, UNCHANGED vars PROVE IInv'
<1> USE DEF vars, call, threads, commit, undo
<1>1. TypeOK'
  BY DEF IInv, TypeOK
<1>2. FilesInv' /\ BookInv' /\ UndoInv'
  BY DEF IInv, FilesInv, BookInv, UndoInv, NewTargets, New
<1>3. PhaseInv' /\ FlushInv' /\ AnswerInv'
  BY DEF IInv, PhaseInv, FlushInv, AnswerInv, NewTargets, New
<1>4. NoPageLost' /\ FailureChangesNothing' /\ FlushedBeforePublished'
  BY DEF IInv, NoPageLost, FailureChangesNothing, FlushedBeforePublished, Complete
<1> QED
  BY <1>1, <1>2, <1>3, <1>4 DEF IInv

LEMMA NextIInv == ASSUME IInv, [Next]_vars PROVE IInv'
<1>1. CASE Step
  BY <1>1, CameraEndsStep, CollectStep, MakeBackupDirectoryStep, SyncFileStep,
     BackupStep, PublishStep, SyncDirectoryStep, CommitFailsStep, UnlinkStep,
     RestoreBackupStep, EndRollbackStep, RemoveStagingStep DEF Step
<1> QED
  BY <1>1, BeginStep, CrashStep, StutterStep DEF Next

\* The inductive invariant holds in every behaviour of capture_pair.
THEOREM InvariantHolds == Spec => []IInv
BY InitIInv, NextIInv, PTL DEF Spec

\* Every variable of the coordinator stays within its type.
THEOREM TypeCorrect == Spec => []TypeOK
<1>1. IInv => TypeOK
  BY DEF IInv
<1> QED
  BY <1>1, InvariantHolds, PTL

\* Whatever file operations fail and wherever the process stops, a page file that
\* was published before a call is never destroyed without its whole replacement.
THEOREM PagesNeverLost == Spec => []NoPageLost
<1>1. IInv => NoPageLost
  BY DEF IInv
<1> QED
  BY <1>1, InvariantHolds, PTL

\* A call that fails without naming a recovery directory has changed no page.
THEOREM FailureIsClean == Spec => []FailureChangesNothing
<1>1. IInv => FailureChangesNothing
  BY DEF IInv
<1> QED
  BY <1>1, InvariantHolds, PTL

\* All files of the pair are flushed before any page name changes.
THEOREM FlushComesFirst == Spec => []FlushedBeforePublished
<1>1. IInv => FlushedBeforePublished
  BY DEF IInv
<1> QED
  BY <1>1, InvariantHolds, PTL

\* No faulty file is ever published, and success means a JPEG for both pages.
THEOREM ImagesOnly == Spec => []OnlyImagesPublished
<1>1. ASSUME IInv PROVE OnlyImagesPublished
  <2>1. \A t \in Targets : book[t] # NoFile => book[t].fault = "none"
    BY <1>1 DEF IInv, BookInv
  <2>2. ASSUME answer = "success", NEW p \in {page, page + 1}
        PROVE  book[<<p, "jpg">>].take = take
    <3>1. <<p, "jpg">> \in NewTargets
      BY <1>1, <2>2 DEF IInv, FilesInv, AnswerInv
    <3>2. PICK k \in DOMAIN files : files[k].target = <<p, "jpg">>
      BY <3>1 DEF NewTargets
    <3> QED
      BY <1>1, <2>2, <3>2 DEF IInv, AnswerInv, New
  <2> QED
    BY <2>1, <2>2 DEF OnlyImagesPublished
<1> QED
  BY <1>1, InvariantHolds, PTL
-----------------------------------------------------------------------------
\* What a torn pair may consist of.

LEMMA ContentStep == ASSUME IInv, ContentInv, [Next]_vars PROVE ContentInv'
<1> USE DEF ContentInv, New
<1>1. ASSUME NEW p \in EvenPages, Begin(p) PROVE ContentInv'
  BY <1>1 DEF Begin
<1>2. ASSUME UNCHANGED <<book, pc, take, before>> PROVE ContentInv'
  BY <1>2
<1>3. ASSUME pc # "idle", UNCHANGED <<book, take, before>> PROVE ContentInv'
  BY <1>3
<1>4. CASE Backup
  <2>1. Current.target \in Targets /\ book \in [Targets -> Content \cup {NoFile}]
    BY <1>4, CurrentFile DEF Backup, IInv, TypeOK
  <2> QED
    BY <1>4, <2>1 DEF Backup, call
<1>5. CASE Publish
  <2>1. Current.target \in Targets /\ Current.content = New /\ book \in [Targets -> Content \cup {NoFile}]
    BY <1>5, CurrentFile DEF Publish, IInv, TypeOK
  <2> QED
    BY <1>5, <2>1 DEF Publish, call
<1>6. CASE Unlink
  <2>1. book \in [Targets -> Content \cup {NoFile}]
    BY DEF IInv, TypeOK
  <2> QED
    BY <1>6, <2>1 DEF Unlink, call
<1>7. CASE RestoreBackup
  <2>1. /\ pc # "idle" /\ UNCHANGED <<take, before>>
        /\ \/ UNCHANGED book
           \/ \E t \in backups : book' = [book EXCEPT ![t] = vault[t]]
    BY <1>7 DEF RestoreBackup, call
  <2>2. \A t \in Targets : vault[t] \in {NoFile, before[t]}
    BY <2>1 DEF IInv, UndoInv
  <2>3. backups \subseteq Targets /\ book \in [Targets -> Content \cup {NoFile}]
    BY DEF IInv, TypeOK
  <2> QED
    BY <2>1, <2>2, <2>3
<1>8. CASE Step
  <2>1. CASE RemoveStaging
    BY <2>1 DEF RemoveStaging
  <2>2. CASE EndRollback
    BY <2>2, <1>3 DEF EndRollback, call
  <2>3. CASE \/ \E side \in Sides : CameraEnds(side)
             \/ Collect \/ MakeBackupDirectory \/ SyncFile \/ SyncDirectory \/ CommitFails
    BY <2>3, <1>3
       DEF CameraEnds, Collect, MakeBackupDirectory, SyncFile, SyncDirectory,
           CommitFails, call
  <2> QED
    BY <1>8, <2>1, <2>2, <2>3, <1>4, <1>5, <1>6, <1>7 DEF Step
<1>9. CASE Crash
  BY <1>9 DEF Crash
<1> QED
  BY <1>1, <1>2, <1>8, <1>9 DEF Next, vars, call

\* A target never holds a file of a third call, whatever fails during the commit and
\* its rollback.
THEOREM ContentHolds == Spec => []ContentInv
<1>1. Init => ContentInv
  BY DEF Init, ContentInv
<1>2. IInv /\ ContentInv /\ [Next]_vars => ContentInv'
  BY ContentStep
<1> QED
  BY <1>1, <1>2, InvariantHolds, PTL DEF Spec

-----------------------------------------------------------------------------
\* The refinement of PairTransaction.

\* What the refinement mapping makes of the states of a call.
LEMMA RunningStep ==
    ASSUME IInv, pc # "idle", pc' # "idle", UNCHANGED <<page, before, kept>>
    PROVE  UNCHANGED Transaction!pvars
BY DEF Transaction!pvars, Transaction!ovars

\* A call replaces files of its own pages only.
LEMMA ReplacesStep ==
    ASSUME IInv, pc # "idle", pc' = "idle", UNCHANGED book
    PROVE  Transaction!Replaces
<1>1. book \in [Targets -> Content \cup {NoFile}]
  BY DEF IInv, TypeOK
<1>2. \A t \in Targets : t[1] \notin {page, page + 1} => book[t] = before[t]
  BY DEF IInv, UndoInv, FilesInv, NewTargets
<1> QED
  BY <1>1, <1>2 DEF Transaction!Replaces, Transaction!Targets, Targets

\* The files of a call are told apart from the ones it finds.
LEMMA NewIsNew ==
    ASSUME IInv, pc # "idle"
    PROVE  New # NoFile /\ \A t \in Targets : before[t] # New
<1>1. take \in Nat
  BY DEF IInv, TypeOK
<1>2. New # NoFile
  BY <1>1, NoFileAssumption DEF New, Content, Faults
<1>3. \A t \in Targets : before[t] # NoFile => before[t] \in Content /\ before[t].take < take
  BY DEF IInv, TypeOK, BookInv
<1> QED
  BY <1>1, <1>2, <1>3 DEF New, Content

\* A call that returns success, or stops while it removes the staging directory
\* of a success, is the abstract Succeed.
LEMMA SuccessStep ==
    ASSUME IInv, pc = "cleanup", answer = "success", pc' = "idle",
           UNCHANGED <<book, take, page, before>>,
           answer' \in {"success", "crashed"}
    PROVE  Transaction!Succeed
<1>1. Transaction!Replaces
  BY ReplacesStep
<1>2. <<page, "jpg">> \in NewTargets /\ <<page + 1, "jpg">> \in NewTargets
  BY DEF IInv, AnswerInv, FilesInv
<1>3. \A t \in NewTargets : book[t] = New
  BY DEF IInv, AnswerInv, NewTargets
<1>4. \A t \in Targets : t \notin NewTargets => book[t] = before[t]
  BY DEF IInv, UndoInv
<1>5. Transaction!Ends({"success", "crashed"})
  BY DEF Transaction!Ends
<1> QED
  BY <1>1, <1>2, <1>3, <1>4, <1>5, NewIsNew
     DEF Transaction!Succeed, Transaction!Targets, Targets

\* A failure without a recovery directory is the abstract Refuse.
LEMMA FailureStep ==
    ASSUME IInv, pc = "cleanup", answer \in {"failed", "error"}, pc' = "idle",
           UNCHANGED <<book, answer, page>>
    PROVE  Transaction!Refuse
BY DEF IInv, FailureChangesNothing, Transaction!Refuse, Transaction!Ends

\* A call that ends with the old files in the book or kept is the abstract Tear.
LEMMA TearStep ==
    ASSUME IInv, ContentInv, pc # "idle", pc' = "idle", UNCHANGED <<book, page>>,
           answer' \in {"incomplete", "crashed"},
           \A t \in Targets : book[t] = before[t]
                              \/ (before[t] # NoFile => <<t, before[t]>> \in kept')
    PROVE  Transaction!Tear /\ Transaction!NothingLost
<1>1. Transaction!Replaces
  BY ReplacesStep
<1>2. \A t \in Targets : book[t] \in {before[t], NoFile, New}
  BY DEF ContentInv
<1>3. Transaction!Ends({"incomplete", "crashed"})
  BY DEF Transaction!Ends
<1>4. Transaction!Tear
  BY <1>1, <1>2, <1>3 DEF Transaction!Tear, Transaction!Targets, Targets
<1>5. Transaction!NothingLost
  BY DEF Transaction!NothingLost, Transaction!Targets, Targets
<1> QED
  BY <1>4, <1>5

LEMMA TransactionInit == ASSUME Init PROVE Transaction!PInit
<1>1. book \in [Targets -> Content \cup {NoFile}]
  BY InitIInv DEF IInv, TypeOK
<1>2. page \in Pages
  BY PagesType DEF Init
<1> QED
  BY <1>1, <1>2 DEF Init, Transaction!PInit, Transaction!OInit, Transaction!Targets, Targets

LEMMA TransactionNext ==
    ASSUME IInv, ContentInv, [Next]_vars
    PROVE  [Transaction!PNext]_(Transaction!pvars)
<1> USE DEF Transaction!PNext
<1>1. ASSUME NEW p \in EvenPages, Begin(p)
      PROVE  (\E q \in Pages : Transaction!Start(q)) /\ UNCHANGED kept
  <2>1. {p, p + 1} \subseteq Pages
    BY PagesType
  <2>2. Transaction!Start(p) /\ UNCHANGED kept
    BY <1>1, <2>1 DEF Begin, Transaction!Start
  <2> QED
    BY <2>1, <2>2
<1>2. CASE Step /\ pc' # "idle"
  <2>1. pc # "idle" /\ UNCHANGED <<page, before, kept>>
    BY <1>2
       DEF Step, CameraEnds, Collect, MakeBackupDirectory, SyncFile, Backup,
           Publish, SyncDirectory, CommitFails, Unlink, RestoreBackup, EndRollback,
           RemoveStaging, call
  <2> QED
    BY <1>2, <2>1, RunningStep
<1>3. CASE EndRollback /\ pc' = "idle"
  <2>1. /\ pc = "resync" /\ kept' = kept \cup Vaulted /\ answer' = "incomplete"
        /\ UNCHANGED <<book, page>>
    BY <1>3 DEF EndRollback, call
  <2>2. \A t \in Targets : book[t] = before[t] \/ vault[t] = before[t]
    BY <2>1 DEF IInv, UndoInv
  <2>3. \A t \in Targets : vault[t] = before[t] /\ before[t] # NoFile
                             => <<t, before[t]>> \in Vaulted
    BY DEF Vaulted
  <2>4. Transaction!Tear /\ Transaction!NothingLost
    BY <1>3, <2>1, <2>2, <2>3, TearStep
  <2> QED
    BY <2>1, <2>4
<1>4. CASE RemoveStaging
  <2>1. /\ pc = "cleanup" /\ pc' = "idle" /\ kept \subseteq kept'
        /\ UNCHANGED <<book, answer, take, page, before>>
    BY <1>4 DEF RemoveStaging, call
  <2>2. CASE answer = "success"
    <3>1. Transaction!Succeed
      BY <2>1, <2>2, SuccessStep
    <3> QED
      BY <2>1, <3>1
  <2>3. CASE answer \in {"failed", "error"}
    <3>1. Transaction!Refuse
      BY <2>1, <2>3, FailureStep
    <3> QED
      BY <2>1, <3>1
  <2> QED
    BY <2>1, <2>2, <2>3 DEF IInv, AnswerInv
<1>5. CASE Crash
  <2>1. /\ pc # "idle" /\ pc' = "idle" /\ kept \subseteq kept' /\ answer' = "crashed"
        /\ UNCHANGED <<book, take, page, before>>
    BY <1>5 DEF Crash, call
  <2>2. CASE pc = "cleanup" /\ answer = "success"
    <3>1. Transaction!Succeed
      BY <2>1, <2>2, SuccessStep
    <3> QED
      BY <2>1, <3>1
  <2>3. CASE pc = "cleanup" /\ answer # "success"
    <3>1. book = before
      BY <2>3 DEF IInv, AnswerInv, FailureChangesNothing
    <3>2. Transaction!Tear /\ Transaction!NothingLost
      BY <2>1, <3>1, TearStep
    <3> QED
      BY <2>1, <3>2
  <2>4. CASE pc # "cleanup"
    <3>1. kept' = kept \cup Vaulted
      BY <1>5, <2>4 DEF Crash
    <3>2. \A t \in Targets : book[t] = before[t] \/ vault[t] = before[t]
      BY <2>1 DEF IInv, UndoInv
    <3>3. \A t \in Targets : vault[t] = before[t] /\ before[t] # NoFile
                               => <<t, before[t]>> \in Vaulted
      BY DEF Vaulted
    <3>4. Transaction!Tear /\ Transaction!NothingLost
      BY <2>1, <3>1, <3>2, <3>3, TearStep
    <3> QED
      BY <2>1, <3>4
  <2> QED
    BY <2>2, <2>3, <2>4
<1>6. CASE UNCHANGED vars
  BY <1>6 DEF vars, call, Transaction!pvars, Transaction!ovars
<1>7. CASE Step /\ pc' = "idle"
  <2>1. EndRollback \/ RemoveStaging
    BY <1>7
       DEF Step, CameraEnds, Collect, MakeBackupDirectory, SyncFile, Backup,
           Publish, SyncDirectory, CommitFails, Unlink, RestoreBackup, Advance
  <2> QED
    BY <1>3, <1>4, <1>7, <2>1
<1> QED
  BY <1>1, <1>2, <1>5, <1>6, <1>7 DEF Next

\* capture_pair with all its file operations, failures and crashes implements the
\* transaction on a pair: all files of both pages, none, or nothing lost.
THEOREM Refinement == Spec => ImplementsTransaction
<1>1. Init => Transaction!PInit
  BY TransactionInit
<1>2. IInv /\ ContentInv /\ [Next]_vars => [Transaction!PNext]_(Transaction!pvars)
  BY TransactionNext
<1> QED
  BY <1>1, <1>2, InvariantHolds, ContentHolds, PTL
     DEF Spec, ImplementsTransaction, Transaction!PSpec
=============================================================================
