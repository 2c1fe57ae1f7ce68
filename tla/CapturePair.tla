----------------------------- MODULE CapturePair -----------------------------
(***************************************************************************)
(* CaptureCoordinator (domain/capture.py): two cameras photograph an even   *)
(* and an odd page at the same time into a staging directory; the files are *)
(* checked, flushed, and moved under the names of the two pages.  Every     *)
(* file operation may fail, the process may stop between any two of them,   *)
(* and a failed commit is rolled back operation by operation.               *)
(*                                                                          *)
(* A target is a page with a published suffix.  A file's content is told    *)
(* apart by the call that took it and by the fault it may have.             *)
(***************************************************************************)
EXTENDS Integers, Sequences, FiniteSets

CONSTANTS
    EvenPages,      \* even page numbers a caller passes
    Suffixes,       \* file types a camera may return
    ImageSuffixes,  \* those of them in CAPTURE_IMAGE_SUFFIXES
    Reports,        \* what Camera.capture may return: sequences of paths
    MaxTakes,       \* bound on the number of calls
    NoFile

Sides == {"even", "odd"}

\* "empty" stands for an empty or missing file, "stray" for a path that is not
\* the requested staging name plus a suffix.
Faults == {"none", "empty", "symlink", "stray"}

Path == [suffix : Suffixes, fault : Faults]

PublishedSuffix(s) == IF s = "jpeg" THEN "jpg" ELSE s

PublishedSuffixes == {PublishedSuffix(s) : s \in ImageSuffixes}

Pages == EvenPages \cup {p + 1 : p \in EvenPages}

Targets == Pages \X PublishedSuffixes

Content == [take : Nat, fault : Faults]

ASSUME PagesAssumption ==
    EvenPages \subseteq {p \in Nat : p % 2 = 0}

ASSUME SuffixAssumption ==
    /\ {"jpg", "jpeg"} \subseteq ImageSuffixes
    /\ ImageSuffixes \subseteq Suffixes

ASSUME ReportsAssumption == Reports \subseteq Seq(Path)

ASSUME BoundAssumption == MaxTakes \in Nat

ASSUME NoFileAssumption == NoFile \notin Content

VARIABLES
    book,       \* the image directory: what each target holds
    kept,       \* files lying in staging directories that nobody uses any more
    take,       \* number of calls so far
    page,       \* even_page of the last call
    pc,         \* where that call is
    camera,     \* each camera thread: "running", "raised" or "returned"
    report,     \* the paths it returned
    files,      \* what _commit publishes: a sequence of [target, content]
    cursor,     \* position of _commit's loop over files
    flushed,    \* targets whose source was fsynced
    vault,      \* the staging directory's backups/, by target
    backups,    \* the list of that name, as a set of targets
    committed,  \* the list of that name, as a set of targets
    torn,       \* rollback_failures is not empty
    answer,     \* how the last call ends
    before      \* auxiliary: book when the last call began

call    == <<take, page, before>>
threads == <<camera, report>>
commit  == <<files, cursor, flushed>>
undo    == <<backups, committed, torn>>
vars    == <<book, kept, vault, pc, answer, call, threads, commit, undo>>

Phases == {"idle", "cameras", "mkdir", "sync", "backup", "publish", "dirsync",
           "unlink", "restore", "resync", "cleanup"}

Answers == {"none", "success", "failed", "incomplete", "error", "crashed"}

NoVault == [t \in Targets |-> NoFile]

\* The locals of _capture_to_staging and of _commit are gone.
NoThreads ==
    /\ camera' = [side \in Sides |-> "running"]
    /\ report' = [side \in Sides |-> <<>>]

NoCommit ==
    /\ cursor' = 1
    /\ flushed' = {}
    /\ backups' = {}
    /\ committed' = {}
    /\ torn' = FALSE

-----------------------------------------------------------------------------

\* An earlier session may have left any files in the image directory.
Init ==
    /\ book \in [Targets -> {NoFile, [take |-> 0, fault |-> "none"]}]
    /\ kept = {}
    /\ take = 0
    /\ page \in EvenPages
    /\ pc = "idle"
    /\ camera = [side \in Sides |-> "running"]
    /\ report = [side \in Sides |-> <<>>]
    /\ files = <<>>
    /\ cursor = 1
    /\ flushed = {}
    /\ vault = NoVault
    /\ backups = {}
    /\ committed = {}
    /\ torn = FALSE
    /\ answer = "none"
    /\ before = book

\* A call of capture_pair: mkdir of the image and the staging directory, then
\* both cameras are submitted.  An OSError of mkdir is raised before the try, when
\* there is no staging directory to remove.
Begin(p) ==
    /\ pc = "idle"
    /\ take < MaxTakes
    /\ take' = take + 1
    /\ page' = p
    /\ before' = book
    /\ files' = <<>>
    /\ \/ pc' = "cameras" /\ answer' = "none"
       \/ pc' = "cleanup" /\ answer' = "error"
    /\ UNCHANGED <<book, kept, vault, threads, cursor, flushed, undo>>

\* One of the two threads of _capture_to_staging ends, in either order.
CameraEnds(side) ==
    /\ pc = "cameras"
    /\ camera[side] = "running"
    /\ \/ camera' = [camera EXCEPT ![side] = "raised"] /\ UNCHANGED report
       \/ /\ camera' = [camera EXCEPT ![side] = "returned"]
          /\ \E paths \in Reports : report' = [report EXCEPT ![side] = paths]
    /\ UNCHANGED <<book, kept, vault, pc, answer, call, commit, undo>>

\* Mutant of Valid: links, empty files and stray paths are not looked at.
ValidUnchecked(paths) ==
    LET published(k) == PublishedSuffix(paths[k].suffix)
    IN  /\ \A k \in DOMAIN paths : paths[k].suffix \in ImageSuffixes
        /\ \E k \in DOMAIN paths : published(k) = "jpg"
        /\ \A j, k \in DOMAIN paths : published(j) = published(k) => j = k

\* What _validate_artifacts accepts.
Valid(paths) ==
    LET published(k) == PublishedSuffix(paths[k].suffix)
    IN  /\ \A k \in DOMAIN paths : paths[k].suffix \in ImageSuffixes
        /\ \E k \in DOMAIN paths : published(k) = "jpg"
        /\ \A j, k \in DOMAIN paths : published(j) = published(k) => j = k
        /\ \A k \in DOMAIN paths : paths[k].fault = "none"

\* Mutant of TargetsOf: the camera's own suffix is published.
TargetsOfRaw(p, paths) ==
    [k \in DOMAIN paths |->
        [target  |-> <<p, paths[k].suffix>>,
         content |-> [take |-> take, fault |-> paths[k].fault]]]

\* _targets: the published name of every path of one side.
TargetsOf(p, paths) ==
    [k \in DOMAIN paths |->
        [target  |-> <<p, PublishedSuffix(paths[k].suffix)>>,
         content |-> [take |-> take, fault |-> paths[k].fault]]]

\* Both futures have a result; a raised one fails the pair, then unusable files
\* do, and the checks themselves may raise an OSError that is no CapturePairError.
Collect ==
    /\ pc = "cameras"
    /\ \A side \in Sides : camera[side] # "running"
    /\ LET allReturned == \A side \in Sides : camera[side] = "returned"
           allValid    == \A side \in Sides : Valid(report[side])
       IN  \/ /\ allReturned /\ allValid
              /\ files' = TargetsOf(page, report["even"])
                            \o TargetsOf(page + 1, report["odd"])
              /\ pc' = "mkdir"
              /\ UNCHANGED answer
           \/ /\ ~ (allReturned /\ allValid)
              /\ pc' = "cleanup" /\ answer' = "failed"
              /\ UNCHANGED files
           \/ /\ allReturned /\ \E side \in Sides : report[side] # <<>>
              /\ pc' = "cleanup" /\ answer' = "error"
              /\ UNCHANGED files
    /\ NoThreads
    /\ UNCHANGED <<book, kept, vault, call, cursor, flushed, undo>>

\* Mutant of MakeBackupDirectory: the new files are not flushed.
MakeBackupDirectoryOnly ==
    /\ pc = "mkdir"
    /\ pc' = "backup"
    /\ UNCHANGED <<book, kept, vault, answer, call, threads, commit, undo>>

\* _commit makes backups/ before its try.
MakeBackupDirectory ==
    /\ pc = "mkdir"
    /\ \/ pc' = "sync" /\ UNCHANGED answer
       \/ pc' = "cleanup" /\ answer' = "error"
    /\ UNCHANGED <<book, kept, vault, call, threads, commit, undo>>

-----------------------------------------------------------------------------

Current == files[cursor]

\* The loop at phase goes on with the next file, or the next phase begins.
Advance(phase, next) ==
    IF cursor < Len(files)
    THEN cursor' = cursor + 1 /\ pc' = phase
    ELSE cursor' = 1 /\ pc' = next

SyncFile ==
    /\ pc = "sync"
    /\ flushed' = flushed \cup {Current.target}
    /\ Advance("sync", "backup")
    /\ UNCHANGED <<book, kept, vault, answer, call, threads, files, undo>>

\* An existing target is moved to backups/.
Backup ==
    /\ pc = "backup"
    /\ LET t == Current.target
       IN  \/ /\ book[t] # NoFile
              /\ vault' = [vault EXCEPT ![t] = book[t]]
              /\ book' = [book EXCEPT ![t] = NoFile]
              /\ backups' = backups \cup {t}
           \/ book[t] = NoFile /\ UNCHANGED <<book, vault, backups>>
    /\ Advance("backup", "publish")
    /\ UNCHANGED <<kept, answer, call, threads, files, flushed, committed, torn>>

\* os.replace gives the staged file its page's name.
Publish ==
    /\ pc = "publish"
    /\ book' = [book EXCEPT ![Current.target] = Current.content]
    /\ committed' = committed \cup {Current.target}
    /\ Advance("publish", "dirsync")
    /\ UNCHANGED <<kept, vault, answer, call, threads, files, flushed, backups, torn>>

SyncDirectory ==
    /\ pc = "dirsync"
    /\ pc' = "cleanup"
    /\ answer' = "success"
    /\ UNCHANGED <<book, kept, vault, call, threads, commit, undo>>

\* Mutant of CommitFails: what was published already is not removed.
CommitFailsRestoring ==
    /\ pc \in {"sync", "backup", "publish", "dirsync"}
    /\ pc' = "restore"
    /\ committed' = {}
    /\ UNCHANGED <<book, kept, vault, answer, call, threads, commit, backups, torn>>

\* Any operation of the try block raises.
CommitFails ==
    /\ pc \in {"sync", "backup", "publish", "dirsync"}
    /\ pc' = "unlink"
    /\ UNCHANGED <<book, kept, vault, answer, call, threads, commit, undo>>

\* t is the last member of S in the order of the commit.
IsLast(t, S) ==
    /\ t \in S
    /\ \E k \in DOMAIN files :
         /\ files[k].target = t
         /\ \A j \in DOMAIN files : files[j].target \in S => j <= k

\* Mutant of Unlink: an OSError is suppressed and not remembered.
UnlinkSuppressed ==
    /\ pc = "unlink"
    /\ \/ \E t \in committed :
            /\ IsLast(t, committed)
            /\ committed' = committed \ {t}
            /\ book' = [book EXCEPT ![t] = NoFile] \/ UNCHANGED book
            /\ UNCHANGED pc
       \/ committed = {} /\ pc' = "restore" /\ UNCHANGED <<book, committed>>
    /\ UNCHANGED <<kept, vault, answer, call, threads, commit, backups, torn>>

\* reversed(committed): remove what was published.
Unlink ==
    /\ pc = "unlink"
    /\ \/ \E t \in committed :
            /\ IsLast(t, committed)
            /\ committed' = committed \ {t}
            /\ \/ book' = [book EXCEPT ![t] = NoFile] /\ UNCHANGED torn
               \/ torn' = TRUE /\ UNCHANGED book
            /\ UNCHANGED pc
       \/ committed = {} /\ pc' = "restore" /\ UNCHANGED <<book, committed, torn>>
    /\ UNCHANGED <<kept, vault, answer, call, threads, commit, backups>>

\* Mutant of RestoreBackup: a failed move is tried again.
RestoreBackupAgain ==
    /\ pc = "restore"
    /\ \/ \E t \in backups :
            /\ IsLast(t, backups)
            /\ \/ /\ backups' = backups \ {t}
                  /\ book' = [book EXCEPT ![t] = vault[t]]
                  /\ vault' = [vault EXCEPT ![t] = NoFile]
                  /\ UNCHANGED torn
               \/ torn' = ~torn /\ UNCHANGED <<book, vault, backups>>
            /\ UNCHANGED pc
       \/ backups = {} /\ pc' = "resync" /\ UNCHANGED <<book, vault, backups, torn>>
    /\ UNCHANGED <<kept, answer, call, threads, commit, committed>>

\* reversed(backups): move the old files back.
RestoreBackup ==
    /\ pc = "restore"
    /\ \/ \E t \in backups :
            /\ IsLast(t, backups)
            /\ backups' = backups \ {t}
            /\ \/ /\ book' = [book EXCEPT ![t] = vault[t]]
                  /\ vault' = [vault EXCEPT ![t] = NoFile]
                  /\ UNCHANGED torn
               \/ torn' = TRUE /\ UNCHANGED <<book, vault>>
            /\ UNCHANGED pc
       \/ backups = {} /\ pc' = "resync" /\ UNCHANGED <<book, vault, backups, torn>>
    /\ UNCHANGED <<kept, answer, call, threads, commit, committed>>

Vaulted == {<<t, vault[t]>> : t \in {u \in Targets : vault[u] # NoFile}}

\* Mutant of EndRollback: the staging directory is removed in any case.
EndRollbackRemoving ==
    /\ pc = "resync"
    /\ pc' = "cleanup"
    /\ answer' = "failed"
    /\ UNCHANGED <<kept, vault>>
    /\ NoCommit
    /\ UNCHANGED <<book, files, call, threads>>

\* The directory is flushed, errors suppressed; an incomplete rollback preserves
\* the staging directory and ends the call.
EndRollback ==
    /\ pc = "resync"
    /\ \/ torn  /\ pc' = "idle" /\ answer' = "incomplete"
                /\ kept' = kept \cup Vaulted /\ vault' = NoVault
       \/ ~torn /\ pc' = "cleanup" /\ answer' = "failed"
                /\ UNCHANGED <<kept, vault>>
    /\ NoCommit
    /\ UNCHANGED <<book, files, call, threads>>

\* rmtree(ignore_errors=True) removes of the staging directory what it can.
RemoveStaging ==
    /\ pc = "cleanup"
    /\ \E rest \in SUBSET Vaulted : kept' = kept \cup rest
    /\ vault' = NoVault
    /\ pc' = "idle"
    /\ NoCommit
    /\ UNCHANGED <<book, files, answer, call, threads>>

\* The process stops.  Nothing in the code looks for the staging directory again.
Crash ==
    /\ pc # "idle"
    /\ \/ pc # "cleanup" /\ kept' = kept \cup Vaulted
       \/ pc = "cleanup" /\ \E rest \in SUBSET Vaulted : kept' = kept \cup rest
    /\ vault' = NoVault
    /\ pc' = "idle"
    /\ answer' = "crashed"
    /\ NoThreads
    /\ NoCommit
    /\ UNCHANGED <<book, files, call>>

-----------------------------------------------------------------------------

\* The steps of a call, once begun.
Step ==
    \/ \E side \in Sides : CameraEnds(side)
    \/ Collect
    \/ MakeBackupDirectory
    \/ SyncFile
    \/ Backup
    \/ Publish
    \/ SyncDirectory
    \/ CommitFails
    \/ Unlink
    \/ RestoreBackup
    \/ EndRollback
    \/ RemoveStaging

Next == (\E p \in EvenPages : Begin(p)) \/ Step \/ Crash

Spec == Init /\ [][Next]_vars

\* A camera's transport and every file operation return or raise in the end.
Fairness == WF_vars(Step)

FairSpec == Spec /\ Fairness

-----------------------------------------------------------------------------

TypeOK ==
    /\ book \in [Targets -> Content \cup {NoFile}]
    /\ kept \subseteq Targets \X Content
    /\ take \in Nat
    /\ page \in EvenPages
    /\ pc \in Phases
    /\ camera \in [Sides -> {"running", "raised", "returned"}]
    /\ report \in [Sides -> Seq(Path)]
    /\ files \in Seq([target : Targets, content : Content])
    /\ cursor \in Nat
    /\ flushed \subseteq Targets
    /\ vault \in [Targets -> Content \cup {NoFile}]
    /\ backups \subseteq Targets
    /\ committed \subseteq Targets
    /\ torn \in BOOLEAN
    /\ answer \in Answers
    /\ before \in [Targets -> Content \cup {NoFile}]

\* Every new file of the call has its name.
Complete == \A k \in DOMAIN files : book[files[k].target] = files[k].content

\* A file published before the call is still in the book, in backups/ or in a
\* preserved staging directory, unless the whole new pair stands in the book:
\* "the old pair is kept unless its replacement is completely written".
NoPageLost ==
    \A t \in Targets : before[t] # NoFile =>
        \/ book[t] = before[t]
        \/ vault[t] = before[t]
        \/ <<t, before[t]>> \in kept
        \/ files # <<>> /\ Complete

\* A call that reports an ordinary failure, a CapturePairError without a recovery
\* directory or an OSError, has left every page as it was.
FailureChangesNothing ==
    pc \in {"idle", "cleanup"} /\ answer \in {"failed", "error"} => book = before

\* The contents of every file of the pair are on the disk before the first of
\* them takes the name of a page, or the old page is moved away.
FlushedBeforePublished ==
    committed # {} \/ backups # {} =>
        \A k \in DOMAIN files : files[k].target \in flushed

\* No empty file, link or stray path ever has the name of a page, and a page
\* that a call publishes has a JPEG.
OnlyImagesPublished ==
    /\ \A t \in Targets : book[t] # NoFile => book[t].fault = "none"
    /\ answer = "success" =>
         \A p \in {page, page + 1} : book[<<p, "jpg">>].take = take

\* "Existing published page pairs remain intact" when Pi Scan stops: the pages
\* with a JPEG before the call have one afterwards.
PairsSurviveStop ==
    answer = "crashed" =>
        \A p \in Pages : before[<<p, "jpg">>] # NoFile => book[<<p, "jpg">>] # NoFile

\* Every call ends, whatever fails.
CallEnds == pc # "idle" ~> pc = "idle"

\* The caller's view: a running call has not touched the book yet.
Transaction == INSTANCE PairTransaction WITH
    pages  <- IF pc = "idle" THEN book ELSE before,
    page   <- page,
    status <- IF pc = "idle" THEN "idle" ELSE "busy",
    answer <- IF pc = "idle" THEN answer ELSE "none"

ImplementsTransaction == Transaction!PSpec

-----------------------------------------------------------------------------
\* What makes the properties above inductive.

New == [take |-> take, fault |-> "none"]

NewTargets == {files[k].target : k \in DOMAIN files}

\* A call publishes checked files of its own, for both of its pages.
FilesInv ==
    /\ \A k \in DOMAIN files : /\ files[k].content = New
                               /\ files[k].target[1] \in {page, page + 1}
    /\ files # <<>> => {<<page, "jpg">>, <<page + 1, "jpg">>} \subseteq NewTargets
    /\ pc = "cameras" => files = <<>>
    /\ pc \notin {"idle", "cameras", "cleanup"} => files # <<>>
    /\ pc \in {"sync", "backup", "publish"} => cursor \in DOMAIN files
    /\ pc \in {"idle", "cameras", "mkdir"} => cursor = 1

\* Calls are told apart by take, and only images are published.
BookInv ==
    /\ \A t \in Targets : book[t] # NoFile => /\ book[t].take <= take
                                              /\ book[t].fault = "none"
    /\ pc # "idle" => \A t \in Targets : before[t] # NoFile =>
                        /\ before[t].take < take
                        /\ before[t].fault = "none"

\* How the book, backups/ and the two lists of _commit determine the old files.
UndoInv ==
    pc # "idle" => \A t \in Targets :
        /\ vault[t] \in {NoFile, before[t]}
        /\ t \in backups => before[t] # NoFile /\ vault[t] = before[t]
        /\ t \in committed => vault[t] = before[t]
        /\ t \notin NewTargets => book[t] = before[t]
        /\ book[t] = before[t] \/ vault[t] = before[t]
        /\ ~torn /\ t \notin backups => vault[t] = NoFile
        /\ ~torn /\ t \notin committed =>
             book[t] = IF t \in backups THEN NoFile ELSE before[t]

PhaseInv ==
    /\ pc \in {"idle", "cameras", "mkdir", "sync"} => backups = {}
    /\ pc \in {"idle", "cameras", "mkdir", "sync", "backup", "restore", "resync"}
         => committed = {}
    /\ pc = "resync" => backups = {}
    /\ pc \notin {"unlink", "restore", "resync"} => ~torn
    /\ pc = "idle" => vault = NoVault
    /\ pc = "backup" => \A k \in 1..(cursor - 1) :
         vault[files[k].target] = before[files[k].target]
    /\ pc = "publish" =>
         /\ \A k \in 1..(cursor - 1) : files[k].target \in committed
         /\ \A k \in DOMAIN files : vault[files[k].target] = before[files[k].target]
    /\ pc = "dirsync" => NewTargets \subseteq committed
    /\ pc \in {"publish", "dirsync"} => \A t \in committed : book[t] = New

FlushInv ==
    /\ pc = "sync" => \A k \in 1..(cursor - 1) : files[k].target \in flushed
    /\ pc \in {"backup", "publish", "dirsync"} => NewTargets \subseteq flushed

\* While a call runs, every target holds its old file, none, or the new one.
ContentInv ==
    pc # "idle" => \A t \in Targets : book[t] \in {before[t], NoFile, New}

AnswerInv ==
    /\ pc \notin {"idle", "cleanup"} => answer = "none"
    /\ pc = "cleanup" => answer \in {"success", "failed", "error"}
    /\ answer = "success" =>
         files # <<>> /\ \A k \in DOMAIN files : book[files[k].target] = New

IInv ==
    /\ TypeOK
    /\ FilesInv
    /\ BookInv
    /\ UndoInv
    /\ PhaseInv
    /\ FlushInv
    /\ AnswerInv
    /\ NoPageLost
    /\ FailureChangesNothing
    /\ FlushedBeforePublished
=============================================================================
