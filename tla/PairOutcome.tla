----------------------------- MODULE PairOutcome -----------------------------
(***************************************************************************)
(* What a caller of CaptureCoordinator.capture_pair sees of the book: the   *)
(* pages of the even/odd pair it asked for are replaced all together or not *)
(* at all, or the pair is torn and the answer says so.                      *)
(***************************************************************************)
EXTENDS Naturals

CONSTANTS Pages, PublishedSuffixes, Content, NoFile

VARIABLES
    pages,    \* the published files: [Pages \X PublishedSuffixes -> Content or NoFile]
    page,     \* the even page of the last call
    status,   \* "idle", or "busy" while a call runs
    answer    \* how the last call ended

ovars == <<pages, page, status, answer>>

Targets == Pages \X PublishedSuffixes

OInit ==
    /\ pages \in [Targets -> Content \cup {NoFile}]
    /\ page \in Pages
    /\ status = "idle"
    /\ answer = "none"

\* A call touches no page but its own two.
Replaces ==
    /\ pages' \in [Targets -> Content \cup {NoFile}]
    /\ \A t \in Targets : t[1] \notin {page, page + 1} => pages'[t] = pages[t]

Ends(answers) ==
    /\ status = "busy"
    /\ status' = "idle"
    /\ answer' \in answers
    /\ UNCHANGED page

Start(p) ==
    /\ {p, p + 1} \subseteq Pages
    /\ status = "idle"
    /\ status' = "busy"
    /\ page' = p
    /\ answer' = "none"
    /\ UNCHANGED pages

\* Mutant of Succeed: the odd page need not be replaced.
SucceedEven ==
    /\ Ends({"success", "crashed"})
    /\ Replaces
    /\ LET new == pages'[<<page, "jpg">>]
       IN  /\ new # NoFile
           /\ \A t \in Targets : pages[t] # new /\ pages'[t] \in {pages[t], new}

\* Both pages get a JPEG of this call, and so is every file that changes.  The process
\* may still stop before it tells the caller.
Succeed ==
    /\ Ends({"success", "crashed"})
    /\ Replaces
    /\ LET new == pages'[<<page, "jpg">>]
       IN  /\ new # NoFile
           /\ pages'[<<page + 1, "jpg">>] = new
           /\ \A t \in Targets : pages[t] # new /\ pages'[t] \in {pages[t], new}

\* A failure that the caller is told of leaves both pages as they were.
Refuse ==
    /\ Ends({"failed", "error"})
    /\ UNCHANGED pages

\* The pair may be torn: each file is the old one, gone, or of this call.
Tear ==
    /\ Ends({"incomplete", "crashed"})
    /\ Replaces
    /\ LET changed == {t \in Targets : pages'[t] \notin {pages[t], NoFile}}
       IN  \A t, u \in changed : pages'[t] = pages'[u]
=============================================================================
