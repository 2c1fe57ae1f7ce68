------------------------------ MODULE Workflow ------------------------------
(***************************************************************************)
(* What the operations of a ScannerSession promise, without cameras, pages  *)
(* and threads: each one starts in the states of its row in WorkflowTable,  *)
(* and ends where the row says, whatever happens on the way.                *)
(***************************************************************************)
EXTENDS WorkflowTable

VARIABLES
    operation,  \* the operation under way, or "none"
    state,      \* the session's state, "busy" while an operation is under way
    captured    \* there is a last capture

wvars == <<operation, state, captured>>

Operations == DOMAIN From

WInit == operation = "none" /\ state = "new" /\ captured = FALSE

Start(c) ==
    /\ operation = "none"
    /\ state \in From[c]
    /\ c = "rescan" => captured
    /\ operation' = c
    /\ state' = "busy"
    /\ UNCHANGED captured

Return ==
    /\ operation # "none"
    /\ operation' = "none"
    /\ state' = To[operation]
    /\ captured' = (captured \/ operation \in {"capture", "rescan"})

Raise ==
    /\ operation # "none"
    /\ operation' = "none"
    /\ state' \in Raised[operation]
    /\ UNCHANGED captured

\* An operation that touches no camera starts and returns in one step.
Pass(c) ==
    /\ operation = "none"
    /\ state \in From[c]
    /\ state' = To[c]
    /\ UNCHANGED <<operation, captured>>

\* A new process has a new session.
Renew ==
    /\ operation' = "none"
    /\ state' = "new"
    /\ captured' = FALSE

WNext ==
    \/ \E c \in Operations : Start(c)
    \/ Return
    \/ Raise
    \/ \E c \in {"dismiss", "finish"} : Pass(c)
    \/ Renew

WSpec == WInit /\ [][WNext]_wvars
=============================================================================
