---------------------------- MODULE WorkflowTable ----------------------------
(***************************************************************************)
(* The operations of ScannerSession (domain/session.py) as their caller     *)
(* sees them, by the session states they connect.  Workflow is the state    *)
(* machine that follows this table, which ScannerSession implements;        *)
(* ScannerUi uses the table for what a command of the operator may lead to. *)
(***************************************************************************)

\* The session states that an operation starts from, leads to, and is left in when
\* it raises.
From == [prepare |-> {"new", "failed"},
         focus   |-> {"ready_to_focus"},
         capture |-> {"ready", "capture_failed"},
         rescan  |-> {"ready", "capture_failed"},
         dismiss |-> {"capture_failed"},
         recover |-> {"failed", "capture_failed"},
         finish  |-> {"new", "ready_to_focus", "ready", "capture_failed", "failed"}]

To == [prepare |-> "ready_to_focus", focus |-> "ready", capture |-> "ready",
       rescan |-> "ready", dismiss |-> "ready", recover |-> "ready",
       finish |-> "complete"]

Raised == [prepare |-> {"failed"}, focus |-> {"failed"}, recover |-> {"failed"},
           capture |-> {"capture_failed", "capturing"},
           rescan |-> {"capture_failed", "capturing"},
           dismiss |-> {}, finish |-> {}]
=============================================================================
