--------------------------- MODULE PairTransaction ---------------------------
(***************************************************************************)
(* What CaptureCoordinator.capture_pair promises, without how: the outcomes *)
(* of PairOutcome, and when the call can neither replace the pair nor leave *)
(* it alone, because rolling back failed or the process stopped, that no    *)
(* published file is destroyed: each one is still in the book or kept in a  *)
(* recovery directory.                                                      *)
(***************************************************************************)
EXTENDS PairOutcome

VARIABLE kept   \* <<target, content>> pairs that lie in recovery directories

pvars == <<ovars, kept>>

PInit == OInit /\ kept = {}

\* Every published file is afterwards in the book or in a recovery directory.
NothingLost ==
    \A t \in Targets :
        pages[t] # NoFile => \/ pages'[t] = pages[t]
                             \/ <<t, pages[t]>> \in kept'

PNext ==
    \/ (\E p \in Pages : Start(p)) /\ UNCHANGED kept
    \/ (Succeed \/ Refuse \/ (Tear /\ NothingLost)) /\ kept \subseteq kept'

PSpec == PInit /\ [][PNext]_pvars
=============================================================================
