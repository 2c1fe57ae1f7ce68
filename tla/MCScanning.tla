----------------------------- MODULE MCScanning -----------------------------
(***************************************************************************)
(* Small instance of Scanning.  The cameras are alike, and so are the calls *)
(* that the files are told apart by.                                        *)
(***************************************************************************)
EXTENDS Scanning, TLC

Alike == Permutations(Cameras) \cup Permutations(Content)
=============================================================================
