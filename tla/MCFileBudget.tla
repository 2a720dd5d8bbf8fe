----------------------------- MODULE MCFileBudget -----------------------------
(* Instances of the file budget for TLC.                                   *)
EXTENDS FileBudget

CONSTANTS p1, p2
=============================================================================
