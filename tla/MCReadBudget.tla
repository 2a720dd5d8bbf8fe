---------------------------- MODULE MCReadBudget ----------------------------
(***************************************************************************)
(* Small instances of ReadBudget: pages of one to three reads, and a limit *)
(* that two full pages overshoot.                                          *)
(***************************************************************************)
EXTENDS ReadBudget, TLC

WorkerSymmetry == Permutations(Workers)
=============================================================================
