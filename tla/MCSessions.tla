----------------------------- MODULE MCSessions -----------------------------
(***************************************************************************)
(* Instances of Sessions for TLC.                                          *)
(***************************************************************************)
EXTENDS Sessions, TLC

MCSymmetry == Permutations(Session) \cup Permutations(Worker)
=============================================================================
