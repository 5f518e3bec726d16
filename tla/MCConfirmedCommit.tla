------------------------- MODULE MCConfirmedCommit -------------------------
(***************************************************************************)
(* Instances of ConfirmedCommit for TLC.                                   *)
(***************************************************************************)
EXTENDS ConfirmedCommit, TLC

CONSTANTS empty, one, two   \* contents with no, one and two top-level trees

MCPrinted == [v \in Values |-> IF v = two THEN one ELSE v]

MCSymmetry == Permutations(Timers) \cup Permutations(Modules)
=============================================================================
