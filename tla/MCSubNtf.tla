------------------------------ MODULE MCSubNtf ------------------------------
(* The subscription registry on a small instance. *)
EXTENDS SubNtf, TLC

CONSTANTS s1, s2, m1, m2, f1

MCSymmetry == Permutations({s1, s2})
=============================================================================
