----------------------------- MODULE MCYangPush -----------------------------
(* One yang-push subscription on a small instance. *)
EXTENDS YangPush, TLC

CONSTANTS t, u, v1, v2

MCSymmetry == Permutations({v1, v2})
=============================================================================
