---------------------------- MODULE MCLifecycle -----------------------------
(* Two processes on one machine, each with two worker threads. *)
EXTENDS Lifecycle

CONSTANTS p1, p2

MCProcess == {p1, p2}
MCWorkers == {"w0", "w1"}
=============================================================================
