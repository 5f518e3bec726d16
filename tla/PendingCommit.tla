--------------------------- MODULE PendingCommit ----------------------------
(***************************************************************************)
(* What a confirmed commit promises, without files, timers, threads and    *)
(* restarts: before running is replaced, a content to go back to is        *)
(* promised for every module; then each module gets exactly that content   *)
(* back, once, unless the commit is confirmed, for all modules at once, or *)
(* a new promise replaces the old one.  Other clients edit running all     *)
(* along.  ConfirmedCommit implements this across crashes and restarts, as *)
(* long as it is not void: a rollback ran into the making of the commit,   *)
(* or no module could be backed up.                                        *)
(***************************************************************************)
CONSTANTS
    Modules, Values,
    Kept,    \* what is kept of a content that is backed up
    NoVal    \* nothing was promised yet

VARIABLES
    running,  \* the running datastore
    promise,  \* the content promised for each module
    pending,  \* modules that were replaced and are to go back
    void      \* the promise cannot be kept

pvars == <<running, promise, pending, void>>

Init ==
    /\ running \in [Modules -> Values]
    /\ promise = [m \in Modules |-> NoVal]
    /\ pending = {}
    /\ void \in BOOLEAN

(* A module is backed up; from now on it would go back to this content. *)
Promise(m) ==
    /\ promise' = [promise EXCEPT ![m] = Kept[running[m]]]
    /\ pending' = pending \ {m}
    /\ UNCHANGED running

(* The confirmed commit replaces running. *)
Replace ==
    /\ \A m \in Modules : promise[m] # NoVal
    /\ running' \in [Modules -> Values]
    /\ pending' = Modules
    /\ UNCHANGED promise

Restore(m) ==
    /\ m \in pending
    /\ running' = [running EXCEPT ![m] = promise[m]]
    /\ pending' = pending \ {m}
    /\ UNCHANGED promise

Confirm ==
    /\ pending' = {}
    /\ UNCHANGED <<running, promise>>

(* Another client, or a commit with nothing pending, changes running. *)
Edit ==
    /\ running' \in [Modules -> Values]
    /\ pending = {} \/ \E m \in Modules : \A n \in Modules \ {m} : running'[n] = running[n]
    /\ UNCHANGED <<promise, pending>>

Next ==
    \/ /\ \/ \E m \in Modules : Promise(m) \/ Restore(m)
          \/ Replace \/ Confirm \/ Edit
       /\ ~void /\ ~void'
    \/ void'
    \/ void /\ pending = {} /\ UNCHANGED <<running, promise, pending>>

Spec == Init /\ [][Next]_pvars
=============================================================================
