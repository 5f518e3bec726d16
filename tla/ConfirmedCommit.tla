-------------------------- MODULE ConfirmedCommit --------------------------
(***************************************************************************)
(* The confirmed commit of the server (netconf_confirmed_commit.c).        *)
(*                                                                         *)
(* Actors: the thread that runs the <commit> and <cancel-commit> RPC       *)
(* callbacks one after another, one thread per expired rollback timer      *)
(* (SIGEV_THREAD) running changes_rollback, and other sysrepo clients that *)
(* may edit <running> at any time.  The server process may crash and be    *)
(* started again; <running> and the backup directory outlive it.           *)
(*                                                                         *)
(* A configuration is a value per YANG module, since backups, restores and *)
(* failures are per module.  Time is not a number: an armed timer may fire *)
(* at any moment, and a restart finds the deadline either passed or not.   *)
(* Failures of sysrepo, of the file system and of timer_create are drawn   *)
(* from a budget of MaxFaults.                                             *)
(***************************************************************************)
EXTENDS Naturals

CONSTANTS
    Modules,      \* implemented modules with configuration data
    Values,       \* contents of one module
    NoData,       \* the content of a module without any data
    Printed,      \* what remains of a content that is printed and parsed again
    Timers,       \* POSIX timers; a timer also names the thread it spawns
    Rpc,          \* the RPC callback thread
    Ids,          \* persist ids clients use
    NoVal,        \* no such file / nothing
    Torn,         \* content of a file that is truncated or half written
    NoTimer,      \* commit_ctx.timer = 0
    NoId,         \* a NULL persist or a persist-id leaf that is not there
    Edit1Access,  \* what sr_check_module_ds_access says about module "edit1"
    MaxRpcs,      \* bound on the number of RPCs
    MaxFaults     \* bound on the number of failing system calls

(* lyd_print_path without LYD_PRINT_WITHSIBLINGS keeps only the first      *)
(* top-level tree of a module.                                             *)
ASSUME PrintedAssumption ==
    /\ Printed \in [Values -> Values] /\ Printed[NoData] = NoData
    /\ \A v \in Values : Printed[Printed[v]] = Printed[v]

ASSUME ConstantsAssumption ==
    /\ NoData \in Values /\ NoVal \notin Modules
    /\ NoVal \notin Values /\ Torn \notin Values /\ NoVal # Torn
    /\ Rpc \notin Timers /\ NoTimer \notin Timers
    /\ NoId \notin Ids
    /\ Edit1Access \in {"rw", "none", "missing"}
    /\ MaxRpcs \in Nat /\ MaxFaults \in Nat

VARIABLES
    running,  \* the running datastore
    file,     \* NCC_DIR/<module>.json
    failed,   \* contents of the NCC_DIR/<module>-<time>.failed files
    meta,     \* NCC_DIR/meta
    alive,    \* the server process runs
    persist,  \* commit_ctx.persist
    timer,    \* commit_ctx.timer
    armed,    \* timers armed in the kernel
    rpc,      \* the RPC callback in progress
    rb,       \* changes_rollback in each thread
    rpcs, faults,
    \* history, read by the properties only
    base,     \* running as the last confirmed commit found it, per module
    stake,    \* modules it replaced, neither restored nor confirmed since
    overlap,  \* a timer thread ran while that commit was being made
    pastDue   \* a restart found the deadline in the past

vars == <<running, file, failed, meta, alive, persist, timer, armed, rpc, rb,
           rpcs, faults, base, stake, overlap, pastDue>>

disk  == <<file, failed, meta>>
ctx   == <<persist, timer, armed>>
bound == <<rpcs, faults>>
hist  == <<base, stake, overlap, pastDue>>

-----------------------------------------------------------------------------
Threads == Timers \cup {Rpc}

NoReply == [pc |-> "idle", kind |-> "none", persist |-> NoId, id |-> NoId,
            todo |-> {}, mod |-> NoVal, val |-> NoVal, reply |-> "none"]

IdleRb == [pc |-> "idle", must |-> {}, late |-> {}, mod |-> NoVal, val |-> NoVal]

RpcState == [pc : {"idle", "start", "backup", "write", "metawrite",
                   "schedule", "copy", "rollback"},
             kind : {"none", "commit", "confirmed", "cancel"},
             persist : Ids \cup {NoId}, id : Ids \cup {NoId},
             todo : SUBSET Modules, mod : Modules \cup {NoVal},
             val : Values \cup {NoVal}, reply : {"none", "ok", "error"}]

RbState == [pc : {"idle", "open", "loop", "replace", "unlink", "rename", "meta"},
            must : SUBSET Modules, late : SUBSET Modules, mod : Modules \cup {NoVal},
            val : Values \cup {NoVal}]

(* Type invariant of the datastore, the backup directory, commit_ctx and   *)
(* the threads.                                                            *)
TypeOK ==
    /\ running \in [Modules -> Values]
    /\ file \in [Modules -> Values \cup {NoVal, Torn}]
    /\ failed \in [Modules -> SUBSET (Values \cup {Torn})]
    /\ meta \in {"none", "torn", "ok"}
    /\ alive \in BOOLEAN
    /\ persist \in Ids \cup {NoId}
    /\ timer \in Timers \cup {NoTimer} /\ armed \subseteq Timers
    /\ rpc \in RpcState
    /\ rb \in [Threads -> RbState]
    /\ rpcs \in 0..MaxRpcs /\ faults \in 0..MaxFaults
    /\ base \in [Modules -> Values \cup {NoVal}] /\ stake \subseteq Modules
    /\ overlap \in BOOLEAN /\ pastDue \in BOOLEAN

Init ==
    /\ running \in [Modules -> Values]
    /\ file = [m \in Modules |-> NoVal]
    /\ failed = [m \in Modules |-> {}] /\ meta = "none"
    /\ alive = TRUE
    /\ persist = NoId /\ timer = NoTimer /\ armed = {}
    /\ rpc = NoReply
    /\ rb = [t \in Threads |-> IdleRb]
    /\ rpcs = 0 /\ faults = 0
    /\ base = [m \in Modules |-> NoVal] /\ stake = {}
    /\ overlap = FALSE /\ pastDue = FALSE

(* One more system call fails. *)
Fault == faults < MaxFaults /\ faults' = faults + 1 /\ UNCHANGED rpcs

(* A timer id the process can get from timer_create. *)
FreeTimers == {t \in Timers : t \notin armed /\ t # timer /\ rb[t].pc = "idle"}

TimerThreadActive == \E t \in Timers : rb[t].pc # "idle"

(* The RPC thread is making a confirmed commit. *)
InConfirmed == rpc.kind = "confirmed" /\ rpc.pc \notin {"idle", "start"}

(* The RPC thread holds commit_ctx.lock for the whole callback. *)
LockHeld == rpc.pc # "idle"

(* The callback returns: it unlocks commit_ctx.lock and the client gets r. *)
Reply(r) == rpc' = [NoReply EXCEPT !.reply = r]

Goto(p) == rpc' = [rpc EXCEPT !.pc = p]

(* persist and persist-id differ, or only one of them is there. *)
Mismatch == persist # rpc.id

-----------------------------------------------------------------------------
(* The RPC callbacks *)

(* An RPC reaches its callback, which takes commit_ctx.lock.  A confirmed  *)
(* commit waits for a free timer only because Timers is finite.            *)
RpcArrive(kind, p, id) ==
    /\ alive /\ rpc.pc = "idle" /\ rpcs < MaxRpcs
    /\ kind = "confirmed" => FreeTimers # {}
    /\ kind # "confirmed" => p = NoId
    /\ rpc' = [NoReply EXCEPT !.pc = "start", !.kind = kind, !.persist = p, !.id = id]
    /\ rpcs' = rpcs + 1
    /\ UNCHANGED <<running, disk, alive, ctx, rb, faults, hist>>

(* A persist-id in a confirmed commit, and a persist-id that does not      *)
(* match in a commit or cancel, are refused before anything is changed.  A *)
(* commit also fails if its user session is gone or cannot be switched.    *)
(* (A confirmed commit whose session goes just then releases a pointer it  *)
(* never set, which may also end the process: Crash.)                      *)
RpcReject ==
    /\ rpc.pc = "start"
    /\ \/ (IF rpc.kind = "confirmed" THEN rpc.id # NoId ELSE Mismatch) /\ UNCHANGED bound
       \/ rpc.kind # "cancel" /\ Fault
    /\ Reply("error")
    /\ UNCHANGED <<running, disk, alive, ctx, rb, hist>>

(* set_running_backup: the access check asks about module "edit1" for      *)
(* every module.  When it, the session or the directory fails, the         *)
(* callback returns SR_ERR_OK.                                             *)
ConfirmedStart ==
    /\ rpc.pc = "start" /\ rpc.kind = "confirmed" /\ rpc.id = NoId
    /\ \/ /\ Edit1Access # "missing"
          /\ rpc' = [rpc EXCEPT !.pc = "backup",
                       !.todo = IF Edit1Access = "rw" THEN Modules ELSE {}]
          /\ overlap' = (TimerThreadActive \/ (overlap /\ stake # {}))
          /\ UNCHANGED bound
       \/ /\ IF Edit1Access = "missing" THEN UNCHANGED bound ELSE Fault
          /\ Reply("ok") /\ UNCHANGED overlap
    /\ UNCHANGED <<running, disk, alive, ctx, rb, base, stake, pastDue>>

(* A directory entry for m appears under the rollbacks that read it.       *)
EntryCreated(m) ==
    rb' = [t \in Threads |-> IF rb[t].pc \in {"idle", "open"} \/ file[m] # NoVal THEN rb[t]
                             ELSE [rb[t] EXCEPT !.late = @ \cup {m}]]

(* backup_module: read running, then create or truncate the file ...       *)
BackupRead(m) ==
    /\ rpc.pc = "backup" /\ m \in rpc.todo
    /\ rpc' = [rpc EXCEPT !.pc = "write", !.todo = @ \ {m}, !.mod = m, !.val = running[m]]
    /\ file' = [file EXCEPT ![m] = Torn]
    /\ EntryCreated(m)
    /\ base' = [base EXCEPT ![m] = running[m]]
    /\ stake' = stake \ {m}
    /\ UNCHANGED <<running, failed, meta, alive, ctx, bound, overlap, pastDue>>

(* ... and write it.  If a rollback has renamed or unlinked the open file  *)
(* the data goes there.                                                    *)
BackupWrite ==
    /\ rpc.pc = "write"
    /\ file' = IF file[rpc.mod] = Torn THEN [file EXCEPT ![rpc.mod] = Printed[rpc.val]] ELSE file
    /\ rpc' = [rpc EXCEPT !.pc = "backup", !.mod = NoVal, !.val = NoVal]
    /\ UNCHANGED <<running, failed, meta, alive, ctx, rb, bound, hist>>

(* Reading or printing a module fails: the callback returns SR_ERR_OK and  *)
(* nothing is committed.                                                   *)
BackupFails ==
    /\ rpc.pc = "write" \/ (rpc.pc = "backup" /\ rpc.todo # {})
    /\ Fault
    /\ Reply("ok")
    /\ UNCHANGED <<running, disk, alive, ctx, rb, hist>>

(* create_meta_file: a failing fopen is only a warning.                    *)
CreateMeta ==
    /\ rpc.pc = "backup" /\ rpc.todo = {}
    /\ \/ meta' = "torn" /\ Goto("metawrite") /\ UNCHANGED bound
       \/ Fault /\ Goto("schedule") /\ UNCHANGED meta
    /\ UNCHANGED <<running, file, failed, alive, ctx, rb, hist>>

MetaWrite ==
    /\ rpc.pc = "metawrite"
    /\ meta' = IF meta = "torn" THEN "ok" ELSE meta
    /\ Goto("schedule")
    /\ UNCHANGED <<running, file, failed, alive, ctx, rb, bound, hist>>

(* Mutant: the timer is created but never set.                             *)
ScheduleUnset ==
    /\ rpc.pc = "schedule"
    /\ persist' = IF rpc.persist = NoId THEN persist ELSE rpc.persist
    /\ \E t \in FreeTimers : timer' = t /\ UNCHANGED armed
    /\ Goto("copy")
    /\ UNCHANGED <<running, disk, alive, rb, bound, hist>>

(* Set persist if one was given, then ncc_commit_timeout_schedule: the new *)
(* timer replaces the old one in commit_ctx, which stays armed.            *)
Schedule ==
    /\ rpc.pc = "schedule"
    /\ persist' = IF rpc.persist = NoId THEN persist ELSE rpc.persist
    /\ \/ \E t \in FreeTimers :
            /\ timer' = t /\ armed' = armed \cup {t}
            /\ Goto("copy") /\ UNCHANGED bound
       \/ Fault /\ Reply("ok") /\ UNCHANGED <<timer, armed>>
    /\ UNCHANGED <<running, disk, alive, rb, hist>>

(* sr_copy_config of candidate, of whatever content, to running.           *)
Copy ==
    /\ rpc.pc = "copy"
    /\ \/ /\ running' \in [Modules -> Values]
          /\ stake' = IF rpc.kind = "confirmed" THEN Modules ELSE stake
          /\ Reply("ok") /\ UNCHANGED bound
       \/ Fault /\ Reply("error") /\ UNCHANGED <<running, stake>>
    /\ UNCHANGED <<disk, alive, ctx, rb, base, overlap, pastDue>>

(* A plain commit: forget the persist id, delete the timer if there is     *)
(* one.  clean_backup_directory skips every entry of the directory.        *)
CommitConfirm ==
    /\ rpc.pc = "start" /\ rpc.kind = "commit" /\ ~Mismatch
    /\ persist' = NoId
    /\ timer' = NoTimer /\ armed' = armed \ {timer}
    /\ stake' = {}
    /\ Goto("copy")
    /\ UNCHANGED <<running, disk, alive, rb, bound, base, overlap, pastDue>>

(* ncc_commit_cancel: changes_rollback in this thread ...                  *)
CancelStart ==
    /\ rpc.pc = "start" /\ rpc.kind = "cancel" /\ ~Mismatch
    /\ Goto("rollback")
    /\ rb' = [rb EXCEPT ![Rpc].pc = "open"]
    /\ UNCHANGED <<running, disk, alive, ctx, bound, hist>>

(* ... then ncc_commit_confirmed.  timer_delete of the zero timer id may   *)
(* do nothing or hit the timer that has that id in the kernel.             *)
CancelFinish ==
    /\ rpc.pc = "rollback" /\ rb[Rpc].pc = "idle"
    /\ timer' = NoTimer
    /\ IF timer # NoTimer THEN armed' = armed \ {timer}
       ELSE \E t \in armed \cup {NoTimer} : armed' = armed \ {t}
    /\ Reply("ok")
    /\ UNCHANGED <<running, disk, alive, persist, rb, bound, hist>>

RpcStep ==
    \/ RpcReject \/ ConfirmedStart \/ BackupWrite \/ BackupFails \/ CreateMeta
    \/ MetaWrite \/ Schedule \/ Copy \/ CommitConfirm \/ CancelStart \/ CancelFinish
    \/ \E m \in Modules : BackupRead(m)

-----------------------------------------------------------------------------
(* changes_rollback in thread t; it never takes commit_ctx.lock *)

RbGoto(t, p) == rb' = [rb EXCEPT ![t].pc = p]

(* The timer expires and its thread starts. *)
Fire(t) ==
    /\ t \in armed /\ armed' = armed \ {t}
    /\ RbGoto(t, "open")
    /\ overlap' = (overlap \/ InConfirmed)
    /\ UNCHANGED <<running, disk, alive, persist, timer, rpc, bound, base,
                   stake, pastDue>>

(* Mutant: the rollback locks commit_ctx.lock as the comment there asks,   *)
(* also in the thread that has it locked.                                  *)
RbOpenLocking(t) ==
    /\ rb[t].pc = "open" /\ ~LockHeld
    /\ rb' = [rb EXCEPT ![t].pc = "loop",
                        ![t].must = {m \in Modules : file[m] # NoVal}]
    /\ UNCHANGED <<running, disk, alive, ctx, rpc, bound, hist>>

(* Start a session, check the directory and open it. *)
RbOpen(t) ==
    /\ rb[t].pc = "open"
    /\ \/ /\ rb' = [rb EXCEPT ![t].pc = "loop",
                              ![t].must = {m \in Modules : file[m] # NoVal}]
          /\ UNCHANGED bound
       \/ Fault /\ rb' = [rb EXCEPT ![t] = IdleRb]
    /\ UNCHANGED <<running, disk, alive, ctx, rpc, hist>>

(* Mutant: the result of parsing is not checked.                           *)
RbReadUnchecked(t, m) ==
    /\ rb[t].pc = "loop" /\ m \in rb[t].must \cup rb[t].late
    /\ rb' = [rb EXCEPT ![t] = [pc |-> "replace", must |-> @.must \ {m},
                                late |-> @.late \ {m}, mod |-> m, val |-> file[m]]]
    /\ UNCHANGED <<running, disk, alive, ctx, rpc, bound, hist>>

(* Mutant: the path of an earlier entry is not replaced.                   *)
RbReadStalePath(t, m) ==
    /\ rb[t].pc = "loop" /\ m \in rb[t].must \cup rb[t].late
    /\ \E n \in Modules :
          /\ file[n] \in Values
          /\ rb' = [rb EXCEPT ![t] = [pc |-> "replace", must |-> @.must \ {m},
                                      late |-> @.late \ {m}, mod |-> m, val |-> file[n]]]
    /\ UNCHANGED <<running, disk, alive, ctx, rpc, bound, hist>>

(* readdir returns every entry that was there at opendir, also one that is *)
(* gone by now, and may return one created since.  A file that cannot be   *)
(* parsed, or whose module is not implemented, is to be renamed; a         *)
(* truncated file may also parse as no data at all.                        *)
RbRead(t, m) ==
    /\ rb[t].pc = "loop" /\ m \in rb[t].must \cup rb[t].late
    /\ \/ \E v \in Values :
            /\ v = file[m] \/ (file[m] = Torn /\ v = NoData)
            /\ rb' = [rb EXCEPT ![t] = [pc |-> "replace", must |-> @.must \ {m},
                                        late |-> @.late \ {m}, mod |-> m, val |-> v]]
            /\ UNCHANGED bound
       \/ /\ IF file[m] \in Values THEN Fault ELSE UNCHANGED bound
          /\ rb' = [rb EXCEPT ![t] = [pc |-> "rename", must |-> @.must \ {m},
                                      late |-> @.late \ {m}, mod |-> m, val |-> NoVal]]
    /\ UNCHANGED <<running, disk, alive, ctx, rpc, hist>>

(* Mutant: a module that could not be restored loses its backup.           *)
RbReplaceForgets(t) ==
    /\ rb[t].pc = "replace"
    /\ \/ /\ running' = [running EXCEPT ![rb[t].mod] = rb[t].val]
          /\ stake' = stake \ {rb[t].mod} /\ UNCHANGED bound
       \/ Fault /\ UNCHANGED <<running, stake>>
    /\ RbGoto(t, "unlink")
    /\ UNCHANGED <<disk, alive, ctx, rpc, base, overlap, pastDue>>

(* sr_replace_config of one module. *)
RbReplace(t) ==
    /\ rb[t].pc = "replace"
    /\ \/ /\ running' = [running EXCEPT ![rb[t].mod] = rb[t].val]
          /\ stake' = stake \ {rb[t].mod}
          /\ RbGoto(t, "unlink") /\ UNCHANGED bound
       \/ Fault /\ RbGoto(t, "rename") /\ UNCHANGED <<running, stake>>
    /\ UNCHANGED <<disk, alive, ctx, rpc, base, overlap, pastDue>>

NextEntry(t) == rb' = [rb EXCEPT ![t].pc = "loop", ![t].mod = NoVal, ![t].val = NoVal]

(* rename_failed_file: the name ends in the time in seconds, so it may     *)
(* replace a file that failed just before.  That it fails is only logged.  *)
RbRename(t) ==
    LET m == rb[t].mod IN
    /\ rb[t].pc = "rename"
    /\ \/ /\ file[m] # NoVal /\ file' = [file EXCEPT ![m] = NoVal]
          /\ \E others \in SUBSET failed[m] :
                failed' = [failed EXCEPT ![m] = others \cup {file[m]}]
          /\ UNCHANGED bound
       \/ /\ IF file[m] = NoVal THEN UNCHANGED bound ELSE Fault
          /\ UNCHANGED <<file, failed>>
    /\ NextEntry(t)
    /\ UNCHANGED <<running, meta, alive, ctx, rpc, hist>>

(* A file that cannot be unlinked ends the rollback. *)
RbUnlink(t) ==
    /\ rb[t].pc = "unlink"
    /\ \/ /\ file[rb[t].mod] # NoVal
          /\ file' = [file EXCEPT ![rb[t].mod] = NoVal]
          /\ NextEntry(t) /\ UNCHANGED bound
       \/ /\ IF file[rb[t].mod] = NoVal THEN UNCHANGED bound ELSE Fault
          /\ rb' = [rb EXCEPT ![t] = IdleRb] /\ UNCHANGED file
    /\ UNCHANGED <<running, failed, meta, alive, ctx, rpc, hist>>

(* Mutant: the loop is left with entries to come.                          *)
RbEndEarly(t) ==
    /\ rb[t].pc = "loop"
    /\ rb' = [rb EXCEPT ![t] = [IdleRb EXCEPT !.pc = "meta"]]
    /\ UNCHANGED <<running, disk, alive, ctx, rpc, bound, hist>>

(* The directory is read to its end.                                       *)
RbEnd(t) ==
    /\ rb[t].pc = "loop" /\ rb[t].must = {}
    /\ rb' = [rb EXCEPT ![t] = [IdleRb EXCEPT !.pc = "meta"]]
    /\ UNCHANGED <<running, disk, alive, ctx, rpc, bound, hist>>

RbMeta(t) ==
    /\ rb[t].pc = "meta"
    /\ \/ meta' = "none" /\ UNCHANGED bound
       \/ Fault /\ UNCHANGED meta
    /\ rb' = [rb EXCEPT ![t] = IdleRb]
    /\ UNCHANGED <<running, file, failed, alive, ctx, rpc, hist>>

RbStep(t) ==
    \/ RbOpen(t) \/ RbReplace(t) \/ RbRename(t) \/ RbUnlink(t) \/ RbEnd(t) \/ RbMeta(t)
    \/ \E m \in Modules : RbRead(t, m)

-----------------------------------------------------------------------------
(* The process and its environment *)

(* The server stops, at any point; ncc_commit_ctx_destroy on a regular     *)
(* stop leaves the disk as a crash does.                                   *)
Crash ==
    /\ alive /\ alive' = FALSE
    /\ rpc' = NoReply
    /\ persist' = NoId /\ timer' = NoTimer /\ armed' = {}
    /\ rb' = [t \in Threads |-> IdleRb]
    /\ UNCHANGED <<running, disk, bound, hist>>

(* server_init ends with ncc_try_restore: a readable meta file schedules a *)
(* timer.  With the deadline in the past it is set to zero seconds, which  *)
(* disarms it.                                                             *)
Boot ==
    /\ ~alive /\ alive' = TRUE
    /\ \/ meta # "ok" /\ UNCHANGED <<timer, armed, bound, pastDue>>
       \/ /\ meta = "ok" /\ UNCHANGED bound
          /\ \E t \in FreeTimers, past \in BOOLEAN :
                /\ timer' = t
                /\ armed' = IF past THEN armed ELSE armed \cup {t}
                /\ pastDue' = (pastDue \/ past)
       \/ meta = "ok" /\ Fault /\ UNCHANGED <<timer, armed, pastDue>>
    /\ UNCHANGED <<running, disk, persist, rpc, rb, base, stake, overlap>>

(* Another sysrepo client, or an edit-config, changes a module of running. *)
EditRunning(m, v) ==
    /\ running' = [running EXCEPT ![m] = v]
    /\ UNCHANGED <<disk, alive, ctx, rpc, rb, bound, hist>>

Next ==
    \/ \E k \in {"commit", "confirmed", "cancel"}, p, id \in Ids \cup {NoId} : RpcArrive(k, p, id)
    \/ RpcStep
    \/ \E t \in Timers : Fire(t)
    \/ \E t \in Threads : RbStep(t)
    \/ Crash \/ Boot
    \/ \E m \in Modules, v \in Values : EditRunning(m, v)

Spec == Init /\ [][Next]_vars

(* The RPC thread and a rollback thread that can run does run, and an      *)
(* armed timer expires.                                                    *)
Fairness ==
    /\ WF_vars(RpcStep)
    /\ \A t \in Timers : WF_vars(Fire(t))
    /\ \A t \in Threads : WF_vars(RbStep(t))

FairSpec == Spec /\ Fairness

-----------------------------------------------------------------------------
(* Properties that hold *)

(* The content m had before the confirmed commit is on disk, in its backup *)
(* file or in a file renamed to .failed.                                   *)
Saved(m) == Printed[base[m]] \in {file[m]} \cup failed[m]

(* The backups are made one by one, without transaction, restored and      *)
(* removed by any number of threads, and the process may die in between.   *)
(* As long as no rollback runs while the confirmed commit is made, what a  *)
(* module must be restored to stays on disk until it is restored or the    *)
(* commit is confirmed (set_running_backup, changes_rollback).             *)
BackupsIntact ==
    Edit1Access = "rw" /\ ~overlap => \A m \in stake : Saved(m)

(* changes_rollback removes the meta file, which is all a restart looks    *)
(* for, only when every module is restored, unless some call failed.       *)
RollbackComplete ==
    Edit1Access = "rw" /\ ~overlap /\ faults = 0
        => \A t \in Threads : rb[t].pc = "meta" => stake = {}

RestoreStep ==
    Edit1Access = "rw" /\ ~overlap /\ rpc' = rpc
        => \A m \in stake \ stake' : running'[m] = Printed[base[m]]

(* A rollback, also one by two threads at once or one finished after a     *)
(* restart, gives a module the content that was backed up for it and no    *)
(* other: only RPCs (a confirm, a new backup) take a module off stake      *)
(* otherwise.                                                              *)
RestoresBackup == [][RestoreStep]_vars

(* A confirmed commit nobody confirms is rolled back: with no failing      *)
(* call, in a server that stays up, or comes up before the deadline, the   *)
(* timer fires and every module is restored (or the commit is confirmed).  *)
RollbackHappens ==
    [](~overlap /\ ~pastDue) /\ <>[]alive => (stake # {} ~> stake = {})

(* Refinement: backups, meta file, timers, threads and restarts together   *)
(* implement the promise of PendingCommit: a module leaves the pending     *)
(* ones only by being given exactly the content that was backed up for it, *)
(* by a confirmation of all of them, or by being backed up again           *)
(* (np2srv_rpc_commit_cb, changes_rollback, ncc_try_restore).              *)
Promised == INSTANCE PendingCommit WITH
    Kept    <- Printed,
    pending <- stake,
    void    <- overlap \/ Edit1Access # "rw",
    promise <- [m \in Modules |-> IF base[m] = NoVal THEN NoVal ELSE Printed[base[m]]]

KeepsPromise == Promised!Spec

(* The callback that holds commit_ctx.lock returns, also when it runs a    *)
(* rollback itself against a timer thread doing the same.                  *)
RpcReturns == LockHeld ~> ~LockHeld

-----------------------------------------------------------------------------
(* What a comment says and the code does not do *)

(* "else it was in the past -> should be zero" (ncc_try_restore): a        *)
(* deadline that passed while the server was down is rolled back at once.  *)
RestoredRollbackHappens ==
    []~overlap /\ <>[]alive => (stake # {} ~> stake = {})
=============================================================================
