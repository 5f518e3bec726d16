----------------------- MODULE ConfirmedCommit_proofs -----------------------
(***************************************************************************)
(* Proofs about ConfirmedCommit, for any modules, contents, timers, number *)
(* of RPCs and of failing calls.                                           *)
(***************************************************************************)
EXTENDS ConfirmedCommit, TLAPS

(* A thread that works on one module has a module, and a content if it is  *)
(* about to write one.                                                     *)
WorkItem ==
    /\ rpc.pc = "write" => rpc.mod \in Modules /\ rpc.val \in Values
    /\ \A t \in Threads :
        /\ rb[t].pc \in {"replace", "unlink", "rename"} => rb[t].mod \in Modules
        /\ rb[t].pc = "replace" => rb[t].val \in Values

TypeInv == TypeOK /\ WorkItem

LEMMA InitType == Init => TypeInv
<1> SUFFICES ASSUME Init PROVE TypeInv
  OBVIOUS
<1>1. NoReply \in RpcState
  BY DEF NoReply, RpcState
<1>2. IdleRb \in RbState
  BY DEF IdleRb, RbState
<1>3. rpc \in RpcState /\ rb \in [Threads -> RbState]
  BY <1>1, <1>2 DEF Init
<1>4. rpcs \in 0..MaxRpcs /\ faults \in 0..MaxFaults
  BY ConstantsAssumption DEF Init
<1>5. TypeOK
  BY <1>3, <1>4, ZenonT(30) DEF Init, TypeOK
<1>6. WorkItem
  BY DEF Init, WorkItem, NoReply, IdleRb
<1> QED BY <1>5, <1>6 DEF TypeInv

LEMMA StepType == TypeInv /\ [Next]_vars => TypeInv'
<1> SUFFICES ASSUME TypeInv, [Next]_vars PROVE TypeInv'
  OBVIOUS
<1> USE ConstantsAssumption, PrintedAssumption
    DEF TypeInv, disk, ctx, bound, hist, Threads
<1>1. ASSUME NEW k \in {"commit", "confirmed", "cancel"}, NEW p \in Ids \cup {NoId},
             NEW id \in Ids \cup {NoId}, RpcArrive(k, p, id)
      PROVE TypeInv'
  <2>1. rpc' \in RpcState /\ rpc'.pc = "start"
    BY <1>1, ZenonT(30) DEF RpcArrive, RpcState, NoReply
  <2>2. rpcs' \in 0..MaxRpcs
    BY <1>1 DEF RpcArrive, TypeOK
  <2> QED BY <1>1, <2>1, <2>2 DEF RpcArrive, TypeOK, WorkItem
<1>2. CASE RpcReject
  BY <1>2 DEF RpcReject, TypeOK, WorkItem, RpcState, NoReply, Reply, Fault
<1>3. CASE ConfirmedStart
  <2>1. overlap' \in BOOLEAN
    <3>1. CASE overlap' = overlap
      BY <3>1 DEF TypeOK
    <3>2. CASE overlap' = (TimerThreadActive \/ (overlap /\ stake # {}))
      BY <3>2
    <3> QED BY <1>3, <3>1, <3>2 DEF ConfirmedStart
  <2>2. rpc' \in RpcState /\ rpc'.pc \in {"backup", "idle"}
    <3>1. CASE Reply("ok")
      BY <3>1 DEF RpcState, NoReply, Reply
    <3>2. ASSUME NEW todo \in SUBSET Modules,
                 rpc' = [rpc EXCEPT !.pc = "backup", !.todo = todo]
          PROVE rpc' \in RpcState /\ rpc'.pc = "backup"
      BY <3>2, ZenonT(30) DEF TypeOK, RpcState
    <3> QED BY <1>3, <3>1, <3>2, ZenonT(30) DEF ConfirmedStart
  <2>3. rpcs' \in 0..MaxRpcs /\ faults' \in 0..MaxFaults
    BY <1>3 DEF ConfirmedStart, TypeOK, Fault
  <2> QED
    BY <1>3, <2>1, <2>2, <2>3 DEF ConfirmedStart, TypeOK, WorkItem
<1>4. ASSUME NEW m \in Modules, BackupRead(m) PROVE TypeInv'
  <2>1. rb' \in [Threads -> RbState]
    BY <1>4 DEF BackupRead, EntryCreated, TypeOK, RbState
  <2>2. WorkItem'
    BY <1>4 DEF BackupRead, EntryCreated, TypeOK, WorkItem, RbState, RpcState
  <2> QED BY <1>4, <2>1, <2>2, ZenonT(30) DEF BackupRead, TypeOK, RpcState
<1>5. CASE BackupWrite
  BY <1>5, ZenonT(30) DEF BackupWrite, TypeOK, WorkItem, RpcState
<1>6. CASE BackupFails
  BY <1>6 DEF BackupFails, TypeOK, WorkItem, RpcState, NoReply, Reply, Fault
<1>7. CASE CreateMeta
  BY <1>7 DEF CreateMeta, TypeOK, WorkItem, RpcState, Goto, Fault
<1>8. CASE MetaWrite
  BY <1>8 DEF MetaWrite, TypeOK, WorkItem, RpcState, Goto
<1>9. CASE Schedule
  BY <1>9 DEF Schedule, TypeOK, WorkItem, RpcState, NoReply, Reply, Goto, Fault, FreeTimers
<1>10. CASE Copy
  BY <1>10 DEF Copy, TypeOK, WorkItem, RpcState, NoReply, Reply, Fault
<1>11. CASE CommitConfirm
  BY <1>11 DEF CommitConfirm, TypeOK, WorkItem, RpcState, Goto
<1>12. CASE CancelStart
  BY <1>12 DEF CancelStart, TypeOK, WorkItem, RpcState, RbState, Goto
<1>13. CASE CancelFinish
  BY <1>13 DEF CancelFinish, TypeOK, WorkItem, RpcState, NoReply, Reply
<1>14. ASSUME NEW t \in Timers, Fire(t) PROVE TypeInv'
  <2>1. overlap' \in BOOLEAN
    BY <1>14 DEF Fire
  <2> QED BY <1>14, <2>1 DEF Fire, RbGoto, TypeOK, WorkItem, RbState
<1>15. ASSUME NEW t \in Threads, RbOpen(t) PROVE TypeInv'
  BY <1>15 DEF RbOpen, IdleRb, TypeOK, WorkItem, RbState, Fault
<1>16. ASSUME NEW t \in Threads, NEW m \in Modules, RbRead(t, m) PROVE TypeInv'
  BY <1>16 DEF RbRead, TypeOK, WorkItem, RbState, Fault
<1>17. ASSUME NEW t \in Threads, RbReplace(t) PROVE TypeInv'
  <2>1. rb' \in [Threads -> RbState]
    BY <1>17 DEF RbReplace, RbGoto, TypeOK, RbState
  <2>2. WorkItem'
    BY <1>17 DEF RbReplace, RbGoto, TypeOK, WorkItem, RbState
  <2>3. running' \in [Modules -> Values] /\ stake' \subseteq Modules
    BY <1>17 DEF RbReplace, TypeOK, WorkItem
  <2>4. rpcs' \in 0..MaxRpcs /\ faults' \in 0..MaxFaults
    BY <1>17 DEF RbReplace, TypeOK, Fault
  <2> QED BY <1>17, <2>1, <2>2, <2>3, <2>4 DEF RbReplace, TypeOK
<1>18. ASSUME NEW t \in Threads, RbRename(t) PROVE TypeInv'
  <2>1. rb' \in [Threads -> RbState]
    BY <1>18 DEF RbRename, NextEntry, TypeOK, RbState
  <2>2. WorkItem'
    BY <1>18 DEF RbRename, NextEntry, TypeOK, WorkItem, RbState
  <2>3. file' \in [Modules -> Values \cup {NoVal, Torn}] /\ failed' \in [Modules -> SUBSET (Values \cup {Torn})]
    BY <1>18 DEF RbRename, TypeOK, WorkItem
  <2>4. rpcs' \in 0..MaxRpcs /\ faults' \in 0..MaxFaults
    BY <1>18 DEF RbRename, TypeOK, Fault
  <2> QED BY <1>18, <2>1, <2>2, <2>3, <2>4 DEF RbRename, TypeOK
<1>19. ASSUME NEW t \in Threads, RbUnlink(t) PROVE TypeInv'
  BY <1>19 DEF RbUnlink, NextEntry, IdleRb, TypeOK, WorkItem, RbState, Fault
<1>20. ASSUME NEW t \in Threads, RbEnd(t) PROVE TypeInv'
  BY <1>20 DEF RbEnd, IdleRb, TypeOK, WorkItem, RbState
<1>21. ASSUME NEW t \in Threads, RbMeta(t) PROVE TypeInv'
  BY <1>21 DEF RbMeta, IdleRb, TypeOK, WorkItem, RbState, Fault
<1>22. CASE Crash
  BY <1>22, ZenonT(30) DEF Crash, IdleRb, NoReply, TypeOK, WorkItem, RbState, RpcState
<1>23. CASE Boot
  BY <1>23 DEF Boot, FreeTimers, TypeOK, WorkItem, Fault
<1>24. ASSUME NEW m \in Modules, NEW v \in Values, EditRunning(m, v) PROVE TypeInv'
  BY <1>24 DEF EditRunning, TypeOK, WorkItem
<1>25. CASE UNCHANGED vars
  BY <1>25 DEF vars, TypeOK, WorkItem
<1> QED
  BY <1>1, <1>2, <1>3, <1>4, <1>5, <1>6, <1>7, <1>8, <1>9, <1>10, <1>11, <1>12, <1>13,
     <1>14, <1>15, <1>16, <1>17, <1>18, <1>19, <1>20, <1>21, <1>22, <1>23, <1>24, <1>25
     DEF Next, RpcStep, RbStep

(* The variables of the confirmed commit keep their types whatever the     *)
(* clients, timers, crashes and failures do (commit_ctx, NCC_DIR).         *)
THEOREM TypeCorrect == Spec => []TypeOK
<1>1. TypeInv => TypeOK
  BY DEF TypeInv
<1> QED
  BY InitType, StepType, <1>1, PTL DEF Spec

-----------------------------------------------------------------------------
(* The backups on disk.  BackupsIntact is not inductive: it must be known  *)
(* which files a confirmed commit in progress has written already, that no *)
(* rollback is touching them, and what the rollbacks in progress hold.     *)

Calm == Edit1Access = "rw" /\ ~overlap

(* Where the RPC thread can be for each kind of RPC.  A plain commit has   *)
(* taken everything off stake before it copies.                            *)
RpcPc ==
    /\ rpc.pc \in {"backup", "write", "metawrite", "schedule"} => rpc.kind = "confirmed"
    /\ rpc.pc = "copy" => rpc.kind = "confirmed" \/ (rpc.kind = "commit" /\ stake = {})
    /\ rb[Rpc].pc # "idle" => rpc.pc = "rollback" /\ rpc.kind = "cancel"

(* No rollback runs while a confirmed commit is made. *)
Alone == InConfirmed => \A t \in Threads : rb[t].pc = "idle"

BackedUp(m) == base[m] \in Values /\ file[m] = Printed[base[m]]

(* The backups made so far. *)
Made ==
    /\ rpc.pc = "backup" => \A m \in Modules \ rpc.todo : BackedUp(m)
    /\ rpc.pc = "write" =>
        /\ file[rpc.mod] = Torn /\ rpc.val = base[rpc.mod]
        /\ \A m \in Modules \ (rpc.todo \cup {rpc.mod}) : BackedUp(m)
    /\ rpc.pc \in {"metawrite", "schedule", "copy"} /\ rpc.kind = "confirmed"
        => \A m \in Modules : BackedUp(m)

(* A backup is in place, or was moved aside. *)
Kept ==
    \A m \in stake :
        /\ base[m] \in Values
        /\ \/ file[m] = Printed[base[m]]
           \/ file[m] = NoVal /\ Printed[base[m]] \in failed[m]

(* What a rollback is about to remove is restored, and what it is about to *)
(* restore is the right content.                                           *)
Restoring ==
    \A t \in Threads :
        /\ rb[t].pc = "unlink" => rb[t].mod \notin stake
        /\ rb[t].pc = "replace" /\ rb[t].mod \in stake => rb[t].val = Printed[base[rb[t].mod]]

(* Without failures a rollback has still to visit all that is at stake.    *)
Visiting ==
    /\ \A m \in stake : file[m] = Printed[base[m]]
    /\ \A t \in Threads :
        /\ rb[t].pc = "rename" => rb[t].mod \notin stake
        /\ rb[t].pc \in {"loop", "rename", "unlink"} => stake \subseteq rb[t].must
        /\ rb[t].pc = "replace" => stake \subseteq rb[t].must \cup {rb[t].mod}
        /\ rb[t].pc = "meta" => stake = {}

SafeInv ==
    /\ RpcPc
    /\ Calm => Alone /\ Made /\ Kept /\ Restoring
    /\ Calm /\ faults = 0 => Visiting

LEMMA InitSafe == Init => SafeInv
BY DEF Init, SafeInv, RpcPc, Calm, Alone, InConfirmed, Made, Kept, Restoring, Visiting,
       NoReply, IdleRb, Threads

LEMMA StepSafe == TypeInv /\ SafeInv /\ [Next]_vars => SafeInv'
<1> SUFFICES ASSUME TypeInv, SafeInv, [Next]_vars PROVE SafeInv'
  OBVIOUS
<1> USE ConstantsAssumption, PrintedAssumption
    DEF TypeInv, SafeInv, disk, ctx, bound, hist, Threads
<1>1. ASSUME NEW k \in {"commit", "confirmed", "cancel"}, NEW p \in Ids \cup {NoId},
             NEW id \in Ids \cup {NoId}, RpcArrive(k, p, id)
      PROVE SafeInv'
  <2>1. RpcPc'
    BY <1>1 DEF RpcArrive, RpcPc
  <2>2. ASSUME Calm' PROVE Alone' /\ Made'
    BY <1>1, <2>2 DEF RpcArrive, Alone, InConfirmed, Made
  <2>3. ASSUME Calm' PROVE Kept' /\ Restoring'
    BY <1>1, <2>3 DEF RpcArrive, Calm, Kept, Restoring
  <2>4. ASSUME Calm', faults' = 0 PROVE Visiting'
    BY <1>1, <2>4 DEF RpcArrive, Calm, Visiting
  <2> QED BY <2>1, <2>2, <2>3, <2>4
<1>2. CASE RpcReject
  <2>1. RpcPc'
    BY <1>2 DEF RpcReject, Reply, NoReply, RpcPc
  <2>2. ASSUME Calm' PROVE Alone' /\ Made'
    BY <1>2, <2>2 DEF RpcReject, Reply, NoReply, Alone, InConfirmed, Made
  <2>3. ASSUME Calm' PROVE Kept' /\ Restoring'
    BY <1>2, <2>3 DEF RpcReject, Calm, Kept, Restoring
  <2>4. ASSUME Calm', faults' = 0 PROVE Visiting'
    BY <1>2, <2>4 DEF RpcReject, Fault, Calm, Visiting, TypeOK
  <2> QED BY <2>1, <2>2, <2>3, <2>4
<1>3. CASE ConfirmedStart
  <2>1. RpcPc'
    BY <1>3, ZenonT(30) DEF ConfirmedStart, Reply, NoReply, Fault, TimerThreadActive, RpcPc, TypeOK,
         WorkItem, RpcState, RbState
  <2>2. ASSUME Calm' PROVE Alone' /\ Made'
    <3>1. CASE rpc'.pc = "idle"
      BY <3>1 DEF Alone, InConfirmed, Made
    <3>2. CASE rpc'.pc = "backup" /\ rpc'.todo = Modules /\ ~TimerThreadActive
      <4>1. rb[Rpc].pc = "idle"
        BY <1>3 DEF ConfirmedStart, RpcPc
      <4>2. Alone'
        BY <1>3, <3>2, <4>1 DEF ConfirmedStart, TimerThreadActive, Alone
      <4> QED BY <3>2, <4>2 DEF Made
    <3>3. rpc'.pc = "idle" \/ (rpc'.pc = "backup" /\ rpc'.todo = Modules)
      BY <1>3, <2>2, ZenonT(30) DEF ConfirmedStart, Calm, Reply, NoReply, TypeOK, RpcState
    <3>4. rpc'.pc = "backup" => ~TimerThreadActive
      BY <1>3, <2>2, ZenonT(30) DEF ConfirmedStart, Calm, Reply, NoReply
    <3> QED BY <3>1, <3>2, <3>3, <3>4
  <2>3. ASSUME Calm' PROVE Kept' /\ Restoring'
    BY <1>3, <2>3 DEF ConfirmedStart, Calm, Kept, Restoring, TypeOK
  <2>4. ASSUME Calm', faults' = 0 PROVE Visiting'
    BY <1>3, <2>4 DEF ConfirmedStart, Fault, Calm, Visiting, TypeOK
  <2> QED BY <2>1, <2>2, <2>3, <2>4
<1>4. ASSUME NEW m \in Modules, BackupRead(m) PROVE SafeInv'
  <2>1. RpcPc'
    BY <1>4 DEF BackupRead, EntryCreated, RpcPc
  <2>2. ASSUME Calm' PROVE Alone' /\ Made'
    BY <1>4, <2>2 DEF BackupRead, EntryCreated, Calm, Alone, InConfirmed, Made, BackedUp,
         TypeOK
  <2>3. ASSUME Calm' PROVE Kept' /\ Restoring'
    <3>1. Calm /\ \A t \in Threads : rb[t].pc = "idle"
      BY <1>4, <2>3 DEF BackupRead, Calm, Alone, InConfirmed, RpcPc
    <3>2. rb' = [t \in Threads |-> rb[t]]
      BY <1>4, <3>1 DEF BackupRead, EntryCreated
    <3>3. Kept'
      BY <1>4, <3>1 DEF BackupRead, Kept, TypeOK
    <3>4. Restoring'
      BY <3>1, <3>2 DEF Restoring
    <3> QED BY <3>3, <3>4
  <2>4. ASSUME Calm', faults' = 0 PROVE Visiting'
    BY <1>4, <2>4 DEF BackupRead, EntryCreated, Calm, Visiting
  <2> QED BY <2>1, <2>2, <2>3, <2>4
<1>5. CASE BackupWrite
  <2>1. RpcPc'
    BY <1>5 DEF BackupWrite, RpcPc
  <2>2. ASSUME Calm' PROVE Alone' /\ Made'
    BY <1>5, <2>2 DEF BackupWrite, Calm, Alone, InConfirmed, Made, BackedUp, TypeOK,
         WorkItem
  <2>3. ASSUME Calm' PROVE Kept' /\ Restoring'
    BY <1>5, <2>3 DEF BackupWrite, Calm, Kept, Restoring
  <2>4. ASSUME Calm', faults' = 0 PROVE Visiting'
    BY <1>5, <2>4 DEF BackupWrite, Calm, Made, Visiting
  <2> QED BY <2>1, <2>2, <2>3, <2>4
<1>6. CASE BackupFails
  <2>1. RpcPc'
    BY <1>6 DEF BackupFails, Reply, NoReply, RpcPc
  <2>2. ASSUME Calm' PROVE Alone' /\ Made'
    BY <1>6, <2>2 DEF BackupFails, Reply, NoReply, Alone, InConfirmed, Made
  <2>3. ASSUME Calm' PROVE Kept' /\ Restoring'
    BY <1>6, <2>3 DEF BackupFails, Calm, Kept, Restoring
  <2>4. ASSUME Calm', faults' = 0 PROVE Visiting'
    BY <1>6, <2>4 DEF BackupFails, Fault, TypeOK
  <2> QED BY <2>1, <2>2, <2>3, <2>4
<1>7. CASE CreateMeta
  <2>1. RpcPc'
    BY <1>7 DEF CreateMeta, Goto, RpcPc, TypeOK, RpcState
  <2>2. ASSUME Calm' PROVE Alone' /\ Made'
    BY <1>7, <2>2 DEF CreateMeta, Goto, Calm, Alone, InConfirmed, Made, BackedUp, TypeOK,
         RpcState
  <2>3. ASSUME Calm' PROVE Kept' /\ Restoring'
    BY <1>7, <2>3 DEF CreateMeta, Calm, Kept, Restoring
  <2>4. ASSUME Calm', faults' = 0 PROVE Visiting'
    BY <1>7, <2>4 DEF CreateMeta, Fault, Calm, Visiting, TypeOK
  <2> QED BY <2>1, <2>2, <2>3, <2>4
<1>8. CASE MetaWrite
  <2>1. RpcPc'
    BY <1>8 DEF MetaWrite, Goto, RpcPc
  <2>2. ASSUME Calm' PROVE Alone' /\ Made'
    BY <1>8, <2>2 DEF MetaWrite, Goto, Calm, Alone, InConfirmed, Made, BackedUp
  <2>3. ASSUME Calm' PROVE Kept' /\ Restoring'
    BY <1>8, <2>3 DEF MetaWrite, Calm, Kept, Restoring
  <2>4. ASSUME Calm', faults' = 0 PROVE Visiting'
    BY <1>8, <2>4 DEF MetaWrite, Calm, Visiting
  <2> QED BY <2>1, <2>2, <2>3, <2>4
<1>9. CASE Schedule
  <2>1. RpcPc'
    BY <1>9 DEF Schedule, Reply, NoReply, Goto, RpcPc, TypeOK, RpcState
  <2>2. ASSUME Calm' PROVE Alone' /\ Made'
    BY <1>9, <2>2 DEF Schedule, Reply, NoReply, Goto, Calm, Alone, InConfirmed, Made,
         BackedUp, TypeOK, RpcState
  <2>3. ASSUME Calm' PROVE Kept' /\ Restoring'
    BY <1>9, <2>3 DEF Schedule, Calm, Kept, Restoring
  <2>4. ASSUME Calm', faults' = 0 PROVE Visiting'
    BY <1>9, <2>4 DEF Schedule, Fault, Calm, Visiting, TypeOK
  <2> QED BY <2>1, <2>2, <2>3, <2>4
<1>10. CASE Copy
  <2>1. RpcPc'
    BY <1>10 DEF Copy, Reply, NoReply, RpcPc
  <2>2. ASSUME Calm' PROVE Alone' /\ Made'
    BY <1>10, <2>2 DEF Copy, Reply, NoReply, Alone, InConfirmed, Made
  <2>3. ASSUME Calm' PROVE Kept' /\ Restoring'
    BY <1>10, <2>3 DEF Copy, Calm, Alone, InConfirmed, Made, BackedUp, Kept, Restoring
  <2>4. ASSUME Calm', faults' = 0 PROVE Visiting'
    BY <1>10, <2>4 DEF Copy, Fault, Calm, Alone, InConfirmed, Made, BackedUp, Visiting,
         TypeOK
  <2> QED BY <2>1, <2>2, <2>3, <2>4
<1>11. CASE CommitConfirm
  <2>1. RpcPc'
    BY <1>11 DEF CommitConfirm, Goto, RpcPc
  <2>2. ASSUME Calm' PROVE Alone' /\ Made'
    BY <1>11, <2>2 DEF CommitConfirm, Goto, Alone, InConfirmed, Made
  <2>3. ASSUME Calm' PROVE Kept' /\ Restoring'
    BY <1>11, <2>3 DEF CommitConfirm, Kept, Restoring
  <2>4. ASSUME Calm', faults' = 0 PROVE Visiting'
    BY <1>11, <2>4 DEF CommitConfirm, Visiting
  <2> QED BY <2>1, <2>2, <2>3, <2>4
<1>12. CASE CancelStart
  <2>1. RpcPc'
    BY <1>12 DEF CancelStart, Goto, RpcPc
  <2>2. ASSUME Calm' PROVE Alone' /\ Made'
    BY <1>12, <2>2 DEF CancelStart, Goto, Alone, InConfirmed, Made
  <2>3. ASSUME Calm' PROVE Kept' /\ Restoring'
    BY <1>12, <2>3 DEF CancelStart, Calm, Kept, Restoring
  <2>4. ASSUME Calm', faults' = 0 PROVE Visiting'
    BY <1>12, <2>4 DEF CancelStart, Calm, Visiting
  <2> QED BY <2>1, <2>2, <2>3, <2>4
<1>13. CASE CancelFinish
  <2>1. RpcPc'
    BY <1>13 DEF CancelFinish, Reply, NoReply, RpcPc
  <2>2. ASSUME Calm' PROVE Alone' /\ Made'
    BY <1>13, <2>2 DEF CancelFinish, Reply, NoReply, Alone, InConfirmed, Made
  <2>3. ASSUME Calm' PROVE Kept' /\ Restoring'
    BY <1>13, <2>3 DEF CancelFinish, Calm, Kept, Restoring
  <2>4. ASSUME Calm', faults' = 0 PROVE Visiting'
    BY <1>13, <2>4 DEF CancelFinish, Calm, Visiting
  <2> QED BY <2>1, <2>2, <2>3, <2>4
<1>14. ASSUME NEW t \in Timers, Fire(t) PROVE SafeInv'
  <2>1. RpcPc'
    BY <1>14 DEF Fire, RbGoto, RpcPc
  <2>2. ASSUME Calm' PROVE Alone' /\ Made'
    BY <1>14, <2>2, ZenonT(30) DEF Fire, RbGoto, Calm, RpcPc, Alone, InConfirmed, Made, BackedUp,
         TypeOK, WorkItem, RpcState, RbState
  <2>3. ASSUME Calm' PROVE Kept' /\ Restoring'
    BY <1>14, <2>3 DEF Fire, RbGoto, Calm, Kept, Restoring, TypeOK
  <2>4. ASSUME Calm', faults' = 0 PROVE Visiting'
    BY <1>14, <2>4 DEF Fire, RbGoto, Calm, Visiting, TypeOK
  <2> QED BY <2>1, <2>2, <2>3, <2>4
<1>15. ASSUME NEW t \in Threads, RbOpen(t) PROVE SafeInv'
  <2>1. RpcPc'
    BY <1>15 DEF RbOpen, RpcPc, TypeOK
  <2>2. ASSUME Calm' PROVE Alone' /\ Made'
    BY <1>15, <2>2 DEF RbOpen, Calm, RpcPc, Alone, InConfirmed, Made
  <2>3. ASSUME Calm' PROVE Kept' /\ Restoring'
    BY <1>15, <2>3 DEF RbOpen, IdleRb, Calm, Kept, Restoring, TypeOK, RbState
  <2>4. ASSUME Calm', faults' = 0 PROVE Visiting'
    BY <1>15, <2>4 DEF RbOpen, Fault, Calm, Kept, Visiting, TypeOK, RbState
  <2> QED BY <2>1, <2>2, <2>3, <2>4
<1>16. ASSUME NEW t \in Threads, NEW m \in Modules, RbRead(t, m) PROVE SafeInv'
  <2>1. RpcPc'
    BY <1>16 DEF RbRead, RpcPc, TypeOK
  <2>2. ASSUME Calm' PROVE Alone' /\ Made'
    BY <1>16, <2>2 DEF RbRead, Calm, RpcPc, Alone, InConfirmed, Made
  <2>3. ASSUME Calm' PROVE Kept' /\ Restoring'
    BY <1>16, <2>3 DEF RbRead, Calm, Kept, Restoring, TypeOK
  <2>4. ASSUME Calm', faults' = 0 PROVE Visiting'
    BY <1>16, <2>4 DEF RbRead, Fault, Calm, Kept, Visiting, TypeOK
  <2> QED BY <2>1, <2>2, <2>3, <2>4
<1>17. ASSUME NEW t \in Threads, RbReplace(t) PROVE SafeInv'
  <2>1. RpcPc'
    BY <1>17 DEF RbReplace, RbGoto, RpcPc, TypeOK
  <2>2. ASSUME Calm' PROVE Alone' /\ Made'
    BY <1>17, <2>2 DEF RbReplace, Calm, RpcPc, Alone, InConfirmed, Made
  <2>3. ASSUME Calm' PROVE Kept' /\ Restoring'
    BY <1>17, <2>3 DEF RbReplace, RbGoto, Calm, Kept, Restoring, TypeOK, RbState
  <2>4. ASSUME Calm', faults' = 0 PROVE Visiting'
    BY <1>17, <2>4 DEF RbReplace, RbGoto, Fault, Calm, Visiting, TypeOK, RbState
  <2> QED BY <2>1, <2>2, <2>3, <2>4
<1>18. ASSUME NEW t \in Threads, RbRename(t) PROVE SafeInv'
  <2>1. RpcPc'
    BY <1>18 DEF RbRename, NextEntry, RpcPc, TypeOK
  <2>2. ASSUME Calm' PROVE Alone' /\ Made'
    BY <1>18, <2>2 DEF RbRename, Calm, RpcPc, Alone, InConfirmed, Made
  <2>3. ASSUME Calm' PROVE Kept' /\ Restoring'
    <3>1. Calm
      BY <1>18, <2>3 DEF RbRename, Calm
    <3>2. Kept'
      BY <1>18, <3>1 DEF RbRename, Kept, TypeOK
    <3>3. Restoring'
      BY <1>18, <3>1 DEF RbRename, NextEntry, Restoring, TypeOK
    <3> QED BY <3>2, <3>3
  <2>4. ASSUME Calm', faults' = 0 PROVE Visiting'
    BY <1>18, <2>4 DEF RbRename, NextEntry, TypeOK, WorkItem, RbState
  <2> QED BY <2>1, <2>2, <2>3, <2>4
<1>19. ASSUME NEW t \in Threads, RbUnlink(t) PROVE SafeInv'
  <2>1. RpcPc'
    BY <1>19 DEF RbUnlink, NextEntry, RpcPc, TypeOK
  <2>2. ASSUME Calm' PROVE Alone' /\ Made'
    BY <1>19, <2>2 DEF RbUnlink, Calm, RpcPc, Alone, InConfirmed, Made
  <2>3. ASSUME Calm' PROVE Kept' /\ Restoring'
    BY <1>19, <2>3 DEF RbUnlink, NextEntry, IdleRb, Calm, Kept, Restoring, TypeOK, RbState
  <2>4. ASSUME Calm', faults' = 0 PROVE Visiting'
    BY <1>19, <2>4 DEF RbUnlink, NextEntry, IdleRb, Fault, Calm, Visiting, TypeOK, RbState
  <2> QED BY <2>1, <2>2, <2>3, <2>4
<1>20. ASSUME NEW t \in Threads, RbEnd(t) PROVE SafeInv'
  <2>1. RpcPc'
    BY <1>20 DEF RbEnd, RpcPc
  <2>2. ASSUME Calm' PROVE Alone' /\ Made'
    BY <1>20, <2>2 DEF RbEnd, Calm, RpcPc, Alone, InConfirmed, Made
  <2>3. ASSUME Calm' PROVE Kept' /\ Restoring'
    BY <1>20, <2>3 DEF RbEnd, Calm, Kept, Restoring
  <2>4. ASSUME Calm', faults' = 0 PROVE Visiting'
    BY <1>20, <2>4 DEF RbEnd, Calm, Visiting
  <2> QED BY <2>1, <2>2, <2>3, <2>4
<1>21. ASSUME NEW t \in Threads, RbMeta(t) PROVE SafeInv'
  <2>1. RpcPc'
    BY <1>21 DEF RbMeta, RpcPc
  <2>2. ASSUME Calm' PROVE Alone' /\ Made'
    BY <1>21, <2>2 DEF RbMeta, Calm, RpcPc, Alone, InConfirmed, Made
  <2>3. ASSUME Calm' PROVE Kept' /\ Restoring'
    BY <1>21, <2>3 DEF RbMeta, IdleRb, Calm, Kept, Restoring
  <2>4. ASSUME Calm', faults' = 0 PROVE Visiting'
    BY <1>21, <2>4 DEF RbMeta, Fault, Calm, Visiting, TypeOK
  <2> QED BY <2>1, <2>2, <2>3, <2>4
<1>22. CASE Crash
  <2>1. RpcPc'
    BY <1>22 DEF Crash, IdleRb, NoReply, RpcPc
  <2>2. ASSUME Calm' PROVE Alone' /\ Made'
    BY <1>22, <2>2 DEF Crash, IdleRb, NoReply, Alone, Made
  <2>3. ASSUME Calm' PROVE Kept' /\ Restoring'
    BY <1>22, <2>3 DEF Crash, IdleRb, Calm, Kept, Restoring
  <2>4. ASSUME Calm', faults' = 0 PROVE Visiting'
    BY <1>22, <2>4 DEF Crash, IdleRb, Calm, Visiting
  <2> QED BY <2>1, <2>2, <2>3, <2>4
<1>23. CASE Boot
  <2>1. RpcPc'
    BY <1>23 DEF Boot, RpcPc
  <2>2. ASSUME Calm' PROVE Alone' /\ Made'
    BY <1>23, <2>2 DEF Boot, Calm, Alone, InConfirmed, Made, BackedUp
  <2>3. ASSUME Calm' PROVE Kept' /\ Restoring'
    BY <1>23, <2>3 DEF Boot, Calm, Kept, Restoring
  <2>4. ASSUME Calm', faults' = 0 PROVE Visiting'
    BY <1>23, <2>4 DEF Boot, Fault, Calm, Visiting, TypeOK
  <2> QED BY <2>1, <2>2, <2>3, <2>4
<1>24. ASSUME NEW m \in Modules, NEW v \in Values, EditRunning(m, v) PROVE SafeInv'
  <2>1. RpcPc'
    BY <1>24 DEF EditRunning, RpcPc
  <2>2. ASSUME Calm' PROVE Alone' /\ Made'
    BY <1>24, <2>2 DEF EditRunning, Calm, Alone, InConfirmed, Made, BackedUp
  <2>3. ASSUME Calm' PROVE Kept' /\ Restoring'
    BY <1>24, <2>3 DEF EditRunning, Calm, Kept, Restoring
  <2>4. ASSUME Calm', faults' = 0 PROVE Visiting'
    BY <1>24, <2>4 DEF EditRunning, Calm, Visiting
  <2> QED BY <2>1, <2>2, <2>3, <2>4
<1>25. CASE UNCHANGED vars
  <2>1. RpcPc'
    BY <1>25 DEF vars, RpcPc
  <2>2. ASSUME Calm' PROVE Alone' /\ Made'
    BY <1>25, <2>2 DEF vars, Calm, Alone, InConfirmed, Made, BackedUp
  <2>3. ASSUME Calm' PROVE Kept' /\ Restoring'
    BY <1>25, <2>3 DEF vars, Calm, Kept, Restoring
  <2>4. ASSUME Calm', faults' = 0 PROVE Visiting'
    BY <1>25, <2>4 DEF vars, Calm, Visiting
  <2> QED BY <2>1, <2>2, <2>3, <2>4
<1> QED
  BY <1>1, <1>2, <1>3, <1>4, <1>5, <1>6, <1>7, <1>8, <1>9, <1>10, <1>11, <1>12, <1>13,
     <1>14, <1>15, <1>16, <1>17, <1>18, <1>19, <1>20, <1>21, <1>22, <1>23, <1>24, <1>25
     DEF Next, RpcStep, RbStep
LEMMA Safety == Spec => [](TypeInv /\ SafeInv)
BY InitType, StepType, InitSafe, StepSafe, PTL DEF Spec

(* Until a module is restored or the commit confirmed, what the confirmed  *)
(* commit of np2srv_confirmed_commit_cb found in it stays on disk, through *)
(* crashes, failures and concurrent rollbacks.                             *)
THEOREM BackupsStayIntact == Spec => []BackupsIntact
<1>1. TypeInv /\ SafeInv => BackupsIntact
  BY DEF SafeInv, Calm, Kept, BackupsIntact, Saved
<1> QED BY Safety, <1>1, PTL

(* A rollback during which nothing fails removes the meta file only after  *)
(* it has restored every module (changes_rollback).                        *)
THEOREM RollbackIsComplete == Spec => []RollbackComplete
<1>1. TypeInv /\ SafeInv => RollbackComplete
  BY DEF SafeInv, Calm, Visiting, RollbackComplete
<1> QED BY Safety, <1>1, PTL

(* Only RbReplace takes a module off stake without an RPC, and it writes   *)
(* the content backed up for it.                                           *)
LEMMA StepRestores == TypeInv /\ SafeInv /\ [Next]_vars => [RestoreStep]_vars
<1> SUFFICES ASSUME TypeInv, SafeInv, Next, Edit1Access = "rw", ~overlap, rpc' = rpc,
                    NEW m \in Modules, m \in stake, m \notin stake'
             PROVE running'[m] = Printed[base[m]]
  BY DEF RestoreStep, TypeInv, TypeOK
<1> USE DEF TypeInv, hist
<1>1. ASSUME NEW t \in Threads, RbReplace(t) PROVE running'[m] = Printed[base[m]]
  BY <1>1 DEF RbReplace, TypeOK, SafeInv, Calm, Restoring
<1>2. ~ \E k \in {"commit", "confirmed", "cancel"}, p, id \in Ids \cup {NoId} : RpcArrive(k, p, id)
  BY ZenonT(30) DEF RpcArrive
<1>3. ~RpcStep
  <2>1. ~RpcReject /\ ~BackupWrite /\ ~BackupFails /\ ~CreateMeta /\ ~MetaWrite
    BY DEF RpcReject, BackupWrite, BackupFails, CreateMeta, MetaWrite
  <2>2. ~ConfirmedStart /\ ~Schedule /\ ~CancelStart /\ ~CancelFinish
    BY DEF ConfirmedStart, Schedule, CancelStart, CancelFinish
  <2>3. ~Copy
    BY DEF Copy
  <2>4. ~CommitConfirm
    BY DEF CommitConfirm, Goto, TypeOK, RpcState
  <2>5. ASSUME NEW n \in Modules PROVE ~BackupRead(n)
    BY ZenonT(30) DEF BackupRead, TypeOK, RpcState
  <2> QED BY <2>1, <2>2, <2>3, <2>4, <2>5 DEF RpcStep
<1>4. ASSUME NEW t \in Threads, RbStep(t) PROVE RbReplace(t)
  BY <1>4 DEF RbStep, RbOpen, RbRead, RbRename, RbUnlink, RbEnd, RbMeta
<1>5. ~ \E t \in Timers : Fire(t)
  BY DEF Fire
<1>6. ~Crash /\ ~Boot /\ ~ \E n \in Modules, v \in Values : EditRunning(n, v)
  BY DEF Crash, Boot, EditRunning
<1> QED BY <1>1, <1>2, <1>3, <1>4, <1>5, <1>6 DEF Next

(* A module whose confirmed commit was neither confirmed nor superseded    *)
(* changes back to exactly what was backed up (changes_rollback).          *)
THEOREM RollbackRestores == Spec => RestoresBackup
BY Safety, StepRestores, PTL DEF Spec, RestoresBackup

-----------------------------------------------------------------------------
(* The refinement.  A step that leaves running, base, stake and overlap    *)
(* alone is a stutter; the others are matched one by one.                  *)

Unseen == UNCHANGED <<running, base, stake, overlap>>

LEMMA UnseenStutters == Unseen => UNCHANGED Promised!pvars
BY DEF Unseen, Promised!pvars

(* The steps that change nothing the promise is about. *)
LEMMA StepsUnseen ==
    ASSUME TypeInv, SafeInv, Next
    PROVE  \/ Unseen
           \/ ConfirmedStart \/ Copy \/ CommitConfirm
           \/ \E m \in Modules : BackupRead(m)
           \/ \E t \in Timers : Fire(t)
           \/ \E t \in Threads : RbReplace(t)
           \/ \E m \in Modules, v \in Values : EditRunning(m, v)
<1> USE DEF hist
<1>1. ASSUME NEW k \in {"commit", "confirmed", "cancel"}, NEW p \in Ids \cup {NoId},
             NEW id \in Ids \cup {NoId}, RpcArrive(k, p, id)
      PROVE Unseen
  BY <1>1 DEF RpcArrive, Unseen
<1>2. RpcReject \/ BackupWrite \/ BackupFails \/ CreateMeta \/ MetaWrite => Unseen
  BY DEF RpcReject, BackupWrite, BackupFails, CreateMeta, MetaWrite, Unseen
<1>3. Schedule \/ CancelStart \/ CancelFinish \/ Crash \/ Boot => Unseen
  BY DEF Schedule, CancelStart, CancelFinish, Crash, Boot, Unseen
<1>4. ASSUME NEW t \in Threads, RbStep(t), ~RbReplace(t) PROVE Unseen
  BY <1>4 DEF RbStep, RbOpen, RbRead, RbRename, RbUnlink, RbEnd, RbMeta, Unseen
<1> QED BY <1>1, <1>2, <1>3, <1>4 DEF Next, RpcStep

LEMMA InitPromises == Init => Promised!Init
BY DEF Init, Promised!Init

LEMMA StepPromises ==
    TypeInv /\ SafeInv /\ [Next]_vars => [Promised!Next]_(Promised!pvars)
<1> SUFFICES ASSUME TypeInv, SafeInv, Next, ~Unseen, Calm'
             PROVE Promised!Next
  BY UnseenStutters DEF vars, Unseen, Calm, Promised!Next
<1> USE ConstantsAssumption, PrintedAssumption DEF TypeInv, TypeOK
<1>1. CASE ConfirmedStart
  BY <1>1, Zenon DEF ConfirmedStart, Calm, Unseen, Promised!Next
<1>2. CASE Copy
  <2>1. Calm
    BY <1>2 DEF Copy, Calm
  <2>2. CASE rpc.kind = "confirmed"
    <3>1. \A m \in Modules : base[m] # NoVal /\ Printed[base[m]] # NoVal
      BY <1>2, <2>1, <2>2 DEF Copy, SafeInv, Made, BackedUp
    <3> QED BY <1>2, <2>1, <2>2, <3>1 DEF Copy, Calm, Unseen, Promised!Next, Promised!Replace
  <2>3. CASE rpc.kind = "commit" /\ stake = {}
    BY <1>2, <2>1, <2>3 DEF Copy, Calm, Unseen, Promised!Next, Promised!Edit
  <2> QED BY <1>2, <2>2, <2>3 DEF Copy, SafeInv, RpcPc
<1>3. CASE CommitConfirm
  BY <1>3 DEF CommitConfirm, Calm, Promised!Next, Promised!Confirm
<1>4. ASSUME NEW m \in Modules, BackupRead(m) PROVE Promised!Next
  <2>1. /\ base' = [base EXCEPT ![m] = running[m]] /\ running[m] \in Values
        /\ stake' = stake \ {m} /\ UNCHANGED <<running, overlap>>
    BY <1>4 DEF BackupRead
  <2>2. base'[m] = running[m] /\ \A n \in Modules : n # m => base'[n] = base[n]
    BY <2>1
  <2>3. Promised!Promise(m)
    BY <2>1, <2>2, Zenon DEF Promised!Promise
  <2> QED BY <2>1, <2>3 DEF Calm, Promised!Next
<1>5. ASSUME NEW t \in Timers, Fire(t) PROVE Promised!Next
  BY <1>5, Zenon DEF Fire, Calm, Unseen
<1>6. ASSUME NEW t \in Threads, RbReplace(t) PROVE Promised!Next
  <2>1. Calm
    BY <1>6 DEF RbReplace, Calm
  <2>2. PICK m \in Modules : m = rb[t].mod
    BY <1>6 DEF RbReplace, WorkItem
  <2>3. running' = [running EXCEPT ![m] = rb[t].val] /\ stake' = stake \ {m} /\ base' = base
    BY <1>6, <2>2 DEF RbReplace, Unseen
  <2>4. CASE m \in stake
    <3>1. rb[t].val = Printed[base[m]] /\ base[m] # NoVal
      BY <1>6, <2>1, <2>2, <2>4 DEF RbReplace, SafeInv, Restoring, Kept
    <3>2. Promised!Restore(m)
      BY <2>3, <2>4, <3>1 DEF Promised!Restore
    <3> QED BY <2>1, <3>2 DEF Calm, Promised!Next
  <2>5. CASE m \notin stake
    <3>1. rb[t].val \in Values
      BY <1>6 DEF RbReplace, WorkItem
    <3>2. Promised!Edit
      BY <2>3, <2>5, <3>1 DEF Promised!Edit
    <3> QED BY <2>1, <3>2 DEF Calm, Promised!Next
  <2> QED BY <2>4, <2>5
<1>7. ASSUME NEW m \in Modules, NEW v \in Values, EditRunning(m, v) PROVE Promised!Next
  <2>1. Promised!Edit
    BY <1>7 DEF EditRunning, hist, Promised!Edit
  <2> QED BY <1>7, <2>1 DEF EditRunning, hist, Calm, Promised!Next
<1> QED BY <1>1, <1>2, <1>3, <1>4, <1>5, <1>6, <1>7, StepsUnseen

(* The backup files, timers, threads and restarts implement the promise of *)
(* PendingCommit: what a confirmed commit replaced goes back to exactly    *)
(* what was backed up, or is confirmed as a whole (np2srv_rpc_commit_cb,   *)
(* changes_rollback, ncc_try_restore).                                     *)
THEOREM ImplementsPromise == Spec => KeepsPromise
BY Safety, InitPromises, StepPromises, PTL DEF Spec, KeepsPromise, Promised!Spec
=============================================================================
