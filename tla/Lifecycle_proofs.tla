-------------------------- MODULE Lifecycle_proofs --------------------------
(***************************************************************************)
(* Proofs about Lifecycle, for any processes, worker threads, number of    *)
(* starts and of steps that fail.                                          *)
(***************************************************************************)
EXTENDS Lifecycle, TLAPS

Callbacks == {"rpc", "data", "home"}

All == Before(Len(SetUp) + 1)

-----------------------------------------------------------------------------
(* The orders of setting up and of taking down *)

LEMMA SetUpOrder ==
    /\ Len(SetUp) = 13
    /\ SetUp[1] = "connection" /\ SetUp[2] = "session" /\ SetUp[3] = "schemas"
    /\ SetUp[4] = "nacm" /\ SetUp[5] = "netconf" /\ SetUp[6] = "ps"
    /\ SetUp[7] = "capabilities" /\ SetUp[8] = "unix" /\ SetUp[9] = "restore"
    /\ SetUp[10] = "rpc" /\ SetUp[11] = "data" /\ SetUp[12] = "home"
    /\ SetUp[13] = "rules"
BY DEF SetUp, ServerInit, ServerRpcSubscribe, ServerDataSubscribe

LEMMA BeforeNext ==
    ASSUME NEW i \in 1..Len(SetUp)
    PROVE  Before(i + 1) = Before(i) \cup {SetUp[i]}
BY SetUpOrder DEF Before

(* A thread of a subscription or of call home is set up after all it uses. *)
LEMMA UsesBefore ==
    ASSUME NEW i \in 1..(Len(SetUp) + 1), NEW t \in Callbacks, t \in Before(i)
    PROVE  Uses(t) \subseteq Before(i)
<1>1. PICK j \in 1..13 : j < i /\ t = SetUp[j]
  BY SetUpOrder DEF Before
<1>2. j > 9
  BY <1>1, SetUpOrder DEF Callbacks
<1>3. \A k \in 1..9 : SetUp[k] \in Before(i)
  BY <1>1, <1>2, SetUpOrder DEF Before
<1>4. {"connection", "nacm", "netconf", "ps"} \subseteq Before(i)
  BY <1>3, SetUpOrder
<1> QED BY <1>4 DEF Uses, Callbacks

LEMMA UsesAll ==
    ASSUME NEW t \in Thread
    PROVE  Uses(t) \subseteq All
<1>1. \A k \in 1..13 : SetUp[k] \in All
  BY SetUpOrder DEF All, Before
<1>2. {"connection", "nacm", "netconf", "ps", "rpc", "rules"} \subseteq All
  BY <1>1, SetUpOrder
<1> QED BY <1>2 DEF Uses

LEMMA BeforeIsAll == \A i \in 1..(Len(SetUp) + 1) : Before(i) \subseteq All
BY SetUpOrder DEF Before, All

LEMMA InAll == {"connection", "ps"} \cup Callbacks \subseteq All
<1>1. \A k \in 1..13 : SetUp[k] \in All
  BY SetUpOrder DEF All, Before
<1> QED BY <1>1, SetUpOrder DEF Callbacks

LEMMA WorkersApart ==
    Workers \cap Callbacks = {} /\ \A i \in 1..Len(SetUp) : SetUp[i] \notin Workers
<1>1. \A i \in 1..Len(SetUp) : SetUp[i] \in All
  BY SetUpOrder DEF All, Before
<1> QED BY <1>1, InAll, WorkersAssumption DEF All

(* What is taken down is used by nothing that is taken down later. *)
LEMMA DestroyOrder ==
    ASSUME NEW i \in 1..Len(ServerDestroy), NEW t \in Callbacks,
           ServerDestroy[i] \in Uses(t)
    PROVE  \E j \in 1..(i - 1) : ServerDestroy[j] = t
<1>1. Uses(t) \subseteq {"connection", "nacm", "netconf", "ps"}
  BY DEF Uses, Callbacks
<1>2. i > 3
  BY <1>1 DEF ServerDestroy
<1> QED BY <1>2 DEF ServerDestroy, Callbacks

-----------------------------------------------------------------------------
(* The inductive invariant: what a process holds and runs follows from     *)
(* where main() is.                                                        *)

TypeInv ==
    /\ pc \in [Process -> {"off", "lock", "write", "setup", "work", "cleanup", "destroy"}]
    /\ held \in [Process -> SUBSET All]
    /\ running \in [Process -> SUBSET Thread]
    /\ sessions \in [Process -> BOOLEAN]

(* A session needs the poll structure; the threads of a process that stops *)
(* are those of what it still holds.                                       *)
Consistent(p) ==
    /\ pc[p] \in {"off", "lock", "write"} => held[p] = {} /\ running[p] = {}
    /\ pc[p] = "setup" =>
        \E i \in 1..(Len(SetUp) + 1) : held[p] = Before(i) /\ running[p] = Before(i) \cap Callbacks
    /\ pc[p] = "work" => held[p] = All
    /\ pc[p] \in {"cleanup", "destroy"} => running[p] \subseteq held[p] \cap Callbacks
    /\ sessions[p] => "ps" \in held[p]

Ready(p) == \A t \in running[p] : Uses(t) \subseteq held[p]

LifeInv == TypeInv /\ \A p \in Process : Consistent(p) /\ Ready(p)

(* A step of one process that leaves pc, held, running and sessions alone. *)
LEMMA Unmoved ==
    ASSUME LifeInv, UNCHANGED <<pc, held, running, sessions>>
    PROVE  LifeInv'
BY DEF LifeInv, TypeInv, Consistent, Ready

(* A step of process p changes nothing of the others. *)
LEMMA Others ==
    ASSUME LifeInv, TypeInv', NEW p \in Process, Consistent(p)', Ready(p)',
           \A q \in Process \ {p} : /\ pc'[q] = pc[q] /\ held'[q] = held[q]
                                    /\ running'[q] = running[q] /\ sessions'[q] = sessions[q]
    PROVE  LifeInv'
<1>1. \A q \in Process \ {p} : Consistent(q)' /\ Ready(q)'
  BY DEF LifeInv, Consistent, Ready
<1> QED BY <1>1 DEF LifeInv

LEMMA InitLife == Init => LifeInv
<1> SUFFICES ASSUME Init PROVE LifeInv
  OBVIOUS
<1>1. TypeInv
  BY DEF Init, TypeInv
<1>2. \A p \in Process : Consistent(p) /\ Ready(p)
  BY Zenon DEF Init, Consistent, Ready
<1> QED BY <1>1, <1>2 DEF LifeInv

LEMMA StepLife == LifeInv /\ [Next]_vars => LifeInv'
<1> SUFFICES ASSUME LifeInv, [Next]_vars PROVE LifeInv'
  OBVIOUS
<1>1. CASE UNCHANGED vars
  BY <1>1, Unmoved DEF vars
<1>2. ASSUME NEW p \in Process,
             \/ OpenPid(p) \/ Main(p) \/ Accept(p) \/ Signal(p)
             \/ \E w \in Workers : WorkerExits(p, w)
      PROVE LifeInv'
  <2> USE DEF LifeInv
  <2>1. TypeInv /\ Consistent(p) /\ Ready(p)
    OBVIOUS
  <2>2. ASSUME OpenPid(p) \/ LockPid(p) \/ WritePid(p) PROVE LifeInv'
    <3>1. /\ pc[p] \in {"off", "lock", "write"}
          /\ UNCHANGED <<held, running, sessions>>
          /\ \E w \in {"off", "lock", "write", "setup"} : pc' = [pc EXCEPT ![p] = w]
      BY <2>2 DEF OpenPid, LockPid, WritePid, To
    <3>2. TypeInv'
      BY <2>1, <3>1 DEF TypeInv
    <3>3. held'[p] = {} /\ running'[p] = {} /\ Before(1) = {} /\ 1 \in 1..(Len(SetUp) + 1)
      BY <2>1, <3>1, SetUpOrder DEF Consistent, Before
    <3>4. Consistent(p)' /\ Ready(p)'
      BY <2>1, <3>1, <3>3 DEF TypeInv, Consistent, Ready
    <3> QED BY <3>1, <3>2, <3>4, Others DEF TypeInv
  <2>3. ASSUME SetUpStep(p) PROVE LifeInv'
    <3>1. PICK i \in 1..Len(SetUp) :
            /\ pc[p] = "setup" /\ held[p] = Before(i) /\ UNCHANGED sessions
            /\ \/ /\ held' = [held EXCEPT ![p] = @ \cup {SetUp[i]}]
                  /\ running' = [running EXCEPT ![p] = @ \cup ({SetUp[i]} \cap Thread)]
                  /\ UNCHANGED pc
               \/ UNCHANGED <<held, running>> /\ pc' = [pc EXCEPT ![p] = "cleanup"]
      BY <2>3 DEF SetUpStep, To
    <3>2. Before(i + 1) = Before(i) \cup {SetUp[i]} /\ i + 1 \in 1..(Len(SetUp) + 1)
      BY SetUpOrder, BeforeNext
    <3>3. running[p] = Before(i) \cap Callbacks
      BY <2>1, <3>1 DEF Consistent
    <3>4. CASE /\ held' = [held EXCEPT ![p] = Before(i) \cup {SetUp[i]}]
               /\ running' = [running EXCEPT ![p] = (Before(i) \cap Callbacks) \cup ({SetUp[i]} \cap Thread)]
               /\ UNCHANGED pc
      <4>1. {SetUp[i]} \cap Thread = {SetUp[i]} \cap Callbacks
        BY WorkersApart, Zenon DEF Thread, Callbacks
      <4>2. held'[p] = Before(i + 1) /\ running'[p] = Before(i + 1) \cap Callbacks
        BY <2>1, <3>2, <3>4, <4>1 DEF TypeInv
      <4>3. TypeInv'
        BY <2>1, <3>1, <3>2, <3>4, <4>1, BeforeIsAll DEF TypeInv, Thread, Callbacks
      <4>4. Consistent(p)'
        BY <2>1, <3>1, <3>2, <3>4, <4>2 DEF TypeInv, Consistent
      <4>5. Ready(p)'
        BY <3>2, <4>2, UsesBefore DEF Ready
      <4> QED BY <2>1, <3>1, <3>4, <4>3, <4>4, <4>5, Others DEF TypeInv
    <3>5. CASE UNCHANGED <<held, running>> /\ pc' = [pc EXCEPT ![p] = "cleanup"]
      <4>1. TypeInv'
        BY <2>1, <3>1, <3>5 DEF TypeInv
      <4>2. Consistent(p)' /\ Ready(p)'
        BY <2>1, <3>1, <3>3, <3>5 DEF TypeInv, Consistent, Ready
      <4> QED BY <2>1, <3>1, <3>5, <4>1, <4>2, Others DEF TypeInv
    <3> QED BY <3>1, <3>3, <3>4, <3>5
  <2>4. ASSUME StartWorkers(p) PROVE LifeInv'
    <3>1. /\ held[p] = All /\ running' = [running EXCEPT ![p] = running[p] \cup Workers]
          /\ pc' = [pc EXCEPT ![p] = "work"] /\ UNCHANGED <<held, sessions>>
      BY <2>4 DEF StartWorkers, To, All
    <3>2. TypeInv'
      BY <2>1, <3>1 DEF TypeInv, Thread
    <3>3. Consistent(p)'
      BY <2>1, <3>1 DEF TypeInv, Consistent
    <3>4. Ready(p)'
      BY <2>1, <3>1, <3>2, UsesAll DEF TypeInv, Ready
    <3> QED BY <2>1, <3>1, <3>2, <3>3, <3>4, Others DEF TypeInv
  <2>5. ASSUME Accept(p) PROVE LifeInv'
    <3>1. /\ sessions' = [sessions EXCEPT ![p] = TRUE] /\ UNCHANGED <<pc, held, running>>
          /\ running[p] \cap ({"home"} \cup Workers) # {}
      BY <2>5 DEF Accept
    <3>2. "ps" \in held[p]
      <4>1. PICK t \in running[p] : t = "home" \/ t \in Workers
        BY <3>1
      <4>2. "ps" \in Uses(t)
        BY <4>1, WorkersApart DEF Uses, Callbacks
      <4> QED BY <2>1, <4>1, <4>2 DEF Ready
    <3>3. TypeInv'
      BY <2>1, <3>1 DEF TypeInv
    <3>4. Consistent(p)' /\ Ready(p)'
      BY <2>1, <3>1, <3>2 DEF Consistent, Ready
    <3> QED BY <2>1, <3>1, <3>3, <3>4, Others, Zenon DEF TypeInv
  <2>6. ASSUME NEW w \in Workers, WorkerExits(p, w) PROVE LifeInv'
    <3>1. /\ running' = [running EXCEPT ![p] = running[p] \ {w}] /\ UNCHANGED <<pc, held, sessions>>
          /\ w \in running[p]
      BY <2>6 DEF WorkerExits
    <3>2. TypeInv'
      BY <2>1, <3>1 DEF TypeInv
    <3>3. pc[p] = "work"
      BY <2>1, <3>1, WorkersApart DEF TypeInv, Consistent
    <3>4. Consistent(p)' /\ Ready(p)'
      BY <2>1, <3>1, <3>3 DEF TypeInv, Consistent, Ready
    <3> QED BY <2>1, <3>1, <3>2, <3>4, Others DEF TypeInv
  <2>7. ASSUME Join(p) PROVE LifeInv'
    <3>1. /\ pc[p] = "work" /\ running[p] \cap Workers = {}
          /\ pc' = [pc EXCEPT ![p] = "cleanup"] /\ UNCHANGED <<held, running, sessions>>
      BY <2>7 DEF Join, To
    <3>2. running[p] \subseteq Callbacks
      BY <2>1, <3>1 DEF TypeInv, Thread, Callbacks
    <3>3. TypeInv'
      BY <2>1, <3>1 DEF TypeInv
    <3>4. Consistent(p)' /\ Ready(p)'
      BY <2>1, <3>1, <3>2, InAll DEF TypeInv, Consistent, Ready
    <3> QED BY <2>1, <3>1, <3>3, <3>4, Others DEF TypeInv
  <2>8. ASSUME UnlinkPid(p) PROVE LifeInv'
    <3>1. /\ pc[p] = "cleanup" /\ pc' = [pc EXCEPT ![p] = "destroy"]
          /\ UNCHANGED <<held, running, sessions>>
      BY <2>8 DEF UnlinkPid, To
    <3>2. TypeInv'
      BY <2>1, <3>1 DEF TypeInv
    <3>3. Consistent(p)' /\ Ready(p)'
      BY <2>1, <3>1 DEF TypeInv, Consistent, Ready
    <3> QED BY <2>1, <3>1, <3>2, <3>3, Others DEF TypeInv
  <2>9. ASSUME DestroyStep(p) PROVE LifeInv'
    <3>1. PICK i \in 1..Len(ServerDestroy) :
            /\ pc[p] = "destroy" /\ ServerDestroy[i] \in held[p]
            /\ \A j \in 1..(i - 1) : ServerDestroy[j] \notin held[p]
            /\ held' = [held EXCEPT ![p] = IF ServerDestroy[i] = "connection" THEN {}
                                           ELSE held[p] \ {ServerDestroy[i]}]
            /\ running' = [running EXCEPT ![p] = running[p] \ {ServerDestroy[i]}]
            /\ sessions' = [sessions EXCEPT ![p] = sessions[p] /\ ServerDestroy[i] # "ps"]
            /\ UNCHANGED pc
      BY <2>9, Zenon DEF DestroyStep
    <3>2. running[p] \subseteq held[p] \cap Callbacks
      BY <2>1, <3>1 DEF Consistent
    <3>3. \A t \in running[p] : ServerDestroy[i] \notin Uses(t)
      BY <3>1, <3>2, DestroyOrder
    <3>4. ServerDestroy[i] = "connection" => running[p] = {} /\ "ps" \notin held[p]
      <4>1. ASSUME ServerDestroy[i] = "connection" PROVE i = 8
        BY <4>1 DEF ServerDestroy
      <4>2. \A t \in Callbacks : "connection" \in Uses(t)
        BY DEF Callbacks, Uses
      <4>3. i = 8 => "ps" \notin held[p]
        BY <3>1 DEF ServerDestroy
      <4> QED BY <3>2, <3>3, <4>1, <4>2, <4>3
    <3>5. TypeInv'
      <4>1. sessions' \in [Process -> BOOLEAN]
        BY <2>1, <3>1 DEF TypeInv
      <4> QED BY <2>1, <3>1, <4>1 DEF TypeInv
    <3>6. Ready(p)'
      BY <2>1, <3>1, <3>3, <3>4 DEF TypeInv, Ready
    <3>7. Consistent(p)'
      <4>1. pc'[p] = "destroy"
        BY <3>1
      <4>2. running'[p] \subseteq held'[p] \cap Callbacks
        BY <2>1, <3>1, <3>2, <3>4 DEF TypeInv
      <4>3. sessions'[p] => "ps" \in held'[p]
        BY <2>1, <3>1, <3>4, Zenon DEF TypeInv, Consistent
      <4> QED BY <4>1, <4>2, <4>3 DEF Consistent
    <3> QED BY <2>1, <3>1, <3>5, <3>6, <3>7, Others DEF TypeInv
  <2>10. ASSUME Exit(p) PROVE LifeInv'
    <3>1. /\ pc[p] = "destroy" /\ held[p] = {} /\ pc' = [pc EXCEPT ![p] = "off"]
          /\ UNCHANGED <<held, running, sessions>>
      BY <2>10 DEF Exit, To
    <3>2. TypeInv'
      BY <2>1, <3>1 DEF TypeInv
    <3>3. Consistent(p)' /\ Ready(p)'
      BY <2>1, <3>1 DEF TypeInv, Consistent, Ready
    <3> QED BY <2>1, <3>1, <3>2, <3>3, Others DEF TypeInv
  <2>11. ASSUME Signal(p) PROVE LifeInv'
    <3>1. CASE UNCHANGED <<pc, held, running, sessions>>
      BY <3>1, Unmoved
    <3>2. CASE /\ pc' = [pc EXCEPT ![p] = "off"] /\ held' = [held EXCEPT ![p] = {}]
               /\ running' = [running EXCEPT ![p] = {}]
               /\ sessions' = [sessions EXCEPT ![p] = FALSE]
      <4>1. TypeInv'
        BY <2>1, <3>2 DEF TypeInv
      <4>2. Consistent(p)' /\ Ready(p)'
        BY <2>1, <3>2 DEF TypeInv, Consistent, Ready
      <4> QED BY <2>1, <3>2, <4>1, <4>2, Others, Zenon DEF TypeInv
    <3> QED BY <2>11, <3>1, <3>2 DEF Signal, To
  <2> QED
    BY <1>2, <2>2, <2>3, <2>4, <2>5, <2>6, <2>7, <2>8, <2>9, <2>10, <2>11 DEF Main
<1> QED BY <1>1, <1>2 DEF Next

LEMMA Safety == Spec => []LifeInv
BY InitLife, StepLife, PTL DEF Spec

(* No thread runs before what it uses is set up or after it is taken down, *)
(* whichever step of server_init or of the subscriptions failed and        *)
(* whenever a signal came (main, server_destroy).                          *)
THEOREM NothingIsUsedUnready == Spec => []NothingUsedUnready
<1>1. LifeInv => NothingUsedUnready
  BY DEF LifeInv, Ready, NothingUsedUnready
<1> QED BY Safety, <1>1, PTL

(* A process that has ended, from wherever it was, left no session and no  *)
(* thread behind (server_destroy, signal_handler).                         *)
THEOREM NoSessionIsLeft == Spec => []NoSessionLeft
<1>1. LifeInv => NoSessionLeft
  BY DEF LifeInv, Consistent, NoSessionLeft
<1> QED BY Safety, <1>1, PTL
=============================================================================
