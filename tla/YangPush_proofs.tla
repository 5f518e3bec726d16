-------------------------- MODULE YangPush_proofs --------------------------
(***************************************************************************)
(* What YangPush promises, for every number of targets, values, commits,   *)
(* RPCs and lost notifications and for every dampening period: in time, a  *)
(* notification that waits is going to be sent, no notification is sent    *)
(* too early, and a periodic subscription has its next update within a     *)
(* period; in content, the receiver misses nothing but what it is not to   *)
(* be told, what is lost, and what the model names besides.                *)
(***************************************************************************)
EXTENDS YangPush, TLAPS

\* A leaf that names no prover is left to Zenon.
USE ZenonT(30)

(***************************************************************************)
(* The inductive invariant.                                                *)
(***************************************************************************)

TimeType ==
    /\ damp \in 0 .. MaxDamp /\ minDamp \in 0 .. MaxDamp /\ since \in 0 .. MaxDamp
    /\ due \in 0 .. MaxDamp \cup {None} /\ cbs \in Nat /\ rpcs \in Nat
    /\ {undefined, stranded, stale, early} \subseteq BOOLEAN

(* No timer and nothing pending before there are notifications. *)
Idle == phase \in {"none", "sync"} => pend = NoEdits /\ due = None /\ cbs = 0

Shortest == phase \in {"sync", "onchange"} => minDamp <= damp

(* A timer or a callback that was not left behind has something to send,   *)
(* and it does not come before the dampening period is over.               *)
OnTime ==
    phase = "onchange" /\ ~stale =>
        /\ due # None => pend # NoEdits /\ since + due >= minDamp
        /\ cbs > 0 => pend # NoEdits /\ since >= minDamp

TimeInv == Idle /\ Shortest /\ OnTime /\ PendingScheduled /\ Dampened

(* What a periodic subscription knows of its next update. *)
Periodic ==
    /\ first.now \in Times /\ first.anchor \in Times \cup {0} /\ first.period \in Periods
    /\ IF first.at = None
       THEN rpcs > 0 /\ first.anchor # 0 /\ first.anchor % first.period = 0
       ELSE first.at \in first.now .. first.now + first.period - 1

FirstInv == (phase = "periodic" => Periodic) /\ (first # None => Periodic)

(***************************************************************************)
(* Lemmas: what sending leaves behind.                                     *)
(***************************************************************************)

LEMMA MaxDampType == MaxDamp \in Nat /\ None \notin Nat
BY YangPushAssumption

LEMMA Later ==
    ASSUME NEW a \in Nat, NEW b \in Nat, NEW a1 \in Nat, NEW b1 \in Nat, NEW m \in Nat,
           a + b >= m, a1 = a + 1 \/ a1 >= m, b1 >= b - 1
    PROVE  a1 + b1 >= m
BY SMT

(* After a notification there is nothing pending, and whatever is left of  *)
(* its timer is stale.                                                     *)
LEMMA SendLeaves ==
    ASSUME NEW es, NEW un, NEW waiting \in Nat, TimeType, TimeInv, ~undefined, phase = "onchange",
           stale \/ since >= minDamp,
           ChangeSend(es, un, waiting), cbs' = waiting, UNCHANGED <<phase, damp, due, rpcs, undefined>>
    PROVE  TimeType' /\ TimeInv'
<1>1. pend' = NoEdits /\ stranded' = FALSE /\ stale' \in BOOLEAN
  BY DEF ChangeSend
<1>2. ~stale' => waiting = 0 /\ due = None
  <2>1. stale' = (waiting > 0 \/ due # None)
    BY DEF ChangeSend
  <2>2. ~stale' => ~(waiting > 0) /\ due = None
    BY <2>1
  <2>3. QED
    BY <2>2, SMT
<1>3. ~early' /\ early' \in BOOLEAN
  <2>1. CASE early' = (since < minDamp /\ ~stale)
    BY <2>1, SMT DEF TimeType
  <2>2. CASE early' = early
    BY <2>2 DEF TimeType, TimeInv, Dampened
  <2>3. QED
    BY <2>1, <2>2 DEF ChangeSend
<1>4. since' \in 0 .. MaxDamp /\ minDamp' \in 0 .. MaxDamp /\ minDamp' <= damp
  BY MaxDampType, SMT DEF ChangeSend, TimeType, TimeInv, Shortest
<1>5. TimeType'
  BY <1>1, <1>3, <1>4 DEF TimeType
<1>6. Idle' /\ Shortest' /\ PendingScheduled' /\ Dampened'
  BY <1>1, <1>3, <1>4 DEF Idle, Shortest, PendingScheduled, Dampened
<1>7. OnTime'
  BY <1>2, SMT DEF OnTime
<1>8. QED
  BY <1>5, <1>6, <1>7 DEF TimeInv

(* Steps that do not touch what the invariant is about, or only the phase. *)
LEMMA TimeStutters ==
    ASSUME TimeType, TimeInv, UNCHANGED <<damp, pend, tm, rpcs, undefined, stranded, minDamp, early, stale>>,
           \/ phase' = phase
           \/ phase = "sync" /\ phase' = "onchange"
           \/ phase' \in {"periodic", "ending", "gone"}
    PROVE  TimeType' /\ TimeInv'
<1>1. TimeType'
  BY DEF TimeType, tm
<1>2. Idle' /\ Shortest' /\ PendingScheduled' /\ Dampened'
  BY DEF TimeInv, Idle, Shortest, PendingScheduled, Dampened, tm
<1>3. OnTime'
  BY SMT DEF TimeInv, Idle, OnTime, tm, TimeType
<1>4. QED
  BY <1>1, <1>2, <1>3 DEF TimeInv

(***************************************************************************)
(* Steps.                                                                  *)
(***************************************************************************)

LEMMA InitTime == Init => TimeType /\ TimeInv
<1> SUFFICES ASSUME Init PROVE TimeType /\ TimeInv
  OBVIOUS
<1>1. TimeType
  <2>1. damp = 0 /\ minDamp = MaxDamp /\ since = MaxDamp /\ due = None /\ cbs = 0 /\ rpcs = 0
    BY DEF Init
  <2>2. undefined = FALSE /\ stranded = FALSE /\ stale = FALSE /\ early = FALSE
    BY DEF Init
  <2>3. {undefined, stranded, stale, early} \subseteq BOOLEAN
    BY <2>2
  <2>4. QED
    BY <2>1, <2>3, MaxDampType, SMT DEF TimeType
<1>2. TimeInv
  BY DEF Init, TimeInv, Idle, Shortest, OnTime, PendingScheduled, Dampened
<1>3. QED
  BY <1>1, <1>2

LEMMA ChangeCbTime ==
    ASSUME TimeType, TimeInv, ~undefined, ChangeCb
    PROVE  TimeType' /\ TimeInv'
<1> DEFINE es == Collect(Head(events))  un == Untold(Head(events))
<1> HIDE DEF es, un
<1>0. phase = "onchange" /\ UNCHANGED <<phase, damp, rpcs, undefined>>
  BY DEF ChangeCb
<1>1. CASE es = NoEdits
  <2>1. UNCHANGED <<pend, tm, stranded, minDamp, early, stale>>
    BY <1>1 DEF ChangeCb, es, un
  <2>2. QED
    BY <1>0, <2>1, TimeStutters
<1>2. CASE es # NoEdits /\ ChangeReady
  <2>1. ChangeSend(es, un, cbs) /\ UNCHANGED <<due, cbs>>
    BY <1>2 DEF ChangeCb, es, un
  <2>2. since >= minDamp
    BY <1>0, <1>2, SMT DEF ChangeReady, TimeType, TimeInv, Shortest
  <2>3. QED
    BY <1>0, <2>1, <2>2, SendLeaves DEF TimeType
<1>3. CASE es # NoEdits /\ ~ChangeReady
  <2>1. /\ pend' = es /\ due' = (IF due = None THEN damp - since ELSE due) /\ stranded' = FALSE
        /\ UNCHANGED <<since, cbs, minDamp, early, stale>>
    BY <1>3 DEF ChangeCb, es, un
  <2>2. due' \in 0 .. MaxDamp /\ (due = None => due' + since = damp) /\ (due # None => due' = due)
    BY <1>3, <2>1, MaxDampType, SMT DEF ChangeReady, TimeType
  <2>3. due' # None
    BY <2>2, MaxDampType, SMT
  <2>4. TimeType'
    BY <1>0, <2>1, <2>2 DEF TimeType
  <2>5. Idle' /\ Shortest' /\ PendingScheduled' /\ Dampened'
    BY <1>0, <2>1, <2>3 DEF TimeInv, Idle, Shortest, PendingScheduled, Dampened
  <2>6. OnTime'
    BY <1>0, <1>3, <2>1, <2>2, SMT DEF TimeInv, OnTime, Shortest, TimeType
  <2>7. QED
    BY <2>4, <2>5, <2>6 DEF TimeInv
<1>4. QED
  BY <1>1, <1>2, <1>3

LEMMA TickTime ==
    ASSUME TimeType, TimeInv, Tick
    PROVE  TimeType' /\ TimeInv'
<1>1. UNCHANGED <<phase, damp, pend, cbs, rpcs, undefined, stranded, minDamp, early, stale>>
  BY DEF Tick, bound, rx
<1>2. since' \in 0 .. MaxDamp /\ since' >= since /\ (since' = since + 1 \/ since' = MaxDamp)
  <2>1. since' = IF since + 1 < MaxDamp THEN since + 1 ELSE MaxDamp
    BY DEF Tick, Min2
  <2>2. QED
    BY <2>1, MaxDampType, SMT DEF TimeType
<1>3. CASE due = None
  <2>1. due' = None
    BY <1>3 DEF Tick
  <2>2. QED
    BY <1>1, <1>2, <1>3, <2>1, SMT
    DEF TimeType, TimeInv, Idle, Shortest, OnTime, PendingScheduled, Dampened
<1>4. CASE due # None
  <2>1. due' \in 0 .. MaxDamp /\ due' >= due - 1
    <3>1. due' = IF due - 1 > 0 THEN due - 1 ELSE 0
      BY <1>4 DEF Tick, Max2
    <3>2. due \in 0 .. MaxDamp
      BY <1>4 DEF TimeType
    <3>3. QED
      BY <3>1, <3>2, MaxDampType, SMT
  <2>2. due' # None
    BY <2>1, MaxDampType, SMT
  <2>3. due \in 0 .. MaxDamp
    BY <1>4 DEF TimeType
  <2>4. TimeType' /\ Idle' /\ Shortest' /\ PendingScheduled' /\ Dampened'
    BY <1>1, <1>2, <1>4, <2>1, <2>2
    DEF TimeType, TimeInv, Idle, Shortest, PendingScheduled, Dampened
  <2>5. since + due >= minDamp => since' + due' >= minDamp
    <3>1. since \in Nat /\ minDamp \in Nat /\ minDamp <= MaxDamp /\ since' \in Nat
      BY <1>2, MaxDampType, SMT DEF TimeType
    <3>2. due \in Nat /\ due' \in Nat /\ due' >= due - 1
      BY <2>1, <2>3, MaxDampType, SMT
    <3>3. since' = since + 1 \/ since' >= minDamp
      BY <1>2, <3>1, MaxDampType
    <3>4. QED
      BY <3>1, <3>2, <3>3, Later
  <2>6. since >= minDamp => since' >= minDamp
    BY <1>2, SMT DEF TimeType
  <2>7. OnTime'
    BY <1>1, <1>4, <2>5, <2>6 DEF TimeInv, OnTime
  <2>8. QED
    BY <2>4, <2>7 DEF TimeInv
<1>5. QED
  BY <1>3, <1>4

LEMMA ExpiresTime ==
    ASSUME TimeType, TimeInv, DampTimerExpires
    PROVE  TimeType' /\ TimeInv'
<1>1. /\ UNCHANGED <<phase, damp, pend, since, rpcs, undefined, stranded, minDamp, early, stale>>
      /\ due = 0 /\ due' = None /\ cbs' = cbs + 1
  BY DEF DampTimerExpires, bound, rx
<1>2. due # None
  BY <1>1, MaxDampType, SMT
<1>3. TimeType' /\ Idle' /\ Shortest' /\ PendingScheduled' /\ Dampened'
  BY <1>1, <1>2, SMT DEF TimeType, TimeInv, Idle, Shortest, PendingScheduled, Dampened
<1>4. OnTime'
  BY <1>1, <1>2, SMT DEF TimeType, TimeInv, OnTime
<1>5. QED
  BY <1>3, <1>4 DEF TimeInv

LEMMA DampTimerCbTime ==
    ASSUME TimeType, TimeInv, ~undefined, DampTimerCb
    PROVE  TimeType' /\ TimeInv'
<1>0. cbs > 0 /\ cbs' = cbs - 1 /\ cbs' \in Nat /\ UNCHANGED <<phase, damp, due, rpcs>>
  BY SMT DEF DampTimerCb, TimeType
<1>1. CASE phase = "ending"
  <2>1. UNCHANGED <<pend, since, undefined, stranded, minDamp, early, stale>>
    BY <1>1 DEF DampTimerCb, rx
  <2>2. QED
    BY <1>0, <1>1, <2>1 DEF TimeType, TimeInv, Idle, Shortest, OnTime, PendingScheduled, Dampened
<1>2. CASE phase = "onchange" /\ pend = NoEdits
  <2>1. undefined' = TRUE /\ UNCHANGED <<pend, since, stranded, minDamp, early, stale>>
    BY <1>2 DEF DampTimerCb, rx
  <2>2. stale
    BY <1>0, <1>2 DEF TimeInv, OnTime
  <2>3. TimeType'
    BY <1>0, <2>1 DEF TimeType
  <2>4. QED
    BY <1>0, <1>2, <2>1, <2>2, <2>3 DEF TimeInv, Idle, Shortest, OnTime, PendingScheduled, Dampened
<1>3. CASE phase = "onchange" /\ pend # NoEdits
  <2>1. ChangeSend(pend, unknown, cbs - 1) /\ UNCHANGED undefined
    BY <1>3 DEF DampTimerCb
  <2>2. stale \/ since >= minDamp
    BY <1>0, <1>3 DEF TimeInv, OnTime
  <2>3. QED
    BY <1>0, <1>3, <2>1, <2>2, SendLeaves
<1>4. QED
  BY <1>1, <1>2, <1>3 DEF DampTimerCb

LEMMA ModifyTime ==
    ASSUME TimeType, TimeInv, NEW d \in 0 .. MaxDamp, Modify(d)
    PROVE  TimeType' /\ TimeInv'
<1>1. /\ UNCHANGED <<phase, pend, since, cbs, undefined, early, stale>>
      /\ phase = "onchange" /\ rpcs' = rpcs + 1 /\ damp' = d
      /\ minDamp' = Min2(minDamp, d)
      /\ due' = IF d = 0 \/ due = None THEN None ELSE Max2(d - since, 0)
      /\ stranded' = (stranded \/ (d = 0 /\ pend # NoEdits /\ cbs = 0))
  BY DEF Modify
<1>2. minDamp' \in 0 .. MaxDamp /\ minDamp' <= d /\ minDamp' <= minDamp
  BY <1>1, SMT DEF Min2, TimeType
<1>3. stranded' \in BOOLEAN
  BY <1>1
<1>4. CASE d = 0 \/ due = None
  <2>1. due' = None
    BY <1>1, <1>4
  <2>2. TimeType' /\ Idle' /\ Shortest' /\ Dampened'
    BY <1>1, <1>2, <1>3, <2>1, SMT DEF TimeType, TimeInv, Idle, Shortest, Dampened
  <2>3. PendingScheduled'
    <3>1. pend # NoEdits => due # None \/ cbs > 0 \/ stranded
      BY <1>1 DEF TimeInv, PendingScheduled
    <3>2. stranded => stranded'
      BY <1>1
    <3>3. d = 0 /\ pend # NoEdits /\ cbs = 0 => stranded'
      BY <1>1
    <3>4. cbs > 0 \/ cbs = 0
      BY SMT DEF TimeType
    <3>5. QED
      BY <1>1, <1>4, <3>1, <3>2, <3>3, <3>4 DEF PendingScheduled
  <2>4. OnTime'
    BY <1>1, <1>2, <2>1, SMT DEF TimeType, TimeInv, OnTime
  <2>5. QED
    BY <2>2, <2>3, <2>4 DEF TimeInv
<1>5. CASE d # 0 /\ due # None
  <2>1. due' \in 0 .. MaxDamp /\ since + due' >= d
    <3>1. due' = IF d - since > 0 THEN d - since ELSE 0
      BY <1>1, <1>5 DEF Max2
    <3>2. QED
      BY <3>1, MaxDampType, SMT DEF TimeType
  <2>2. due' # None
    BY <2>1, MaxDampType, SMT
  <2>3. TimeType' /\ Idle' /\ Shortest' /\ PendingScheduled' /\ Dampened'
    BY <1>1, <1>2, <1>3, <2>1, <2>2, SMT
    DEF TimeType, TimeInv, Idle, Shortest, PendingScheduled, Dampened
  <2>4. OnTime'
    BY <1>1, <1>2, <1>5, <2>1, SMT DEF TimeType, TimeInv, OnTime
  <2>5. QED
    BY <2>3, <2>4 DEF TimeInv
<1>6. QED
  BY <1>4, <1>5

(* Every step keeps the invariant. *)
LEMMA StepTime == TimeType /\ TimeInv /\ [Next]_vars => (TimeType /\ TimeInv)'
<1> SUFFICES ASSUME TimeType, TimeInv, [Next]_vars PROVE TimeType' /\ TimeInv'
  OBVIOUS
<1>1. ASSUME NEW new \in [Target -> Value \cup {None}], Commit(new) PROVE TimeType' /\ TimeInv'
  BY <1>1, TimeStutters DEF Commit
<1>2. ASSUME UpdateTimerCb \/ Resync PROVE TimeType' /\ TimeInv'
  <2>1. UNCHANGED <<phase, damp, pend, tm, undefined, stranded, minDamp, early, stale>>
    BY <1>2 DEF UpdateTimerCb, Resync
  <2>2. rpcs' \in {rpcs, rpcs + 1}
    BY <1>2 DEF UpdateTimerCb, Resync
  <2>3. TimeType'
    BY <2>1, <2>2, SMT DEF TimeType, tm
  <2>4. TimeInv'
    BY <2>1 DEF TimeInv, Idle, Shortest, OnTime, PendingScheduled, Dampened, tm
  <2>5. QED
    BY <2>3, <2>4
<1>3. ASSUME NEW d \in 0 .. MaxDamp, NEW ex, NEW sync, EstablishOnChange(d, ex, sync)
      PROVE  TimeType' /\ TimeInv'
  <2>1. /\ phase = "none" /\ phase' = "sync" /\ damp' = d /\ minDamp' = d
        /\ UNCHANGED <<pend, tm, rpcs, undefined, stranded, early, stale>>
    BY <1>3 DEF EstablishOnChange, bound
  <2>2. TimeType'
    BY <2>1 DEF TimeType, tm
  <2>3. TimeInv'
    BY <2>1, SMT DEF TimeInv, Idle, Shortest, OnTime, PendingScheduled, Dampened, tm, TimeType
  <2>4. QED
    BY <2>2, <2>3
<1>4. ASSUME SrSubscribe \/ DataDestroy PROVE TimeType' /\ TimeInv'
  <2>1. CASE SrSubscribe
    BY <2>1, TimeStutters DEF SrSubscribe, bound, rx
  <2>2. CASE DataDestroy
    <3>1. /\ phase' = "gone"
          /\ UNCHANGED <<damp, tm, rpcs, undefined, stranded, minDamp, early, stale>>
      BY <2>2 DEF DataDestroy, bound, rx
    <3>2. TimeType'
      BY <3>1 DEF TimeType, tm
    <3>3. TimeInv'
      BY <3>1 DEF TimeInv, Idle, Shortest, OnTime, PendingScheduled, Dampened
    <3>4. QED
      BY <3>2, <3>3
  <2>3. QED
    BY <1>4, <2>1, <2>2
<1>5. ASSUME NEW now, NEW anchor, NEW period,
             EstablishPeriodic(now, anchor, period) \/ ModifyPeriodic(now, anchor, period)
      PROVE  TimeType' /\ TimeInv'
  <2>1. /\ phase' = "periodic" /\ rpcs' \in {rpcs, rpcs + 1}
        /\ UNCHANGED <<damp, pend, tm, undefined, stranded, minDamp, early, stale>>
    BY <1>5 DEF EstablishPeriodic, ModifyPeriodic, bound, rx
  <2>2. TimeType'
    BY <2>1, SMT DEF TimeType, tm
  <2>3. TimeInv'
    BY <2>1 DEF TimeInv, Idle, Shortest, OnTime, PendingScheduled, Dampened
  <2>4. QED
    BY <2>2, <2>3
<1>6. ASSUME TerminateAsync PROVE TimeType' /\ TimeInv'
  <2>1. /\ phase' = "ending" /\ due' = None
        /\ UNCHANGED <<damp, pend, since, cbs, rpcs, undefined, stranded, minDamp, early, stale>>
    BY <1>6 DEF TerminateAsync, bound, rx
  <2>2. TimeType'
    BY <2>1 DEF TimeType
  <2>3. TimeInv'
    BY <2>1 DEF TimeInv, Idle, Shortest, OnTime, PendingScheduled, Dampened
  <2>4. QED
    BY <2>2, <2>3
<1>7. CASE UNCHANGED vars
  BY <1>7, TimeStutters DEF vars, bound, rx
<1>8. QED
  BY <1>1, <1>2, <1>3, <1>4, <1>5, <1>6, <1>7, ChangeCbTime, TickTime, ExpiresTime, DampTimerCbTime,
     ModifyTime DEF Next

LEMMA Timing == Spec => [](TimeType /\ TimeInv)
BY InitTime, StepTime, PTL DEF Spec

(* A notification of changes that waits for yang_push_damp_timer_cb is     *)
(* never forgotten: its timer runs or its callback has started, unless     *)
(* dampening was turned off by modify-subscription while it waited.        *)
THEOREM WaitingIsScheduled == Spec => []PendingScheduled
BY Timing, PTL DEF TimeInv

(* The dampening period is kept by np2srv_change_yang_push_cb and by       *)
(* yang_push_damp_timer_cb, and the assertion in it holds, except for a    *)
(* timer or a callback left from a notification that went without it.      *)
THEOREM DampeningIsKept == Spec => []Dampened
BY Timing, PTL DEF TimeInv

(***************************************************************************)
(* Periodic subscriptions.                                                 *)
(***************************************************************************)

LEMMA ModBound ==
    ASSUME NEW a \in Nat, NEW b \in Nat \ {0}
    PROVE  a % b \in 0 .. b - 1
BY SMT

(* The first update comes within a period. *)
LEMMA FirstUpdateBound ==
    ASSUME NEW now \in Times, NEW anchor \in Times \cup {0}, NEW period \in Periods
    PROVE  FirstUpdate(now, anchor, period) \in now .. now + period - 1
<1>1. now \in Nat /\ anchor \in Nat /\ period \in Nat \ {0}
  BY YangPushAssumption, SMT
<1>2. Abs(anchor - now) \in Nat
  BY <1>1, SMT DEF Abs
<1>3. Abs(anchor - now) % period \in 0 .. period - 1
  BY <1>1, <1>2, ModBound
<1>4. QED
  BY <1>1, <1>3, SMT DEF FirstUpdate

LEMMA InitFirst == Init => FirstInv
BY DEF Init, FirstInv

LEMMA StepFirst == TimeType /\ FirstInv /\ [Next]_vars => FirstInv'
<1> SUFFICES ASSUME TimeType, FirstInv, [Next]_vars PROVE FirstInv'
  OBVIOUS
<1>1. ASSUME NEW now \in Times, NEW anchor \in Times \cup {0}, NEW period \in Periods,
             EstablishPeriodic(now, anchor, period)
      PROVE  FirstInv'
  <2>1. first' = [now |-> now, anchor |-> anchor, period |-> period,
                  at |-> FirstUpdate(now, anchor, period)]
    BY <1>1 DEF EstablishPeriodic
  <2>2. FirstUpdate(now, anchor, period) \in now .. now + period - 1
    BY FirstUpdateBound
  <2>3. FirstUpdate(now, anchor, period) # None
    BY <2>2, YangPushAssumption, SMT
  <2>4. QED
    BY <2>1, <2>2, <2>3 DEF FirstInv, Periodic
<1>2. ASSUME NEW now \in Times, NEW anchor \in Times \cup {0}, NEW period \in Periods,
             ModifyPeriodic(now, anchor, period)
      PROVE  FirstInv'
  <2> DEFINE kept == IF anchor = 0 THEN first.anchor ELSE anchor
  <2>1. kept \in Times \cup {0}
    BY <1>2 DEF ModifyPeriodic, FirstInv, Periodic
  <2> HIDE DEF kept
  <2>2. /\ period <= now /\ rpcs' = rpcs + 1
        /\ first' = [now |-> now, anchor |-> kept, period |-> period,
                     at |-> IF kept = 0 THEN now
                            ELSE IF kept % period = 0 THEN None ELSE Max2(now, kept % period)]
    BY <1>2 DEF ModifyPeriodic, kept
  <2>3. now \in Nat /\ kept \in Nat /\ period \in Nat \ {0} /\ now # None
    <3>1. Times \subseteq Nat \ {0} /\ Periods \subseteq Nat \ {0} /\ None \notin Nat
      BY YangPushAssumption
    <3>2. 0 \in Nat
      BY SMT
    <3>3. QED
      BY <2>1, <3>1, <3>2
  <2>4. Max2(now, kept % period) = now
    <3>1. kept % period \in 0 .. period - 1
      BY <2>3, ModBound
    <3>2. QED
      BY <2>2, <2>3, <3>1, SMT DEF Max2
  <2>5. rpcs' > 0
    BY <2>2, SMT DEF TimeType
  <2>6. now \in now .. now + period - 1
    BY <2>3, SMT
  <2>7. Periodic'
    <3>1. CASE first'.at = None
      BY <2>1, <2>2, <2>3, <2>4, <2>5, <3>1 DEF Periodic
    <3>2. CASE first'.at # None
      BY <2>1, <2>2, <2>4, <2>6, <3>2 DEF Periodic
    <3>3. QED
      BY <3>1, <3>2
  <2>8. QED
    BY <2>7 DEF FirstInv
<1>3. ASSUME UNCHANGED first, rpcs' \in {rpcs, rpcs + 1}, phase' = "periodic" => phase = "periodic"
      PROVE  FirstInv'
  <2>1. Periodic => Periodic'
    BY <1>3, SMT DEF Periodic, TimeType
  <2>2. QED
    BY <1>3, <2>1 DEF FirstInv
<1>4. QED
  <2>1. ASSUME NEW new \in [Target -> Value \cup {None}], Commit(new) PROVE FirstInv'
    BY <1>3, <2>1 DEF Commit
  <2>2. CASE ChangeCb
    BY <1>3, <2>2 DEF ChangeCb
  <2>3. CASE Tick \/ DampTimerExpires \/ DampTimerCb
    BY <1>3, <2>3 DEF Tick, DampTimerExpires, DampTimerCb, bound
  <2>4. CASE UpdateTimerCb \/ Resync
    BY <1>3, <2>4 DEF UpdateTimerCb, Resync
  <2>5. ASSUME NEW d \in 0 .. MaxDamp, NEW ex, NEW sync, EstablishOnChange(d, ex, sync)
        PROVE  FirstInv'
    BY <1>3, <2>5 DEF EstablishOnChange, bound
  <2>6. CASE SrSubscribe \/ TerminateAsync \/ DataDestroy
    BY <1>3, <2>6 DEF SrSubscribe, TerminateAsync, DataDestroy, bound
  <2>7. ASSUME NEW d \in 0 .. MaxDamp, Modify(d) PROVE FirstInv'
    BY <1>3, <2>7 DEF Modify
  <2>8. CASE UNCHANGED vars
    BY <1>3, <2>8 DEF vars, bound
  <2>9. QED
    BY <1>1, <1>2, <2>1, <2>2, <2>3, <2>4, <2>5, <2>6, <2>7, <2>8 DEF Next

(* The next update of a periodic subscription comes within a period after  *)
(* yang_push_rpc_establish_sub or yang_push_rpc_modify_sub, whatever the   *)
(* clock, the anchor and the period; only a modification stops it.         *)
THEOREM UpdatesStartSoon == Spec => []FirstUpdateSoon
<1>1. FirstInv => FirstUpdateSoon
  BY DEF FirstInv, Periodic, FirstUpdateSoon
<1>2. TimeType /\ FirstInv /\ [Next]_vars => FirstInv'
  BY StepFirst
<1>3. QED
  BY <1>1, <1>2, InitFirst, Timing, PTL DEF Spec

(***************************************************************************)
(* The receiver.  What it has, the edits that are pending and the events   *)
(* that are queued fit together because the events are the changes from    *)
(* one state of the datastore to the next, and these states end with the   *)
(* present one.                                                            *)
(***************************************************************************)

DataType ==
    /\ pend \in Edits /\ events \in Seq(Edits) /\ unknown \subseteq Target
    /\ seen \in [Target -> Content] /\ ds \in [Target -> Content]

(* A node that has value v after the first i events has its present value  *)
(* after all of them: it has it now, or some event sets it, which a move   *)
(* does only if there is something to move.                                *)
Reaches(t, i, v) ==
    \/ v = ds[t]
    \/ \E j \in i + 1 .. Len(events) :
        events[j][t].op # "none" /\ (events[j][t].op # "move" \/ v # None)

(* The events are the differences between the values g that node t had.    *)
History(t) ==
    \E g \in [0 .. Len(events) -> Content] :
        /\ g[Len(events)] = ds[t]
        /\ \A i \in 1 .. Len(events) : events[i][t] = Change(t, g[i - 1], g[i])
        /\ \A i \in 0 .. Len(events) : Reaches(t, i, g[i])

DataInv ==
    /\ phase \in {"none", "sync"} => events = <<>> /\ pend = NoEdits
    /\ phase \in {"none", "sync", "onchange"} =>
        \A t \in Target : /\ History(t)
                          /\ t \notin unknown => Reaches(t, 0, ApplyEdit(pend[t], seen[t]))

LEMMA NoEditsType == NoEdits \in Edits /\ \A t \in Target : NoEdits[t] = NoEdit
BY DEF NoEdits, Edits

LEMMA NoneIsNoValue == None \notin Value /\ None \in Content
BY YangPushAssumption DEF Content

(* What an edit does to a value. *)
LEMMA ApplyType ==
    ASSUME NEW e \in Edit \cup {NoEdit}, NEW v \in Content
    PROVE  ApplyEdit(e, v) \in Content
BY SMT DEF ApplyEdit, Edit, NoEdit, Content

LEMMA ApplyCases ==
    ASSUME NEW e \in Edit \cup {NoEdit}, NEW v
    PROVE  /\ e.op = "none" => ApplyEdit(e, v) = v
           /\ e.op = "move" => /\ e.value # None
                               /\ ApplyEdit(e, v) = IF v = None THEN None ELSE e.value
           /\ e.op \notin {"none", "move"} => ApplyEdit(e, v) = e.value
BY SMT DEF ApplyEdit, Edit, NoEdit, Op

LEMMA ApplyNone == \A v : ApplyEdit(NoEdit, v) = v
BY SMT DEF ApplyEdit, NoEdit

(* The edit for a change from v to w is right for v; if it is not a move   *)
(* it gives w to any other value, too.                                     *)
LEMMA ChangeCases ==
    ASSUME NEW t \in Target, NEW v \in Content, NEW w \in Content
    PROVE  /\ Change(t, v, w) \in Edit \cup {NoEdit}
           /\ Change(t, v, w).op = "none" <=> v = w
           /\ Change(t, v, w).op # "none" => Change(t, v, w).value = w
           /\ Change(t, v, w).op = "move" => v # None /\ w # None
<1>1. CASE v = w
  BY <1>1 DEF Change, NoEdit
<1>2. CASE v # w
  <2>1. Change(t, v, w) = [op |-> ChangeOp(t, v, w), value |-> w]
    BY <1>2 DEF Change
  <2>2. ChangeOp(t, v, w) \in Op /\ (ChangeOp(t, v, w) = "delete" <=> w = None)
    BY <1>2 DEF ChangeOp, Op
  <2>3. ChangeOp(t, v, w) = "move" => v # None /\ w # None
    BY <1>2 DEF ChangeOp
  <2>4. Change(t, v, w) \in Edit
    BY <2>1, <2>2, SMT DEF Edit
  <2>5. ChangeOp(t, v, w) # "none"
    BY <2>2 DEF Op
  <2>6. QED
    BY <1>2, <2>1, <2>3, <2>4, <2>5, SMT
<1>3. QED
  BY <1>1, <1>2

LEMMA ChangeApplied ==
    ASSUME NEW t \in Target, NEW v \in Content, NEW w \in Content
    PROVE  ApplyEdit(Change(t, v, w), v) = w
<1> DEFINE e == Change(t, v, w)
<1>1. /\ e \in Edit \cup {NoEdit} /\ (e.op = "none" <=> v = w)
      /\ (e.op # "none" => e.value = w) /\ (e.op = "move" => v # None)
  BY ChangeCases, SMT
<1> HIDE DEF e
<1>2. ApplyEdit(e, v) = w
  BY <1>1, ApplyCases
<1>3. QED
  BY <1>2 DEF e

(* A node that reaches its present value is led to it by the events: it    *)
(* keeps its value until the first event that sets it, and then has the    *)
(* values it had in the datastore.                                         *)
LEMMA ReachesLeads ==
    ASSUME DataType, NEW t \in Target, NEW v \in Content, History(t), Reaches(t, 0, v)
    PROVE  Leads(t, v)
<1> DEFINE n == Len(events)
           sets(j) == events[j][t].op # "none" /\ (events[j][t].op # "move" \/ v # None)
           isSet(i) == \E j \in 1 .. i : sets(j)
<1>1. PICK g \in [0 .. n -> Content] :
        /\ g[n] = ds[t]
        /\ \A i \in 1 .. n : events[i][t] = Change(t, g[i - 1], g[i])
  BY DEF History
<1>2. n \in Nat /\ DOMAIN events = 1 .. n /\ \A i \in 1 .. n : events[i][t] \in Edit \cup {NoEdit}
  BY SMT DEF DataType, Edits
<1> DEFINE f == [i \in 0 .. n |-> IF isSet(i) THEN g[i] ELSE v]
<1>3. f \in [0 .. n -> Content] /\ f[0] = v
  <2>1. ~isSet(0)
    BY SMT
  <2>2. QED
    BY <1>1, <1>2, <2>1, SMT
<1>4. f[n] = ds[t]
  <2>1. v = ds[t] \/ isSet(n)
    BY SMT DEF Reaches
  <2>2. QED
    BY <1>1, <1>2, <2>1, SMT
<1>5. ASSUME NEW i \in 1 .. n PROVE f[i] = ApplyEdit(events[i][t], f[i - 1])
  <2>0. i \in Nat /\ i - 1 \in 0 .. n /\ i \in 0 .. n /\ events[i][t] \in Edit \cup {NoEdit}
    BY <1>2, SMT
  <2>1. g[i - 1] \in Content /\ g[i] \in Content /\ events[i][t] = Change(t, g[i - 1], g[i])
    BY <1>1, <2>0
  <2>2. CASE isSet(i - 1)
    <3>1. isSet(i)
      BY <2>0, <2>2, SMT
    <3>2. f[i] = g[i] /\ f[i - 1] = g[i - 1]
      BY <2>0, <2>2, <3>1
    <3>3. QED
      <4>1. ApplyEdit(Change(t, g[i - 1], g[i]), g[i - 1]) = g[i]
        BY <2>1, ChangeApplied
      <4>2. QED
        BY <2>1, <3>2, <4>1
  <2>3. CASE ~isSet(i - 1) /\ sets(i)
    <3>1. isSet(i)
      BY <2>0, <2>3, SMT
    <3>2. f[i] = g[i] /\ f[i - 1] = v
      BY <2>0, <2>3, <3>1
    <3>3. events[i][t].value = g[i]
      BY <2>1, <2>3, ChangeCases, SMT
    <3>4. ApplyEdit(events[i][t], v) = events[i][t].value
      BY <2>0, <2>3, ApplyCases
    <3>5. QED
      BY <3>2, <3>3, <3>4
  <2>4. CASE ~isSet(i - 1) /\ ~sets(i)
    <3>1. ~isSet(i)
      BY <2>0, <2>4, SMT
    <3>2. f[i] = v /\ f[i - 1] = v
      BY <2>0, <2>4, <3>1
    <3>3. ApplyEdit(events[i][t], v) = v
      BY <2>0, <2>4, ApplyCases
    <3>4. QED
      BY <3>2, <3>3
  <2>5. QED
    BY <2>2, <2>3, <2>4
<1> HIDE DEF f
<1>6. QED
  BY <1>2, <1>3, <1>4, <1>5 DEF Leads

LEMMA InitData == Init => DataType /\ DataInv
<1> SUFFICES ASSUME Init PROVE DataType /\ DataInv
  OBVIOUS
<1>1. /\ pend = NoEdits /\ events = <<>> /\ unknown = Target /\ phase = "none"
      /\ ds = [t \in Target |-> None] /\ seen = ds
  BY DEF Init
<1>2. DataType
  BY <1>1, NoEditsType, NoneIsNoValue, SMT DEF DataType
<1>3. ASSUME NEW t \in Target PROVE History(t)
  <2> DEFINE g == [i \in 0 .. 0 |-> ds[t]]
  <2>1. Len(events) = 0 /\ g \in [0 .. 0 -> Content] /\ g[0] = ds[t]
    BY <1>1, <1>2, SMT DEF DataType
  <2> HIDE DEF g
  <2>2. QED
    BY <2>1, SMT DEF History, Reaches
<1>4. QED
  BY <1>1, <1>2, <1>3 DEF DataInv

(* A commit: what led to the old value leads to the new one, and the new   *)
(* value becomes the last one of the history.                              *)
LEMMA ReachesGrows ==
    ASSUME DataType, NEW t \in Target, NEW new \in [Target -> Content],
           NEW ev \in Edits, ev[t] = Change(t, ds[t], new[t]),
           events' = Append(events, ev), ds' = new,
           NEW i \in 0 .. Len(events), NEW v, Reaches(t, i, v)
    PROVE  Reaches(t, i, v)'
<1>1. /\ Len(events) \in Nat /\ Len(events') = Len(events) + 1 /\ events'[Len(events) + 1] = ev
      /\ \A j \in 1 .. Len(events) : events'[j] = events[j]
  BY SMT DEF DataType
<1>2. CASE v = ds[t]
  <2>1. /\ ev[t].op = "none" <=> ds[t] = new[t]
        /\ ev[t].op = "move" => ds[t] # None
    BY ChangeCases, SMT DEF DataType
  <2>2. CASE ds[t] = new[t]
    BY <1>2, <2>2 DEF Reaches
  <2>3. CASE ds[t] # new[t]
    BY <1>1, <1>2, <2>1, <2>3, SMT DEF Reaches
  <2>4. QED
    BY <2>2, <2>3
<1>3. ASSUME NEW j \in i + 1 .. Len(events),
             events[j][t].op # "none" /\ (events[j][t].op # "move" \/ v # None)
      PROVE  Reaches(t, i, v)'
  <2>1. j \in i + 1 .. Len(events') /\ events'[j] = events[j]
    BY <1>1, <1>3, SMT
  <2>2. QED
    BY <1>3, <2>1 DEF Reaches
<1>4. QED
  BY <1>2, <1>3 DEF Reaches

LEMMA HistoryGrows ==
    ASSUME DataType, NEW t \in Target, History(t), NEW new \in [Target -> Content],
           NEW ev \in Edits, ev[t] = Change(t, ds[t], new[t]),
           events' = Append(events, ev), ds' = new
    PROVE  History(t)'
<1>0. PICK n \in Nat : n = Len(events)
  BY SMT DEF DataType
<1>1. PICK g \in [0 .. n -> Content] :
        /\ g[n] = ds[t]
        /\ \A i \in 1 .. n : events[i][t] = Change(t, g[i - 1], g[i])
        /\ \A i \in 0 .. n : Reaches(t, i, g[i])
  BY <1>0 DEF History
<1>2. /\ Len(events') = n + 1 /\ events'[n + 1] = ev
      /\ \A i \in 1 .. n : events'[i] = events[i]
  BY <1>0, SMT DEF DataType
<1> DEFINE h == [i \in 0 .. n + 1 |-> IF i = n + 1 THEN new[t] ELSE g[i]]
<1>3. h \in [0 .. n + 1 -> Content] /\ h[n + 1] = new[t] /\ \A i \in 0 .. n : h[i] = g[i]
  BY <1>1, SMT
<1> HIDE DEF h
<1>4. ASSUME NEW i \in 1 .. n + 1 PROVE events'[i][t] = Change(t, h[i - 1], h[i])
  <2>1. CASE i = n + 1
    <3>1. n \in 0 .. n /\ h[n] = g[n] /\ i - 1 = n
      BY <1>3, <2>1, SMT
    <3>2. QED
      BY <1>1, <1>2, <1>3, <2>1, <3>1
  <2>2. CASE i \in 1 .. n
    <3>1. i - 1 \in 0 .. n /\ i \in 0 .. n
      BY <2>2, SMT
    <3>2. h[i - 1] = g[i - 1] /\ h[i] = g[i]
      BY <1>3, <3>1
    <3>3. QED
      BY <1>1, <1>2, <2>2, <3>2
  <2>3. QED
    BY <1>0, <2>1, <2>2, SMT
<1>5. ASSUME NEW i \in 0 .. n + 1 PROVE Reaches(t, i, h[i])'
  <2>1. CASE i = n + 1
    BY <1>3, <2>1 DEF Reaches
  <2>2. CASE i \in 0 .. n
    <3>1. Reaches(t, i, g[i])'
      BY <1>0, <1>1, <2>2, ReachesGrows
    <3>2. QED
      BY <1>3, <2>2, <3>1
  <2>3. QED
    BY <1>0, <2>1, <2>2, SMT
<1>6. QED
  BY <1>2, <1>3, <1>4, <1>5 DEF History

LEMMA CommitData ==
    ASSUME DataType, DataInv, NEW new \in [Target -> Value \cup {None}], Commit(new)
    PROVE  DataType' /\ DataInv'
<1> DEFINE changed == {t \in Target : new[t] # ds[t]}
<1>1. /\ ds' = new /\ UNCHANGED <<phase, pend, seen>>
      /\ unknown' = IF phase = "sync" THEN unknown \cup changed ELSE unknown
      /\ phase # "none"
  BY DEF Commit
<1>2. new \in [Target -> Content]
  BY DEF Content
<1>3. PICK ev : ev = [t \in Target |-> Change(t, ds[t], new[t])]
  OBVIOUS
<1>4. ev \in Edits /\ \A t \in Target : ev[t] = Change(t, ds[t], new[t])
  BY <1>2, <1>3, ChangeCases DEF DataType, Edits
<1>5. events' = IF phase = "onchange" THEN Append(events, ev) ELSE events
  BY <1>3 DEF Commit
<1>6. DataType'
  BY <1>1, <1>2, <1>4, <1>5, SMT DEF DataType
<1>7. CASE phase = "onchange"
  <2>1. events' = Append(events, ev) /\ unknown' = unknown
    BY <1>1, <1>5, <1>7
  <2>2. ASSUME NEW t \in Target PROVE History(t)'
    BY <1>1, <1>2, <1>4, <1>7, <2>1, HistoryGrows DEF DataInv
  <2>3. ASSUME NEW t \in Target, t \notin unknown
        PROVE  Reaches(t, 0, ApplyEdit(pend[t], seen[t]))'
    <3>1. PICK v : v = ApplyEdit(pend[t], seen[t])
      OBVIOUS
    <3>2. v = ApplyEdit(pend'[t], seen'[t]) /\ Reaches(t, 0, v)
      BY <1>1, <1>7, <2>3, <3>1 DEF DataInv
    <3>3. 0 \in 0 .. Len(events)
      BY SMT DEF DataType
    <3>4. Reaches(t, 0, v)'
      BY <1>1, <1>2, <1>4, <2>1, <3>2, <3>3, ReachesGrows
    <3>5. QED
      BY <3>2, <3>4
  <2>4. QED
    BY <1>1, <1>6, <1>7, <2>1, <2>2, <2>3 DEF DataInv
<1>8. CASE phase = "sync"
  <2>1. events = <<>> /\ events' = <<>> /\ pend = NoEdits
    BY <1>5, <1>8 DEF DataInv
  <2>2. ASSUME NEW t \in Target PROVE History(t)'
    <3>1. PICK g : g = [i \in 0 .. 0 |-> new[t]]
      OBVIOUS
    <3>2. Len(events') = 0 /\ g \in [0 .. 0 -> Content] /\ g[0] = ds'[t]
      BY <1>1, <1>2, <2>1, <3>1, SMT
    <3>3. QED
      BY <3>2, SMT DEF History, Reaches
  <2>3. ASSUME NEW t \in Target, t \notin unknown'
        PROVE  Reaches(t, 0, ApplyEdit(pend[t], seen[t]))'
    <3>1. t \notin unknown /\ ds'[t] = ds[t]
      BY <1>1, <1>8, <2>3
    <3>2. Reaches(t, 0, ApplyEdit(pend[t], seen[t]))
      BY <1>8, <3>1 DEF DataInv
    <3>3. QED
      BY <1>1, <2>1, <3>1, <3>2 DEF Reaches
  <2>4. QED
    BY <1>1, <1>6, <1>8, <2>1, <2>2, <2>3 DEF DataInv
<1>9. CASE phase \notin {"none", "sync", "onchange"}
  BY <1>1, <1>6, <1>9 DEF DataInv
<1>10. QED
  BY <1>1, <1>7, <1>8, <1>9

(* The first event is taken off the queue: so is the first value of the    *)
(* history, and what remains leads on from the second.                     *)
LEMMA ReachesShrinks ==
    ASSUME DataType, events # <<>>, NEW t \in Target, events' = Tail(events), ds' = ds,
           NEW i \in 1 .. Len(events), NEW v, Reaches(t, i, v)
    PROVE  Reaches(t, i - 1, v)'
<1>1. /\ Len(events) \in Nat \ {0} /\ Len(events') = Len(events) - 1
      /\ \A j \in 1 .. Len(events) - 1 : events'[j] = events[j + 1]
  BY SMT DEF DataType
<1>2. CASE v = ds[t]
  BY <1>2 DEF Reaches
<1>3. ASSUME NEW j \in i + 1 .. Len(events),
             events[j][t].op # "none" /\ (events[j][t].op # "move" \/ v # None)
      PROVE  Reaches(t, i - 1, v)'
  <2>1. PICK k : k = j - 1
    OBVIOUS
  <2>2. k \in i .. Len(events') /\ k \in 1 .. Len(events) - 1 /\ k + 1 = j
    BY <1>1, <2>1, SMT
  <2>3. events'[k] = events[j]
    BY <1>1, <2>2
  <2>4. k \in (i - 1) + 1 .. Len(events')
    BY <2>2, SMT
  <2>5. QED
    BY <1>3, <2>3, <2>4 DEF Reaches
<1>4. QED
  BY <1>2, <1>3 DEF Reaches

(* The value that the first event gives to the node is the second one.     *)
LEMMA HistoryShrinks ==
    ASSUME DataType, events # <<>>, NEW t \in Target, History(t), events' = Tail(events), ds' = ds
    PROVE  /\ History(t)'
           /\ \E v, w \in Content : Head(events)[t] = Change(t, v, w) /\ Reaches(t, 0, w)'
<1>0. PICK n \in Nat : n = Len(events)
  BY SMT DEF DataType
<1>1. PICK g \in [0 .. n -> Content] :
        /\ g[n] = ds[t]
        /\ \A i \in 1 .. n : events[i][t] = Change(t, g[i - 1], g[i])
        /\ \A i \in 0 .. n : Reaches(t, i, g[i])
  BY <1>0 DEF History
<1>2. /\ n >= 1 /\ Len(events') = n - 1 /\ Head(events) = events[1]
      /\ \A i \in 1 .. n - 1 : events'[i] = events[i + 1]
  BY <1>0, SMT DEF DataType
<1> DEFINE h == [i \in 0 .. n - 1 |-> g[i + 1]]
<1>3. h \in [0 .. n - 1 -> Content] /\ \A i \in 0 .. n - 1 : h[i] = g[i + 1]
  BY <1>0, <1>1, <1>2, SMT
<1> HIDE DEF h
<1>4. h[n - 1] = ds'[t]
  BY <1>0, <1>1, <1>2, <1>3, SMT
<1>5. ASSUME NEW i \in 1 .. n - 1 PROVE events'[i][t] = Change(t, h[i - 1], h[i])
  <2>1. i + 1 \in 1 .. n /\ i - 1 \in 0 .. n - 1 /\ i \in 0 .. n - 1 /\ (i + 1) - 1 = i /\ (i - 1) + 1 = i
    BY <1>0, <1>2, SMT
  <2>2. h[i - 1] = g[i] /\ h[i] = g[i + 1]
    BY <1>3, <2>1
  <2>3. events[i + 1][t] = Change(t, g[i], g[i + 1])
    BY <1>1, <2>1
  <2>4. QED
    BY <1>2, <2>2, <2>3
<1>6. ASSUME NEW i \in 0 .. n - 1 PROVE Reaches(t, i, h[i])'
  <2>1. i + 1 \in 1 .. n /\ i + 1 \in 0 .. n /\ (i + 1) - 1 = i
    BY <1>0, <1>2, SMT
  <2>2. Reaches(t, i + 1, g[i + 1])
    BY <1>1, <2>1
  <2>3. PICK v : v = g[i + 1]
    OBVIOUS
  <2>4. PICK k : k = i + 1
    OBVIOUS
  <2>5. Reaches(t, k - 1, v)'
    BY <1>0, <2>1, <2>2, <2>3, <2>4, ReachesShrinks
  <2>6. QED
    BY <1>3, <2>1, <2>3, <2>4, <2>5
<1>7. History(t)'
  BY <1>2, <1>3, <1>4, <1>5, <1>6 DEF History
<1>8. Head(events)[t] = Change(t, g[0], g[1]) /\ g[0] \in Content /\ g[1] \in Content
  BY <1>0, <1>1, <1>2, SMT
<1>9. Reaches(t, 0, g[1])'
  <2>1. 0 \in 0 .. n - 1 /\ h[0] = g[1]
    BY <1>0, <1>2, <1>3, SMT
  <2>2. QED
    BY <1>6, <2>1
<1>10. QED
  BY <1>7, <1>8, <1>9

LEMMA CollectType ==
    ASSUME DataType, events # <<>>
    PROVE  Collect(Head(events)) \in Edits /\ Untold(Head(events)) \in SUBSET Target
<1>1. Head(events) \in Edits
  BY SMT DEF DataType
<1>2. QED
  BY <1>1 DEF DataType, Collect, Untold, EditAppend, Edits

(* A node the receiver knows after np2srv_change_yang_push_cb is led to    *)
(* its present value by the edit that is pending for it then.              *)
LEMMA CollectReaches ==
    ASSUME DataType, events # <<>>, NEW t \in Target, History(t), events' = Tail(events), ds' = ds,
           t \notin unknown => Reaches(t, 0, ApplyEdit(pend[t], seen[t])),
           t \notin Untold(Head(events)), NEW x, x = ApplyEdit(Collect(Head(events))[t], seen[t])
    PROVE  Reaches(t, 0, x)'
<1> DEFINE e == Head(events)[t]
           es == Collect(Head(events))[t]
<1>1. PICK v \in Content, w \in Content : e = Change(t, v, w) /\ Reaches(t, 0, w)'
  BY HistoryShrinks
<1>2. /\ e \in Edit \cup {NoEdit} /\ pend[t] \in Edit \cup {NoEdit}
      /\ (e.op # "none" => e.value = w)
  <2>1. pend[t] \in Edit \cup {NoEdit}
    BY DEF DataType, Edits
  <2>2. QED
    BY <1>1, <2>1, ChangeCases, SMT
<1>3. /\ e.op \notin excluded
      /\ e.op = "move" => pend[t].op \in {"none", "move"}
      /\ e.op \in {"none", "move"} => t \notin unknown
  BY DEF Untold
<1>4. es = IF e.op = "none" THEN pend[t] ELSE e
  BY <1>3 DEF Collect, EditAppend
<1>5. Len(events) \in Nat \ {0} /\ 1 \in 1 .. Len(events) /\ events[1] = Head(events)
  BY SMT DEF DataType
<1> HIDE DEF e, es
<1>6. x = ApplyEdit(es, seen[t])
  BY DEF es
<1>7. ASSUME NEW b, Reaches(t, 0, b), e.op = "none" \/ (e.op = "move" /\ b = None)
      PROVE  Reaches(t, 0, b)'
  <2>1. Reaches(t, 1, b)
    <3>1. CASE b = ds[t]
      BY <3>1 DEF Reaches
    <3>2. ASSUME NEW j \in 0 + 1 .. Len(events),
                 events[j][t].op # "none" /\ (events[j][t].op # "move" \/ b # None)
          PROVE  Reaches(t, 1, b)
      <4>1. j # 1
        BY <1>5, <1>7, <3>2 DEF e
      <4>2. j \in 1 + 1 .. Len(events)
        BY <1>5, <4>1, SMT
      <4>3. QED
        BY <3>2, <4>2 DEF Reaches
    <3>3. QED
      BY <1>7, <3>1, <3>2 DEF Reaches
  <2>2. Reaches(t, 1 - 1, b)'
    BY <1>5, <2>1, ReachesShrinks
  <2>3. QED
    BY <2>2, SMT
<1>8. CASE e.op = "none"
  <2>1. x = ApplyEdit(pend[t], seen[t]) /\ Reaches(t, 0, x)
    BY <1>3, <1>4, <1>6, <1>8
  <2>2. QED
    BY <1>7, <1>8, <2>1
<1>9. CASE e.op # "none" /\ (e.op # "move" \/ seen[t] # None)
  <2>1. x = w
    BY <1>2, <1>4, <1>6, <1>9, ApplyCases
  <2>2. QED
    BY <1>1, <2>1
<1>10. CASE e.op = "move" /\ seen[t] = None
  <2>1. x = None
    BY <1>2, <1>4, <1>6, <1>10, ApplyCases
  <2>2. ApplyEdit(pend[t], seen[t]) = None
    BY <1>2, <1>3, <1>10, ApplyCases
  <2>3. Reaches(t, 0, x)
    BY <1>3, <1>10, <2>1, <2>2
  <2>4. QED
    BY <1>7, <1>10, <2>1, <2>3
<1>11. QED
  BY <1>8, <1>9, <1>10

(* Once a notification is sent, the edits are part of what the receiver    *)
(* has; if it is lost, their nodes are not known any more.                 *)
LEMMA SendData ==
    ASSUME NEW es \in Edits, NEW un \in SUBSET Target, NEW waiting, ChangeSend(es, un, waiting),
           DataType, events' \in Seq(Edits), ds' = ds, phase' = "onchange",
           \A t \in Target : History(t)',
           \A t \in Target \ un : \A x : x = ApplyEdit(es[t], seen[t]) => Reaches(t, 0, x)'
    PROVE  DataType' /\ DataInv'
<1>1. pend' = NoEdits
  BY DEF ChangeSend
<1>2. ASSUME seen' = Apply(es, seen), unknown' = un PROVE DataType' /\ DataInv'
  <2>1. seen' \in [Target -> Content] /\ \A t \in Target : seen'[t] = ApplyEdit(es[t], seen[t])
    BY <1>2, ApplyType DEF DataType, Apply, Edits
  <2>2. DataType'
    BY <1>1, <1>2, <2>1, NoEditsType DEF DataType
  <2>3. ASSUME NEW t \in Target, t \notin un PROVE Reaches(t, 0, ApplyEdit(pend[t], seen[t]))'
    <3>1. ApplyEdit(pend'[t], seen'[t]) = seen'[t]
      BY <1>1, NoEditsType, ApplyNone
    <3>2. PICK x : x = ApplyEdit(es[t], seen[t])
      OBVIOUS
    <3>3. Reaches(t, 0, x)'
      BY <2>3, <3>2
    <3>4. QED
      BY <2>1, <3>1, <3>2, <3>3
  <2>4. QED
    BY <1>2, <2>2, <2>3 DEF DataInv
<1>3. ASSUME seen' = seen, unknown' = un \cup Targets(es) PROVE DataType' /\ DataInv'
  <2>1. DataType'
    BY <1>1, <1>3, NoEditsType DEF DataType, Targets
  <2>2. ASSUME NEW t \in Target, t \notin unknown' PROVE Reaches(t, 0, ApplyEdit(pend[t], seen[t]))'
    <3>1. es[t].op = "none" /\ t \notin un
      BY <1>3, <2>2 DEF Targets
    <3>2. ApplyEdit(es[t], seen[t]) = seen[t]
      BY <3>1, ApplyCases DEF Edits
    <3>3. ApplyEdit(pend'[t], seen'[t]) = seen[t]
      BY <1>1, <1>3, NoEditsType, ApplyNone
    <3>4. PICK x : x = seen[t]
      OBVIOUS
    <3>5. Reaches(t, 0, x)'
      BY <3>1, <3>2, <3>4
    <3>6. QED
      BY <3>3, <3>4, <3>5
  <2>3. QED
    BY <2>1, <2>2 DEF DataInv
<1>4. QED
  BY <1>2, <1>3 DEF ChangeSend

LEMMA ChangeCbData ==
    ASSUME DataType, DataInv, ChangeCb
    PROVE  DataType' /\ DataInv'
<1>1. /\ phase = "onchange" /\ events # <<>> /\ events' = Tail(events)
      /\ UNCHANGED <<phase, ds>>
  BY DEF ChangeCb
<1>2. PICK es, un : es = Collect(Head(events)) /\ un = Untold(Head(events))
  OBVIOUS
<1>3. es \in Edits /\ un \in SUBSET Target /\ events' \in Seq(Edits)
  BY <1>1, <1>2, CollectType, SMT DEF DataType
<1>4. ASSUME NEW t \in Target PROVE History(t)'
  BY <1>1, HistoryShrinks DEF DataInv
<1>5. ASSUME NEW t \in Target \ un, NEW x, x = ApplyEdit(es[t], seen[t]) PROVE Reaches(t, 0, x)'
  <2>1. History(t) /\ (t \notin unknown => Reaches(t, 0, ApplyEdit(pend[t], seen[t])))
    BY <1>1 DEF DataInv
  <2>2. QED
    BY <1>1, <1>2, <1>5, <2>1, CollectReaches
<1>6. ASSUME pend' = es, unknown' = un, seen' = seen PROVE DataType' /\ DataInv'
  <2>1. DataType'
    BY <1>1, <1>3, <1>6 DEF DataType
  <2>2. ASSUME NEW t \in Target, t \notin un PROVE Reaches(t, 0, ApplyEdit(pend[t], seen[t]))'
    <3>1. PICK x : x = ApplyEdit(es[t], seen[t])
      OBVIOUS
    <3>2. Reaches(t, 0, x)'
      BY <1>5, <2>2, <3>1
    <3>3. QED
      BY <1>6, <3>1, <3>2
  <2>3. QED
    BY <1>1, <1>4, <1>6, <2>1, <2>2 DEF DataInv
<1>7. CASE es = NoEdits
  <2>1. pend = es
    <3>1. ASSUME NEW t \in Target PROVE pend[t] = es[t]
      <4>1. es[t].op = "none"
        BY <1>7, NoEditsType, SMT DEF NoEdit
      <4>2. QED
        BY <1>2, <4>1 DEF Collect, EditAppend
    <3>2. QED
      BY <1>3, <3>1, SMT DEF DataType, Edits
  <2>2. pend' = pend /\ unknown' = un /\ seen' = seen
    BY <1>2, <1>7 DEF ChangeCb
  <2>3. QED
    BY <1>6, <2>1, <2>2
<1>8. CASE es # NoEdits /\ ChangeReady
  <2>1. ChangeSend(es, un, cbs)
    BY <1>2, <1>8 DEF ChangeCb
  <2>2. QED
    BY <1>1, <1>3, <1>4, <1>5, <2>1, SendData
<1>9. CASE es # NoEdits /\ ~ChangeReady
  <2>1. pend' = es /\ unknown' = un /\ seen' = seen
    BY <1>2, <1>9 DEF ChangeCb
  <2>2. QED
    BY <1>6, <2>1
<1>10. QED
  BY <1>7, <1>8, <1>9

LEMMA HistoryStays ==
    ASSUME NEW t \in Target, History(t), UNCHANGED <<events, ds>>
    PROVE  History(t)'
BY DEF History, Reaches

(* Steps that leave the data alone. *)
LEMMA DataStutters ==
    ASSUME DataType, DataInv, UNCHANGED <<pend, events, ds, seen, unknown>>,
           \/ phase' = phase
           \/ phase = "sync" /\ phase' = "onchange"
           \/ phase' \in {"periodic", "ending", "gone"}
    PROVE  DataType' /\ DataInv'
<1>1. DataType'
  BY DEF DataType
<1>2. ASSUME NEW t \in Target, phase' \in {"none", "sync", "onchange"}
      PROVE  History(t)' /\ (t \notin unknown => Reaches(t, 0, ApplyEdit(pend[t], seen[t])))'
  <2>1. History(t) /\ (t \notin unknown => Reaches(t, 0, ApplyEdit(pend[t], seen[t])))
    BY <1>2 DEF DataInv
  <2>2. QED
    BY <2>1, HistoryStays DEF Reaches
<1>3. QED
  BY <1>1, <1>2 DEF DataInv

LEMMA DampTimerCbData ==
    ASSUME DataType, DataInv, DampTimerCb
    PROVE  DataType' /\ DataInv'
<1>1. UNCHANGED <<phase, events, ds>> /\ phase \in {"onchange", "ending"}
  BY DEF DampTimerCb
<1>2. CASE phase = "ending" \/ pend = NoEdits
  <2>1. UNCHANGED <<pend, seen, unknown>>
    BY <1>2 DEF DampTimerCb, rx
  <2>2. QED
    BY <1>1, <2>1, DataStutters
<1>3. CASE phase = "onchange" /\ pend # NoEdits
  <2>1. PICK es, un, waiting : es = pend /\ un = unknown /\ ChangeSend(es, un, waiting)
    BY <1>3 DEF DampTimerCb
  <2>2. es \in Edits /\ un \in SUBSET Target /\ events' \in Seq(Edits)
    BY <1>1, <2>1 DEF DataType
  <2>3. ASSUME NEW t \in Target PROVE History(t)'
    BY <1>1, <1>3, HistoryStays DEF DataInv
  <2>4. ASSUME NEW t \in Target \ un, NEW x, x = ApplyEdit(es[t], seen[t]) PROVE Reaches(t, 0, x)'
    <3>1. Reaches(t, 0, x)
      BY <1>3, <2>1, <2>4 DEF DataInv
    <3>2. QED
      BY <1>1, <3>1 DEF Reaches
  <2>5. QED
    BY <1>1, <1>3, <2>1, <2>2, <2>3, <2>4, SendData
<1>4. QED
  BY <1>1, <1>2, <1>3

(* An update gives the receiver the present values, before events that are *)
(* queued and edits that are pending, which lead to the same values still. *)
LEMMA UpdateData ==
    ASSUME DataType, DataInv, UpdateSend, UNCHANGED <<phase, pend, events, ds>>
    PROVE  DataType' /\ DataInv'
<1>1. ASSUME UNCHANGED <<seen, unknown>> PROVE DataType' /\ DataInv'
  BY <1>1, DataStutters
<1>2. ASSUME seen' = ds, unknown' = unknown \cap Targets(pend) PROVE DataType' /\ DataInv'
  <2>1. DataType'
    BY <1>2 DEF DataType
  <2>2. ASSUME NEW t \in Target, phase \in {"none", "sync", "onchange"}, t \notin unknown'
        PROVE  Reaches(t, 0, ApplyEdit(pend[t], seen[t]))'
    <3>1. pend[t] \in Edit \cup {NoEdit}
      BY DEF DataType, Edits
    <3>2. PICK x : x = ApplyEdit(pend[t], ds[t])
      OBVIOUS
    <3>3. Reaches(t, 0, x)
      <4>1. CASE pend[t].op = "none" \/ (pend[t].op = "move" /\ ds[t] = None)
        BY <3>1, <3>2, <4>1, ApplyCases DEF Reaches
      <4>2. CASE pend[t].op # "none" /\ (pend[t].op # "move" \/ ds[t] # None)
        <5>1. Reaches(t, 0, ApplyEdit(pend[t], seen[t]))
          BY <1>2, <2>2, <4>2 DEF DataInv, Targets
        <5>2. x = pend[t].value
          BY <3>1, <3>2, <4>2, ApplyCases
        <5>3. CASE pend[t].op # "move" \/ seen[t] # None
          <6>1. ApplyEdit(pend[t], seen[t]) = x
            BY <3>1, <4>2, <5>2, <5>3, ApplyCases
          <6>2. QED
            BY <5>1, <6>1
        <5>4. CASE pend[t].op = "move" /\ seen[t] = None
          <6>1. ApplyEdit(pend[t], seen[t]) = None /\ x # None
            BY <3>1, <5>2, <5>4, ApplyCases
          <6>2. QED
            BY <4>2, <5>1, <5>4, <6>1 DEF Reaches
        <5>5. QED
          BY <5>3, <5>4
      <4>3. QED
        BY <4>1, <4>2
    <3>4. QED
      BY <1>2, <3>2, <3>3 DEF Reaches
  <2>3. ASSUME NEW t \in Target, phase \in {"none", "sync", "onchange"} PROVE History(t)'
    BY <2>3, HistoryStays DEF DataInv
  <2>4. QED
    BY <2>1, <2>2, <2>3 DEF DataInv
<1>3. QED
  BY <1>1, <1>2 DEF UpdateSend

LEMMA EstablishData ==
    ASSUME DataType, DataInv, NEW d, NEW ex, NEW sync, EstablishOnChange(d, ex, sync)
    PROVE  DataType' /\ DataInv'
<1>1. phase = "none" /\ phase' = "sync" /\ UNCHANGED <<pend, events, ds>>
  BY DEF EstablishOnChange
<1>2. events = <<>> /\ pend = NoEdits
  BY <1>1 DEF DataInv
<1>3. ASSUME NEW t \in Target PROVE History(t)'
  BY <1>1, HistoryStays DEF DataInv
<1>4. CASE seen' = ds /\ unknown' = {}
  <2>1. DataType'
    BY <1>1, <1>4 DEF DataType
  <2>2. ASSUME NEW t \in Target PROVE Reaches(t, 0, ApplyEdit(pend[t], seen[t]))'
    <3>1. ApplyEdit(pend'[t], seen'[t]) = ds'[t]
      BY <1>1, <1>2, <1>4, NoEditsType, ApplyNone
    <3>2. QED
      BY <3>1 DEF Reaches
  <2>3. QED
    BY <1>1, <1>2, <1>3, <2>1, <2>2 DEF DataInv
<1>5. CASE UNCHANGED <<seen, unknown>>
  <2>1. DataType'
    BY <1>1, <1>5 DEF DataType
  <2>2. ASSUME NEW t \in Target, t \notin unknown' PROVE Reaches(t, 0, ApplyEdit(pend[t], seen[t]))'
    BY <1>1, <1>5, <2>2 DEF DataInv, Reaches
  <2>3. QED
    BY <1>1, <1>2, <1>3, <2>1, <2>2 DEF DataInv
<1>6. QED
  BY <1>4, <1>5 DEF EstablishOnChange

LEMMA StepData == DataType /\ DataInv /\ [Next]_vars => (DataType /\ DataInv)'
<1> SUFFICES ASSUME DataType, DataInv, [Next]_vars PROVE DataType' /\ DataInv'
  OBVIOUS
<1>1. CASE Tick \/ DampTimerExpires
  BY <1>1, DataStutters DEF Tick, DampTimerExpires, rx
<1>2. CASE UpdateTimerCb \/ Resync
  <2>1. UpdateSend /\ UNCHANGED <<phase, pend, events, ds>>
    BY <1>2 DEF UpdateTimerCb, Resync
  <2>2. QED
    BY <2>1, UpdateData
<1>3. CASE SrSubscribe
  BY <1>3, DataStutters DEF SrSubscribe, rx
<1>4. ASSUME NEW now, NEW anchor, NEW period,
             EstablishPeriodic(now, anchor, period) \/ ModifyPeriodic(now, anchor, period)
      PROVE  DataType' /\ DataInv'
  BY <1>4, DataStutters DEF EstablishPeriodic, ModifyPeriodic, rx
<1>5. ASSUME NEW d, Modify(d) PROVE DataType' /\ DataInv'
  BY <1>5, DataStutters DEF Modify
<1>6. CASE TerminateAsync
  <2>1. phase' = "ending" /\ events' = <<>> /\ UNCHANGED <<pend, ds, seen, unknown>>
    BY <1>6 DEF TerminateAsync, rx
  <2>2. QED
    BY <2>1, SMT DEF DataType, DataInv
<1>7. CASE DataDestroy
  <2>1. phase' = "gone" /\ pend' = NoEdits /\ UNCHANGED <<events, ds, seen, unknown>>
    BY <1>7 DEF DataDestroy, rx
  <2>2. QED
    BY <2>1, NoEditsType DEF DataType, DataInv
<1>8. CASE UNCHANGED vars
  BY <1>8, DataStutters DEF vars, rx
<1>9. QED
  BY <1>1, <1>2, <1>3, <1>4, <1>5, <1>6, <1>7, <1>8, CommitData, ChangeCbData, DampTimerCbData,
     EstablishData DEF Next

LEMMA Data == Spec => [](DataType /\ DataInv)
BY InitData, StepData, PTL DEF Spec

(* Merging edits (yang_push_notif_change_edit_append), dampening and       *)
(* resync-subscription lose no change: for any number of nodes, commits,   *)
(* queued events and lost notifications, what the receiver has becomes the *)
(* datastore with the edits that are pending and the events that are       *)
(* queued, except for the nodes the model lists as not known to it.        *)
THEOREM ReceiverStaysInSync == Spec => []ReceiverInSync
<1>1. DataType /\ DataInv => ReceiverInSync
  <2> SUFFICES ASSUME DataType, DataInv, phase = "onchange", NEW t \in Target \ unknown
               PROVE  Leads(t, ApplyEdit(pend[t], seen[t]))
    BY DEF ReceiverInSync
  <2>1. ApplyEdit(pend[t], seen[t]) \in Content
    BY ApplyType DEF DataType, Edits
  <2>2. History(t) /\ Reaches(t, 0, ApplyEdit(pend[t], seen[t]))
    BY DEF DataInv
  <2>3. PICK v \in Content : v = ApplyEdit(pend[t], seen[t])
    BY <2>1
  <2>4. Leads(t, v)
    BY <2>2, <2>3, ReachesLeads
  <2>5. QED
    BY <2>3, <2>4
<1>2. QED
  BY <1>1, Data, PTL

(***************************************************************************)
(* Types.                                                                  *)
(***************************************************************************)

Counts ==
    /\ phase \in {"none", "sync", "onchange", "periodic", "ending", "gone"}
    /\ cbs \in 0 .. 2 /\ rpcs \in 0 .. MaxRpcs

LEMMA InitCounts == Init => Counts
BY YangPushAssumption, SMT DEF Init, Counts

LEMMA StepCounts == Counts /\ [Next]_vars => Counts'
<1> SUFFICES ASSUME Counts, [Next]_vars PROVE Counts'
  OBVIOUS
<1>1. ASSUME cbs' \in 0 .. 2, rpcs' = rpcs \/ (rpcs < MaxRpcs /\ rpcs' = rpcs + 1),
             phase' \in {phase, "sync", "onchange", "periodic", "ending", "gone"}
      PROVE  Counts'
  BY <1>1, YangPushAssumption, SMT DEF Counts
<1>2. ASSUME NEW new, Commit(new) PROVE Counts'
  BY <1>2 DEF Commit, Counts, tm
<1>3. CASE ChangeCb
  BY <1>3 DEF ChangeCb, Counts, tm
<1>4. CASE Tick \/ DampTimerExpires
  BY <1>4, SMT DEF Tick, DampTimerExpires, Counts, bound
<1>5. CASE DampTimerCb
  BY <1>5, SMT DEF DampTimerCb, Counts
<1>6. CASE UpdateTimerCb \/ Resync
  BY <1>1, <1>6 DEF UpdateTimerCb, Resync, Counts, tm
<1>7. ASSUME NEW d, NEW ex, NEW sync, EstablishOnChange(d, ex, sync) PROVE Counts'
  BY <1>7 DEF EstablishOnChange, Counts, tm, bound
<1>8. CASE SrSubscribe \/ TerminateAsync \/ DataDestroy
  BY <1>8 DEF SrSubscribe, TerminateAsync, DataDestroy, Counts, tm, bound
<1>9. ASSUME NEW now, NEW anchor, NEW period,
             EstablishPeriodic(now, anchor, period) \/ ModifyPeriodic(now, anchor, period)
      PROVE  Counts'
  <2>1. /\ UNCHANGED cbs /\ phase' = "periodic"
        /\ rpcs' = rpcs \/ (rpcs < MaxRpcs /\ rpcs' = rpcs + 1)
    BY <1>9 DEF EstablishPeriodic, ModifyPeriodic, tm, bound
  <2>2. QED
    BY <1>1, <2>1 DEF Counts
<1>10. ASSUME NEW d, Modify(d) PROVE Counts'
  BY <1>1, <1>10 DEF Modify, Counts
<1>11. CASE UNCHANGED vars
  BY <1>11 DEF vars, Counts, tm, bound
<1>12. QED
  BY <1>2, <1>3, <1>4, <1>5, <1>6, <1>7, <1>8, <1>9, <1>10, <1>11 DEF Next

(* Every variable keeps its type, and every edit that is pending or queued *)
(* has a value unless it deletes its node.                                 *)
THEOREM TypeCorrect == Spec => []TypeOK
<1>1. TimeType /\ DataType /\ Counts => TypeOK
  BY DEF TimeType, DataType, Counts, TypeOK
<1>2. Spec => []Counts
  BY InitCounts, StepCounts, PTL DEF Spec
<1>3. QED
  BY <1>1, <1>2, Timing, Data, PTL
============================================================================
